----------------------------- MODULE MC_Learning -----------------------------
(* A small instance of Learning.                                            *)
EXTENDS Learning

(* A game whose context can be learnt, and the same game when its target is *)
(* not known.                                                               *)
MCContexts == {[id |-> 1, game |-> TRUE, complete |-> TRUE],
               [id |-> 2, game |-> TRUE, complete |-> FALSE]}

Kind(bound, satisfied, core) ==
  [power |-> TRUE, bound |-> bound, gpu |-> TRUE, core |-> core,
   satisfied |-> satisfied]

(* Package bound, with and without CPU contention, and within its target.   *)
MCKinds == {Kind(TRUE, FALSE, FALSE), Kind(TRUE, FALSE, TRUE),
            Kind(TRUE, TRUE, FALSE)}

MCFailureSets == {{}, {"apply"}, {"restore"}, {"save"}}

==============================================================================
