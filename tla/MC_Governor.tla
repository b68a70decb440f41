----------------------------- MODULE MC_Governor -----------------------------
(* A small instance of Governor.                                           *)
EXTENDS Governor, TLC

CONSTANTS a, b

MCGames == {a, b}
MCSymmetry == Permutations(MCGames)

(* A step that caps the CPU alone, one that caps GPU and PL1 as well, and  *)
(* the release of everything that a neutral step is.                       *)
MCIntents == {[cpu |-> "capped", gpu |-> None, soft |-> NoWatts],
              [cpu |-> "capped", gpu |-> "capped", soft |-> 20]}

(* A game whose target is known, one with a target of the user's, and a    *)
(* known target with nobody at the controls.                               *)
MCFrames == {[target |-> [fps |-> 60, manual |-> FALSE], idle |-> FALSE],
             [target |-> [fps |-> 60, manual |-> TRUE], idle |-> FALSE],
             [target |-> [fps |-> 60, manual |-> FALSE], idle |-> TRUE]}

MCProposals == {40}

MCLaneSets == {{}, {"floor", "shape"}}

(* Every knob may be the one that fails.                                   *)
MCFailureSets == {{p} : p \in FailPoints}

=============================================================================
