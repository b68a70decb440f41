----------------------------- MODULE MC_RunLanes -----------------------------
(* A small instance of RunLanes.                                            *)
EXTENDS RunLanes

(* A service of the user, a scope, and three thread numbers of which one is *)
(* free: two threads, one of which may take the number of the other.        *)
MCHelpers == {"mangoapp", "steam"}
MCUnits == {"mangoapp"}
MCTids == 1 .. 3
MCGts == {"gt0", "gt1"}

==============================================================================
