--------------------------- MODULE MC_AutoTarget ---------------------------
(* A small instance of AutoTarget.                                         *)
EXTENDS AutoTarget

CONSTANTS a, b, pad, virtual

MCGames == {a, b}
MCDevices == {pad, virtual}
MCSymmetry == Permutations(MCGames) \union Permutations(MCDevices)

=============================================================================
