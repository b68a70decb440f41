--------------------------- MODULE MC_TrimLadder ---------------------------
(***************************************************************************)
(* Instances of TrimLadder for TLC: a ladder of two base rungs and one     *)
(* deep rung of each kind, short counters, and three of the four verdict   *)
(* combinations.                                                           *)
(***************************************************************************)
EXTENDS TrimLadder

TwoRungs == <<"P1", "G1">>
GpuCapRung == <<"G4CAP">>
CpuCapRung == <<"S3CAP">>

SomeVerdicts == {{}, {"gpu-cap"}, {"gpu-cap", "ladder-step-5"}}

=============================================================================
