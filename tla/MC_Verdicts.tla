---------------------------- MODULE MC_Verdicts ----------------------------
(***************************************************************************)
(* An instance of Verdicts for TLC: a lane that helps and needs restore    *)
(* evidence, the same in another scene and from an imported capture, one   *)
(* that makes the game slower, and a lane that only saves power.  14 W is  *)
(* what soft PL1 may leave of 18 W: it lies in another bucket.             *)
(***************************************************************************)
EXTENDS Verdicts

Plan(policy, scene, low, watts, controlled) ==
  [policy |-> policy, tdp |-> 18, fps |-> 60, scene |-> scene, low |-> low,
   watts |-> watts, controlled |-> controlled]

SomePlans ==
  {Plan("target-balance-uclampmin", "town", 106, 200, TRUE),
   Plan("target-balance-uclampmin", "cave", 106, 200, TRUE),
   Plan("target-balance-uclampmin", "town", 106, 200, FALSE),
   Plan("target-balance-uclampmin", "town", 90, 180, TRUE),
   Plan("gpu-priority-bg-weight", "town", 98, 180, TRUE)}

OnePlan == {Plan("target-balance-uclampmin", "town", 106, 200, TRUE)}

Context(phase, pl1) == [phase |-> phase, pl1 |-> pl1, fps |-> 60]
SomeContexts ==
  {Context("below-cpu", 17), Context("at", 14), Context("unknown", 18)}

=============================================================================
