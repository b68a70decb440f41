--------------------------- MODULE ProfilerProofs ---------------------------
(***************************************************************************)
(* The profiler.  Its script keeps to the lease of its markers, for any    *)
(* number of helpers, threads and GTs and any bounds, and so nothing       *)
(* outlives it but what the machine refused to take back.  And what it     *)
(* records is what the daemon unlocks a lane on: for any profiling plans,  *)
(* any --min-runs and any number of sessions, exports and accidents.       *)
(***************************************************************************)
EXTENDS RunLanes, Verdicts, FiniteSetTheorems, TLAPS

(***************************************************************************)
(* The script and the machine (RunLanes).                                  *)
(***************************************************************************)

(* What the refinement rests on.  The markers stand only where the lane may *)
(* be held, one lane at a time; a floor that is not marked was refused or   *)
(* is not told of by any report, and so was a floor in the snapshot of the  *)
(* run.  A run starts without reports.                                      *)
Typed ==
  /\ marks \in SUBSET {"gpu", "scx"}
  /\ freq \in [Gts -> {"low", "floor"}] /\ snap.freq \in [Gts -> {"low", "floor"}]
  /\ scx \in {"disabled", "enabled", "foreign"}
  /\ report.gpu \in {"none", "skip", "failed", "applied"}
  /\ report.scx \in {"none", "skip", "started", "invalid", "valid"}
  /\ DOMAIN report = {"shape", "pinned", "uclamp", "gpu", "scx"}

MarkedWhereHeld ==
  /\ "gpu" \in marks => lane = "gpu"
  /\ "scx" \in marks => lane = "scx"
  /\ pc \in {"idle", "apply", "summary", "end"} => marks = {}
  /\ pc \in {"hold", "release", "undo"} =>
       /\ lane = "gpu" => "gpu" \in marks
       /\ lane = "scx" => "scx" \in marks \/ report.scx = "skip"

Explained ==
  /\ \A gt \in Gts : freq[gt] = "floor" => gt \in refused \/ "gpu" \in marks
  /\ \A gt \in Gts : snap.freq[gt] = "floor" => gt \in refused /\ freq[gt] = "floor"
  /\ scx = "enabled" => "scx" \in refused \/ "scx" \in marks
  /\ report.gpu = "skip" => \A gt \in Gts : freq[gt] = "floor" => gt \in refused
  /\ pc = "apply" => report.gpu = "none" /\ report.scx = "none"

IInv == Typed /\ MarkedWhereHeld /\ Explained

USE DEF lane, script, machine, history, counters

(* A machine as it was found has nothing to explain.                        *)
THEOREM InitIInv == Init => IInv
BY DEF Init, IInv, Typed, MarkedWhereHeld, Explained, NoReport

(* Every action of the script and of the machine keeps it.                  *)
LEMMA NextIInv == IInv /\ [Next]_vars => IInv'
<1> SUFFICES ASSUME IInv, [Next]_vars PROVE IInv'
  OBVIOUS
<1> USE DEF IInv, Typed, MarkedWhereHeld, Explained
<1>1. CASE Begin
  BY <1>1 DEF Begin, NoReport
<1>2. CASE ApplyNothing
  BY <1>2 DEF ApplyNothing
<1>3. CASE ApplyShaping
  BY <1>3 DEF ApplyShaping, Shaping
<1>4. CASE ShapingRaises
  BY <1>4 DEF ShapingRaises, Shaping
<1>5. CASE ReleaseShaping
  BY <1>5 DEF ReleaseShaping, Released, Shaping
<1>6. CASE ApplyAffinity
  BY <1>6 DEF ApplyAffinity
<1>7. CASE NoCandidate
  BY <1>7 DEF NoCandidate
<1>8. CASE ReleaseAffinity
  BY <1>8 DEF ReleaseAffinity, Released
<1>9. CASE ApplyUclamp
  BY <1>9 DEF ApplyUclamp
<1>10. CASE ReleaseUclamp
  BY <1>10 DEF ReleaseUclamp, Released
<1>11. CASE ApplyGpu
  BY <1>11 DEF ApplyGpu
<1>12. CASE ReleaseGpu
  BY <1>12 DEF ReleaseGpu, Released, RestoreGpu, GpuBack, Unrecorded, Faulty
<1>13. CASE StartScx
  BY <1>13 DEF StartScx
<1>14. CASE ReleaseScx
  BY <1>14 DEF ReleaseScx, Released, StopScx, Faulty
<1>15. CASE ReleaseNothing
  BY <1>15 DEF ReleaseNothing, Released
<1>16. CASE Capture
  BY <1>16 DEF Capture
<1>17. CASE CaptureFails
  BY <1>17 DEF CaptureFails
<1>18. CASE Abort
  BY <1>18 DEF Abort
<1>19. CASE Summarize
  BY <1>19 DEF Summarize, Accepted
<1>20. CASE RestoreState
  BY <1>20 DEF RestoreState, RestoreGpu, GpuBack, Unrecorded, StopScx, Faulty
<1>21. CASE Machine
  BY <1>21 DEF Machine, HelperExits, HelperRestarts, ThreadEnds, ThreadStarts, GameExits,
                ScxCrashes, Moves
<1>22. CASE UNCHANGED vars
  BY <1>22 DEF vars
<1>23. QED
  BY <1>1, <1>2, <1>3, <1>4, <1>5, <1>6, <1>7, <1>8, <1>9, <1>10, <1>11, <1>12, <1>13,
     <1>14, <1>15, <1>16, <1>17, <1>18, <1>19, <1>20, <1>21, <1>22 DEF Next, Script

(* A marker stands wherever something is held, on every path of the script, *)
(* with its failed writes, undone starts and aborts (script:409-439).       *)
THEOREM LeaseInvariant == Spec => []IInv
BY InitIInv, NextIInv, PTL DEF Spec

----------------------------------------------------------------------------
(* The refinement.  Steps that leave the markers, the GPU, the scheduler    *)
(* and what was refused alone, and do not end the script, are no steps of   *)
(* the lease.                                                               *)
Same == UNCHANGED <<marks, freq, scx, refused>> /\ pc # "end" /\ pc' # "end"

LEMMA SameStutters == Same => UNCHANGED Contract!lvars
BY DEF Same, Contract!lvars

(* Nothing is lent before the first run.                                    *)
LEMMA InitLease == Init => Contract!Init
BY RunLanesAssumption DEF Init, Contract!Init

(* Both outcomes of a start are a Take: enabled, or marked and down again.  *)
LEMMA TakenForScx ==
  ASSUME NEW T \in SUBSET Contract!Of("scx"), Contract!Take("scx", T)
  PROVE  Contract!Next
BY DEF Contract!Next

(* The two ways to give back, inline or from the trap.                      *)
LEMMA GpuGivenBack ==
  ASSUME IInv, NEW failing \in SUBSET Gts, RestoreGpu(failing), "gpu" \in marks,
         scx' = scx, pc # "end", pc' # "end"
  PROVE  Contract!Next
<1> DEFINE Owed == {gt \in Gts : freq[gt] = "floor"} \cup {x \in {"scx"} : scx = "enabled"}
<1>1. Contract!Of("gpu") = Gts
  BY RunLanesAssumption DEF Contract!Of
<1>2. \A gt \in Gts : freq'[gt] = "floor" => freq[gt] = "floor" /\ gt \in refused'
  BY DEF IInv, Typed, Explained, RestoreGpu, GpuBack, Unrecorded
<1>3. Owed' \in SUBSET Owed /\ Owed' \cap Gts \subseteq refused' /\ Owed \ Gts \subseteq Owed'
  BY <1>2, RunLanesAssumption
<1>4. PICK R : R = failing \cup Unrecorded
  OBVIOUS
<1>5. Contract!GiveBack("gpu", R)
  BY <1>1, <1>3, <1>4 DEF Contract!GiveBack, RestoreGpu
<1>6. R \in SUBSET Contract!Of("gpu")
  BY <1>1, <1>4 DEF Unrecorded
<1>7. QED
  BY <1>5, <1>6 DEF Contract!Next

(* A scheduler that survives TERM and KILL is one the machine refused.      *)
LEMMA ScxGivenBack ==
  ASSUME IInv, NEW ending \in StopEndings, StopScx(ending), "scx" \in marks,
         freq' = freq, pc # "end", pc' # "end"
  PROVE  Contract!Next
<1> DEFINE R == IF ending = "neither" THEN {"scx"} ELSE {}
<1>1. Contract!Of("scx") = {"scx"} /\ R \in SUBSET Contract!Of("scx")
  BY RunLanesAssumption DEF Contract!Of
<1>2. /\ marks' = marks \ {"scx"} /\ refused' = refused \cup R
      /\ scx' = IF ending = "neither" THEN scx ELSE "disabled"
  BY DEF StopScx
<1>3. Contract!GiveBack("scx", R)
  BY <1>1, <1>2, RunLanesAssumption DEF Contract!GiveBack
<1>4. QED
  BY <1>1, <1>3 DEF Contract!Next

(* Every step is a step of the lease or a stutter of it.                    *)
LEMMA NextLease == IInv /\ [Next]_vars => [Contract!Next]_(Contract!lvars)
<1> SUFFICES ASSUME IInv, [Next]_vars PROVE [Contract!Next]_(Contract!lvars)
  OBVIOUS
<1> USE DEF IInv, Typed
<1>1. ASSUME Same PROVE [Contract!Next]_(Contract!lvars)
  BY <1>1, SameStutters
<1>2. CASE Begin
  BY <1>1, <1>2 DEF Begin, Same
<1>3. CASE ApplyNothing
  BY <1>1, <1>3 DEF ApplyNothing, Same
<1>4. CASE ApplyShaping
  BY <1>1, <1>4 DEF ApplyShaping, Same
<1>5. CASE ShapingRaises
  BY <1>1, <1>5 DEF ShapingRaises, Same
<1>6. CASE ReleaseShaping
  BY <1>1, <1>6 DEF ReleaseShaping, Same, Released
<1>7. CASE ApplyAffinity
  BY <1>1, <1>7 DEF ApplyAffinity, Same
<1>8. CASE NoCandidate
  BY <1>1, <1>8 DEF NoCandidate, Same
<1>9. CASE ReleaseAffinity
  BY <1>1, <1>9 DEF ReleaseAffinity, Same, Released
<1>10. CASE ApplyUclamp
  BY <1>1, <1>10 DEF ApplyUclamp, Same
<1>11. CASE ReleaseUclamp
  BY <1>1, <1>11 DEF ReleaseUclamp, Same, Released
<1>12. CASE ReleaseNothing
  BY <1>1, <1>12 DEF ReleaseNothing, Same, Released
<1>13. CASE Capture
  BY <1>1, <1>13 DEF Capture, Same
<1>14. CASE CaptureFails
  BY <1>1, <1>14 DEF CaptureFails, Same
<1>15. CASE Abort
  BY <1>1, <1>15 DEF Abort, Same
<1>16. CASE Summarize
  BY <1>1, <1>16 DEF Summarize, Same
<1>17. CASE ApplyGpu
  <2>1. CASE report' = [report EXCEPT !.gpu = "skip"] /\ UNCHANGED <<freq, faults>>
    <3>1. Contract!Take("gpu", {})
      BY <1>17, <2>1 DEF ApplyGpu, Contract!Take
    <3>2. QED
      BY <3>1 DEF Contract!Next
  <2>2. ASSUME NEW failing \in SUBSET Gts,
               freq' = [gt \in Gts |-> IF gt \in failing THEN freq[gt] ELSE "floor"],
               pc' # "end"
        PROVE  Contract!Next
    <3>1. Contract!Take("gpu", Gts \ failing)
      BY <1>17, <2>2 DEF ApplyGpu, Contract!Take
    <3>2. Gts \ failing \in SUBSET Contract!Of("gpu")
      BY RunLanesAssumption DEF Contract!Of
    <3>3. QED
      BY <3>1, <3>2 DEF Contract!Next
  <2>3. ASSUME NEW raised \in SUBSET Gts,
               freq' = [gt \in Gts |-> IF gt \in raised THEN "floor" ELSE freq[gt]],
               pc' # "end"
        PROVE  Contract!Next
    <3>1. Contract!Take("gpu", raised)
      BY <1>17, <2>3 DEF ApplyGpu, Contract!Take
    <3>2. raised \in SUBSET Contract!Of("gpu")
      BY RunLanesAssumption DEF Contract!Of
    <3>3. QED
      BY <3>1, <3>2 DEF Contract!Next
  <2>4. QED
    BY <1>17, <2>1, <2>2, <2>3 DEF ApplyGpu
<1>18. CASE ReleaseGpu
  <2>1. PICK failing \in SUBSET Gts : RestoreGpu(failing) /\ Released(failing = {})
    BY <1>18 DEF ReleaseGpu
  <2>2. "gpu" \in marks /\ scx' = scx /\ pc # "end" /\ pc' # "end"
    BY <1>18, <2>1 DEF ReleaseGpu, Released, MarkedWhereHeld
  <2>3. QED
    BY <2>1, <2>2, GpuGivenBack
<1>19. CASE StartScx
  <2>1. CASE report' = [report EXCEPT !.scx = "skip"] /\ UNCHANGED <<scx, marks, faults>>
    BY <1>1, <1>19, <2>1 DEF StartScx, Same
  <2>2. CASE scx = "disabled" /\ marks' = marks \cup {"scx"} /\ scx' \in {"disabled", "enabled"}
    <3>1. Contract!Of("scx") = {"scx"}
      BY RunLanesAssumption DEF Contract!Of
    <3>2. CASE scx' = "enabled"
      <4>1. Contract!Take("scx", {"scx"})
        BY <1>19, <2>2, <3>2, RunLanesAssumption DEF StartScx, Contract!Take
      <4>2. QED
        BY <4>1, <3>1, TakenForScx
    <3>3. CASE scx' = "disabled"
      <4>1. Contract!Take("scx", {})
        BY <1>19, <2>2, <3>3, RunLanesAssumption DEF StartScx, Contract!Take
      <4>2. QED
        BY <4>1, TakenForScx
    <3>4. QED
      BY <2>2, <3>2, <3>3
  <2>3. QED
    BY <1>19, <2>1, <2>2 DEF StartScx
<1>20. CASE ReleaseScx
  <2>1. PICK ending \in StopEndings : StopScx(ending) /\ pc' \in {"summary", "trap"}
    BY <1>20 DEF ReleaseScx, Released
  <2>2. pc # "end" /\ freq' = freq
    BY <1>20 DEF ReleaseScx, Released
  <2>3. CASE "scx" \in marks
    BY <2>1, <2>2, <2>3, ScxGivenBack
  <2>4. CASE "scx" \notin marks
    BY <1>1, <1>20, <2>1, <2>2, <2>4 DEF ReleaseScx, Released, StopScx, MarkedWhereHeld, Same
  <2>5. QED
    BY <2>3, <2>4
<1>21. CASE RestoreState
  <2>1. CASE "scx" \in marks /\ \E ending \in StopEndings : StopScx(ending) /\ pc' = pc /\ freq' = freq
    BY <1>21, <2>1, ScxGivenBack DEF RestoreState
  <2>2. CASE /\ "gpu" \in marks /\ pc' = pc /\ scx' = scx
             /\ \E failing \in SUBSET Gts : RestoreGpu(failing)
    BY <1>21, <2>2, GpuGivenBack DEF RestoreState
  <2>3. CASE marks = {} /\ pc' = "end" /\ UNCHANGED <<marks, freq, scx, refused>>
    <3>1. Contract!End
      BY <2>3 DEF Contract!End
    <3>2. QED
      BY <3>1 DEF Contract!Next
  <2>4. QED
    BY <1>21, <2>1, <2>2, <2>3 DEF RestoreState
<1>22. CASE Machine
  <2>1. CASE ScxCrashes
    <3>1. {x \in {"scx"} : scx' = "enabled"} = {} /\ UNCHANGED <<freq, marks, refused>>
      BY <2>1 DEF ScxCrashes
    <3>2. pc # "end" /\ pc' # "end"
      BY <2>1 DEF ScxCrashes, Moves
    <3>3. Contract!Lapse({"scx"})
      BY <2>1, <3>1, <3>2, RunLanesAssumption DEF ScxCrashes, Contract!Lapse
    <3>4. QED
      BY <3>3 DEF Contract!Next
  <2>2. CASE Machine /\ ~ScxCrashes
    BY <1>1, <2>2 DEF Machine, HelperExits, HelperRestarts, ThreadEnds, ThreadStarts, GameExits,
                      Moves, Same
  <2>3. QED
    BY <1>22, <2>1, <2>2
<1>23. CASE UNCHANGED vars
  BY <1>23 DEF vars, Contract!lvars
<1>24. QED
  BY <1>2, <1>3, <1>4, <1>5, <1>6, <1>7, <1>8, <1>9, <1>10, <1>11, <1>12, <1>13, <1>14,
     <1>15, <1>16, <1>17, <1>18, <1>19, <1>20, <1>21, <1>22, <1>23 DEF Next, Script

(* The script implements the lease.                                         *)
THEOREM LanesImplementLease == Spec => ImplementsLease
<1>1. Spec => Contract!Init /\ [][Contract!Next]_(Contract!lvars)
  BY InitLease, LeaseInvariant, NextLease, PTL DEF Spec
<1>2. QED
  BY <1>1 DEF ImplementsLease, Contract!Spec

(* In the lease as such, for whatever is lent and however it is marked:     *)
(* nothing lent, nothing to account for.                                    *)
LEMMA InitAccounted == Contract!Init => Contract!Accounted
BY DEF Contract!Init, Contract!Accounted

(* Taking marks, and giving back takes the mark off what is back or refused.*)
LEMMA NextAccounted ==
  Contract!Accounted /\ [Contract!Next]_(Contract!lvars) => Contract!Accounted'
<1> SUFFICES ASSUME Contract!Accounted, [Contract!Next]_(Contract!lvars)
             PROVE  Contract!Accounted'
  OBVIOUS
<1> USE DEF Contract!Accounted
<1>1. ASSUME NEW m \in {"gpu", "scx"}, NEW T \in SUBSET Contract!Of(m),
             Contract!Take(m, T)
      PROVE  Contract!Accounted'
  BY <1>1 DEF Contract!Take, Contract!Of
<1>2. ASSUME NEW m \in {"gpu", "scx"}, NEW T \in SUBSET Contract!Of(m),
             Contract!GiveBack(m, T)
      PROVE  Contract!Accounted'
  BY <1>2 DEF Contract!GiveBack, Contract!Of
<1>3. ASSUME NEW T \in SUBSET (Gts \union {"scx"}), Contract!Lapse(T)
      PROVE  Contract!Accounted'
  BY <1>3 DEF Contract!Lapse
<1>4. CASE Contract!End
  BY <1>4 DEF Contract!End
<1>5. CASE UNCHANGED Contract!lvars
  BY <1>5 DEF Contract!lvars
<1>6. QED
  BY <1>1, <1>2, <1>3, <1>4, <1>5 DEF Contract!Next

(* No mark stands after the end: End waits for the last mark, and nothing   *)
(* is taken after it.                                                       *)
Unmarked == pc = "end" => marks = {}

LEMMA NextUnmarked == Unmarked /\ [Contract!Next]_(Contract!lvars) => Unmarked'
BY DEF Unmarked, Contract!Next, Contract!Take, Contract!GiveBack, Contract!Lapse,
   Contract!End, Contract!lvars

(* Whatever implements the lease has no debt without a mark.                *)
THEOREM AlwaysAccounted == Contract!Spec => []Contract!Accounted
BY InitAccounted, NextAccounted, PTL DEF Contract!Spec

(* And nothing outlives its end but what the machine refused.               *)
THEOREM LeaseLeaksNothing == Contract!Spec => []Contract!NothingLeaks
<1>1. Contract!Init => Unmarked
  BY DEF Contract!Init, Unmarked
<1>2. Contract!Spec => []Unmarked
  BY <1>1, NextUnmarked, PTL DEF Contract!Spec
<1>3. Contract!Accounted /\ Unmarked => Contract!NothingLeaks
  BY DEF Contract!Accounted, Unmarked, Contract!NothingLeaks
<1>4. QED
  BY <1>2, <1>3, AlwaysAccounted, PTL

(* However the script ends, neither the scheduler nor a floor outlives it,  *)
(* except where the machine refused to take them back.                      *)
THEOREM NothingOutlives == Spec => []TrapReleases
<1>1. IInv => TrapReleases
  BY DEF IInv, Typed, MarkedWhereHeld, Explained, TrapReleases
<1>2. QED
  BY <1>1, LeaseInvariant, PTL

----------------------------------------------------------------------------
(* Types.  The births bound the threads of the machine and of the snapshot, *)
(* the number of failures is of no account: the machine may have infinitely *)
(* many GTs, and then no number counts the ones that fail.                  *)
Thread(n) == [born : 0 .. n, mask : {"wide", "compact"}, heir : BOOLEAN]

ScriptType ==
  /\ pc \in {"idle", "apply", "hold", "release", "undo", "summary", "trap", "end"}
  /\ position \in 0 .. 3 /\ candidate \in Lanes /\ restored \in BOOLEAN

ReportType ==
  report \in [shape : SUBSET Helpers, pinned : SUBSET Tids,
              uclamp : {"none", "skip", "failed", "applied"},
              gpu : {"none", "skip", "failed", "applied"},
              scx : {"none", "skip", "started", "invalid", "valid"}]

HelperType ==
  /\ helpers \in SUBSET Helpers /\ snap.helpers \in SUBSET Helpers
  /\ knob \in [Shaping -> [Helpers -> {"full", "low", "odd"}]]

ThreadType ==
  /\ births \in Nat
  /\ tasks \in [Tids -> Thread(births)] /\ snap.tasks \in [Tids -> Thread(births)]

FloorType ==
  /\ uclamp \in {"zero", "floor", "odd", "gone"}
  /\ snap.uclamp \in {"zero", "floor", "odd", "gone"}

TypeInv == ScriptType /\ ReportType /\ HelperType /\ ThreadType /\ FloorType

(* The first state is of these types.                                       *)
LEMMA InitType == Init => TypeInv
BY DEF Init, TypeInv, ScriptType, ReportType, HelperType, ThreadType, FloorType, Thread,
   NoReport, NoTask, Lanes, Shaping

(* The script's own variables.                                              *)
LEMMA NextScriptType == ScriptType /\ [Next]_vars => ScriptType'
<1> SUFFICES ASSUME ScriptType, [Next]_vars PROVE ScriptType'
  OBVIOUS
<1> USE DEF ScriptType
<1>1. CASE Begin
  BY <1>1 DEF Begin, NoReport
<1>2. CASE ApplyNothing
  BY <1>2 DEF ApplyNothing
<1>3. CASE ApplyShaping
  BY <1>3 DEF ApplyShaping, Shaping
<1>4. CASE ShapingRaises
  BY <1>4 DEF ShapingRaises, Shaping
<1>5. CASE ReleaseShaping
  BY <1>5 DEF ReleaseShaping, Released, Shaping
<1>6. CASE ApplyAffinity
  BY <1>6 DEF ApplyAffinity
<1>7. CASE NoCandidate
  BY <1>7 DEF NoCandidate
<1>8. CASE ReleaseAffinity
  BY <1>8 DEF ReleaseAffinity, Released
<1>9. CASE ApplyUclamp
  BY <1>9 DEF ApplyUclamp
<1>10. CASE ReleaseUclamp
  BY <1>10 DEF ReleaseUclamp, Released
<1>11. CASE ApplyGpu
  BY <1>11 DEF ApplyGpu
<1>12. CASE ReleaseGpu
  BY <1>12 DEF ReleaseGpu, Released, RestoreGpu, GpuBack
<1>13. CASE StartScx
  BY <1>13 DEF StartScx
<1>14. CASE ReleaseScx
  BY <1>14 DEF ReleaseScx, Released, StopScx
<1>15. CASE ReleaseNothing
  BY <1>15 DEF ReleaseNothing, Released
<1>16. CASE Capture
  BY <1>16 DEF Capture
<1>17. CASE CaptureFails
  BY <1>17 DEF CaptureFails
<1>18. CASE Abort
  BY <1>18 DEF Abort
<1>19. CASE Summarize
  BY <1>19 DEF Summarize, Accepted
<1>20. CASE RestoreState
  BY <1>20 DEF RestoreState, RestoreGpu, GpuBack, StopScx
<1>21. CASE Machine
  BY <1>21 DEF Machine, HelperExits, HelperRestarts, ThreadEnds, ThreadStarts, GameExits,
     ScxCrashes, Moves
<1>22. CASE UNCHANGED vars
  BY <1>22 DEF vars
<1>23. QED
  BY <1>1, <1>2, <1>3, <1>4, <1>5, <1>6, <1>7, <1>8, <1>9, <1>10, <1>11, <1>12, <1>13,
     <1>14, <1>15, <1>16, <1>17, <1>18, <1>19, <1>20, <1>21, <1>22 DEF Next, Script

(* The report names helpers and threads of this machine.                    *)
LEMMA NextReportType == ReportType /\ HelperType /\ [Next]_vars => ReportType'
<1> SUFFICES ASSUME ReportType /\ HelperType, [Next]_vars PROVE ReportType'
  OBVIOUS
<1> USE DEF ReportType
<1>1. CASE Begin
  BY <1>1 DEF Begin, NoReport
<1>2. CASE ApplyNothing
  BY <1>2 DEF ApplyNothing
<1>3. CASE ApplyShaping
  <2>1. PICK o \in [Lowered -> UNION {WriteOutcomes(h) : h \in Lowered}] :
                 report' = [report EXCEPT !.shape = Reported(o)]
    BY <1>3 DEF ApplyShaping
  <2>2. Reported(o) \subseteq Helpers
    BY DEF Reported, Lowered, HelperType
  <2>3. QED
    BY <2>1, <2>2
<1>4. CASE ShapingRaises
  BY <1>4 DEF ShapingRaises, Shaping
<1>5. CASE ReleaseShaping
  BY <1>5 DEF ReleaseShaping, Released, Shaping
<1>6. CASE ApplyAffinity
  BY <1>6 DEF ApplyAffinity, Snapped
<1>7. CASE NoCandidate
  BY <1>7 DEF NoCandidate
<1>8. CASE ReleaseAffinity
  BY <1>8 DEF ReleaseAffinity, Released
<1>9. CASE ApplyUclamp
  <2>1. PICK o \in FloorOutcomes : report' = [report EXCEPT !.uclamp = o[2]]
    BY <1>9 DEF ApplyUclamp
  <2>2. o[2] \in {"none", "skip", "failed", "applied"}
    BY DEF FloorOutcomes
  <2>3. QED
    BY <2>1, <2>2
<1>10. CASE ReleaseUclamp
  BY <1>10 DEF ReleaseUclamp, Released
<1>11. CASE ApplyGpu
  BY <1>11 DEF ApplyGpu
<1>12. CASE ReleaseGpu
  BY <1>12 DEF ReleaseGpu, Released, RestoreGpu, GpuBack
<1>13. CASE StartScx
  BY <1>13 DEF StartScx
<1>14. CASE ReleaseScx
  BY <1>14 DEF ReleaseScx, Released, StopScx
<1>15. CASE ReleaseNothing
  BY <1>15 DEF ReleaseNothing, Released
<1>16. CASE Capture
  BY <1>16 DEF Capture
<1>17. CASE CaptureFails
  BY <1>17 DEF CaptureFails
<1>18. CASE Abort
  BY <1>18 DEF Abort
<1>19. CASE Summarize
  BY <1>19 DEF Summarize, Accepted
<1>20. CASE RestoreState
  BY <1>20 DEF RestoreState, RestoreGpu, GpuBack, StopScx
<1>21. CASE Machine
  BY <1>21 DEF Machine, HelperExits, HelperRestarts, ThreadEnds, ThreadStarts, GameExits,
     ScxCrashes, Moves
<1>22. CASE UNCHANGED vars
  BY <1>22 DEF vars
<1>23. QED
  BY <1>1, <1>2, <1>3, <1>4, <1>5, <1>6, <1>7, <1>8, <1>9, <1>10, <1>11, <1>12, <1>13,
     <1>14, <1>15, <1>16, <1>17, <1>18, <1>19, <1>20, <1>21, <1>22 DEF Next, Script

(* Helper cgroups and their two knobs.                                      *)
LEMMA NextHelperType == HelperType /\ [Next]_vars => HelperType'
<1> SUFFICES ASSUME HelperType, [Next]_vars PROVE HelperType'
  OBVIOUS
<1> USE DEF HelperType
<1>1. CASE Begin
  BY <1>1 DEF Begin, NoReport
<1>2. CASE ApplyNothing
  BY <1>2 DEF ApplyNothing
<1>3. CASE ApplyShaping
  BY <1>3 DEF ApplyShaping, Shaping, WriteOutcomes, Lowered, Method
<1>4. CASE ShapingRaises
  BY <1>4 DEF ShapingRaises, Shaping
<1>5. CASE ReleaseShaping
  BY <1>5 DEF ReleaseShaping, Released, Shaping
<1>6. CASE ApplyAffinity
  BY <1>6 DEF ApplyAffinity
<1>7. CASE NoCandidate
  BY <1>7 DEF NoCandidate
<1>8. CASE ReleaseAffinity
  BY <1>8 DEF ReleaseAffinity, Released
<1>9. CASE ApplyUclamp
  BY <1>9 DEF ApplyUclamp
<1>10. CASE ReleaseUclamp
  BY <1>10 DEF ReleaseUclamp, Released
<1>11. CASE ApplyGpu
  BY <1>11 DEF ApplyGpu
<1>12. CASE ReleaseGpu
  BY <1>12 DEF ReleaseGpu, Released, RestoreGpu, GpuBack
<1>13. CASE StartScx
  BY <1>13 DEF StartScx
<1>14. CASE ReleaseScx
  BY <1>14 DEF ReleaseScx, Released, StopScx
<1>15. CASE ReleaseNothing
  BY <1>15 DEF ReleaseNothing, Released
<1>16. CASE Capture
  BY <1>16 DEF Capture
<1>17. CASE CaptureFails
  BY <1>17 DEF CaptureFails
<1>18. CASE Abort
  BY <1>18 DEF Abort
<1>19. CASE Summarize
  BY <1>19 DEF Summarize, Accepted
<1>20. CASE RestoreState
  BY <1>20 DEF RestoreState, RestoreGpu, GpuBack, StopScx
<1>21. CASE Machine
  BY <1>21 DEF Machine, HelperExits, HelperRestarts, ThreadEnds, ThreadStarts, GameExits,
     ScxCrashes, Moves
<1>22. CASE UNCHANGED vars
  BY <1>22 DEF vars
<1>23. QED
  BY <1>1, <1>2, <1>3, <1>4, <1>5, <1>6, <1>7, <1>8, <1>9, <1>10, <1>11, <1>12, <1>13,
     <1>14, <1>15, <1>16, <1>17, <1>18, <1>19, <1>20, <1>21, <1>22 DEF Next, Script

(* No thread is born later than the last birth.                             *)
LEMMA NextThreadType == ReportType /\ ThreadType /\ [Next]_vars => ThreadType'
<1> SUFFICES ASSUME ReportType /\ ThreadType, [Next]_vars PROVE ThreadType'
  OBVIOUS
<1> USE DEF ReportType, ThreadType, Thread
<1>1. CASE Begin
  BY <1>1 DEF Begin, NoReport
<1>2. CASE ApplyNothing
  BY <1>2 DEF ApplyNothing
<1>3. CASE ApplyShaping
  BY <1>3 DEF ApplyShaping, Shaping
<1>4. CASE ShapingRaises
  BY <1>4 DEF ShapingRaises, Shaping
<1>5. CASE ReleaseShaping
  BY <1>5 DEF ReleaseShaping, Released, Shaping
<1>6. CASE ApplyAffinity
  BY <1>6 DEF ApplyAffinity, Masked, Snapped, Stale
<1>7. CASE NoCandidate
  BY <1>7 DEF NoCandidate
<1>8. CASE ReleaseAffinity
  BY <1>8 DEF ReleaseAffinity, Released, Masked, Unpinned
<1>9. CASE ApplyUclamp
  BY <1>9 DEF ApplyUclamp
<1>10. CASE ReleaseUclamp
  BY <1>10 DEF ReleaseUclamp, Released
<1>11. CASE ApplyGpu
  BY <1>11 DEF ApplyGpu
<1>12. CASE ReleaseGpu
  BY <1>12 DEF ReleaseGpu, Released, RestoreGpu, GpuBack
<1>13. CASE StartScx
  BY <1>13 DEF StartScx
<1>14. CASE ReleaseScx
  BY <1>14 DEF ReleaseScx, Released, StopScx
<1>15. CASE ReleaseNothing
  BY <1>15 DEF ReleaseNothing, Released
<1>16. CASE Capture
  BY <1>16 DEF Capture
<1>17. CASE CaptureFails
  BY <1>17 DEF CaptureFails
<1>18. CASE Abort
  BY <1>18 DEF Abort
<1>19. CASE Summarize
  BY <1>19 DEF Summarize, Accepted
<1>20. CASE RestoreState
  BY <1>20 DEF RestoreState, RestoreGpu, GpuBack, StopScx
<1>21. CASE Machine
  <2>1. CASE \E t \in Tids : ThreadEnds(t)
    BY <2>1 DEF ThreadEnds, NoTask
  <2>2. ASSUME NEW t \in Tids, NEW p \in Tids, ThreadStarts(t, p) PROVE ThreadType'
    <3>1. births' = births + 1 /\ snap' = snap /\ tasks[p] \in Thread(births)
      BY <2>2 DEF ThreadStarts
    <3>2. [born |-> births + 1, mask |-> tasks[p].mask, heir |-> tasks[p].mask = "compact"]
            \in Thread(births + 1)
      BY <3>1
    <3>3. \A u \in Thread(births) : u \in Thread(births + 1)
      OBVIOUS
    <3>4. tasks' \in [Tids -> Thread(births')]
      BY <2>2, <3>1, <3>2, <3>3 DEF ThreadStarts
    <3>5. snap'.tasks \in [Tids -> Thread(births')] /\ births' \in Nat
      BY <3>1, <3>3
    <3>6. QED
      BY <3>4, <3>5
  <2>3. CASE GameExits
    BY <2>3 DEF GameExits, NoTask
  <2>4. CASE UNCHANGED <<births, tasks, snap>>
    BY <2>4
  <2>5. QED
    BY <1>21, <2>1, <2>2, <2>3, <2>4 DEF Machine, HelperExits, HelperRestarts, ScxCrashes
<1>22. CASE UNCHANGED vars
  BY <1>22 DEF vars
<1>23. QED
  BY <1>1, <1>2, <1>3, <1>4, <1>5, <1>6, <1>7, <1>8, <1>9, <1>10, <1>11, <1>12, <1>13,
     <1>14, <1>15, <1>16, <1>17, <1>18, <1>19, <1>20, <1>21, <1>22 DEF Next, Script

(* The floor of the game's cgroup.                                          *)
LEMMA NextFloorType == FloorType /\ [Next]_vars => FloorType'
<1> SUFFICES ASSUME FloorType, [Next]_vars PROVE FloorType'
  OBVIOUS
<1> USE DEF FloorType
<1>1. CASE Begin
  BY <1>1 DEF Begin, NoReport
<1>2. CASE ApplyNothing
  BY <1>2 DEF ApplyNothing
<1>3. CASE ApplyShaping
  BY <1>3 DEF ApplyShaping, Shaping
<1>4. CASE ShapingRaises
  BY <1>4 DEF ShapingRaises, Shaping
<1>5. CASE ReleaseShaping
  BY <1>5 DEF ReleaseShaping, Released, Shaping
<1>6. CASE ApplyAffinity
  BY <1>6 DEF ApplyAffinity
<1>7. CASE NoCandidate
  BY <1>7 DEF NoCandidate
<1>8. CASE ReleaseAffinity
  BY <1>8 DEF ReleaseAffinity, Released
<1>9. CASE ApplyUclamp
  BY <1>9 DEF ApplyUclamp, FloorOutcomes
<1>10. CASE ReleaseUclamp
  BY <1>10 DEF ReleaseUclamp, Released, FloorHeld
<1>11. CASE ApplyGpu
  BY <1>11 DEF ApplyGpu
<1>12. CASE ReleaseGpu
  BY <1>12 DEF ReleaseGpu, Released, RestoreGpu, GpuBack
<1>13. CASE StartScx
  BY <1>13 DEF StartScx
<1>14. CASE ReleaseScx
  BY <1>14 DEF ReleaseScx, Released, StopScx
<1>15. CASE ReleaseNothing
  BY <1>15 DEF ReleaseNothing, Released
<1>16. CASE Capture
  BY <1>16 DEF Capture
<1>17. CASE CaptureFails
  BY <1>17 DEF CaptureFails
<1>18. CASE Abort
  BY <1>18 DEF Abort
<1>19. CASE Summarize
  BY <1>19 DEF Summarize, Accepted
<1>20. CASE RestoreState
  BY <1>20 DEF RestoreState, RestoreGpu, GpuBack, StopScx
<1>21. CASE Machine
  BY <1>21 DEF Machine, HelperExits, HelperRestarts, ThreadEnds, ThreadStarts, GameExits,
     ScxCrashes, Moves
<1>22. CASE UNCHANGED vars
  BY <1>22 DEF vars
<1>23. QED
  BY <1>1, <1>2, <1>3, <1>4, <1>5, <1>6, <1>7, <1>8, <1>9, <1>10, <1>11, <1>12, <1>13,
     <1>14, <1>15, <1>16, <1>17, <1>18, <1>19, <1>20, <1>21, <1>22 DEF Next, Script

(* All of them together.                                                    *)
LEMMA NextType == TypeInv /\ [Next]_vars => TypeInv'
BY NextScriptType, NextReportType, NextHelperType, NextThreadType, NextFloorType DEF TypeInv

(* One lane, one marker.                                                    *)
LEMMA OneMarker ==
  ASSUME NEW M, M \subseteq {"gpu", "scx"}, ~("gpu" \in M /\ "scx" \in M)
  PROVE  Cardinality(M) <= 1
<1>1. \/ \A x : x \in M <=> x \in {}
      \/ \A x : x \in M <=> x \in {"gpu"}
      \/ \A x : x \in M <=> x \in {"scx"}
  OBVIOUS
<1>2. M = {} \/ M = {"gpu"} \/ M = {"scx"}
  BY <1>1
<1>3. Cardinality({}) = 0 /\ Cardinality({"gpu"}) = 1 /\ Cardinality({"scx"}) = 1
  BY FS_EmptySet, FS_Singleton
<1>4. Cardinality(M) \in {0, 1}
  BY <1>2, <1>3
<1>5. QED
  BY <1>4

(* They give the type invariant, with the lease of the markers.             *)
LEMMA TypeIsTypeOK == IInv /\ TypeInv => TypeOK
<1> SUFFICES ASSUME IInv, TypeInv PROVE TypeOK
  OBVIOUS
<1> USE DEF IInv, Typed, MarkedWhereHeld, Explained, TypeInv
<1>2. Cardinality(marks) <= 1
  BY OneMarker
<1>3. QED
  BY <1>2 DEF TypeOK, ScriptType, ReportType, HelperType, ThreadType, FloorType, Thread

(* Every variable of the script and of the machine keeps its type.          *)
THEOREM LanesTyped == Spec => []TypeOK
<1>1. Spec => []TypeInv
  BY InitType, NextType, PTL DEF Spec
<1>2. QED
  BY <1>1, LeaseInvariant, TypeIsTypeOK, PTL

----------------------------------------------------------------------------
(* What a lane has put on the machine, and until when.  A knob that is not  *)
(* as it was found belongs to the lane of the present run, stands in its    *)
(* report as long as it may still be released, and is not past a summary    *)
(* that calls the run restored.                                             *)
(* The steps at which a lane may still be on the machine.                   *)
Away ==
  \/ pc \in {"hold", "release", "undo", "trap", "end"}
  \/ pc = "summary" /\ ~restored

KnobsBack ==
  \A l \in Shaping, h \in Helpers \ unverified : knob[l][h] # "full" =>
    /\ lane = l /\ Away
    /\ pc \in {"hold", "release", "undo"} => h \in report.shape

PinsBack ==
  /\ \A t \in Tids : tasks[t].mask = "compact" /\ ~tasks[t].heir =>
       /\ lane = "affinity" /\ Away
       /\ pc \in {"hold", "release", "undo"} => t \in report.pinned
  /\ position <= 1 => \A t \in Tids : tasks[t].mask = "wide"
  /\ position = 2 /\ pc = "apply" => \A t \in Tids : tasks[t].mask = "wide"
  /\ position <= 2 => \A t \in Tids : snap.tasks[t].mask = "wide"

FloorBack ==
  /\ snap.uclamp \in {"zero", "gone"}
  /\ uclamp \in {"floor", "odd"} =>
       lane = "uclamp" /\ Away /\ report.uclamp \notin {"none", "skip"}

FreqBack ==
  /\ \A gt \in Gts : snap.freq[gt] = "low"
  /\ \A gt \in Gts : freq[gt] = "floor" => lane = "gpu" /\ pc \notin {"idle", "apply"}

ScxBack ==
  scx = "enabled" => lane = "scx" /\ Away /\ report.scx # "skip"

Back == KnobsBack /\ PinsBack /\ FloorBack /\ FreqBack /\ ScxBack

(* Nothing is held before the first run.                                    *)
LEMMA InitBack == Init => Back
BY DEF Init, Back, KnobsBack, PinsBack, FloorBack, FreqBack, ScxBack, NoTask

(* Every write reported as written is put back, or the run is not restored. *)
LEMMA NextKnobsBack == IInv /\ TypeInv /\ KnobsBack /\ [Next]_vars => KnobsBack'
<1> SUFFICES ASSUME IInv /\ TypeInv /\ KnobsBack, [Next]_vars PROVE KnobsBack'
  OBVIOUS
<1> USE DEF TypeInv, ScriptType, HelperType, ReportType, KnobsBack, Away, Shaping
<1>1. CASE Begin
  BY <1>1 DEF Begin, NoReport
<1>2. CASE ApplyNothing
  BY <1>2 DEF ApplyNothing
<1>3. CASE ApplyShaping
  BY <1>3 DEF ApplyShaping, Shaping, WriteOutcomes, Lowered, Method, Mishaps, Reported
<1>4. CASE ShapingRaises
  BY <1>4 DEF ShapingRaises, Shaping
<1>5. CASE ReleaseShaping
  <2>1. PICK failing \in SUBSET report.shape :
          /\ knob' = [knob EXCEPT ![lane] =
                        [h \in Helpers |-> IF h \in PutBack(failing) THEN "full" ELSE @[h]]]
          /\ Released(PutBack(failing) = report.shape)
    BY <1>5 DEF ReleaseShaping
  <2>2. lane \in Shaping /\ UNCHANGED <<position, candidate, report, unverified>>
    BY <1>5 DEF ReleaseShaping
  <2> SUFFICES ASSUME NEW l \in Shaping, NEW h \in Helpers \ unverified,
    knob'[l][h] # "full"
               PROVE  lane = l /\ Away' /\ pc' \notin {"hold", "release", "undo"}
    BY <2>2
  <2>3. knob[l][h] # "full" /\ lane = l /\ h \notin PutBack(failing)
    BY <2>1, <2>2
  <2>4. h \in report.shape
    BY <2>3, <2>1 DEF Released
  <2>5. pc' = "trap" \/ (pc' = "summary" /\ ~restored')
    <3>1. ~(PutBack(failing) = report.shape)
      BY <2>3, <2>4
    <3>2. QED
      BY <2>1, <3>1 DEF Released
  <2>6. QED
    BY <2>3, <2>5
<1>6. CASE ApplyAffinity
  BY <1>6 DEF ApplyAffinity
<1>7. CASE NoCandidate
  BY <1>7 DEF NoCandidate
<1>8. CASE ReleaseAffinity
  BY <1>8 DEF ReleaseAffinity, Released
<1>9. CASE ApplyUclamp
  BY <1>9 DEF ApplyUclamp
<1>10. CASE ReleaseUclamp
  BY <1>10 DEF ReleaseUclamp, Released
<1>11. CASE ApplyGpu
  BY <1>11 DEF ApplyGpu
<1>12. CASE ReleaseGpu
  BY <1>12 DEF ReleaseGpu, Released, RestoreGpu, GpuBack
<1>13. CASE StartScx
  BY <1>13 DEF StartScx
<1>14. CASE ReleaseScx
  BY <1>14 DEF ReleaseScx, Released, StopScx
<1>15. CASE ReleaseNothing
  BY <1>15 DEF ReleaseNothing, Released
<1>16. CASE Capture
  BY <1>16 DEF Capture
<1>17. CASE CaptureFails
  BY <1>17 DEF CaptureFails
<1>18. CASE Abort
  BY <1>18 DEF Abort
<1>19. CASE Summarize
  BY <1>19 DEF Summarize, Accepted
<1>20. CASE RestoreState
  BY <1>20 DEF RestoreState, RestoreGpu, GpuBack, StopScx
<1>21. CASE Machine
  BY <1>21 DEF Machine, HelperExits, HelperRestarts, ThreadEnds, ThreadStarts, GameExits,
     ScxCrashes, Moves
<1>22. CASE UNCHANGED vars
  BY <1>22 DEF vars
<1>23. QED
  BY <1>1, <1>2, <1>3, <1>4, <1>5, <1>6, <1>7, <1>8, <1>9, <1>10, <1>11, <1>12, <1>13,
     <1>14, <1>15, <1>16, <1>17, <1>18, <1>19, <1>20, <1>21, <1>22 DEF Next, Script

(* So are the masks, except for threads that a pinned thread started.       *)
LEMMA NextPinsBack == IInv /\ TypeInv /\ PinsBack /\ [Next]_vars => PinsBack'
<1> SUFFICES ASSUME IInv /\ TypeInv /\ PinsBack, [Next]_vars PROVE PinsBack'
  OBVIOUS
<1> USE DEF TypeInv, ScriptType, ThreadType, Thread, ReportType, PinsBack, Away
<1>1. CASE Begin
  BY <1>1 DEF Begin, NoReport
<1>2. CASE ApplyNothing
  BY <1>2 DEF ApplyNothing
<1>3. CASE ApplyShaping
  BY <1>3 DEF ApplyShaping, Shaping
<1>4. CASE ShapingRaises
  BY <1>4 DEF ShapingRaises, Shaping
<1>5. CASE ReleaseShaping
  BY <1>5 DEF ReleaseShaping, Released, Shaping
<1>6. CASE ApplyAffinity
  BY <1>6 DEF ApplyAffinity, Masked, Snapped, Stale
<1>7. CASE NoCandidate
  BY <1>7 DEF NoCandidate
<1>8. CASE ReleaseAffinity
  BY <1>8 DEF ReleaseAffinity, Released, Masked, Unpinned
<1>9. CASE ApplyUclamp
  BY <1>9 DEF ApplyUclamp
<1>10. CASE ReleaseUclamp
  BY <1>10 DEF ReleaseUclamp, Released
<1>11. CASE ApplyGpu
  BY <1>11 DEF ApplyGpu
<1>12. CASE ReleaseGpu
  BY <1>12 DEF ReleaseGpu, Released, RestoreGpu, GpuBack
<1>13. CASE StartScx
  BY <1>13 DEF StartScx
<1>14. CASE ReleaseScx
  BY <1>14 DEF ReleaseScx, Released, StopScx
<1>15. CASE ReleaseNothing
  BY <1>15 DEF ReleaseNothing, Released
<1>16. CASE Capture
  BY <1>16 DEF Capture
<1>17. CASE CaptureFails
  BY <1>17 DEF CaptureFails
<1>18. CASE Abort
  BY <1>18 DEF Abort
<1>19. CASE Summarize
  BY <1>19 DEF Summarize, Accepted
<1>20. CASE RestoreState
  BY <1>20 DEF RestoreState, RestoreGpu, GpuBack, StopScx
<1>21. CASE Machine
  <2>1. CASE \E t \in Tids : ThreadEnds(t)
    BY <2>1 DEF ThreadEnds, Moves, NoTask
  <2>2. ASSUME NEW t \in Tids, NEW p \in Tids, ThreadStarts(t, p) PROVE PinsBack'
    <3>1. UNCHANGED <<script, snap, report>> /\ pc # "idle"
      BY <2>2 DEF ThreadStarts, Moves
    <3>2. tasks' = [tasks EXCEPT ![t] = [born |-> births + 1, mask |-> tasks[p].mask,
                                         heir |-> tasks[p].mask = "compact"]]
      BY <2>2 DEF ThreadStarts
    <3>3. \A u \in Tids : u # t => tasks'[u] = tasks[u]
      BY <3>2
    <3>4. tasks'[t].mask = tasks[p].mask /\ (tasks[p].mask = "compact" => tasks'[t].heir)
      BY <3>2
    <3>5. QED
      BY <3>1, <3>3, <3>4
  <2>3. CASE GameExits
    BY <2>3 DEF GameExits, Moves, NoTask
  <2>4. CASE UNCHANGED <<script, snap, report, tasks>>
    BY <2>4
  <2>5. QED
    BY <1>21, <2>1, <2>2, <2>3, <2>4 DEF Machine, HelperExits, HelperRestarts, ScxCrashes
<1>22. CASE UNCHANGED vars
  BY <1>22 DEF vars
<1>23. QED
  BY <1>1, <1>2, <1>3, <1>4, <1>5, <1>6, <1>7, <1>8, <1>9, <1>10, <1>11, <1>12, <1>13,
     <1>14, <1>15, <1>16, <1>17, <1>18, <1>19, <1>20, <1>21, <1>22 DEF Next, Script

(* So is the floor of the game, or the game is gone.                        *)
LEMMA NextFloorBack == IInv /\ TypeInv /\ FloorBack /\ [Next]_vars => FloorBack'
<1> SUFFICES ASSUME IInv /\ TypeInv /\ FloorBack, [Next]_vars PROVE FloorBack'
  OBVIOUS
<1> USE DEF TypeInv, FloorType, ReportType, FloorBack, Away
<1>1. CASE Begin
  BY <1>1 DEF Begin, NoReport
<1>2. CASE ApplyNothing
  BY <1>2 DEF ApplyNothing
<1>3. CASE ApplyShaping
  BY <1>3 DEF ApplyShaping, Shaping
<1>4. CASE ShapingRaises
  BY <1>4 DEF ShapingRaises, Shaping
<1>5. CASE ReleaseShaping
  BY <1>5 DEF ReleaseShaping, Released, Shaping
<1>6. CASE ApplyAffinity
  BY <1>6 DEF ApplyAffinity
<1>7. CASE NoCandidate
  BY <1>7 DEF NoCandidate
<1>8. CASE ReleaseAffinity
  BY <1>8 DEF ReleaseAffinity, Released
<1>9. CASE ApplyUclamp
  BY <1>9 DEF ApplyUclamp, FloorOutcomes
<1>10. CASE ReleaseUclamp
  BY <1>10 DEF ReleaseUclamp, Released, FloorHeld
<1>11. CASE ApplyGpu
  BY <1>11 DEF ApplyGpu
<1>12. CASE ReleaseGpu
  BY <1>12 DEF ReleaseGpu, Released, RestoreGpu, GpuBack
<1>13. CASE StartScx
  BY <1>13 DEF StartScx
<1>14. CASE ReleaseScx
  BY <1>14 DEF ReleaseScx, Released, StopScx
<1>15. CASE ReleaseNothing
  BY <1>15 DEF ReleaseNothing, Released
<1>16. CASE Capture
  BY <1>16 DEF Capture
<1>17. CASE CaptureFails
  BY <1>17 DEF CaptureFails
<1>18. CASE Abort
  BY <1>18 DEF Abort
<1>19. CASE Summarize
  BY <1>19 DEF Summarize, Accepted
<1>20. CASE RestoreState
  BY <1>20 DEF RestoreState, RestoreGpu, GpuBack, StopScx
<1>21. CASE Machine
  BY <1>21 DEF Machine, HelperExits, HelperRestarts, ThreadEnds, ThreadStarts, GameExits,
     ScxCrashes, Moves
<1>22. CASE UNCHANGED vars
  BY <1>22 DEF vars
<1>23. QED
  BY <1>1, <1>2, <1>3, <1>4, <1>5, <1>6, <1>7, <1>8, <1>9, <1>10, <1>11, <1>12, <1>13,
     <1>14, <1>15, <1>16, <1>17, <1>18, <1>19, <1>20, <1>21, <1>22 DEF Next, Script

(* So are the GTs: Summarize compares them with the snapshot.               *)
LEMMA NextFreqBack == IInv /\ TypeInv /\ FreqBack /\ [Next]_vars => FreqBack'
<1> SUFFICES ASSUME IInv /\ TypeInv /\ FreqBack, [Next]_vars PROVE FreqBack'
  OBVIOUS
<1> USE DEF IInv, Typed, FreqBack
<1>1. CASE Begin
  BY <1>1 DEF Begin, NoReport
<1>2. CASE ApplyNothing
  BY <1>2 DEF ApplyNothing
<1>3. CASE ApplyShaping
  BY <1>3 DEF ApplyShaping, Shaping
<1>4. CASE ShapingRaises
  BY <1>4 DEF ShapingRaises, Shaping
<1>5. CASE ReleaseShaping
  BY <1>5 DEF ReleaseShaping, Released, Shaping
<1>6. CASE ApplyAffinity
  BY <1>6 DEF ApplyAffinity
<1>7. CASE NoCandidate
  BY <1>7 DEF NoCandidate
<1>8. CASE ReleaseAffinity
  BY <1>8 DEF ReleaseAffinity, Released
<1>9. CASE ApplyUclamp
  BY <1>9 DEF ApplyUclamp
<1>10. CASE ReleaseUclamp
  BY <1>10 DEF ReleaseUclamp, Released
<1>11. CASE ApplyGpu
  BY <1>11 DEF ApplyGpu
<1>12. CASE ReleaseGpu
  BY <1>12 DEF ReleaseGpu, Released, RestoreGpu, GpuBack
<1>13. CASE StartScx
  BY <1>13 DEF StartScx
<1>14. CASE ReleaseScx
  BY <1>14 DEF ReleaseScx, Released, StopScx
<1>15. CASE ReleaseNothing
  BY <1>15 DEF ReleaseNothing, Released
<1>16. CASE Capture
  BY <1>16 DEF Capture
<1>17. CASE CaptureFails
  BY <1>17 DEF CaptureFails
<1>18. CASE Abort
  BY <1>18 DEF Abort
<1>19. CASE Summarize
  BY <1>19 DEF Summarize, Accepted
<1>20. CASE RestoreState
  BY <1>20 DEF RestoreState, RestoreGpu, GpuBack, StopScx
<1>21. CASE Machine
  BY <1>21 DEF Machine, HelperExits, HelperRestarts, ThreadEnds, ThreadStarts, GameExits,
     ScxCrashes, Moves
<1>22. CASE UNCHANGED vars
  BY <1>22 DEF vars
<1>23. QED
  BY <1>1, <1>2, <1>3, <1>4, <1>5, <1>6, <1>7, <1>8, <1>9, <1>10, <1>11, <1>12, <1>13,
     <1>14, <1>15, <1>16, <1>17, <1>18, <1>19, <1>20, <1>21, <1>22 DEF Next, Script

(* So is the scheduler.                                                     *)
LEMMA NextScxBack == IInv /\ TypeInv /\ ScxBack /\ [Next]_vars => ScxBack'
<1> SUFFICES ASSUME IInv /\ TypeInv /\ ScxBack, [Next]_vars PROVE ScxBack'
  OBVIOUS
<1> USE DEF IInv, Typed, MarkedWhereHeld, Explained, ScxBack, Away
<1>1. CASE Begin
  BY <1>1 DEF Begin, NoReport
<1>2. CASE ApplyNothing
  BY <1>2 DEF ApplyNothing
<1>3. CASE ApplyShaping
  BY <1>3 DEF ApplyShaping, Shaping
<1>4. CASE ShapingRaises
  BY <1>4 DEF ShapingRaises, Shaping
<1>5. CASE ReleaseShaping
  BY <1>5 DEF ReleaseShaping, Released, Shaping
<1>6. CASE ApplyAffinity
  BY <1>6 DEF ApplyAffinity
<1>7. CASE NoCandidate
  BY <1>7 DEF NoCandidate
<1>8. CASE ReleaseAffinity
  BY <1>8 DEF ReleaseAffinity, Released
<1>9. CASE ApplyUclamp
  BY <1>9 DEF ApplyUclamp
<1>10. CASE ReleaseUclamp
  BY <1>10 DEF ReleaseUclamp, Released
<1>11. CASE ApplyGpu
  BY <1>11 DEF ApplyGpu
<1>12. CASE ReleaseGpu
  BY <1>12 DEF ReleaseGpu, Released, RestoreGpu, GpuBack
<1>13. CASE StartScx
  BY <1>13 DEF StartScx
<1>14. CASE ReleaseScx
  BY <1>14 DEF ReleaseScx, Released, StopScx, StopEndings, StopResults, Valid
<1>15. CASE ReleaseNothing
  BY <1>15 DEF ReleaseNothing, Released
<1>16. CASE Capture
  BY <1>16 DEF Capture
<1>17. CASE CaptureFails
  BY <1>17 DEF CaptureFails
<1>18. CASE Abort
  BY <1>18 DEF Abort
<1>19. CASE Summarize
  BY <1>19 DEF Summarize, Accepted
<1>20. CASE RestoreState
  BY <1>20 DEF RestoreState, RestoreGpu, GpuBack, StopScx, StopEndings
<1>21. CASE Machine
  BY <1>21 DEF Machine, HelperExits, HelperRestarts, ThreadEnds, ThreadStarts, GameExits,
     ScxCrashes, Moves
<1>22. CASE UNCHANGED vars
  BY <1>22 DEF vars
<1>23. QED
  BY <1>1, <1>2, <1>3, <1>4, <1>5, <1>6, <1>7, <1>8, <1>9, <1>10, <1>11, <1>12, <1>13,
     <1>14, <1>15, <1>16, <1>17, <1>18, <1>19, <1>20, <1>21, <1>22 DEF Next, Script

(* All of them together.                                                    *)
LEMMA NextBack == IInv /\ TypeInv /\ Back /\ [Next]_vars => Back'
BY NextKnobsBack, NextPinsBack, NextFloorBack, NextFreqBack, NextScxBack DEF Back

(* A run of the lane "off" holds nothing.                                   *)
LEMMA BackIsUntouched == IInv /\ TypeInv /\ Back => BaselineUntouched
<1> SUFFICES ASSUME IInv, TypeInv, Back, pc = "hold", lane = "off" PROVE BaselineUntouched
  BY DEF BaselineUntouched
<1> USE DEF Back
<1>1. \A l \in Shaping, h \in helpers \ unverified : knob[l][h] = "full"
  BY DEF KnobsBack, TypeInv, HelperType, Shaping
<1>2. \A t \in Tids : tasks[t].mask = "compact" => tasks[t].heir
  BY DEF PinsBack
<1>3. uclamp \in {"zero", "gone"} /\ scx # "enabled"
  BY DEF FloorBack, ScxBack, TypeInv, FloorType
<1>4. \A gt \in Gts : freq[gt] = "low"
  BY DEF FreqBack, IInv, Typed
<1>5. QED
  BY <1>1, <1>2, <1>3, <1>4 DEF BaselineUntouched

(* A baseline is measured on a machine without any lane, for any helpers,   *)
(* threads and GTs, whatever was applied, failed, aborted or moved before.  *)
THEOREM BaselinesUntouched == Spec => []BaselineUntouched
<1>1. Spec => []TypeInv
  BY InitType, NextType, PTL DEF Spec
<1>2. Spec => []Back
  BY <1>1, LeaseInvariant, InitBack, NextBack, PTL DEF Spec
<1>3. QED
  BY <1>1, <1>2, LeaseInvariant, BackIsUntouched, PTL

----------------------------------------------------------------------------
(* What the report of a lane is worth: a lane reported as applied holds     *)
(* while the window is open, and held when it closed, from then on.  What   *)
(* the machine does to it by itself shows: the game is gone, a thread's     *)
(* number has another owner, the scheduler has crashed.                     *)
HeldGpu ==
  lane = "gpu" /\ report.gpu = "applied" =>
    /\ pc = "hold" => \A gt \in Gts : freq[gt] = "floor"
    /\ pc \in {"release", "summary"} => inForce

HeldFloor ==
  lane = "uclamp" /\ report.uclamp = "applied" =>
    /\ pc = "hold" => uclamp \in {"floor", "gone"}
    /\ pc = "release" => inForce \/ uclamp = "gone"
    /\ pc = "summary" => inForce \/ ~restored

HeldPins ==
  /\ report.pinned \subseteq Snapped
  /\ lane = "affinity" =>
       /\ pc = "hold" => /\ report.pinned = Snapped
                         /\ \A t \in Snapped : \/ tasks[t].mask = "compact"
                                               \/ tasks[t].born # snap.tasks[t].born
       /\ pc \in {"release", "summary"} => inForce \/ Replaced

HeldScx ==
  lane = "scx" =>
    /\ pc = "hold" /\ report.scx = "started" => scx = "enabled" \/ crashed
    /\ pc = "release" /\ report.scx = "started" => inForce \/ crashed
    /\ pc = "summary" /\ report.scx = "valid" => inForce \/ crashed

Held == HeldGpu /\ HeldFloor /\ HeldPins /\ HeldScx

(* No lane is in force before the first run.                                *)
LEMMA InitHeld == Init => Held
BY DEF Init, Held, HeldGpu, HeldFloor, HeldPins, HeldScx, NoReport

(* From the write of the floor to the summary.                              *)
LEMMA NextHeldGpu == IInv /\ TypeInv /\ HeldGpu /\ [Next]_vars => HeldGpu'
<1> SUFFICES ASSUME IInv /\ TypeInv /\ HeldGpu, [Next]_vars PROVE HeldGpu'
  OBVIOUS
<1> USE DEF IInv, Typed, HeldGpu
<1>1. CASE Begin
  BY <1>1 DEF Begin, NoReport
<1>2. CASE ApplyNothing
  BY <1>2 DEF ApplyNothing
<1>3. CASE ApplyShaping
  BY <1>3 DEF ApplyShaping, Shaping
<1>4. CASE ShapingRaises
  BY <1>4 DEF ShapingRaises, Shaping
<1>5. CASE ReleaseShaping
  BY <1>5 DEF ReleaseShaping, Released, Shaping
<1>6. CASE ApplyAffinity
  BY <1>6 DEF ApplyAffinity
<1>7. CASE NoCandidate
  BY <1>7 DEF NoCandidate
<1>8. CASE ReleaseAffinity
  BY <1>8 DEF ReleaseAffinity, Released
<1>9. CASE ApplyUclamp
  BY <1>9 DEF ApplyUclamp
<1>10. CASE ReleaseUclamp
  BY <1>10 DEF ReleaseUclamp, Released
<1>11. CASE ApplyGpu
  BY <1>11 DEF ApplyGpu
<1>12. CASE ReleaseGpu
  BY <1>12 DEF ReleaseGpu, Released, RestoreGpu, GpuBack
<1>13. CASE StartScx
  BY <1>13 DEF StartScx
<1>14. CASE ReleaseScx
  BY <1>14 DEF ReleaseScx, Released, StopScx
<1>15. CASE ReleaseNothing
  BY <1>15 DEF ReleaseNothing, Released
<1>16. CASE Capture
  BY <1>16 DEF Capture, InForce
<1>17. CASE CaptureFails
  BY <1>17 DEF CaptureFails
<1>18. CASE Abort
  BY <1>18 DEF Abort
<1>19. CASE Summarize
  BY <1>19 DEF Summarize, Accepted
<1>20. CASE RestoreState
  BY <1>20 DEF RestoreState, RestoreGpu, GpuBack, StopScx
<1>21. CASE Machine
  BY <1>21 DEF Machine, HelperExits, HelperRestarts, ThreadEnds, ThreadStarts, GameExits,
     ScxCrashes, Moves
<1>22. CASE UNCHANGED vars
  BY <1>22 DEF vars
<1>23. QED
  BY <1>1, <1>2, <1>3, <1>4, <1>5, <1>6, <1>7, <1>8, <1>9, <1>10, <1>11, <1>12, <1>13,
     <1>14, <1>15, <1>16, <1>17, <1>18, <1>19, <1>20, <1>21, <1>22 DEF Next, Script

(* The same for the game's floor, unless the game has gone.                 *)
LEMMA NextHeldFloor == IInv /\ TypeInv /\ HeldFloor /\ [Next]_vars => HeldFloor'
<1> SUFFICES ASSUME IInv /\ TypeInv /\ HeldFloor, [Next]_vars PROVE HeldFloor'
  OBVIOUS
<1> USE DEF TypeInv, FloorType, ReportType, HeldFloor
<1>1. CASE Begin
  BY <1>1 DEF Begin, NoReport
<1>2. CASE ApplyNothing
  BY <1>2 DEF ApplyNothing
<1>3. CASE ApplyShaping
  BY <1>3 DEF ApplyShaping, Shaping
<1>4. CASE ShapingRaises
  BY <1>4 DEF ShapingRaises, Shaping
<1>5. CASE ReleaseShaping
  BY <1>5 DEF ReleaseShaping, Released, Shaping
<1>6. CASE ApplyAffinity
  BY <1>6 DEF ApplyAffinity
<1>7. CASE NoCandidate
  BY <1>7 DEF NoCandidate
<1>8. CASE ReleaseAffinity
  BY <1>8 DEF ReleaseAffinity, Released
<1>9. CASE ApplyUclamp
  BY <1>9 DEF ApplyUclamp, FloorOutcomes
<1>10. CASE ReleaseUclamp
  BY <1>10 DEF ReleaseUclamp, Released, FloorHeld
<1>11. CASE ApplyGpu
  BY <1>11 DEF ApplyGpu
<1>12. CASE ReleaseGpu
  BY <1>12 DEF ReleaseGpu, Released, RestoreGpu, GpuBack
<1>13. CASE StartScx
  BY <1>13 DEF StartScx
<1>14. CASE ReleaseScx
  BY <1>14 DEF ReleaseScx, Released, StopScx
<1>15. CASE ReleaseNothing
  BY <1>15 DEF ReleaseNothing, Released
<1>16. CASE Capture
  BY <1>16 DEF Capture, InForce
<1>17. CASE CaptureFails
  BY <1>17 DEF CaptureFails
<1>18. CASE Abort
  BY <1>18 DEF Abort
<1>19. CASE Summarize
  BY <1>19 DEF Summarize, Accepted
<1>20. CASE RestoreState
  BY <1>20 DEF RestoreState, RestoreGpu, GpuBack, StopScx
<1>21. CASE Machine
  BY <1>21 DEF Machine, HelperExits, HelperRestarts, ThreadEnds, ThreadStarts, GameExits,
     ScxCrashes, Moves
<1>22. CASE UNCHANGED vars
  BY <1>22 DEF vars
<1>23. QED
  BY <1>1, <1>2, <1>3, <1>4, <1>5, <1>6, <1>7, <1>8, <1>9, <1>10, <1>11, <1>12, <1>13,
     <1>14, <1>15, <1>16, <1>17, <1>18, <1>19, <1>20, <1>21, <1>22 DEF Next, Script

(* The same for the pins, unless a thread has gone.                         *)
LEMMA NextHeldPins == IInv /\ TypeInv /\ HeldPins /\ [Next]_vars => HeldPins'
<1> SUFFICES ASSUME IInv /\ TypeInv /\ HeldPins, [Next]_vars PROVE HeldPins'
  OBVIOUS
<1> USE DEF TypeInv, ThreadType, Thread, ReportType, HeldPins, Snapped, Replaced
<1>1. CASE Begin
  BY <1>1 DEF Begin, NoReport
<1>2. CASE ApplyNothing
  BY <1>2 DEF ApplyNothing
<1>3. CASE ApplyShaping
  BY <1>3 DEF ApplyShaping, Shaping
<1>4. CASE ShapingRaises
  BY <1>4 DEF ShapingRaises, Shaping
<1>5. CASE ReleaseShaping
  BY <1>5 DEF ReleaseShaping, Released, Shaping
<1>6. CASE ApplyAffinity
  BY <1>6 DEF ApplyAffinity, Masked, Stale
<1>7. CASE NoCandidate
  BY <1>7 DEF NoCandidate
<1>8. CASE ReleaseAffinity
  BY <1>8 DEF ReleaseAffinity, Released, Masked, Unpinned
<1>9. CASE ApplyUclamp
  BY <1>9 DEF ApplyUclamp
<1>10. CASE ReleaseUclamp
  BY <1>10 DEF ReleaseUclamp, Released
<1>11. CASE ApplyGpu
  BY <1>11 DEF ApplyGpu
<1>12. CASE ReleaseGpu
  BY <1>12 DEF ReleaseGpu, Released, RestoreGpu, GpuBack
<1>13. CASE StartScx
  BY <1>13 DEF StartScx
<1>14. CASE ReleaseScx
  BY <1>14 DEF ReleaseScx, Released, StopScx
<1>15. CASE ReleaseNothing
  BY <1>15 DEF ReleaseNothing, Released
<1>16. CASE Capture
  BY <1>16 DEF Capture, InForce
<1>17. CASE CaptureFails
  BY <1>17 DEF CaptureFails
<1>18. CASE Abort
  BY <1>18 DEF Abort
<1>19. CASE Summarize
  BY <1>19 DEF Summarize, Accepted
<1>20. CASE RestoreState
  BY <1>20 DEF RestoreState, RestoreGpu, GpuBack, StopScx
<1>21. CASE Machine
  BY <1>21 DEF Machine, HelperExits, HelperRestarts, ThreadEnds, ThreadStarts, GameExits,
     ScxCrashes, Moves, NoTask
<1>22. CASE UNCHANGED vars
  BY <1>22 DEF vars
<1>23. QED
  BY <1>1, <1>2, <1>3, <1>4, <1>5, <1>6, <1>7, <1>8, <1>9, <1>10, <1>11, <1>12, <1>13,
     <1>14, <1>15, <1>16, <1>17, <1>18, <1>19, <1>20, <1>21, <1>22 DEF Next, Script

(* The same for the scheduler, unless it has crashed.                       *)
LEMMA NextHeldScx == IInv /\ TypeInv /\ HeldScx /\ [Next]_vars => HeldScx'
<1> SUFFICES ASSUME IInv /\ TypeInv /\ HeldScx, [Next]_vars PROVE HeldScx'
  OBVIOUS
<1> USE DEF IInv, Typed, MarkedWhereHeld, HeldScx
<1>1. CASE Begin
  BY <1>1 DEF Begin, NoReport
<1>2. CASE ApplyNothing
  BY <1>2 DEF ApplyNothing
<1>3. CASE ApplyShaping
  BY <1>3 DEF ApplyShaping, Shaping
<1>4. CASE ShapingRaises
  BY <1>4 DEF ShapingRaises, Shaping
<1>5. CASE ReleaseShaping
  BY <1>5 DEF ReleaseShaping, Released, Shaping
<1>6. CASE ApplyAffinity
  BY <1>6 DEF ApplyAffinity
<1>7. CASE NoCandidate
  BY <1>7 DEF NoCandidate
<1>8. CASE ReleaseAffinity
  BY <1>8 DEF ReleaseAffinity, Released
<1>9. CASE ApplyUclamp
  BY <1>9 DEF ApplyUclamp
<1>10. CASE ReleaseUclamp
  BY <1>10 DEF ReleaseUclamp, Released
<1>11. CASE ApplyGpu
  BY <1>11 DEF ApplyGpu
<1>12. CASE ReleaseGpu
  BY <1>12 DEF ReleaseGpu, Released, RestoreGpu, GpuBack
<1>13. CASE StartScx
  BY <1>13 DEF StartScx
<1>14. CASE ReleaseScx
  BY <1>14 DEF ReleaseScx, Released, StopScx, StopEndings, StopResults, Valid
<1>15. CASE ReleaseNothing
  BY <1>15 DEF ReleaseNothing, Released
<1>16. CASE Capture
  BY <1>16 DEF Capture, InForce
<1>17. CASE CaptureFails
  BY <1>17 DEF CaptureFails
<1>18. CASE Abort
  BY <1>18 DEF Abort
<1>19. CASE Summarize
  BY <1>19 DEF Summarize, Accepted
<1>20. CASE RestoreState
  BY <1>20 DEF RestoreState, RestoreGpu, GpuBack, StopScx, StopEndings
<1>21. CASE Machine
  BY <1>21 DEF Machine, HelperExits, HelperRestarts, ThreadEnds, ThreadStarts, GameExits,
     ScxCrashes, Moves
<1>22. CASE UNCHANGED vars
  BY <1>22 DEF vars
<1>23. QED
  BY <1>1, <1>2, <1>3, <1>4, <1>5, <1>6, <1>7, <1>8, <1>9, <1>10, <1>11, <1>12, <1>13,
     <1>14, <1>15, <1>16, <1>17, <1>18, <1>19, <1>20, <1>21, <1>22 DEF Next, Script

(* All of them together.                                                    *)
LEMMA NextHeld == IInv /\ TypeInv /\ Held /\ [Next]_vars => Held'
BY NextHeldGpu, NextHeldFloor, NextHeldPins, NextHeldScx DEF Held

(* What is accepted and proven was held, and is back.                       *)
LEMMA HeldIsEvidence ==
  TypeInv /\ FloorBack /\ PinsBack /\ ScxBack /\ Held => EvidenceMeansHeld
BY DEF TypeInv, ThreadType, FloorBack, PinsBack, ScxBack, Away, Held, HeldGpu, HeldFloor,
   HeldPins, HeldScx, EvidenceMeansHeld,
  Accepted, Proven, PinsProven, Lanes, Shaping

(* What counts for a lane was in force when its window closed, and is off   *)
(* the machine again, for any helpers, threads and GTs and on every path.   *)
THEOREM EvidenceIsHeld == Spec => []EvidenceMeansHeld
<1>1. Spec => []TypeInv
  BY InitType, NextType, PTL DEF Spec
<1>2. Spec => []Back
  BY <1>1, LeaseInvariant, InitBack, NextBack, PTL DEF Spec
<1>3. Spec => []Held
  BY <1>1, LeaseInvariant, InitHeld, NextHeld, PTL DEF Spec
<1>4. Back => FloorBack /\ PinsBack /\ ScxBack
  BY DEF Back
<1>5. QED
  BY <1>1, <1>2, <1>3, <1>4, HeldIsEvidence, PTL


----------------------------------------------------------------------------
(***************************************************************************)
(* From the runs to the unlocked lane (Verdicts).                          *)
(***************************************************************************)

AllPositions == {"baseline-before", "candidate", "baseline-after"}

(* What a summary may say.                                                 *)
Runs ==
  [id : Nat \X Nat, position : AllPositions, policy : Policies,
   candidate : Candidates \union {"none"}, tdp : {p.tdp : p \in Plans},
   fps : {p.fps : p \in Plans}, scene : {p.scene : p \in Plans}, controlled : BOOLEAN,
   source : {"ac", "battery", "mixed"}, start : Nat, cooled : BOOLEAN,
   restored : BOOLEAN, proof : BOOLEAN, low : Nat, watts : Nat]

(* A controlled run is the candidate of its session or one of the two runs *)
(* with policy off around it.                                              *)
Placed(r) ==
  /\ r.policy = "off" <=> r.position # "candidate"
  /\ r.controlled => r.policy \in {r.candidate, "off"} /\ r.candidate # "off"

RootOK == root \in Seq(Runs) /\ \A i \in DOMAIN root : Placed(root[i])

(* What a comparison that says BETTER rests on.                            *)
Compared(c, runs) ==
  LET ids == {r.id : r \in runs}
  IN /\ c.policy \in Policies /\ runs # {}
     /\ Cardinality(ids) >= MinRuns
     /\ \A id \in ids : FairPair(runs, id)
     /\ Cardinality({r.scene : r \in runs}) = 1
     /\ {r.source : r \in runs} \in {{"ac"}, {"battery"}}
     /\ \A r \in runs : r.policy \in Policies /\ r.tdp = c.tdp /\ r.fps = c.fps
     /\ \A r \in runs : r.policy # "off" =>
          /\ r.policy = c.policy
          /\ c.policy = "target-balance-uclampmin" => r.proof

LEMMA Singletons ==
  ASSUME NEW S, IsFiniteSet(S)
  PROVE  Cardinality(S) \in Nat /\ (Cardinality(S) = 1 <=> \E x : S = {x})
BY FS_CardinalityType, FS_Singleton

LEMMA RootFacts ==
  ASSUME RootOK
  PROVE  /\ IsFiniteSet(DOMAIN root)
         /\ \A i \in DOMAIN root : root[i] \in Runs /\ Placed(root[i])
<1>1. DOMAIN root = 1..Len(root) /\ Len(root) \in Nat
  BY DEF RootOK
<1>2. IsFiniteSet(DOMAIN root)
  BY <1>1, FS_Interval
<1>3. QED
  BY <1>1, <1>2 DEF RootOK

LEMMA ThreeElements ==
  ASSUME NEW x, NEW y, NEW z, x # y, x # z, y # z
  PROVE  IsFiniteSet({x, y}) /\ Cardinality({x, y, z}) = 3
<1>1. IsFiniteSet({x}) /\ Cardinality({x}) = 1 /\ y \notin {x}
  BY FS_Singleton
<1> DEFINE S == {x} \union {y}
           T == S \union {z}
<1>2. IsFiniteSet(S) /\ Cardinality(S) = 1 + 1
  BY <1>1, FS_AddElement
<1>3. z \notin S /\ S = {x, y} /\ T = {x, y, z}
  OBVIOUS
<1> HIDE DEF S
<1>4. Cardinality(T) = 1 + 1 + 1
  BY <1>2, <1>3, FS_AddElement
<1>5. QED
  BY <1>2, <1>3, <1>4

(* One run in a position: it counts once, and there is no other.           *)
LEMMA CountsOne ==
  ASSUME NEW S, IsFiniteSet(S), NEW twice, Count(S, twice) = 1
  PROVE  \E i : S = {i} /\ i \notin twice
<1> DEFINE T == S \intersect twice
<1>1. IsFiniteSet(T) /\ T \subseteq S
  BY FS_Subset
<1>2. /\ Cardinality(S) \in Nat /\ Cardinality(T) \in Nat
      /\ (Cardinality(S) = 0 <=> S = {}) /\ (Cardinality(T) = 0 <=> T = {})
  BY <1>1, FS_CardinalityType, FS_EmptySet
<1>3. Cardinality(S) + Cardinality(T) = 1
  BY DEF Count
<1> HIDE DEF T
<1>4. Cardinality(S) = 1 /\ T = {}
  <2>1. CASE Cardinality(S) = 0
    BY <1>1, <1>2, <1>3, <2>1
  <2>2. CASE Cardinality(S) # 0
    BY <1>2, <1>3, <2>2
  <2>3. QED
    BY <2>1, <2>2
<1>5. PICK i : S = {i}
  BY <1>4, Singletons
<1>6. QED
  BY <1>4, <1>5 DEF T

LEMMA GroupsOfContext ==
  ASSUME RootOK, NEW picked \in SUBSET DOMAIN root, NEW b, NEW c,
         \A i \in picked : root[i].controlled, 
         \E i \in picked : root[i] = c,
         b.policy = "off", c.policy # "off", ContextKey(b) = ContextKey(c)
  PROVE  /\ ContextOf(picked, c) = GroupOf(picked, b) \union GroupOf(picked, c)
         /\ \A i \in GroupOf(picked, b) : root[i].position # "candidate"
         /\ \A i \in GroupOf(picked, c) : root[i].position = "candidate"
<1>1. \A i \in picked : root[i] \in Runs /\ Placed(root[i]) /\ root[i].controlled
  BY RootFacts
<1>2. c.policy = c.candidate
  BY <1>1 DEF Placed
<1>3. \A i \in ContextOf(picked, c) : root[i].policy \in {c.policy, "off"}
  BY <1>1, <1>2 DEF Placed, ContextOf, ContextKey
<1>4. ContextOf(picked, c) \subseteq GroupOf(picked, b) \union GroupOf(picked, c)
  BY <1>3 DEF ContextOf, ContextKey, GroupOf, Key
<1>5. GroupOf(picked, b) \union GroupOf(picked, c) \subseteq ContextOf(picked, c)
  BY DEF ContextOf, ContextKey, GroupOf, Key
<1>6. QED
  BY <1>1, <1>4, <1>5 DEF GroupOf, Key, Placed

(* The runs of a pair that passes the gate.                                *)
LEMMA GatePair ==
  ASSUME RootOK, NEW base \in SUBSET DOMAIN root, NEW cand \in SUBSET DOMAIN root,
         NEW twice, NEW id \in PairsOf(cand),
         \A i \in base : root[i].position # "candidate",
         \A i \in cand : root[i].position = "candidate",
         PairwiseGate(base, cand, twice), AllRestored(base), AllRestored(cand)
  PROVE  /\ FairPair({root[i] : i \in base \union cand}, id)
         /\ \E i \in cand : {j \in cand : root[j].id = id} = {i} /\ i \notin twice
<1> DEFINE C  == {i \in cand : root[i].id = id /\ root[i].position = "candidate"}
           B1 == {i \in base : root[i].id = id /\ root[i].position = "baseline-before"}
           B2 == {i \in base : root[i].id = id /\ root[i].position = "baseline-after"}
           runs == {root[i] : i \in base \union cand}
           pair == {r \in runs : r.id = id}
<1>1. IsFiniteSet(C) /\ IsFiniteSet(B1) /\ IsFiniteSet(B2)
  BY RootFacts, FS_Subset
<1>2. Count(C, twice) = 1 /\ Count(B1, twice) = 1 /\ Count(B2, twice) = 1
  BY DEF PairwiseGate, PairsMatch, CountAt
<1>3. /\ \A i \in base \union cand : root[i] \in Runs
      /\ \A i \in base : root[i].position \in {"baseline-before", "baseline-after"}
  BY RootFacts DEF Runs, AllPositions
<1>4. (\E i : C = {i} /\ i \notin twice) /\ (\E i : B1 = {i}) /\ (\E i : B2 = {i})
  <2> HIDE DEF C, B1, B2
  <2>1. QED
    BY <1>1, <1>2, CountsOne
<1> HIDE DEF C, B1, B2
<1>5. PICK c, b1, b2 : C = {c} /\ c \notin twice /\ B1 = {b1} /\ B2 = {b2}
  BY <1>4
<1> USE DEF C, B1, B2
<1>6. /\ c \in cand /\ root[c].id = id /\ root[c].position = "candidate"
      /\ b1 \in base /\ root[b1].id = id /\ root[b1].position = "baseline-before"
      /\ b2 \in base /\ root[b2].id = id /\ root[b2].position = "baseline-after"
  BY <1>5
<1>7. {j \in cand : root[j].id = id} = {c}
  BY <1>5
<1>8. \A i \in base : root[i].id = id => i \in {b1, b2}
  BY <1>3, <1>5
<1>9. pair = {root[c], root[b1], root[b2]}
  BY <1>6, <1>7, <1>8
<1>10. Cardinality(pair) = 3
  <2>1. root[c] # root[b1] /\ root[c] # root[b2] /\ root[b1] # root[b2]
    BY <1>6
  <2>2. Cardinality({root[c], root[b1], root[b2]}) = 3
    BY <2>1, ThreeElements
  <2> HIDE DEF pair
  <2>3. QED
    BY <1>9, <2>2
<1>11. \A r \in pair : r.controlled /\ r.restored /\ r.cooled
  BY <1>6, <1>9 DEF PairwiseGate, EvidenceComplete, AllRestored
<1>12. \A r, q \in pair : r.position = "candidate" => AbDelta(r.start, q.start) <= 5
  <2>1. AbDelta(root[b1].start, root[c].start) <= 5 /\ AbDelta(root[b2].start, root[c].start) <= 5
    BY <1>6 DEF PairwiseGate, StartsMatch
  <2>2. root[c].start \in Nat /\ root[b1].start \in Nat /\ root[b2].start \in Nat
    BY <1>3, <1>6 DEF Runs
  <2>3. AbDelta(root[c].start, root[b1].start) <= 5 /\ AbDelta(root[c].start, root[b2].start) <= 5
        /\ AbDelta(root[c].start, root[c].start) <= 5
    BY <2>1, <2>2 DEF AbDelta
  <2>4. QED
    BY <1>6, <1>9, <2>3
<1>13. FairPair(runs, id)
  <2>1. \A spot \in AllPositions : \E r \in pair : r.position = spot
    BY <1>6, <1>9 DEF AllPositions
  <2>2. QED
    BY <1>10, <1>11, <1>12, <2>1 DEF FairPair, AllPositions
<1>14. QED
  BY <1>5, <1>6, <1>7, <1>13

(* The runs of a comparison that says BETTER.                              *)
LEMMA BetterCompared ==
  ASSUME RootOK, NEW picked \in SUBSET DOMAIN root, NEW b, NEW c, NEW twice,
         \E i \in picked : root[i] = c, \E i \in picked : root[i] = b,
         b.policy = "off", c.policy # "off", ContextKey(b) = ContextKey(c),
         Better(GroupOf(picked, b), GroupOf(picked, c), twice),
         LaneProven(GroupOf(picked, c)),
         \A i, j \in picked : root[i].controlled = root[j].controlled
  PROVE  Compared(c, {root[i] : i \in ContextOf(picked, c)})
<1> DEFINE base == GroupOf(picked, b)
           cand == GroupOf(picked, c)
           runs == {root[i] : i \in ContextOf(picked, c)}
           ids == {r.id : r \in runs}
<1>1. base \in SUBSET picked /\ cand \in SUBSET picked /\ cand # {} /\ base # {}
  BY DEF GroupOf
<1>2. PairwiseGate(base, cand, twice) /\ AllRestored(base) /\ AllRestored(cand)
      /\ Count(cand, twice) >= MinRuns
  BY DEF Better
<1>3. \A i \in picked : root[i].controlled
  BY <1>1, <1>2 DEF PairwiseGate, EvidenceComplete
<1>4. /\ ContextOf(picked, c) = base \union cand
      /\ \A i \in base : root[i].position # "candidate"
      /\ \A i \in cand : root[i].position = "candidate"
  BY <1>3, GroupsOfContext
<1>5. /\ \A i \in base : root[i].policy = "off"
      /\ \A i \in cand : root[i].policy = c.policy
      /\ \A i \in base \union cand : root[i].tdp = c.tdp /\ root[i].fps = c.fps
  BY DEF GroupOf, Key, ContextKey
<1>6. \A i \in base \union cand : root[i] \in Runs
  BY <1>1, RootFacts
<1>7. LaneProven(cand)
  OBVIOUS
<1> HIDE DEF base, cand
<1>8. runs = {root[i] : i \in base \union cand}
  BY <1>4
<1>9. ids = PairsOf(cand) /\ \A id : id \in PairsOf(cand) <=> \E i \in cand : root[i].id = id
  <2>1. PairsOf(base) = PairsOf(cand)
    BY <1>2 DEF PairwiseGate, PairsMatch
  <2>2. \A id : /\ id \in PairsOf(base) <=> \E i \in base : root[i].id = id
                /\ id \in PairsOf(cand) <=> \E i \in cand : root[i].id = id
    BY DEF PairsOf, Values
  <2>3. \A r : r \in runs <=> \E i \in base \union cand : r = root[i]
    BY <1>8
  <2> HIDE DEF runs
  <2>4. \A id : id \in ids <=> \E i \in base \union cand : root[i].id = id
    BY <2>3
  <2> HIDE DEF ids
  <2> DEFINE P == PairsOf(cand)
  <2>5. ids = P
    <3>1. \A id : id \in P <=> \E i \in base : root[i].id = id
      BY <2>1, <2>2
    <3>2. \A id : id \in P <=> \E i \in cand : root[i].id = id
      BY <2>2
    <3>3. \A id : id \in ids <=> id \in P
      BY <2>4, <3>1, <3>2
    <3> HIDE DEF P
    <3>4. QED
      BY <3>3
  <2>6. QED
    BY <2>2, <2>5
<1> HIDE DEF ids
<1>10. \A id \in ids :
         /\ FairPair(runs, id)
         /\ \E i \in cand : {j \in cand : root[j].id = id} = {i} /\ i \notin twice
  <2>1. base \in SUBSET DOMAIN root /\ cand \in SUBSET DOMAIN root
    BY <1>1
  <2> HIDE DEF runs
  <2>2. ASSUME NEW id \in PairsOf(cand)
        PROVE  /\ FairPair({root[i] : i \in base \union cand}, id)
               /\ \E i \in cand : {j \in cand : root[j].id = id} = {i} /\ i \notin twice
    BY <1>2, <1>4, <2>1, GatePair
  <2>3. QED
    BY <1>8, <1>9, <2>2
<1>11. Cardinality(ids) >= MinRuns
  <2> DEFINE f == [i \in cand |-> root[i].id]
  <2>1. IsFiniteSet(cand)
    BY <1>1, RootFacts, FS_Subset
  <2>2. f \in Surjection(cand, ids)
    BY <1>9 DEF Surjection
  <2>3. f \in Injection(cand, ids)
    <3>1. ASSUME NEW i \in cand, NEW j \in cand, f[i] = f[j] PROVE i = j
      <4>1. root[i].id \in ids /\ root[j].id = root[i].id
        BY <1>9, <3>1
      <4>2. PICK k \in cand : {m \in cand : root[m].id = root[i].id} = {k}
        BY <1>10, <4>1
      <4>3. QED
        BY <4>1, <4>2
    <3>2. f \in [cand -> ids]
      BY <1>9
    <3> HIDE DEF f
    <3>3. QED
      BY <3>1, <3>2 DEF Injection, IsInjective
  <2> HIDE DEF f, ids
  <2>4. Cardinality(ids) = Cardinality(cand)
    BY <2>1, <2>2, <2>3, FS_Surjection
  <2>5. Cardinality(cand) \in Nat
    BY <2>1, FS_CardinalityType
  <2>6. Cardinality(cand \intersect twice) = 0
    <3>1. ASSUME NEW i \in cand PROVE i \notin twice
      <4>1. root[i].id \in ids
        BY <1>9
      <4>2. PICK k \in cand : {m \in cand : root[m].id = root[i].id} = {k} /\ k \notin twice
        BY <1>10, <4>1
      <4>3. QED
        BY <4>2
    <3>2. cand \intersect twice = {}
      BY <3>1
    <3>3. QED
      BY <3>2, FS_EmptySet
  <2>7. QED
    BY <1>2, <2>4, <2>5, <2>6 DEF Count
<1>12. /\ Cardinality({r.scene : r \in runs}) = 1
       /\ {r.source : r \in runs} \in {{"ac"}, {"battery"}}
  <2>1. /\ {r.scene : r \in runs} = Values(base, "scene") \union Values(cand, "scene")
        /\ {r.source : r \in runs} = Values(base, "source") \union Values(cand, "source")
    <3>1. \A r : r \in runs <=> \E i \in base \union cand : r = root[i]
      BY <1>8
    <3> HIDE DEF runs
    <3>2. {r.scene : r \in runs} = {root[i].scene : i \in base} \union {root[i].scene : i \in cand}
      BY <3>1
    <3>3. {r.source : r \in runs} = {root[i].source : i \in base} \union {root[i].source : i \in cand}
      BY <3>1
    <3>4. QED
      BY <3>2, <3>3 DEF Values
  <2>2. /\ Values(base, "scene") = Values(cand, "scene")
        /\ Values(base, "source") = Values(cand, "source")
        /\ Cardinality(Values(cand, "scene")) = 1
        /\ Cardinality(Values(cand, "source")) = 1
        /\ Values(cand, "source") \subseteq {"ac", "battery"}
    BY <1>2 DEF PairwiseGate, EvidenceComplete, Agree
  <2>3. IsFiniteSet({"ac", "battery"})
    <3>1. "ac" # "battery" /\ "ac" # "mixed" /\ "battery" # "mixed"
      OBVIOUS
    <3>2. QED
      BY <3>1, ThreeElements
  <2>4. IsFiniteSet(Values(cand, "source"))
    BY <2>2, <2>3, FS_Subset
  <2>5. \E x : Values(cand, "source") = {x}
    BY <2>2, <2>4, Singletons
  <2>6. QED
    BY <2>1, <2>2, <2>5
<1>13. \A r \in runs : r.policy \in Policies /\ r.tdp = c.tdp /\ r.fps = c.fps
  BY <1>5, <1>6, <1>8 DEF Runs
<1>14. \A r \in runs : r.policy # "off" =>
         r.policy = c.policy /\ (c.policy = "target-balance-uclampmin" => r.proof)
  BY <1>5, <1>7, <1>8 DEF LaneProven
<1>15. c.policy \in Policies /\ runs # {}
  BY <1>1, <1>5, <1>6, <1>8 DEF Runs
<1> HIDE DEF runs
<1>16. Compared(c, runs)
  BY <1>10, <1>11, <1>12, <1>13, <1>14, <1>15 DEF Compared, ids
<1>17. QED
  BY <1>16 DEF runs

(* Every comparison of an aggregate is one, whatever roots it was given.   *)
LEMMA AggregateCompared ==
  ASSUME RootOK, NEW roots, NEW wanted, NEW controlled, NEW twice,
         NEW d \in Aggregate(Selected(roots, wanted, controlled), twice)
  PROVE  /\ d.runs \subseteq DOMAIN root
         /\ Compared(d, EntryRuns(d))
<1> DEFINE picked == Selected(roots, wanted, controlled)
<1>1. picked \in SUBSET DOMAIN root /\ \A i, j \in picked : root[i].controlled = root[j].controlled
  BY DEF Selected
<1> HIDE DEF picked
<1>2. PICK c, b :
        /\ \E i \in picked : root[i] = c
        /\ \E i \in picked : root[i] = b
        /\ c.policy # "off" /\ b.policy = "off" /\ ContextKey(b) = ContextKey(c)
        /\ Better(GroupOf(picked, b), GroupOf(picked, c), twice)
        /\ LaneProven(GroupOf(picked, c))
        /\ d = [policy |-> c.policy, tdp |-> c.tdp, fps |-> c.fps, runs |-> ContextOf(picked, c)]
  BY DEF Aggregate, picked
<1>3. Compared(c, {root[i] : i \in ContextOf(picked, c)})
  BY <1>1, <1>2, BetterCompared
<1>4. d.runs = ContextOf(picked, c) /\ d.policy = c.policy /\ d.tdp = c.tdp /\ d.fps = c.fps
  BY <1>2
<1>5. d.runs \subseteq DOMAIN root
  BY <1>1, <1>4 DEF ContextOf
<1>6. QED
  BY <1>3, <1>4, <1>5 DEF Compared, EntryRuns

----------------------------------------------------------------------------
(* What an entry of the ledger rests on, whoever holds a copy of it.       *)
Evident(e, runs) ==
  LET ids == {r.id : r \in runs}
  IN /\ e.bucket \in Buckets
     /\ e.actuator \in UNION {ActuatorsOf(p) : p \in Policies}
     /\ runs # {}
     /\ Cardinality(ids) >= MinRuns
     /\ \A id \in ids : FairPair(runs, id)
     /\ Cardinality({r.scene : r \in runs}) = 1
     /\ {r.source : r \in runs} \in {{"ac"}, {"battery"}}
     /\ \A r \in runs : r.policy \in Policies /\ Bucket(r.tdp) = e.bucket /\ r.fps = e.fps
     /\ \A r \in runs : r.policy # "off" =>
          /\ e.actuator \in ActuatorsOf(r.policy)
          /\ e.actuator = "uclamp-min" => r.proof

Evidenced(e) == e.runs \in SUBSET DOMAIN root /\ Evident(e, EntryRuns(e))
Backed(c) == c.runs \in SUBSET DOMAIN root /\ Compared(c, EntryRuns(c))

LEMMA OneLaneNeedsProof ==
  \A p : "uclamp-min" \in ActuatorsOf(p) => p = "target-balance-uclampmin"
BY DEF ActuatorsOf

LEMMA BucketChosen ==
  \A watts : Bucket(watts) # NoBucket => Bucket(watts) \in Buckets
<1> TAKE watts
<1> DEFINE near == {b \in Buckets : AbDelta(b, watts) <= 2}
<1>1. CASE near = {}
  BY <1>1 DEF Bucket
<1>2. CASE near # {}
  <2>1. Bucket(watts) \in near
    BY <1>2 DEF Bucket
  <2>2. QED
    BY <2>1
<1>3. QED
  BY <1>1, <1>2

LEMMA EntriesHeld ==
  ASSUME NEW comparisons, \A c \in comparisons : Backed(c)
  PROVE  \A e \in Entries(comparisons) : Evidenced(e)
<1> SUFFICES ASSUME NEW e \in Entries(comparisons) PROVE Evidenced(e)
  OBVIOUS
<1>1. PICK c \in comparisons : \E a \in ActuatorsOf(c.policy) :
        /\ Bucket(c.tdp) # NoBucket
        /\ e = [actuator |-> a, bucket |-> Bucket(c.tdp), fps |-> c.fps,
                kernel |-> kernel, runs |-> c.runs]
  BY DEF Entries
<1>2. /\ e.actuator \in ActuatorsOf(c.policy) /\ e.bucket = Bucket(c.tdp)
      /\ e.fps = c.fps /\ e.runs = c.runs
  BY <1>1
<1>3. e.bucket \in Buckets
  BY <1>1, <1>2, BucketChosen
<1>4. c.runs \in SUBSET DOMAIN root /\ Compared(c, EntryRuns(c))
  BY <1>1 DEF Backed
<1>5. EntryRuns(e) = EntryRuns(c)
  BY <1>2 DEF EntryRuns
<1> DEFINE runs == EntryRuns(e)
<1> HIDE DEF runs
<1>6. Compared(c, runs)
  BY <1>4, <1>5 DEF runs
<1>7. c.policy \in Policies /\ e.actuator \in UNION {ActuatorsOf(p) : p \in Policies}
  BY <1>2, <1>6 DEF Compared
<1>8. \A r \in runs : r.policy # "off" =>
        e.actuator \in ActuatorsOf(r.policy) /\ (e.actuator = "uclamp-min" => r.proof)
  <2>1. \A r \in runs : r.policy # "off" =>
          r.policy = c.policy /\ (c.policy = "target-balance-uclampmin" => r.proof)
    BY <1>6 DEF Compared
  <2>2. QED
    BY <1>2, <2>1, OneLaneNeedsProof
<1>9. Evident(e, runs)
  BY <1>2, <1>3, <1>6, <1>7, <1>8 DEF Compared, Evident
<1>10. QED
  BY <1>2, <1>4, <1>9 DEF Evidenced, runs

(* Recording adds runs and touches none.                                   *)
LEMMA RunsStay ==
  ASSUME RootOK, NEW x, root' = root \/ root' = Append(root, x)
  PROVE  /\ \A e : Evidenced(e) => Evidenced(e)'
         /\ \A c : Backed(c) => Backed(c)'
<1>1. \A e : e.runs \in SUBSET DOMAIN root =>
         e.runs \in SUBSET DOMAIN root' /\ EntryRuns(e)' = EntryRuns(e)
  <2>1. CASE root' = root
    BY <2>1 DEF EntryRuns
  <2>2. CASE root' = Append(root, x)
    <3>1. /\ DOMAIN root = 1..Len(root) /\ Len(root) \in Nat
          /\ DOMAIN root' = 1..(Len(root) + 1)
          /\ \A i \in DOMAIN root : root'[i] = root[i]
      BY <2>2 DEF RootOK
    <3>2. DOMAIN root \subseteq DOMAIN root'
      BY <3>1
    <3>3. TAKE e
    <3>4. HAVE e.runs \in SUBSET DOMAIN root
    <3>5. {root'[i] : i \in e.runs} = {root[i] : i \in e.runs}
      BY <3>1, <3>4
    <3>6. QED
      BY <3>2, <3>4, <3>5 DEF EntryRuns
  <2>3. QED
    BY <2>1, <2>2
<1>2. \A e : Evidenced(e) => Evidenced(e)'
  <2>1. TAKE e
  <2>2. HAVE Evidenced(e)
  <2>3. EntryRuns(e)' = EntryRuns(e) /\ e.runs \in SUBSET DOMAIN root' /\ Evident(e, EntryRuns(e))
    BY <1>1, <2>2 DEF Evidenced
  <2> DEFINE now == EntryRuns(e)
             then == EntryRuns(e)'
  <2>4. Evident(e, then)
    <3>1. then = now /\ Evident(e, now)
      BY <2>3
    <3> HIDE DEF now, then
    <3>2. QED
      BY <3>1
  <2>5. QED
    BY <2>3, <2>4 DEF Evidenced, Evident, FairPair
<1>3. \A c : Backed(c) => Backed(c)'
  <2>1. TAKE c
  <2>2. HAVE Backed(c)
  <2>3. EntryRuns(c)' = EntryRuns(c) /\ c.runs \in SUBSET DOMAIN root' /\ Compared(c, EntryRuns(c))
    BY <1>1, <2>2 DEF Backed
  <2> DEFINE now == EntryRuns(c)
             then == EntryRuns(c)'
  <2>4. Compared(c, then)
    <3>1. then = now /\ Compared(c, now)
      BY <2>3
    <3> HIDE DEF now, then
    <3>2. QED
      BY <3>1
  <2>5. QED
    BY <2>3, <2>4 DEF Backed, Compared, FairPair
<1>4. QED
  BY <1>2, <1>3

----------------------------------------------------------------------------
(* The inductive invariant, part by part.                                  *)
Sessions ==
  /\ DOMAIN session = {"n", "plan", "pair", "at"}
  /\ session.n \in 0..MaxSessions /\ session.at \in 0..3
  /\ session.pair \in 0..Repeats
  /\ session.at > 0 => session.plan \in Plans

(* The files an export has touched, and the one it still has to write.     *)
Files ==
  /\ DOMAIN file = Paths
  /\ \A p \in Paths :
       /\ file[p].there \in {"absent", "broken", "whole"}
       /\ file[p].there # "whole" => file[p].entries = {}
       /\ file[p].mtime \in 0..clock
       /\ \A e \in file[p].entries : Evidenced(e)
Exports ==
  /\ export # NoExport => export.path \in Paths
  /\ \A e \in export.entries : Evidenced(e)

Clocked ==
  /\ clock \in Nat /\ writes \in 0..MaxWrites
  /\ clock <= 2 * writes
  /\ export # NoExport => clock + 1 <= 2 * writes

Copied(c) ==
  /\ DOMAIN c = {"status", "path", "mtime", "entries"}
  /\ c.status \in {"unavailable", "corrupt", "ready"}
  /\ c.status # "ready" => c.entries = {}
  /\ \A e \in c.entries : Evidenced(e)

Ticking(g) ==
  /\ DOMAIN g = {"at", "ctx", "todo", "path", "text", "active"}
  /\ g.at \in {"idle", "check", "load", "read", "stat"}
  /\ g.at \in {"read", "stat"} => g.path \in Paths
  /\ \A e \in g.text : Evidenced(e)
  /\ \A a \in g.active : /\ Evidenced(a.entry)
                         /\ a.entry.bucket = Bucket(a.ctx.pl1)
                         /\ a.entry.fps = a.ctx.fps

Around ==
  source \in {"ac", "battery"} /\ kernel \in {1, 2} /\ accidents \in 0..MaxAccidents

VInv ==
  /\ RootOK /\ Sessions /\ Files /\ Exports /\ Clocked /\ Around
  /\ Copied(cache) /\ Ticking(gov)
  /\ \A c \in kept : Backed(c)

LEMMA FirstTickTicking ==
  \A at \in {"idle", "load"} : Ticking(FirstTick(at))
BY DEF Ticking, FirstTick

LEMMA NoCacheCopied == Copied(NoCache)
BY DEF Copied, NoCache

LEMMA InitInvariant ==
  VerdictInit => VInv
<1> SUFFICES ASSUME VerdictInit PROVE VInv
  OBVIOUS
<1> USE VerdictsAssumption DEF VerdictInit
<1>1. RootOK
  <2>1. << >> \in Seq(Runs) /\ DOMAIN << >> = {}
    OBVIOUS
  <2>2. QED
    BY <2>1 DEF RootOK
<1>2. Sessions
  BY DEF Sessions, NoSession
<1>3. Files
  BY DEF Files, Absent
<1>4. Exports /\ Clocked /\ Around
  BY DEF Exports, NoExport, Clocked, Around
<1>5. Copied(cache) /\ Ticking(gov)
  BY FirstTickTicking, NoCacheCopied
<1>6. QED
  BY <1>1, <1>2, <1>3, <1>4, <1>5 DEF VInv

LEMMA AnswerTicking ==
  ASSUME Ticking(gov), NEW c, Copied(c)
  PROVE  Ticking(Answer(c))
<1>1. CASE gov.todo = <<>>
  BY <1>1, FirstTickTicking DEF Answer
<1>2. CASE gov.todo # <<>>
  <2> DEFINE last == Len(gov.todo) = 1
             at == IF last THEN "idle" ELSE "check"
             ctx == IF last THEN AnyContext ELSE gov.ctx
             found == {[entry |-> e, ctx |-> gov.ctx] : e \in Matches(c, Head(gov.todo))}
             active == gov.active \union found
             todo == Tail(gov.todo)
             g == [gov EXCEPT !.active = active, !.todo = todo, !.text = {},
                     !.path = "none", !.at = at, !.ctx = ctx]
  <2>1. Answer(c) = g
    BY <1>2 DEF Answer
  <2>2. at \in {"idle", "check"}
    OBVIOUS
  <2>3. \A a \in active : /\ Evidenced(a.entry)
                          /\ a.entry.bucket = Bucket(a.ctx.pl1)
                          /\ a.entry.fps = a.ctx.fps
    <3>1. \A a \in found : /\ Evidenced(a.entry)
                           /\ a.entry.bucket = Bucket(a.ctx.pl1)
                           /\ a.entry.fps = a.ctx.fps
      BY DEF Matches, Copied
    <3> HIDE DEF found
    <3>2. QED
      BY <3>1 DEF Ticking
  <2> HIDE DEF at, ctx, active, todo
  <2>4. Ticking(g)
    BY <2>2, <2>3 DEF Ticking
  <2>5. QED
    BY <2>1, <2>4
<1>3. QED
  BY <1>1, <1>2

----------------------------------------------------------------------------
(* Recording a run. *)

LEMMA SummaryOfRun ==
  ASSUME VInv, NEW how \in Flaws \union {"fine"}, session.at > 0
  PROVE  LET r == Summary(session.plan, session.n, session.pair, session.at, how)
         IN r \in Runs /\ Placed(r)
<1> DEFINE plan == session.plan
           at == session.at
           r == Summary(plan, session.n, session.pair, at, how)
<1>1. plan \in Plans /\ at \in 1..3 /\ session.n \in Nat /\ session.pair \in Nat
  BY VerdictsAssumption DEF VInv, Sessions
<1>2. /\ plan.tdp \in Nat /\ plan.low \in Nat /\ plan.watts \in Nat
      /\ plan.controlled \in BOOLEAN /\ plan.policy # "off" /\ plan.policy \in Candidates
  BY <1>1, VerdictsAssumption DEF Candidates
<1>3. /\ Positions[1] = "baseline-before" /\ Positions[2] = "candidate"
      /\ Positions[3] = "baseline-after"
  BY DEF Positions
<1>4. source \in {"ac", "battery"}
  BY DEF VInv, Around
<1>5. at \in {1, 2, 3}
  BY <1>1
<1>6. Positions[at] \in AllPositions /\ (at = 2 <=> Positions[at] = "candidate")
  BY <1>3, <1>5 DEF AllPositions
<1> HIDE DEF plan, at
<1>7. /\ r.id \in Nat \X Nat /\ r.position \in AllPositions
      /\ r.policy \in Policies /\ r.candidate \in Candidates \union {"none"}
      /\ r.tdp \in {p.tdp : p \in Plans} /\ r.fps \in {p.fps : p \in Plans}
      /\ r.scene \in {p.scene : p \in Plans} /\ r.controlled \in BOOLEAN
      /\ r.source \in {"ac", "battery", "mixed"} /\ r.start \in Nat
      /\ r.cooled \in BOOLEAN /\ r.restored \in BOOLEAN /\ r.proof \in BOOLEAN
      /\ r.low \in Nat /\ r.watts \in Nat
  BY <1>1, <1>2, <1>4, <1>6 DEF Summary, Base, Policies
<1>8. r \in Runs
  <2>1. r = [id |-> r.id, position |-> r.position, policy |-> r.policy,
             candidate |-> r.candidate, tdp |-> r.tdp, fps |-> r.fps, scene |-> r.scene,
             controlled |-> r.controlled, source |-> r.source, start |-> r.start,
             cooled |-> r.cooled, restored |-> r.restored, proof |-> r.proof,
             low |-> r.low, watts |-> r.watts]
    BY DEF Summary
  <2> HIDE DEF r
  <2>2. QED
    BY <1>7, <2>1 DEF Runs
<1>9. Placed(r)
  BY <1>2, <1>6 DEF Summary, Placed
<1>10. QED
  BY <1>8, <1>9 DEF plan, at

LEMMA RecordRunKeeps ==
  ASSUME VInv, NEW how \in Flaws \union {"fine"}, RecordRun(how)
  PROVE  VInv'
<1> DEFINE r == Summary(session.plan, session.n, session.pair, session.at, how)
<1>1. session.at > 0 /\ root' = Append(root, r)
  BY DEF RecordRun
<1>2. r \in Runs /\ Placed(r)
  BY <1>1, SummaryOfRun
<1> HIDE DEF r
<1>3. RootOK'
  <2>1. root \in Seq(Runs) /\ \A i \in DOMAIN root : Placed(root[i])
    BY DEF VInv, RootOK
  <2>2. /\ root' \in Seq(Runs) /\ DOMAIN root = 1..Len(root) /\ Len(root) \in Nat
        /\ DOMAIN root' = 1..(Len(root) + 1)
        /\ \A i \in 1..Len(root) : root'[i] = root[i]
        /\ root'[Len(root) + 1] = r
    BY <1>1, <1>2, <2>1
  <2>3. \A i \in DOMAIN root' : Placed(root'[i])
    BY <1>2, <2>1, <2>2
  <2>4. QED
    BY <2>2, <2>3 DEF RootOK, Placed
<1>4. (\A e : Evidenced(e) => Evidenced(e)') /\ (\A c : Backed(c) => Backed(c)')
  BY <1>1, RunsStay DEF VInv
<1>5. Sessions'
  <2>1. /\ DOMAIN session = {"n", "plan", "pair", "at"}
        /\ session.n \in 0..MaxSessions /\ session.at \in 1..3
        /\ session.pair \in 0..Repeats /\ session.plan \in Plans
    BY <1>1 DEF VInv, Sessions
  <2>2. \/ session.at < 3 /\ session' = [session EXCEPT !.at = session.at + 1]
        \/ session.pair < Repeats /\ session' = [session EXCEPT !.at = 1, !.pair = session.pair + 1]
        \/ session' = [session EXCEPT !.at = 0]
    BY <2>1 DEF RecordRun
  <2> DEFINE at == session.at + 1
             pair == session.pair + 1
  <2>3. CASE session.at < 3 /\ session' = [session EXCEPT !.at = at]
    <3>1. at \in 0..3
      BY <2>1, <2>3
    <3> HIDE DEF at
    <3>2. QED
      BY <2>1, <2>3, <3>1 DEF Sessions
  <2>4. CASE session.pair < Repeats /\ session' = [session EXCEPT !.at = 1, !.pair = pair]
    <3>1. pair \in 0..Repeats
      BY <2>1, <2>4, VerdictsAssumption
    <3> HIDE DEF pair
    <3>2. QED
      BY <2>1, <2>4, <3>1 DEF Sessions
  <2>5. CASE session' = [session EXCEPT !.at = 0]
    BY <2>1, <2>5 DEF Sessions
  <2>6. QED
    BY <2>2, <2>3, <2>4, <2>5
<1>6. Around'
  <2>1. source' \in {"ac", "battery"}
    BY DEF RecordRun, Unplugged, VInv, Around
  <2>2. accidents' \in 0..MaxAccidents
    BY VerdictsAssumption DEF VInv, Around, RecordRun, Accident
  <2>3. QED
    BY <2>1, <2>2 DEF VInv, Around, RecordRun
<1>7. UNCHANGED <<kernel, kept, file, export, clock, cache, gov, writes>>
  BY DEF RecordRun, ledger
<1>8. Files' /\ Exports'
  BY <1>4, <1>7 DEF VInv, Files, Exports
<1>9. Clocked'
  BY <1>7 DEF VInv, Clocked
<1>10. Copied(cache)' /\ Ticking(gov)' /\ \A c \in kept' : Backed(c)'
  BY <1>4, <1>7 DEF VInv, Copied, Ticking
<1>11. QED
  BY <1>3, <1>5, <1>6, <1>8, <1>9, <1>10 DEF VInv

LEMMA SessionKeeps ==
  ASSUME VInv,
         AbortSession \/ MovePlug \/ \E plan \in Plans : StartSession(plan)
  PROVE  VInv'
<1>1. /\ UNCHANGED <<root, kernel, kept, file, export, clock, cache, gov, writes>>
      /\ source' \in {"ac", "battery"}
  BY DEF AbortSession, MovePlug, StartSession, Unplugged, ledger, VInv, Around
<1>2. (\A e : Evidenced(e) => Evidenced(e)') /\ (\A c : Backed(c) => Backed(c)')
  BY <1>1, RunsStay DEF VInv
<1>3. RootOK'
  BY <1>1 DEF VInv, RootOK, Placed
<1>4. Sessions' /\ accidents' \in 0..MaxAccidents
  <2>1. CASE AbortSession
    BY <2>1, VerdictsAssumption DEF AbortSession, Accident, VInv, Sessions, Around
  <2>2. CASE \E plan \in Plans : StartSession(plan)
    <3>1. PICK plan \in Plans : StartSession(plan)
      BY <2>2
    <3> DEFINE n == session.n + 1
    <3>2. session' = [n |-> n, plan |-> plan, pair |-> 1, at |-> 1] /\ n \in 0..MaxSessions
      BY <3>1, VerdictsAssumption DEF StartSession, VInv, Sessions
    <3>3. 1 \in 0..Repeats
      BY VerdictsAssumption
    <3> HIDE DEF n
    <3>4. Sessions'
      BY <3>2, <3>3 DEF Sessions
    <3>5. QED
      BY <3>1, <3>4 DEF StartSession, VInv, Around
  <2>3. CASE MovePlug
    BY <2>3, VerdictsAssumption DEF MovePlug, Accident, VInv, Sessions, Around
  <2>4. QED
    BY <2>1, <2>2, <2>3
<1>5. Around'
  BY <1>1, <1>4 DEF VInv, Around
<1>6. Files' /\ Exports'
  BY <1>1, <1>2 DEF VInv, Files, Exports
<1>7. Clocked'
  BY <1>1 DEF VInv, Clocked
<1>8. Copied(cache)' /\ Ticking(gov)' /\ \A c \in kept' : Backed(c)'
  BY <1>1, <1>2 DEF VInv, Copied, Ticking
<1>9. QED
  BY <1>3, <1>4, <1>5, <1>6, <1>7, <1>8 DEF VInv

----------------------------------------------------------------------------
(* Exports and reports. *)

LEMMA OpenKeeps ==
  ASSUME VInv, NEW path \in Paths, NEW comparisons,
         \A c \in comparisons : Backed(c),
         Write, OpenLedger(path, comparisons),
         UNCHANGED <<root, session, source, kernel, kept, cache, gov, accidents>>
  PROVE  VInv'
<1> DEFINE entries == Entries(comparisons)
<1>1. /\ export = NoExport /\ clock' = clock + 1
      /\ export' = [path |-> path, entries |-> entries]
      /\ file' = [file EXCEPT ![path] = [there |-> "broken", entries |-> {}, mtime |-> clock']]
      /\ writes < MaxWrites /\ writes' = writes + 1
  BY DEF OpenLedger, NewStamp, Broken, Write
<1>2. \A e \in entries : Evidenced(e)
  BY EntriesHeld
<1>3. (\A e : Evidenced(e) => Evidenced(e)') /\ (\A c : Backed(c) => Backed(c)')
  BY RunsStay DEF VInv
<1> HIDE DEF entries
<1>4. Clocked'
  BY <1>1, VerdictsAssumption DEF VInv, Clocked
<1>5. Exports'
  BY <1>1, <1>2, <1>3 DEF Exports
<1>6. Files'
  <2>1. clock \in Nat /\ clock' \in Nat /\ \A t \in 0..clock : t \in 0..clock'
    BY <1>1 DEF VInv, Clocked
  <2>2. clock' \in 0..clock'
    BY <2>1
  <2>3. DOMAIN file = Paths
    BY DEF VInv, Files
  <2>4. /\ file'[path] = [there |-> "broken", entries |-> {}, mtime |-> clock']
        /\ DOMAIN file' = Paths
        /\ \A p \in Paths : p # path => file'[p] = file[p]
    BY <1>1, <2>3
  <2>5. QED
    BY <1>3, <2>1, <2>2, <2>4 DEF VInv, Files
<1>7. RootOK' /\ Sessions' /\ Around'
  BY DEF VInv, RootOK, Placed, Sessions, Around
<1>8. Copied(cache)' /\ Ticking(gov)' /\ \A c \in kept' : Backed(c)'
  BY <1>3 DEF VInv, Copied, Ticking
<1>9. QED
  BY <1>4, <1>5, <1>6, <1>7, <1>8 DEF VInv

LEMMA AggregateBacked ==
  ASSUME RootOK, NEW roots, NEW controlled, NEW twice
  PROVE  \A c \in Aggregate(Selected(roots, Candidates, controlled), twice) : Backed(c)
BY AggregateCompared DEF Backed

LEMMA ExportKeeps ==
  ASSUME VInv, NEW path \in Paths,
         \/ \E roots, twice, controlled : ExportRoot(path, roots, twice, controlled)
         \/ ExportReport(path)
  PROVE  VInv'
<1>1. CASE ExportReport(path)
  BY <1>1, OpenKeeps DEF ExportReport, profiling, ledger, VInv
<1>2. CASE \E roots, twice, controlled : ExportRoot(path, roots, twice, controlled)
  <2>1. PICK roots, twice, controlled : ExportRoot(path, roots, twice, controlled)
    BY <1>2
  <2> DEFINE comparisons == Aggregate(Selected(roots, Candidates, controlled), twice)
  <2>2. /\ Write /\ OpenLedger(path, comparisons)
        /\ UNCHANGED <<root, session, source, kernel, kept, cache, gov, accidents>>
    BY <2>1 DEF ExportRoot, profiling, ledger
  <2>3. \A c \in comparisons : Backed(c)
    BY <2>1, AggregateBacked DEF VInv
  <2> HIDE DEF comparisons
  <2>4. QED
    BY <2>2, <2>3, OpenKeeps
<1>3. QED
  BY <1>1, <1>2

(* The steps that leave the profiler and the daemon alone.                 *)
LEMMA OthersKeep ==
  ASSUME VInv, UNCHANGED <<root, session, source, cache, gov>>,
         Files', Exports', Clocked', Around', \A c \in kept' : Backed(c)
  PROVE  VInv'
<1>1. (\A e : Evidenced(e) => Evidenced(e)') /\ (\A c : Backed(c) => Backed(c)')
  BY RunsStay DEF VInv
<1>2. RootOK' /\ Sessions'
  BY DEF VInv, RootOK, Placed, Sessions
<1>3. Copied(cache)' /\ Ticking(gov)' /\ \A c \in kept' : Backed(c)'
  BY <1>1 DEF VInv, Copied, Ticking
<1>4. QED
  BY <1>2, <1>3 DEF VInv

LEMMA SaveReportKeeps ==
  ASSUME VInv, NEW roots, SaveReport(roots)
  PROVE  VInv'
<1>1. UNCHANGED <<root, session, source, cache, gov, kernel, file, export, clock, accidents>>
  BY DEF SaveReport, profiling, ledger
<1>2. \A e : Evidenced(e) => Evidenced(e)'
  BY <1>1, RunsStay DEF VInv
<1>3. \A c \in kept' : Backed(c)
  BY AggregateBacked DEF SaveReport, VInv
<1>4. Files' /\ Exports' /\ Around'
  BY <1>1, <1>2 DEF VInv, Files, Exports, Around
<1>5. Clocked'
  BY <1>1, VerdictsAssumption DEF SaveReport, Write, VInv, Clocked
<1>6. QED
  BY <1>1, <1>3, <1>4, <1>5, OthersKeep

LEMMA FinishExportKeeps ==
  ASSUME VInv, FinishExport
  PROVE  VInv'
<1>1. /\ export # NoExport /\ clock' \in {clock, clock + 1} /\ export' = NoExport
      /\ file' = [file EXCEPT ![export.path] =
                    [there |-> "whole", entries |-> export.entries, mtime |-> clock']]
      /\ UNCHANGED <<root, session, source, cache, gov, kernel, kept, writes, accidents>>
  BY DEF FinishExport, SameOrNewStamp, Whole, profiling, ledger
<1>2. \A e : Evidenced(e) => Evidenced(e)'
  BY <1>1, RunsStay DEF VInv
<1>3. Clocked'
  BY <1>1 DEF VInv, Clocked
<1>4. Exports' /\ Around'
  BY <1>1 DEF VInv, Exports, Around, NoExport
<1>5. Files'
  <2> DEFINE path == export.path
             entries == export.entries
  <2>1. path \in Paths /\ \A e \in entries : Evidenced(e)
    BY <1>1 DEF VInv, Exports
  <2>2. clock \in Nat /\ clock' \in Nat /\ \A t \in 0..clock : t \in 0..clock'
    BY <1>1 DEF VInv, Clocked
  <2>3. clock' \in 0..clock'
    BY <2>2
  <2>4. DOMAIN file = Paths
    BY DEF VInv, Files
  <2> HIDE DEF path, entries
  <2>5. /\ file'[path] = [there |-> "whole", entries |-> entries, mtime |-> clock']
        /\ DOMAIN file' = Paths
        /\ \A p \in Paths : p # path => file'[p] = file[p]
    BY <1>1, <2>1, <2>4 DEF path, entries
  <2>6. QED
    BY <1>2, <2>1, <2>2, <2>3, <2>5 DEF VInv, Files
<1>6. QED
  BY <1>1, <1>3, <1>4, <1>5, OthersKeep DEF VInv

LEMMA KillExportKeeps ==
  ASSUME VInv, KillExport
  PROVE  VInv'
<1>1. /\ export # NoExport /\ export' = NoExport
      /\ UNCHANGED <<root, session, source, cache, gov, kernel, kept, file, clock, writes>>
  BY DEF KillExport, profiling, ledger
<1>2. \A e : Evidenced(e) => Evidenced(e)'
  BY <1>1, RunsStay DEF VInv
<1>3. Clocked' /\ Files' /\ Exports'
  BY <1>1, <1>2 DEF VInv, Clocked, Files, Exports, NoExport
<1>4. Around'
  BY <1>1, VerdictsAssumption DEF KillExport, Accident, VInv, Around
<1>5. QED
  BY <1>1, <1>3, <1>4, OthersKeep DEF VInv

LEMMA RemoveLedgerKeeps ==
  ASSUME VInv, NEW path \in Paths, RemoveLedger(path)
  PROVE  VInv'
<1>1. /\ file' = [file EXCEPT ![path] = Absent]
      /\ UNCHANGED <<root, session, source, cache, gov, kernel, kept, export, clock, accidents>>
      /\ export = NoExport
  BY DEF RemoveLedger, profiling, ledger
<1>2. \A e : Evidenced(e) => Evidenced(e)'
  BY <1>1, RunsStay DEF VInv
<1>3. Clocked' /\ Exports' /\ Around'
  BY <1>1, <1>2, VerdictsAssumption DEF RemoveLedger, Write, VInv, Clocked, Exports, Around
<1>4. Files'
  <2>1. DOMAIN file = Paths /\ 0 \in 0..clock
    BY DEF VInv, Files, Clocked
  <2>2. /\ file'[path] = Absent /\ DOMAIN file' = Paths
        /\ \A p \in Paths : p # path => file'[p] = file[p]
    BY <1>1, <2>1
  <2>3. QED
    BY <1>1, <1>2, <2>1, <2>2 DEF VInv, Files, Absent
<1>5. QED
  BY <1>1, <1>3, <1>4, OthersKeep DEF VInv

----------------------------------------------------------------------------
(* The daemon. *)

LEMMA CorruptCopied ==
  ASSUME Copied(cache), NEW path
  PROVE  Copied(Corrupt(path))
BY DEF Copied, Corrupt

LEMMA ReadyCopied ==
  ASSUME Ticking(gov), NEW path
  PROVE  Copied(Ready(path, gov.text))
BY DEF Copied, Ready, Ticking

LEMMA ActivePathThere ==
  ActivePath # "none" => ActivePath \in Paths
BY DEF ActivePath, Paths

(* The steps of the daemon: it changes its copy and its tick only.         *)
LEMMA DaemonKeeps ==
  ASSUME VInv, UNCHANGED <<root, session, source, kernel, kept, file, export, clock,
                           writes, accidents>>,
         NEW c, Copied(c), cache' = c, NEW g, Ticking(g), gov' = g
  PROVE  VInv'
<1>1. (\A e : Evidenced(e) => Evidenced(e)') /\ (\A x : Backed(x) => Backed(x)')
  BY RunsStay DEF VInv
<1>2. RootOK' /\ Sessions' /\ Around' /\ Clocked'
  BY DEF VInv, RootOK, Placed, Sessions, Around, Clocked
<1>3. Files' /\ Exports' /\ \A x \in kept' : Backed(x)'
  BY <1>1 DEF VInv, Files, Exports
<1>4. Copied(cache)'
  BY <1>1 DEF Copied
<1>5. Ticking(gov)'
  BY <1>1 DEF Ticking
<1>6. QED
  BY <1>2, <1>3, <1>4, <1>5 DEF VInv

LEMMA TickKeeps ==
  ASSUME VInv, NEW ctx, Tick(ctx)
  PROVE  VInv'
<1> DEFINE todo == <<"health">> \o Lookups(ctx.phase)
           active == IF ctx.phase = "unknown" THEN gov.active ELSE {}
           g == [gov EXCEPT !.at = "check", !.ctx = ctx, !.todo = todo, !.active = active]
<1>1. /\ gov' = g /\ Copied(cache) /\ Ticking(gov)
      /\ UNCHANGED <<root, session, source, kernel, kept, file, export, clock, cache,
                     writes, accidents>>
  BY DEF Tick, VInv, profiling
<1>2. active \subseteq gov.active
  OBVIOUS
<1>3. Ticking(g)
  <2> HIDE DEF todo, active
  <2>1. QED
    BY <1>1, <1>2 DEF Ticking
<1> HIDE DEF g
<1>4. QED
  BY <1>1, <1>3, DaemonKeeps

LEMMA CheckKeeps ==
  ASSUME VInv, Check
  PROVE  VInv'
<1> DEFINE g == IF MustLoad THEN [gov EXCEPT !.at = "load"] ELSE Answer(cache)
<1>1. /\ gov' = g /\ Copied(cache) /\ Ticking(gov)
      /\ UNCHANGED <<root, session, source, kernel, kept, file, export, clock, cache,
                     writes, accidents>>
  BY DEF Check, VInv, profiling
<1>2. Ticking(g)
  <2>1. Ticking([gov EXCEPT !.at = "load"])
    BY <1>1 DEF Ticking
  <2>2. Ticking(Answer(cache))
    BY <1>1, AnswerTicking
  <2>3. QED
    BY <2>1, <2>2
<1> HIDE DEF g
<1>3. QED
  BY <1>1, <1>2, DaemonKeeps

LEMMA LoadKeeps ==
  ASSUME VInv, Load
  PROVE  VInv'
<1>1. /\ Copied(cache) /\ Ticking(gov)
      /\ UNCHANGED <<root, session, source, kernel, kept, file, export, clock,
                     writes, accidents>>
  BY DEF Load, VInv, profiling
<1>2. CASE ActivePath = "none"
  <2>1. cache' = NoCache /\ gov' = Answer(NoCache)
    BY <1>2 DEF Load
  <2>2. Copied(NoCache) /\ Ticking(Answer(NoCache))
    BY <1>1, NoCacheCopied, AnswerTicking
  <2>3. QED
    BY <1>1, <2>1, <2>2, DaemonKeeps
<1>3. CASE ActivePath # "none"
  <2> DEFINE path == ActivePath
             g == [gov EXCEPT !.at = "read", !.path = path]
  <2>1. cache' = cache /\ gov' = g
    BY <1>3 DEF Load
  <2>2. path \in Paths
    BY <1>3, ActivePathThere
  <2>3. Ticking(g)
    <3> HIDE DEF path
    <3>1. QED
      BY <1>1, <2>2 DEF Ticking
  <2> HIDE DEF g
  <2>4. QED
    BY <1>1, <2>1, <2>3, DaemonKeeps
<1>4. QED
  BY <1>2, <1>3

LEMMA ReadKeeps ==
  ASSUME VInv, Read
  PROVE  VInv'
<1>1. /\ Copied(cache) /\ Ticking(gov) /\ gov.path \in Paths
      /\ UNCHANGED <<root, session, source, kernel, kept, file, export, clock,
                     writes, accidents>>
  BY DEF Read, VInv, profiling, Ticking
<1>2. CASE file[gov.path].there = "whole"
  <2> DEFINE text == file[gov.path].entries
             g == [gov EXCEPT !.at = "stat", !.text = text]
  <2>1. cache' = cache /\ gov' = g
    BY <1>2 DEF Read
  <2>2. \A e \in text : Evidenced(e)
    BY <1>1 DEF VInv, Files
  <2>3. Ticking(g)
    <3> HIDE DEF text
    <3>1. QED
      BY <1>1, <2>2 DEF Ticking
  <2> HIDE DEF g
  <2>4. QED
    BY <1>1, <2>1, <2>3, DaemonKeeps
<1>3. CASE file[gov.path].there # "whole"
  <2> DEFINE c == Corrupt(gov.path)
             g == Answer(c)
  <2>1. cache' = c /\ gov' = g
    BY <1>3 DEF Read
  <2>2. Copied(c)
    BY <1>1, CorruptCopied
  <2> HIDE DEF c
  <2>3. Ticking(g)
    BY <1>1, <2>2, AnswerTicking
  <2> HIDE DEF g
  <2>4. QED
    BY <1>1, <2>1, <2>2, <2>3, DaemonKeeps
<1>4. QED
  BY <1>2, <1>3

LEMMA StatKeeps ==
  ASSUME VInv, Stat
  PROVE  VInv'
<1> DEFINE c == IF file[gov.path].there = "absent" THEN Corrupt(gov.path)
                ELSE Ready(gov.path, gov.text)
           g == Answer(c)
<1>1. /\ Copied(cache) /\ Ticking(gov)
      /\ UNCHANGED <<root, session, source, kernel, kept, file, export, clock,
                     writes, accidents>>
  BY DEF Stat, VInv, profiling
<1>2. cache' = c /\ gov' = Answer(cache')
  BY DEF Stat
<1>3. Copied(c)
  BY <1>1, CorruptCopied, ReadyCopied
<1> HIDE DEF c
<1>4. gov' = g
  BY <1>2
<1>5. Ticking(g)
  BY <1>1, <1>3, AnswerTicking
<1> HIDE DEF g
<1>6. QED
  BY <1>1, <1>2, <1>3, <1>4, <1>5, DaemonKeeps

LEMMA RebootKeeps ==
  ASSUME VInv, Reboot
  PROVE  VInv'
<1>1. /\ kernel' = 2 /\ export' = NoExport /\ cache' = NoCache
      /\ session' = [session EXCEPT !.at = 0]
      /\ file' = [file EXCEPT !["fallback"] = Absent]
      /\ gov' = FirstTick("load")
      /\ UNCHANGED <<root, source, kept, clock, writes>>
  BY DEF Reboot
<1>2. (\A e : Evidenced(e) => Evidenced(e)') /\ (\A c : Backed(c) => Backed(c)')
  BY <1>1, RunsStay DEF VInv
<1>3. RootOK' /\ Sessions' /\ Clocked' /\ Exports'
  BY <1>1 DEF VInv, RootOK, Placed, Sessions, Clocked, Exports, NoExport
<1>4. Around'
  BY <1>1, VerdictsAssumption DEF Reboot, Accident, VInv, Around
<1>5. Files'
  <2>1. DOMAIN file = Paths /\ 0 \in 0..clock /\ "fallback" \in Paths
    BY DEF VInv, Files, Clocked, Paths
  <2>2. /\ file'["fallback"] = Absent /\ DOMAIN file' = Paths
        /\ \A p \in Paths : p # "fallback" => file'[p] = file[p]
    BY <1>1, <2>1
  <2>3. QED
    BY <1>1, <1>2, <2>1, <2>2 DEF VInv, Files, Absent
<1>6. Copied(cache)'
  BY <1>1 DEF Copied, NoCache
<1>7. Ticking(gov)'
  BY <1>1 DEF Ticking, FirstTick
<1>8. \A c \in kept' : Backed(c)'
  BY <1>1, <1>2 DEF VInv
<1>9. QED
  BY <1>3, <1>4, <1>5, <1>6, <1>7, <1>8 DEF VInv

----------------------------------------------------------------------------
LEMMA NextKeeps ==
  ASSUME VInv, [VerdictNext]_verdictVars
  PROVE  VInv'
<1>1. CASE Profile
  BY <1>1, SessionKeeps, RecordRunKeeps DEF Profile
<1>2. CASE Operate
  <2>1. ASSUME NEW path \in Paths, NEW roots \in SomeRoots,
               \/ \E twice \in SUBSET Selected(roots, Candidates, TRUE) :
                    ExportRoot(path, roots, twice, TRUE)
               \/ ExportRoot(path, roots, {}, FALSE)
        PROVE  VInv'
    BY <2>1, ExportKeeps
  <2>2. QED
    BY <1>2, <2>1, ExportKeeps, SaveReportKeeps, RemoveLedgerKeeps, FinishExportKeeps,
       KillExportKeeps, RebootKeeps DEF Operate
<1>3. CASE Daemon
  BY <1>3, TickKeeps, CheckKeeps, LoadKeeps, ReadKeeps, StatKeeps DEF Daemon, Work
<1>4. CASE UNCHANGED verdictVars
  BY <1>4, DaemonKeeps DEF verdictVars, VInv
<1>5. QED
  BY <1>1, <1>2, <1>3, <1>4 DEF VerdictNext

LEMMA InvariantHolds == VerdictSpec => []VInv
<1>1. VInv /\ [VerdictNext]_verdictVars => VInv'
  BY NextKeeps
<1>2. QED
  BY InitInvariant, <1>1, PTL DEF VerdictSpec

(* Whatever is exported, copied or half written, an entry names a bucket,  *)
(* a lane and recorded runs, and a copy that is not ready holds nothing    *)
(* (export_verdicts, GamePowerVerdictLedger._load).                        *)
THEOREM VerdictsTyped == VerdictSpec => []VerdictTypeOK
<1>1. VInv => VerdictTypeOK
  <2>1. SUFFICES ASSUME VInv PROVE VerdictTypeOK
    OBVIOUS
  <2>2. \A i \in DOMAIN root : /\ root[i].policy \in Policies
                               /\ root[i].source \in {"ac", "battery", "mixed"}
    BY <2>1, RootFacts DEF VInv, Runs
  <2>3. \A e : Evidenced(e) => /\ e.bucket \in Buckets
                          /\ e.actuator \in UNION {ActuatorsOf(p) : p \in Policies}
                          /\ e.runs \subseteq DOMAIN root /\ e.runs # {}
    BY DEF Evidenced, Evident, EntryRuns
  <2>4. \A e \in (UNION {file[p].entries : p \in Paths})
                 \union export.entries \union cache.entries : Evidenced(e)
    <3>1. \A p \in Paths : \A e \in file[p].entries : Evidenced(e)
      BY <2>1 DEF VInv, Files
    <3>2. \A e \in export.entries : Evidenced(e)
      BY <2>1 DEF VInv, Exports
    <3>3. \A e \in cache.entries : Evidenced(e)
      BY <2>1 DEF VInv, Copied
    <3>4. TAKE e \in (UNION {file[p].entries : p \in Paths})
                    \union export.entries \union cache.entries
    <3>5. \/ e \in export.entries \/ e \in cache.entries
          \/ \E p \in Paths : e \in file[p].entries
      BY <3>4
    <3>6. QED
      BY <3>1, <3>2, <3>3, <3>5
  <2>5. clock \in 0..(2 * MaxWrites)
    BY <2>1, VerdictsAssumption DEF VInv, Clocked
  <2>6. QED
    BY <2>1, <2>2, <2>3, <2>4, <2>5 DEF VInv, VerdictTypeOK, Sessions, Around, Files, Clocked,
         Copied, Ticking
<1>2. QED
  BY InvariantHolds, <1>1, PTL

(* For any plans, contexts and --min-runs: a lane the daemon has unlocked  *)
(* rests on a BETTER verdict of enough whole, unspoilt pairs measured at   *)
(* the bucket and frame target it sees (evaluate_target_balance, through   *)
(* GamePowerVerdictLedger._lookup, export_verdicts and                     *)
(* compare_policy_aggregates).                                             *)
THEOREM UnlocksHaveEvidence == VerdictSpec => []UnlockHasEvidence
<1>1. VInv => UnlockHasEvidence
  <2>1. SUFFICES ASSUME VInv, NEW a \in gov.active
        PROVE LET runs == EntryRuns(a.entry)
                  ids == {r.id : r \in runs}
              IN /\ Cardinality(ids) >= MinRuns
                 /\ \A id \in ids : FairPair(runs, id)
                 /\ Cardinality({r.scene : r \in runs}) = 1
                 /\ {r.source : r \in runs} \in {{"ac"}, {"battery"}}
                 /\ \A r \in runs : /\ r.policy \in Policies
                                    /\ Bucket(r.tdp) = Bucket(a.ctx.pl1)
                                    /\ r.fps = a.ctx.fps
                 /\ \A r \in runs : r.policy # "off" =>
                      /\ a.entry.actuator \in ActuatorsOf(r.policy)
                      /\ a.entry.actuator = "uclamp-min" => r.proof
    BY DEF UnlockHasEvidence
  <2>2. /\ Evident(a.entry, EntryRuns(a.entry))
        /\ a.entry.bucket = Bucket(a.ctx.pl1) /\ a.entry.fps = a.ctx.fps
    BY <2>1 DEF VInv, Ticking, Evidenced
  <2> DEFINE runs == EntryRuns(a.entry)
  <2> HIDE DEF runs
  <2>3. Evident(a.entry, runs)
    BY <2>2 DEF runs
  <2>4. QED
    BY <2>2, <2>3 DEF Evident, runs
<1>2. QED
  BY InvariantHolds, <1>1, PTL

=============================================================================
