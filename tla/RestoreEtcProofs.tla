-------------------------- MODULE RestoreEtcProofs --------------------------
(***************************************************************************)
(* What a restore keeps for every manifest, every update and every kill:   *)
(* the system partition is locked again, and success means that every      *)
(* managed file is in place and every manager has been told.               *)
(***************************************************************************)
EXTENDS RestoreEtc, TLAPS

Runs ==
  [pc : {"idle", "start", "unlock", "profile", "artifact", "unlink", "link",
         "open", "copy", "mode", "relock", "actions"},
   at : Nat \ {0}, unlocked : BOOLEAN, failed : BOOLEAN,
   planned : SUBSET Actions, restarts : BOOLEAN]

(* Nothing is under way between the runs; a run that is under way has read *)
(* a valid manifest and is at one of its entries.                          *)
Positioned ==
  IF run.pc \in {"idle", "start"} THEN run = [IdleRun EXCEPT !.pc = run.pc]
  ELSE /\ Loads(manifest)
       /\ run.at \in DOMAIN manifest
       /\ run.pc \in {"unlock", "profile"} => run.at = 1

(* What a run without a failure has behind it is in place.                 *)
Behind ==
  {i \in DOMAIN manifest : run.pc \in {"relock", "actions"} \/ i < run.at}

DoneSoFar ==
  run.pc \notin {"idle", "start"} /\ ~ run.failed =>
    /\ \A i \in Behind : InPlace(manifest[i])
    /\ run.pc \notin {"unlock", "profile"} => ~ ProfileDrifted

(* What is owed is planned, is of the entry that is being written, or was  *)
(* skipped by an earlier run.                                              *)
Written == IF run.pc \in {"link", "open", "copy", "mode"} THEN Current.actions ELSE {}

PlannedIsOwed == ~ run.failed => owed \subseteq run.planned \union Written \union skipped

(* An unlocked partition belongs to a run that will lock it.               *)
UnlockedIsOwned ==
  ~ relockLost /\ ~ locked =>
    run.unlocked /\ run.pc \notin {"idle", "start", "unlock", "actions"}

Steady ==
  /\ Positioned /\ DoneSoFar /\ PlannedIsOwed /\ UnlockedIsOwned
  /\ SuccessMeansRestored

(* A file without its mode is being written, or was left so.               *)
ModesKnown ==
  \A d \in Dests :
    disk[d] = "mode" => d \in modeless \/ (run.pc = "mode" /\ d = Current.dest)

IInv == TypeOK /\ Steady /\ ModesKnown

-----------------------------------------------------------------------------

LEMMA InitIInv == Init => IInv
<1> SUFFICES ASSUME Init PROVE IInv
  OBVIOUS
<1>1. TypeOK
  <2>1. run \in Runs
    BY DEF Init, IdleRun, Runs
  <2>2. disk \in [Dests -> DiskStates]
    BY DEF Init, DiskStates
  <2>3. changes \in 0..MaxChanges /\ faults \in 0..MaxFaults
    BY RestoreAssumption DEF RestoreAssumption, Init
  <2>4. QED
    BY <2>1, <2>2, <2>3 DEF Init, TypeOK, Runs
<1>2. Positioned /\ DoneSoFar /\ PlannedIsOwed /\ UnlockedIsOwned
  BY DEF Init, IdleRun, Positioned, DoneSoFar, PlannedIsOwed, UnlockedIsOwned
<1>3. SuccessMeansRestored
  BY DEF Init, SuccessMeansRestored
<1>4. ModesKnown
  BY DEF Init, ModesKnown
<1>5. QED
  BY <1>1, <1>2, <1>3, <1>4 DEF IInv, Steady

(* An entry that is dealt with takes the run to the next one or to the end.*)
LEMMA NextEntryIs ==
  ASSUME manifest \in Seq(Entries), NEW r \in Runs, r.at \in DOMAIN manifest
  PROVE  /\ NextEntry(r) \in Runs
         /\ NextEntry(r).failed = r.failed /\ NextEntry(r).unlocked = r.unlocked
         /\ NextEntry(r).planned = r.planned
         /\ NextEntry(r).at \in DOMAIN manifest
         /\ \/ NextEntry(r).pc = "artifact" /\ NextEntry(r).at = r.at + 1
            \/ NextEntry(r).pc = "relock" /\ r.at = Len(manifest)
<1>1. r.at \in 1..Len(manifest) /\ Len(manifest) \in Nat
  OBVIOUS
<1>2. CASE r.at < Len(manifest)
  <2>1. NextEntry(r) = [r EXCEPT !.at = r.at + 1, !.pc = "artifact"]
    BY <1>2 DEF NextEntry
  <2>2. r.at + 1 \in DOMAIN manifest /\ r.at + 1 \in Nat \ {0}
    BY <1>1, <1>2
  <2>3. QED
    BY <2>1, <2>2 DEF Runs
<1>3. CASE ~ r.at < Len(manifest)
  <2>1. NextEntry(r) = [r EXCEPT !.pc = "relock"] /\ r.at = Len(manifest)
    BY <1>1, <1>3 DEF NextEntry
  <2>2. QED
    BY <2>1 DEF Runs
<1>4. QED
  BY <1>2, <1>3

(* Where a run is at work, its entry is one of the manifest.               *)
LEMMA AtEntry ==
  ASSUME TypeOK, Positioned, run.pc \notin {"idle", "start"}
  PROVE  /\ manifest \in Seq(Entries) /\ run \in Runs
         /\ run.at \in DOMAIN manifest /\ Current \in Entries
         /\ Current.dest \in Dests /\ Current.actions \subseteq Actions
<1>1. manifest \in Seq(Entries) /\ run \in Runs
  BY RestoreAssumption DEF RestoreAssumption, TypeOK, Runs
<1>2. run.at \in DOMAIN manifest
  BY DEF Positioned
<1>3. Current \in Entries
  BY <1>1, <1>2 DEF Current
<1>4. QED
  BY <1>1, <1>2, <1>3 DEF Entries

-----------------------------------------------------------------------------
(* Types, action by action.                                                *)

LEMMA FaultBounded ==
  ASSUME TypeOK, Fault \/ UNCHANGED faults
  PROVE  faults' \in 0..MaxFaults
BY RestoreAssumption DEF RestoreAssumption, Fault, TypeOK

LEMMA TypeStep == TypeOK /\ Positioned /\ [Next]_vars => TypeOK'
<1> SUFFICES ASSUME TypeOK, Positioned, [Next]_vars PROVE TypeOK'
  OBVIOUS
<1> USE DEF environment
<1>0. run \in Runs /\ IdleRun \in Runs
  BY DEF TypeOK, Runs, IdleRun
<1>1. CASE StartRun
  <2>1. run' \in Runs
    BY <1>0, <1>1 DEF StartRun, Runs
  <2>2. QED
    BY <1>1, <2>1 DEF StartRun, TypeOK, Runs
<1>2. CASE Unlock
  <2>1. run' \in Runs
    BY <1>0, <1>2 DEF Unlock, Runs
  <2>2. faults' \in 0..MaxFaults
    BY <1>2, FaultBounded DEF Unlock
  <2>3. QED
    BY <1>2, <2>1, <2>2 DEF Unlock, TypeOK, Runs
<1>3. CASE WriteProfile
  <2>1. run' \in Runs
    BY <1>0, <1>3 DEF WriteProfile, Runs
  <2>2. composed' \in {"none", "other", "current"}
    BY <1>3 DEF WriteProfile, ProfileWanted, TypeOK
  <2>3. QED
    BY <1>3, <2>1, <2>2 DEF WriteProfile, TypeOK, Runs
<1>4. CASE ProfileFails
  <2>1. run' \in Runs
    BY <1>0, <1>4 DEF ProfileFails, Runs
  <2>2. faults' \in 0..MaxFaults
    BY <1>4, FaultBounded DEF ProfileFails
  <2>3. composed' \in {"none", "other", "current"}
    BY <1>4 DEF ProfileFails, ProfileWanted, TypeOK
  <2>4. QED
    BY <1>4, <2>1, <2>2, <2>3 DEF ProfileFails, TypeOK, Runs
<1>5. CASE Examine
  <2>1. run' \in Runs
    <3>1. [run EXCEPT !.pc = "unlink"] \in Runs
      BY <1>0 DEF Runs
    <3>2. \A f \in BOOLEAN : NextEntry([run EXCEPT !.failed = f]) \in Runs
      <4> TAKE f \in BOOLEAN
      <4>1. [run EXCEPT !.failed = f] \in Runs /\ [run EXCEPT !.failed = f].at = run.at
        BY <1>0, f \in BOOLEAN DEF Runs
      <4>2. run.at \in DOMAIN manifest /\ manifest \in Seq(Entries)
        BY <1>5, AtEntry DEF Examine
      <4>3. QED
        BY <4>1, <4>2, NextEntryIs
    <3>3. run.failed \in BOOLEAN
      BY <1>0 DEF Runs
    <3>4. QED
      BY <1>5, <3>1, <3>2, <3>3 DEF Examine
  <2>2. QED
    BY <1>5, <2>1 DEF Examine, TypeOK, Runs
<1>6. CASE Unlink
  <2>1. run' \in Runs
    BY <1>0, <1>6 DEF Unlink, Runs
  <2>2. disk' \in [Dests -> DiskStates]
    BY <1>6 DEF Unlink, TypeOK, DiskStates
  <2>3. owed' \subseteq Actions
    BY <1>6, AtEntry DEF Unlink, TypeOK
  <2>4. QED
    BY <1>6, <2>1, <2>2, <2>3 DEF Unlink, TypeOK, Runs
<1>7. CASE Link \/ SetMode
  <2>0. Restored("good") /\ run.pc \notin {"idle", "start"}
    BY <1>7 DEF Link, SetMode
  <2>1. run' \in Runs
    <3> DEFINE r == [run EXCEPT !.planned = @ \union Current.actions,
                                !.restarts = @ \/ Current.restarts]
    <3>0. Current.actions \subseteq Actions
      BY <2>0, AtEntry
    <3>1. r \in Runs /\ r.at = run.at
      BY <1>0, <3>0 DEF Runs
    <3>2. run.at \in DOMAIN manifest /\ manifest \in Seq(Entries)
      BY <2>0, AtEntry
    <3>3. run' = NextEntry(r)
      BY <2>0 DEF Restored
    <3>4. QED
      BY <3>1, <3>2, <3>3, NextEntryIs
  <2>2. disk' \in [Dests -> DiskStates]
    BY <2>0 DEF Restored, TypeOK, DiskStates
  <2>3. QED
    BY <1>7, <2>1, <2>2 DEF Link, SetMode, TypeOK, Runs
<1>8. CASE OpenCopy \/ Copy
  <2>1. run' \in Runs
    BY <1>0, <1>8 DEF OpenCopy, Copy, Runs
  <2>2. disk' \in [Dests -> DiskStates]
    BY <1>8 DEF OpenCopy, Copy, TypeOK, DiskStates
  <2>3. QED
    BY <1>8, <2>1, <2>2 DEF OpenCopy, Copy, TypeOK, Runs
<1>9. CASE WriteFails
  <2>1. run' \in Runs
    <3>1. [run EXCEPT !.failed = TRUE] \in Runs /\ [run EXCEPT !.failed = TRUE].at = run.at
      BY <1>0 DEF Runs
    <3>2. run.at \in DOMAIN manifest /\ manifest \in Seq(Entries)
      BY <1>9, AtEntry DEF WriteFails
    <3>3. QED
      BY <1>9, <3>1, <3>2, NextEntryIs DEF WriteFails
  <2>2. faults' \in 0..MaxFaults
    BY <1>9, FaultBounded DEF WriteFails
  <2>3. modeless' \subseteq Dests
    BY <1>9, AtEntry DEF WriteFails, LeaveModeless, TypeOK
  <2>4. QED
    BY <1>9, <2>1, <2>2, <2>3 DEF WriteFails, TypeOK, Runs
<1>10. CASE Relock
  <2>1. run' \in Runs
    BY <1>0, <1>10 DEF Relock, Runs
  <2>2. faults' \in 0..MaxFaults
    BY <1>10, FaultBounded DEF Relock
  <2>3. QED
    BY <1>10, <2>1, <2>2 DEF Relock, TypeOK, Runs
<1>11. CASE RunActions
  <2>1. owed' \subseteq Actions /\ exit' \in {"0", "1"} /\ skipped' \subseteq Actions
    BY <1>0, <1>11 DEF RunActions, TypeOK, Runs
  <2>2. faults' \in 0..MaxFaults
    BY <1>11, FaultBounded DEF RunActions
  <2>3. QED
    BY <1>0, <1>11, <2>1, <2>2 DEF RunActions, TypeOK, Runs
<1>12. CASE FailRun
  BY <1>0, <1>12 DEF FailRun, TypeOK, Runs
<1>13. CASE Kill
  <2>1. modeless' \subseteq Dests
    BY <1>13, AtEntry DEF Kill, LeaveModeless, TypeOK
  <2>2. QED
    BY <1>0, <1>13, <2>1, FaultBounded DEF Kill, TypeOK, Runs
<1>14. CASE Boot \/ StartAgain
  <2>1. run' \in Runs
    BY <1>0, <1>14 DEF Boot, StartAgain, Runs
  <2>2. QED
    BY <1>14, <2>1 DEF Boot, StartAgain, TypeOK, Runs
<1>15. CASE OsUpdate
  <2>1. disk' \in [Dests -> DiskStates]
    BY <1>15 DEF OsUpdate, TypeOK, DiskStates
  <2>2. changes' \in 0..MaxChanges /\ exit' = "none"
    <3>1. Change
      BY <1>15 DEF OsUpdate
    <3>2. QED
      BY <3>1, RestoreAssumption DEF RestoreAssumption, Change, TypeOK
  <2>3. QED
    BY <1>15, <2>1, <2>2 DEF OsUpdate, TypeOK, Runs
<1>16. CASE Upgrade
  <2>1. disk' \in [Dests -> DiskStates]
    <3>1. PICK new \in Dests :
            disk' = [disk EXCEPT ![new] = IF @ = "none" THEN @ ELSE "other"]
      BY <1>16 DEF Upgrade
    <3>2. QED
      BY <3>1 DEF TypeOK, DiskStates
  <2>2. changes' \in 0..MaxChanges /\ exit' = "none"
    <3>1. Change
      BY <1>16 DEF Upgrade
    <3>2. QED
      BY <3>1, RestoreAssumption DEF RestoreAssumption, Change, TypeOK
  <2>3. payload' \subseteq Dests /\ composed' \in {"none", "other", "current"}
    BY <1>16 DEF Upgrade, TypeOK
  <2>4. QED
    BY <1>16, <2>1, <2>2, <2>3 DEF Upgrade, TypeOK, Runs
<1>17. CASE UNCHANGED vars
  BY <1>17 DEF vars, TypeOK
<1>18. QED
  BY <1>1, <1>2, <1>3, <1>4, <1>5, <1>6, <1>7, <1>8, <1>9, <1>10, <1>11, <1>12,
     <1>13, <1>14, <1>15, <1>16, <1>17 DEF Next

-----------------------------------------------------------------------------
(* Where the run is.                                                       *)

(* A run that goes on to the next entry keeps what it has; r is the record *)
(* it leaves the entry k with, and it carries a failure if k is not done.  *)
LEMMA Advances ==
  ASSUME TypeOK, Positioned, DoneSoFar, UnlockedIsOwned,
         run.pc \in {"artifact", "unlink", "link", "open", "copy", "mode"},
         NEW r \in Runs, r.at = run.at, r.unlocked = run.unlocked,
         run' = NextEntry(r),
         UNCHANGED <<manifest, upstream, composed, locked, relockLost>>,
         NEW k \in DOMAIN manifest, k = run.at,
         ~ r.failed => ~ run.failed /\ InPlace(manifest[k])',
         \A i \in DOMAIN manifest : i < run.at /\ InPlace(manifest[i]) => InPlace(manifest[i])',
         ~ r.failed => owed' \subseteq r.planned \union skipped'
  PROVE  Positioned' /\ DoneSoFar' /\ PlannedIsOwed' /\ UnlockedIsOwned' /\ SuccessMeansRestored'
<1>1. /\ manifest \in Seq(Entries) /\ run.at \in DOMAIN manifest
      /\ run.at \in 1..Len(manifest) /\ Len(manifest) \in Nat /\ Loads(manifest)
  BY AtEntry DEF Positioned
<1>2. /\ run'.failed = r.failed /\ run'.unlocked = r.unlocked
      /\ run'.planned = r.planned /\ run'.at \in DOMAIN manifest
      /\ \/ run'.pc = "artifact" /\ run'.at = run.at + 1
         \/ run'.pc = "relock" /\ run.at = Len(manifest)
  BY <1>1, NextEntryIs
<1>3. Positioned'
  BY <1>1, <1>2 DEF Positioned, Loads, WellFormed
<1>4. DoneSoFar'
  <2> SUFFICES ASSUME ~ run'.failed
               PROVE  (\A i \in Behind : InPlace(manifest[i]))' /\ (~ ProfileDrifted)'
    BY <1>2 DEF DoneSoFar
  <2>1. ~ run.failed /\ InPlace(manifest[k])'
    BY <1>2
  <2>2. ~ ProfileDrifted
    BY <2>1 DEF DoneSoFar
  <2>3. (~ ProfileDrifted)'
    BY <2>2 DEF ProfileDrifted, ProfileWanted
  <2>4. ASSUME NEW i \in Behind' PROVE InPlace(manifest[i])'
    <3>1. i \in DOMAIN manifest /\ (i < run.at \/ i = k)
      BY <1>1, <1>2 DEF Behind
    <3>2. CASE i = k
      BY <2>1, <3>2
    <3>3. CASE i < run.at
      <4>1. InPlace(manifest[i])
        BY <2>1, <3>1, <3>3 DEF DoneSoFar, Behind
      <4>2. QED
        BY <3>1, <3>3, <4>1
    <3>4. QED
      BY <3>1, <3>2, <3>3
  <2>5. QED
    BY <2>3, <2>4
<1>5. PlannedIsOwed'
  BY <1>2 DEF PlannedIsOwed, Written
<1>6. UnlockedIsOwned'
  BY <1>2 DEF UnlockedIsOwned
<1>7. SuccessMeansRestored'
  BY <1>2 DEF SuccessMeansRestored
<1>8. QED
  BY <1>3, <1>4, <1>5, <1>6, <1>7

(* Destinations differ: what is written leaves the other entries in place. *)
LEMMA OthersKept ==
  ASSUME TypeOK, Positioned, run.pc \notin {"idle", "start"}, manifest' = manifest,
         NEW x \in DiskStates, disk' = [disk EXCEPT ![Current.dest] = x],
         modeless \ {Current.dest} \subseteq modeless'
  PROVE  \A i \in DOMAIN manifest : i < run.at /\ InPlace(manifest[i]) => InPlace(manifest[i])'
<1> SUFFICES ASSUME NEW i \in DOMAIN manifest, i < run.at, InPlace(manifest[i])
             PROVE  InPlace(manifest[i])'
  OBVIOUS
<1>1. /\ manifest \in Seq(Entries) /\ run.at \in DOMAIN manifest /\ Loads(manifest)
      /\ run.at \in Nat /\ i \in Nat
  BY AtEntry DEF Positioned
<1>2. manifest[i].dest # manifest[run.at].dest
  BY <1>1 DEF Loads
<1>3. disk'[manifest[i].dest] = disk[manifest[i].dest]
  <2>0. manifest[i] \in Entries
    BY <1>1
  <2>1. manifest[i].dest \in Dests /\ disk \in [Dests -> DiskStates]
    BY <2>0 DEF TypeOK, Entries
  <2>2. QED
    BY <1>2, <2>1 DEF Current
<1>4. manifest'[i] = manifest[i] /\ (manifest[i].dest \in modeless => manifest[i].dest \in modeless')
  BY <1>2 DEF Current
<1>5. QED
  BY <1>3, <1>4 DEF InPlace, Managed

-----------------------------------------------------------------------------
(* The steps of a run up to its entries.                                   *)

LEMMA BeginSteady ==
  ASSUME IInv, StartRun \/ Unlock \/ WriteProfile \/ ProfileFails
  PROVE  Steady'
<1> USE DEF environment
<1>0. TypeOK /\ Positioned /\ DoneSoFar /\ PlannedIsOwed /\ UnlockedIsOwned
  BY DEF IInv, Steady
<1>1. CASE StartRun
  <2>1. CASE ~ Loads(manifest)
    <3>1. run' = IdleRun /\ exit' = "2"
      BY <1>1, <2>1 DEF StartRun
    <3>2. QED
      BY <1>0, <1>1, <3>1 DEF StartRun, IdleRun, Steady, Positioned, DoneSoFar,
         PlannedIsOwed, Written, UnlockedIsOwned, SuccessMeansRestored
  <2>2. CASE Loads(manifest)
    <3>1. /\ run = [IdleRun EXCEPT !.pc = "start"]
          /\ run'.pc \in {"unlock", "profile"} /\ run'.at = 1
          /\ ~ run'.failed /\ run'.planned = {} /\ ~ run'.unlocked
          /\ UNCHANGED <<manifest, disk, composed, locked, owed, skipped, modeless, relockLost>>
      BY <1>0, <1>1, <2>2 DEF StartRun, Positioned, IdleRun
    <3>2. locked \/ relockLost
      BY <1>0, <3>1 DEF UnlockedIsOwned, IdleRun
    <3>3. manifest \in Seq(Entries) /\ 1 \in DOMAIN manifest
      BY <1>0, RestoreAssumption DEF RestoreAssumption, TypeOK
    <3>4. Positioned'
      BY <2>2, <3>1, <3>3 DEF Positioned, Loads, WellFormed
    <3>5. DoneSoFar'
      BY <3>1, <3>3 DEF DoneSoFar, Behind
    <3>6. PlannedIsOwed' /\ UnlockedIsOwned' /\ SuccessMeansRestored'
      BY <1>0, <3>1, <3>2 DEF PlannedIsOwed, Written, IdleRun, UnlockedIsOwned,
         SuccessMeansRestored
    <3>7. QED
      BY <3>4, <3>5, <3>6 DEF Steady
  <2>3. QED
    BY <2>1, <2>2
<1>2. CASE Unlock
  <2>1. /\ run.pc = "unlock" /\ run.at = 1 /\ run.at \in DOMAIN manifest
        /\ Loads(manifest) /\ manifest \in Seq(Entries)
    BY <1>0, <1>2, AtEntry DEF Unlock, Positioned
  <2>2. /\ run'.pc = "profile" /\ run'.at = run.at /\ run'.failed = run.failed
        /\ run'.planned = run.planned
        /\ locked' \/ run'.unlocked \/ UNCHANGED locked
    BY <1>0, <1>2 DEF Unlock, TypeOK
  <2>3. Positioned' /\ DoneSoFar'
    BY <1>2, <2>1, <2>2 DEF Unlock, Positioned, Loads, WellFormed, DoneSoFar, Behind
  <2>4. PlannedIsOwed' /\ UnlockedIsOwned' /\ SuccessMeansRestored'
    BY <1>0, <1>2, <2>1, <2>2 DEF Unlock, PlannedIsOwed, Written, UnlockedIsOwned,
       SuccessMeansRestored
  <2>5. QED
    BY <2>3, <2>4 DEF Steady
<1>3. CASE WriteProfile
  <2>1. /\ run.pc = "profile" /\ run.at = 1 /\ run.at \in DOMAIN manifest
        /\ Loads(manifest) /\ manifest \in Seq(Entries)
    BY <1>0, <1>3, AtEntry DEF WriteProfile, Positioned
  <2>2. /\ run'.at = run.at /\ run'.failed = run.failed /\ run'.planned = run.planned
        /\ run'.unlocked = run.unlocked /\ run'.pc \in {"profile", "artifact"}
        /\ UNCHANGED <<manifest, upstream, locked, owed, skipped, modeless, relockLost>>
    BY <1>0, <1>3, <2>1 DEF WriteProfile, TypeOK
  <2>3. run'.pc = "artifact" => (~ ProfileDrifted)'
    BY <1>3, <2>1 DEF WriteProfile, ProfileDrifted, ProfileWanted
  <2>4. Positioned' /\ DoneSoFar'
    BY <2>1, <2>2, <2>3 DEF Positioned, Loads, WellFormed, DoneSoFar, Behind
  <2>5. PlannedIsOwed' /\ UnlockedIsOwned' /\ SuccessMeansRestored'
    BY <1>0, <2>1, <2>2 DEF PlannedIsOwed, Written, UnlockedIsOwned, SuccessMeansRestored
  <2>6. QED
    BY <2>4, <2>5 DEF Steady
<1>4. CASE ProfileFails
  <2>1. /\ run.pc = "profile" /\ run.at \in DOMAIN manifest
        /\ Loads(manifest) /\ manifest \in Seq(Entries)
    BY <1>0, <1>4, AtEntry DEF ProfileFails, Positioned
  <2>2. /\ run'.at = run.at /\ run'.failed /\ run'.unlocked = run.unlocked
        /\ run'.pc = "artifact"
        /\ UNCHANGED <<manifest, locked, relockLost>>
    BY <1>0, <1>4 DEF ProfileFails, TypeOK
  <2>3. QED
    BY <1>0, <2>1, <2>2 DEF Steady, Positioned, Loads, WellFormed, DoneSoFar,
       PlannedIsOwed, UnlockedIsOwned, SuccessMeansRestored
<1>5. QED
  BY <1>1, <1>2, <1>3, <1>4

-----------------------------------------------------------------------------
(* The steps at an entry.                                                  *)

LEMMA ExamineSteady ==
  ASSUME IInv, Examine
  PROVE  Steady'
<1> USE DEF environment
<1>0. TypeOK /\ Positioned /\ DoneSoFar /\ PlannedIsOwed /\ UnlockedIsOwned
  BY DEF IInv, Steady
<1>1. /\ run.pc = "artifact" /\ run.at \in DOMAIN manifest /\ run \in Runs
      /\ Loads(manifest) /\ manifest \in Seq(Entries) /\ Current = manifest[run.at]
      /\ Current \in Entries /\ Current.dest \in Dests
      /\ UNCHANGED <<manifest, payload, upstream, disk, composed, locked, exit, owed,
                     skipped, modeless, relockLost>>
  BY <1>0, AtEntry DEF Examine, Positioned, Current
<1>2. CASE State(Current) \in {"missing", "drifted"}
  <2>1. run' = [run EXCEPT !.pc = "unlink"]
    BY <1>2 DEF Examine
  <2>2. /\ run'.at = run.at /\ run'.failed = run.failed /\ run'.planned = run.planned
        /\ run'.unlocked = run.unlocked /\ run'.pc = "unlink"
    BY <1>1, <2>1 DEF Runs
  <2>3. Positioned'
    BY <1>1, <2>2 DEF Positioned, Loads, WellFormed
  <2>4. DoneSoFar'
    BY <1>0, <1>1, <2>2 DEF DoneSoFar, Behind, InPlace, ProfileDrifted, ProfileWanted
  <2>5. PlannedIsOwed' /\ UnlockedIsOwned' /\ SuccessMeansRestored'
    BY <1>0, <1>1, <2>2 DEF PlannedIsOwed, Written, UnlockedIsOwned, SuccessMeansRestored
  <2>6. QED
    BY <2>3, <2>4, <2>5 DEF Steady
<1>3. CASE State(Current) \notin {"missing", "drifted"}
  <2>1. PICK r \in Runs : r = [run EXCEPT !.failed = @ \/ State(Current) = "source-missing"]
    BY <1>1 DEF Runs
  <2>2. /\ r.at = run.at /\ r.unlocked = run.unlocked /\ r.planned = run.planned
        /\ r.failed = (run.failed \/ State(Current) = "source-missing")
    BY <1>1, <2>1 DEF Runs
  <2>3. run' = NextEntry(r)
    BY <1>3, <2>1 DEF Examine
  <2>4. PICK k \in DOMAIN manifest : k = run.at
    BY <1>1
  <2>5. ~ r.failed => ~ run.failed /\ InPlace(manifest[k])'
    <3> SUFFICES ASSUME ~ r.failed PROVE ~ run.failed /\ InPlace(manifest[k])'
      OBVIOUS
    <3>1. ~ run.failed /\ State(Current) # "source-missing"
      BY <2>2
    <3>2. disk[Current.dest] \in DiskStates
      BY <1>0, <1>1 DEF TypeOK
    <3>3. InPlace(Current)
      <4>1. disk[Current.dest] = "mode" => Current.dest \in modeless
        BY <1>1 DEF IInv, ModesKnown
      <4>2. QED
        BY <1>1, <1>3, <3>1, <3>2, <4>1 DEF State, InPlace, Managed, DiskStates
    <3>4. QED
      BY <1>1, <2>4, <3>1, <3>3 DEF InPlace
  <2>6. \A i \in DOMAIN manifest : i < run.at /\ InPlace(manifest[i]) => InPlace(manifest[i])'
    BY <1>1 DEF InPlace
  <2>7. ~ r.failed => owed' \subseteq r.planned \union skipped'
    BY <1>0, <1>1, <2>2 DEF PlannedIsOwed, Written
  <2>8. QED
    BY <1>0, <1>1, <2>2, <2>3, <2>4, <2>5, <2>6, <2>7, Advances DEF Steady
<1>4. QED
  BY <1>2, <1>3

LEMMA RestoredSteady ==
  ASSUME IInv, Link \/ SetMode
  PROVE  Steady'
<1> USE DEF environment
<1>0. TypeOK /\ Positioned /\ DoneSoFar /\ PlannedIsOwed /\ UnlockedIsOwned
  BY DEF IInv, Steady
<1>1. /\ run.pc \in {"link", "mode"} /\ run.at \in DOMAIN manifest /\ run \in Runs
      /\ Current = manifest[run.at] /\ Current.dest \in Dests /\ Current.actions \subseteq Actions
      /\ UNCHANGED <<manifest, upstream, composed, locked, owed, skipped, modeless, relockLost>>
      /\ Restored("good")
  BY <1>0, AtEntry DEF Link, SetMode, Current
<1>2. PICK r \in Runs : r = [run EXCEPT !.planned = @ \union Current.actions,
                                        !.restarts = @ \/ Current.restarts]
  BY <1>1 DEF Runs
<1>3. /\ r.at = run.at /\ r.unlocked = run.unlocked /\ r.failed = run.failed
      /\ r.planned = run.planned \union Current.actions
  BY <1>1, <1>2 DEF Runs
<1>4. run' = NextEntry(r) /\ disk' = [disk EXCEPT ![Current.dest] = "good"]
  BY <1>1, <1>2 DEF Restored
<1>5. PICK k \in DOMAIN manifest : k = run.at
  BY <1>1
<1>6. InPlace(manifest[k])'
  <2>1. disk'[Current.dest] = "good"
    BY <1>0, <1>1, <1>4 DEF TypeOK
  <2>2. QED
    BY <1>1, <1>5, <2>1 DEF InPlace
<1>7. \A i \in DOMAIN manifest : i < run.at /\ InPlace(manifest[i]) => InPlace(manifest[i])'
  <2>1. PICK x \in DiskStates : x = "good"
    BY DEF DiskStates
  <2>2. QED
    BY <1>0, <1>1, <1>4, <2>1, OthersKept
<1>8. ~ r.failed => owed' \subseteq r.planned \union skipped'
  BY <1>0, <1>1, <1>3 DEF PlannedIsOwed, Written
<1>9. QED
  BY <1>0, <1>1, <1>3, <1>4, <1>5, <1>6, <1>7, <1>8, Advances DEF Steady

LEMMA FailedSteady ==
  ASSUME IInv, WriteFails
  PROVE  Steady'
<1> USE DEF environment
<1>0. TypeOK /\ Positioned /\ DoneSoFar /\ PlannedIsOwed /\ UnlockedIsOwned
  BY DEF IInv, Steady
<1>1. /\ run.pc \in {"unlink", "link", "open", "copy", "mode"}
      /\ run.at \in DOMAIN manifest /\ run \in Runs
      /\ UNCHANGED <<manifest, upstream, disk, composed, locked, relockLost>>
      /\ modeless \subseteq modeless'
  BY <1>0, AtEntry DEF WriteFails, LeaveModeless
<1>2. PICK r \in Runs : r = [run EXCEPT !.failed = TRUE]
  BY <1>1 DEF Runs
<1>3. r.at = run.at /\ r.unlocked = run.unlocked /\ r.failed
  BY <1>1, <1>2 DEF Runs
<1>4. run' = NextEntry(r)
  BY <1>2 DEF WriteFails
<1>5. PICK k \in DOMAIN manifest : k = run.at
  BY <1>1
<1>6. \A i \in DOMAIN manifest : i < run.at /\ InPlace(manifest[i]) => InPlace(manifest[i])'
  BY <1>1 DEF InPlace
<1>7. QED
  BY <1>0, <1>1, <1>3, <1>4, <1>5, <1>6, Advances DEF Steady

(* The writes between the removal of a file and its last one.              *)
LEMMA WritingSteady ==
  ASSUME IInv, Unlink \/ OpenCopy \/ Copy
  PROVE  Steady'
<1> USE DEF environment
<1>0. TypeOK /\ Positioned /\ DoneSoFar /\ PlannedIsOwed /\ UnlockedIsOwned
  BY DEF IInv, Steady
<1>1. /\ run.pc \in {"unlink", "open", "copy"} /\ run.at \in DOMAIN manifest
      /\ run \in Runs /\ Loads(manifest) /\ manifest \in Seq(Entries)
      /\ UNCHANGED <<manifest, upstream, composed, locked, skipped, relockLost>>
      /\ modeless \ {Current.dest} \subseteq modeless'
  BY <1>0, AtEntry DEF Unlink, OpenCopy, Copy, Positioned
<1>2. /\ run'.at = run.at /\ run'.failed = run.failed /\ run'.planned = run.planned
      /\ run'.unlocked = run.unlocked /\ run'.pc \in {"link", "open", "copy", "mode"}
  BY <1>1 DEF Unlink, OpenCopy, Copy, Runs
<1>3. Positioned'
  BY <1>1, <1>2 DEF Positioned, Loads, WellFormed
<1>4. \A i \in DOMAIN manifest : i < run.at /\ InPlace(manifest[i]) => InPlace(manifest[i])'
  <2>1. PICK x \in DiskStates : disk' = [disk EXCEPT ![Current.dest] = x]
    BY DEF Unlink, OpenCopy, Copy, DiskStates
  <2>2. QED
    BY <1>0, <1>1, <2>1, OthersKept
<1>5. DoneSoFar'
  BY <1>0, <1>1, <1>2, <1>4 DEF DoneSoFar, Behind, ProfileDrifted, ProfileWanted
<1>6. owed' \subseteq owed \union Current.actions /\ Current' = Current
  BY <1>1, <1>2 DEF Unlink, OpenCopy, Copy, Current
<1>7. PlannedIsOwed'
  BY <1>0, <1>1, <1>2, <1>6 DEF PlannedIsOwed, Written
<1>8. UnlockedIsOwned' /\ SuccessMeansRestored'
  BY <1>0, <1>1, <1>2 DEF UnlockedIsOwned, SuccessMeansRestored
<1>9. QED
  BY <1>3, <1>5, <1>7, <1>8 DEF Steady

-----------------------------------------------------------------------------
(* The end of a run.                                                       *)

LEMMA RelockSteady ==
  ASSUME IInv, Relock
  PROVE  Steady'
<1> USE DEF environment
<1>0. TypeOK /\ Positioned /\ DoneSoFar /\ PlannedIsOwed /\ UnlockedIsOwned
  BY DEF IInv, Steady
<1>1. /\ run.pc = "relock" /\ run.at \in DOMAIN manifest /\ run \in Runs
      /\ Loads(manifest) /\ manifest \in Seq(Entries)
      /\ UNCHANGED <<manifest, payload, disk, upstream, composed, owed, skipped, modeless>>
  BY <1>0, AtEntry DEF Relock, Positioned
<1>2. /\ run'.at = run.at /\ run'.failed = run.failed /\ run'.planned = run.planned
      /\ run'.unlocked = run.unlocked /\ run'.pc = "actions"
  BY <1>1 DEF Relock, Runs
<1>3. Positioned'
  BY <1>1, <1>2 DEF Positioned, Loads, WellFormed
<1>4. DoneSoFar'
  BY <1>0, <1>1, <1>2 DEF DoneSoFar, Behind, InPlace, ProfileDrifted, ProfileWanted
<1>5. PlannedIsOwed'
  BY <1>0, <1>1, <1>2 DEF PlannedIsOwed, Written
<1>6. locked' \/ relockLost'
  BY <1>0 DEF Relock, UnlockedIsOwned
<1>7. UnlockedIsOwned' /\ SuccessMeansRestored'
  BY <1>2, <1>6 DEF UnlockedIsOwned, SuccessMeansRestored
<1>8. QED
  BY <1>3, <1>4, <1>5, <1>7 DEF Steady

(* A step that ends between the runs keeps the invariant, if nothing is    *)
(* unlocked and only what was skipped waits to be told.                    *)
LEMMA EndsSteady ==
  ASSUME run' \in {IdleRun, [IdleRun EXCEPT !.pc = "start"]},
         locked' \/ relockLost', owed' \subseteq skipped',
         SuccessMeansRestored'
  PROVE  Steady'
<1>1. ~ run'.failed /\ run'.planned = {} /\ run'.pc \in {"idle", "start"}
  BY DEF IdleRun
<1>2. Positioned'
  <2>1. IdleRun = [IdleRun EXCEPT !.pc = "idle"] /\ IdleRun.pc = "idle"
    BY DEF IdleRun
  <2>2. [IdleRun EXCEPT !.pc = "start"].pc = "start"
    BY DEF IdleRun
  <2>3. run' = [IdleRun EXCEPT !.pc = run'.pc]
    BY <2>1, <2>2
  <2>4. QED
    BY <1>1, <2>3 DEF Positioned
<1>3. DoneSoFar' /\ PlannedIsOwed' /\ UnlockedIsOwned'
  BY <1>1 DEF DoneSoFar, PlannedIsOwed, Written, UnlockedIsOwned
<1>4. QED
  BY <1>2, <1>3 DEF Steady

LEMMA EndSteady ==
  ASSUME IInv, RunActions \/ FailRun \/ Kill
  PROVE  Steady'
<1> USE DEF environment
<1>0. TypeOK /\ Positioned /\ DoneSoFar /\ PlannedIsOwed /\ UnlockedIsOwned
  BY DEF IInv, Steady
<1>1. run' = IdleRun
  BY DEF RunActions, FailRun, Kill
<1>2. locked' \/ relockLost'
  BY <1>0 DEF RunActions, FailRun, Kill, UnlockedIsOwned, TypeOK
<1>3. owed' \subseteq skipped'
  <2>1. CASE RunActions
    <3>1. PICK F \in SUBSET Commands(run) :
            /\ owed' = (owed \ (Commands(run) \ F)) \ {"networkmanager-dispatcher"}
            /\ skipped' = (skipped \union run.planned) \ (Commands(run) \ F)
      BY <2>1 DEF RunActions
    <3>2. owed \subseteq run.planned \union skipped
      BY <1>0, <2>1 DEF RunActions, PlannedIsOwed, Written
    <3>3. QED
      BY <3>1, <3>2
  <2>2. CASE FailRun \/ Kill
    BY <2>2 DEF FailRun, Kill
  <2>3. QED
    BY <2>1, <2>2
<1>4. SuccessMeansRestored'
  <2>1. CASE RunActions
    <3>1. /\ run.pc = "actions" /\ ~ run.failed
          /\ UNCHANGED <<manifest, payload, disk, upstream, composed, modeless>>
      BY <2>1 DEF RunActions
    <3>2. (\A i \in DOMAIN manifest : InPlace(manifest[i])) /\ ~ ProfileDrifted
      BY <1>0, <3>1 DEF DoneSoFar, Behind
    <3>3. AllInPlace'
      BY <3>1, <3>2 DEF AllInPlace, InPlace, ProfileDrifted, ProfileWanted
    <3>4. QED
      BY <1>3, <3>3 DEF SuccessMeansRestored
  <2>2. CASE FailRun \/ Kill
    BY <2>2 DEF FailRun, Kill, SuccessMeansRestored
  <2>3. QED
    BY <2>1, <2>2
<1>5. QED
  BY <1>1, <1>2, <1>3, <1>4, EndsSteady

(* What happens between the runs.                                          *)
LEMMA AroundSteady ==
  ASSUME IInv, Boot \/ StartAgain \/ OsUpdate \/ Upgrade
  PROVE  Steady'
<1> USE DEF environment
<1>0. TypeOK /\ Positioned /\ PlannedIsOwed /\ UnlockedIsOwned
  BY DEF IInv, Steady
<1>1. run.pc = "idle"
  BY DEF Boot, StartAgain, OsUpdate, Upgrade, Change
<1>2. run = IdleRun
  BY <1>0, <1>1 DEF Positioned, IdleRun
<1>3. owed \subseteq skipped /\ (locked \/ relockLost)
  BY <1>0, <1>2 DEF PlannedIsOwed, Written, UnlockedIsOwned, IdleRun
<1>4. run' \in {IdleRun, [IdleRun EXCEPT !.pc = "start"]}
  BY <1>2 DEF Boot, StartAgain, OsUpdate, Upgrade
<1>5. (locked' \/ relockLost') /\ owed' \subseteq skipped'
  BY <1>3 DEF Boot, StartAgain, OsUpdate, Upgrade
<1>6. SuccessMeansRestored'
  BY <1>2 DEF Boot, StartAgain, OsUpdate, Upgrade, Change, SuccessMeansRestored, IdleRun
<1>7. QED
  BY <1>4, <1>5, <1>6, EndsSteady

(* A file is without its mode from its copy to its chmod or to the end of  *)
(* the run that stops between them.                                        *)
LEMMA ModesStep == IInv /\ [Next]_vars => ModesKnown'
<1> SUFFICES ASSUME IInv, [Next]_vars, NEW d \in Dests, disk'[d] = "mode"
             PROVE  d \in modeless' \/ (run'.pc = "mode" /\ d = Current'.dest)
  BY DEF ModesKnown
<1> USE DEF environment
<1>0. TypeOK /\ Positioned /\ run \in Runs
  BY DEF IInv, Steady, TypeOK, Runs
<1>1. disk[d] = "mode" => d \in modeless \/ (run.pc = "mode" /\ d = Current.dest)
  BY DEF IInv, ModesKnown
<1>2. CASE StartRun \/ Unlock \/ WriteProfile \/ ProfileFails \/ Examine \/ Relock
           \/ RunActions \/ FailRun \/ Boot \/ StartAgain
  <2>1. run.pc # "mode"
    BY <1>2 DEF StartRun, Unlock, WriteProfile, ProfileFails, Examine, Relock, RunActions,
       FailRun, Boot, StartAgain
  <2>2. UNCHANGED <<disk, modeless>>
    BY <1>2 DEF StartRun, Unlock, WriteProfile, ProfileFails, Examine, Relock, RunActions,
       FailRun, Boot, StartAgain
  <2>3. QED
    BY <1>1, <2>1, <2>2
<1>3. CASE Unlink \/ OpenCopy
  BY <1>0, <1>1, <1>3 DEF Unlink, OpenCopy, TypeOK
<1>4. CASE Copy
  <2>1. run'.pc = "mode" /\ run'.at = run.at /\ manifest' = manifest
    BY <1>0, <1>4 DEF Copy, Runs
  <2>2. Current' = Current
    BY <2>1 DEF Current
  <2>3. CASE d = Current.dest
    BY <2>1, <2>2, <2>3
  <2>4. CASE d # Current.dest
    BY <1>0, <1>1, <1>4, <2>4 DEF Copy, TypeOK
  <2>5. QED
    BY <2>3, <2>4
<1>5. CASE Link \/ SetMode
  BY <1>0, <1>1, <1>5 DEF Link, SetMode, Restored, TypeOK
<1>6. CASE WriteFails \/ Kill
  <2>1. disk' = disk
    BY <1>6 DEF WriteFails, Kill
  <2>2. modeless' = modeless \union (IF run.pc = "mode" THEN {Current.dest} ELSE {})
    BY <1>6 DEF WriteFails, Kill, LeaveModeless
  <2>3. QED
    BY <1>1, <2>1, <2>2
<1>7. CASE OsUpdate
  <2>1. /\ run.pc = "idle" /\ modeless' = modeless
        /\ \E lost \in SUBSET Dests : disk' = [x \in Dests |-> IF x \in lost THEN "none" ELSE disk[x]]
    BY <1>7 DEF OsUpdate, Change
  <2>2. QED
    BY <1>1, <2>1
<1>8. CASE Upgrade
  <2>1. PICK new \in Dests :
          disk' = [disk EXCEPT ![new] = IF @ = "none" THEN @ ELSE "other"]
    BY <1>8 DEF Upgrade
  <2>2. run.pc = "idle" /\ modeless' = modeless
    BY <1>8 DEF Upgrade, Change
  <2>3. disk[d] = "mode"
    BY <1>0, <2>1 DEF TypeOK
  <2>4. QED
    BY <1>1, <2>2, <2>3
<1>9. CASE UNCHANGED vars
  BY <1>1, <1>9 DEF vars, Current
<1>10. QED
  BY <1>2, <1>3, <1>4, <1>5, <1>6, <1>7, <1>8, <1>9 DEF Next

LEMMA NextIInv == IInv /\ [Next]_vars => IInv'
<1> SUFFICES ASSUME IInv, [Next]_vars PROVE IInv'
  OBVIOUS
<1>1. TypeOK'
  BY TypeStep DEF IInv, Steady
<1>2. Steady'
  <2>1. CASE StartRun \/ Unlock \/ WriteProfile \/ ProfileFails
    BY <2>1, BeginSteady
  <2>2. CASE Examine
    BY <2>2, ExamineSteady
  <2>3. CASE Link \/ SetMode
    BY <2>3, RestoredSteady
  <2>4. CASE WriteFails
    BY <2>4, FailedSteady
  <2>5. CASE Unlink \/ OpenCopy \/ Copy
    BY <2>5, WritingSteady
  <2>6. CASE Relock
    BY <2>6, RelockSteady
  <2>7. CASE RunActions \/ FailRun \/ Kill
    BY <2>7, EndSteady
  <2>8. CASE Boot \/ StartAgain \/ OsUpdate \/ Upgrade
    BY <2>8, AroundSteady
  <2>9. CASE UNCHANGED vars
    BY <2>9 DEF vars, IInv, Steady, Positioned, DoneSoFar, Behind, InPlace, ProfileDrifted,
       ProfileWanted, PlannedIsOwed, Written, Current, UnlockedIsOwned,
       SuccessMeansRestored, AllInPlace, Loads, WellFormed
  <2>10. QED
    BY <2>1, <2>2, <2>3, <2>4, <2>5, <2>6, <2>7, <2>8, <2>9 DEF Next
<1>3. ModesKnown'
  BY ModesStep
<1>4. QED
  BY <1>1, <1>2, <1>3 DEF IInv

-----------------------------------------------------------------------------

LEMMA Invariance == Spec => []IInv
<1>1. QED
  BY InitIInv, NextIInv, PTL DEF Spec

(* restore_etc.py: the run, the partition, the files and what is owed stay *)
(* in their types, in every state.                                         *)
THEOREM RestoreTyped == Spec => []TypeOK
<1>1. IInv => TypeOK
  BY DEF IInv
<1>2. QED
  BY <1>1, Invariance, PTL

(* restore(): between runs the system partition is read-only again, for    *)
(* every manifest and after every failure of a write or a command, unless  *)
(* a run was killed or the relock itself failed.                           *)
THEOREM PartitionRelocks == Spec => []PartitionRelocked
<1>1. IInv => PartitionRelocked
  BY DEF IInv, Steady, UnlockedIsOwned, PartitionRelocked
<1>2. QED
  BY <1>1, Invariance, PTL

(* main(): exit status 0 means that every managed file is in place, that   *)
(* the device profile is the one wanted, and that no manager is left with  *)
(* what it read before, unless a run of this boot could not tell it.  The  *)
(* mode of a file is in place too, unless a run was stopped before it.     *)
THEOREM SuccessRestores == Spec => []SuccessMeansRestored
<1>1. IInv => SuccessMeansRestored
  BY DEF IInv, Steady
<1>2. QED
  BY <1>1, Invariance, PTL
=============================================================================
