----------------------------- MODULE RestoreEtc -----------------------------
(***************************************************************************)
(* restore_etc.py --apply, which a oneshot service runs at every boot, and *)
(* steamos_manager_profile.py, which it calls: files of the package that   *)
(* an OS update has removed from /etc and from the read-only system        *)
(* partition are put back, and the managers that read them are told.       *)
(*                                                                         *)
(* A run is a sequence of steps: it may be killed between any two of them, *)
(* each write may raise and each command may fail.                         *)
(***************************************************************************)
EXTENDS Naturals, Sequences, FiniteSets

CONSTANTS
  Manifests,   (* the manifests a release may ship: sequences of entries    *)
  Dests,       (* destinations these manifests name                         *)
  MaxChanges,  (* bound on upgrades, OS updates, edits and lost payloads    *)
  MaxFaults    (* bound on kills, failed writes and failed commands         *)

Places == {"etc", "devices", "elsewhere"}
Actions == {"systemd-system", "dbus-system", "systemd-user", "networkmanager-dispatcher"}

Entries ==
  [dest : Dests, place : Places, type : {"file", "symlink", "other"},
   policy : {"managed", "health-check", "other"},
   source : {"inside", "outside", "none"}, target : {"safe", "unsafe", "none"},
   mode : {"octal", "malformed", "none"}, actions : SUBSET Actions,
   restarts : BOOLEAN]

(* load_manifest accepts a manifest without entries; no release ships one. *)
ASSUME RestoreAssumption ==
  /\ \A m \in Manifests : m \in Seq(Entries) /\ m # <<>>
  /\ IsFiniteSet(Dests) /\ MaxChanges \in Nat /\ MaxFaults \in Nat

(* What a destination holds: nothing, something else (stale, edited, cut   *)
(* off), the canonical content with a foreign mode, or what the manifest   *)
(* says.  A symlink is never "mode".                                       *)
DiskStates == {"none", "other", "mode", "good"}

VARIABLES
  manifest,  (* the manifest of the installed release                       *)
  payload,   (* destinations whose canonical source exists                  *)
  disk,      (* disk[d]: what d holds                                       *)
  upstream,  (* Valve's device profile: "none", "plain" or "tdp"            *)
  composed,  (* ours: "none", "other" or "current" with respect to upstream *)
  locked,    (* the system partition is read-only                           *)
  run,       (* the run in progress                                         *)
  exit,      (* exit status of the last run: "none", "0", "1" or "2"        *)
  owed,      (* actions whose manager has not read what is on disk          *)
  skipped,   (* actions of this boot that a run could not or did not run    *)
  modeless,  (* files that a run left in place before it had set their mode *)
  userBus,   (* /run/user/1000/bus exists                                   *)
  relockLost, (* a run was killed while unlocked, or its relock failed      *)
  changes, faults

environment == <<manifest, payload, upstream, userBus, changes>>
vars == <<manifest, payload, disk, upstream, composed, locked, run, exit, owed,
          skipped, modeless, userBus, relockLost, changes, faults>>

IdleRun == [pc |-> "idle", at |-> 1, unlocked |-> FALSE, failed |-> FALSE,
            planned |-> {}, restarts |-> FALSE]

Init ==
  /\ manifest \in Manifests
  /\ payload = Dests
  /\ disk = [d \in Dests |-> "none"]
  /\ upstream \in {"none", "plain", "tdp"} /\ composed = "none"
  /\ locked = TRUE /\ relockLost = FALSE
  /\ run = IdleRun /\ exit = "none"
  /\ owed = {} /\ skipped = {} /\ modeless = {}
  /\ userBus \in BOOLEAN
  /\ changes = 0 /\ faults = 0

Fault == faults < MaxFaults /\ faults' = faults + 1

----------------------------------------------------------------------------
(* Reading the manifest.                                                   *)

(* _parse_artifact and the validators it calls.                            *)
WellFormed(e) ==
  /\ e.place # "elsewhere"
  /\ e.type # "other" /\ e.policy # "other"
  /\ e.mode # "malformed"
  /\ e.type = "file" /\ e.policy = "managed" => e.source = "inside"
  /\ IF e.type = "symlink" THEN e.target = "safe" ELSE e.target = "none"

(* load_manifest.                                                          *)
Loads(m) ==
  /\ \A i \in DOMAIN m : WellFormed(m[i])
  /\ \A i, j \in DOMAIN m : m[i].dest = m[j].dest => i = j

Immutable(e) == e.place = "devices"
Managed(e) == e.policy = "managed"

(* Mutant: a file that exists is taken to be right.                        *)
StateExists(e) ==
  IF e.policy = "health-check" THEN "health-check"
  ELSE IF e.type = "file" /\ e.dest \notin payload THEN "source-missing"
  ELSE IF disk[e.dest] = "none" THEN "missing" ELSE "present"

(* _process_artifact with apply false.                                     *)
State(e) ==
  IF e.policy = "health-check" THEN "health-check"
  ELSE IF e.type = "file" /\ e.dest \notin payload THEN "source-missing"
  ELSE CASE disk[e.dest] = "none" -> "missing"
         [] disk[e.dest] = "other" -> "drifted"
         [] OTHER -> "present"

(* Mutant: Valve's profile is taken over without the appended section.     *)
ProfileCopied == upstream

(* steamos_manager_profile.decide: a profile of ours exists exactly when   *)
(* Valve's does and sets no TDP limit itself.                              *)
ProfileWanted == IF upstream = "plain" THEN "current" ELSE "none"
ProfileDrifted == composed # ProfileWanted

(* _needs_system_partition_write, and the composed profile beside it.      *)
NeedsUnlock ==
  \/ ProfileDrifted
  \/ \E i \in DOMAIN manifest :
       Immutable(manifest[i]) /\ State(manifest[i]) \in {"missing", "drifted"}

(* What the manifest says of e holds on disk; a run never looks at the     *)
(* mode of a file again, so the files that a run left without one stay.    *)
InPlace(e) ==
  Managed(e) => \/ disk[e.dest] = "good"
                \/ disk[e.dest] = "mode" /\ e.dest \in modeless

----------------------------------------------------------------------------
(* One run of restore(apply=True).                                         *)

StartRun ==
  /\ run.pc = "start"
  /\ IF ~ Loads(manifest)
     THEN run' = IdleRun /\ exit' = "2"
     ELSE /\ run' = [run EXCEPT !.pc = IF NeedsUnlock THEN "unlock" ELSE "profile"]
          /\ UNCHANGED exit
  /\ UNCHANGED <<environment, disk, composed, locked, owed, skipped, modeless, relockLost, faults>>

(* steamos-readonly disable; when it fails there is only a warning.        *)
Unlock ==
  /\ run.pc = "unlock"
  /\ \/ /\ locked' = FALSE
        /\ run' = [run EXCEPT !.pc = "profile", !.unlocked = TRUE]
        /\ UNCHANGED faults
     \/ /\ Fault
        /\ run' = [run EXCEPT !.pc = "profile"]
        /\ UNCHANGED locked
  /\ UNCHANGED <<environment, disk, composed, exit, owed, skipped, modeless, relockLost>>

(* _apply_device_profile removes a profile that should not exist, and      *)
(* truncates before it writes one that should.                             *)
WriteProfile ==
  /\ run.pc = "profile"
  /\ ~ (ProfileDrifted /\ locked)
  /\ IF ~ ProfileDrifted
     THEN run' = [run EXCEPT !.pc = "artifact"] /\ UNCHANGED composed
     ELSE IF ProfileWanted = "none" \/ composed = "other"
     THEN composed' = ProfileWanted /\ run' = [run EXCEPT !.pc = "artifact"]
     ELSE composed' = "other" /\ UNCHANGED run
  /\ UNCHANGED <<environment, disk, locked, exit, owed, skipped, modeless, relockLost, faults>>

(* An OSError in it: before the write, after the truncation, or at the     *)
(* chmod and chown that follow the whole write.                            *)
ProfileFails ==
  /\ run.pc = "profile" /\ ProfileDrifted
  /\ IF locked THEN UNCHANGED <<composed, faults>>
     ELSE /\ Fault
          /\ composed' \in {composed} \union ({ProfileWanted} \ {"none"})
  /\ run' = [run EXCEPT !.pc = "artifact", !.failed = TRUE]
  /\ UNCHANGED <<environment, disk, locked, exit, owed, skipped, modeless, relockLost>>

Current == manifest[run.at]

(* The run after it has dealt with the entry it is at.                     *)
NextEntry(r) ==
  IF r.at < Len(manifest) THEN [r EXCEPT !.at = @ + 1, !.pc = "artifact"]
  ELSE [r EXCEPT !.pc = "relock"]

(* _process_artifact compares; only a missing source is a failure here.    *)
Examine ==
  /\ run.pc = "artifact"
  /\ LET s == State(Current)
     IN  IF s \in {"missing", "drifted"}
         THEN run' = [run EXCEPT !.pc = "unlink"]
         ELSE run' = NextEntry([run EXCEPT !.failed = @ \/ s = "source-missing"])
  /\ UNCHANGED <<environment, disk, composed, locked, exit, owed, skipped, modeless, relockLost, faults>>

Writable(e) == ~ (Immutable(e) /\ locked)

(* unlink(), then copyfile() opens the file, fills it, and chmod and chown *)
(* follow; a symlink is made in one step.                                  *)
Unlink ==
  /\ run.pc = "unlink" /\ Writable(Current)
  /\ disk' = [disk EXCEPT ![Current.dest] = "none"]
  /\ run' = [run EXCEPT !.pc = IF Current.type = "symlink" THEN "link" ELSE "open"]
  /\ owed' = owed \union Current.actions /\ modeless' = modeless \ {Current.dest}
  /\ UNCHANGED <<environment, composed, locked, exit, skipped, relockLost, faults>>

(* Mutant: the actions of a restored file are not planned.                 *)
RestoredUnplanned(state) ==
  /\ disk' = [disk EXCEPT ![Current.dest] = state]
  /\ run' = NextEntry(run)

(* "restored": _restore_artifacts plans what the entry asks for.           *)
Restored(state) ==
  /\ disk' = [disk EXCEPT ![Current.dest] = state]
  /\ run' = NextEntry([run EXCEPT !.planned = @ \union Current.actions,
                                  !.restarts = @ \/ Current.restarts])

Link ==
  /\ run.pc = "link"
  /\ Restored("good")
  /\ UNCHANGED <<environment, composed, locked, exit, owed, skipped, modeless, relockLost, faults>>

OpenCopy ==
  /\ run.pc = "open"
  /\ disk' = [disk EXCEPT ![Current.dest] = "other"]
  /\ run' = [run EXCEPT !.pc = "copy"]
  /\ UNCHANGED <<environment, composed, locked, exit, owed, skipped, modeless, relockLost, faults>>

Copy ==
  /\ run.pc = "copy"
  /\ disk' = [disk EXCEPT ![Current.dest] = "mode"]
  /\ run' = [run EXCEPT !.pc = "mode"]
  /\ UNCHANGED <<environment, composed, locked, exit, owed, skipped, modeless, relockLost, faults>>

SetMode ==
  /\ run.pc = "mode"
  /\ Restored("good")
  /\ UNCHANGED <<environment, composed, locked, exit, owed, skipped, modeless, relockLost, faults>>

(* A file whose run stops here has all of its content and no mode.         *)
LeaveModeless ==
  modeless' = modeless \union (IF run.pc = "mode" THEN {Current.dest} ELSE {})

(* An OSError anywhere above: "restore-failed", and on with the next.      *)
WriteFails ==
  /\ run.pc \in {"unlink", "link", "open", "copy", "mode"}
  /\ IF Writable(Current) THEN Fault ELSE UNCHANGED faults
  /\ run' = NextEntry([run EXCEPT !.failed = TRUE])
  /\ LeaveModeless
  /\ UNCHANGED <<environment, disk, composed, locked, exit, owed, skipped, relockLost>>

(* Mutant: the partition is left unlocked when something failed.           *)
RelockOnSuccess ==
  /\ run.pc = "relock"
  /\ run' = [run EXCEPT !.pc = "actions"]
  /\ locked' = (locked \/ (run.unlocked /\ ~ run.failed))
  /\ UNCHANGED <<environment, disk, composed, exit, owed, skipped, modeless, relockLost, faults>>

(* The finally clause; whether the command succeeds is not looked at.      *)
Relock ==
  /\ run.pc = "relock"
  /\ run' = [run EXCEPT !.pc = "actions"]
  /\ IF run.unlocked
     THEN \/ locked' = TRUE /\ relockLost' = FALSE /\ UNCHANGED faults
          \/ Fault /\ relockLost' = TRUE /\ UNCHANGED locked
     ELSE UNCHANGED <<locked, relockLost, faults>>
  /\ UNCHANGED <<environment, disk, composed, exit, owed, skipped, modeless>>

(* _run_actions, when nothing failed: the reloads of systemd and D-Bus are *)
(* fatal, the user manager is told only when its bus is there, and nothing *)
(* is done for the NetworkManager dispatcher.  F is what fails.            *)
Commands(r) ==
  (r.planned \intersect {"systemd-system", "dbus-system"})
    \union (IF userBus /\ ("systemd-user" \in r.planned \/ r.restarts)
            THEN {"systemd-user"} ELSE {})

RunActions ==
  /\ run.pc = "actions" /\ ~ run.failed
  /\ \E F \in SUBSET Commands(run) :
       /\ Cardinality(F) <= 1
       /\ IF F = {} THEN UNCHANGED faults ELSE Fault
       /\ owed' = (owed \ (Commands(run) \ F)) \ {"networkmanager-dispatcher"}
       /\ exit' = IF F \subseteq {"systemd-user"} THEN "0" ELSE "1"
       /\ skipped' = (skipped \union run.planned) \ (Commands(run) \ F)
  /\ run' = IdleRun
  /\ UNCHANGED <<environment, disk, composed, locked, modeless, relockLost>>

(* Failures: no action is run, and the exit status says so.                *)
FailRun ==
  /\ run.pc = "actions" /\ run.failed
  /\ exit' = "1" /\ skipped' = skipped \union owed
  /\ run' = IdleRun
  /\ UNCHANGED <<environment, disk, composed, locked, owed, modeless, relockLost, faults>>

RunStep ==
  \/ StartRun \/ Unlock \/ WriteProfile \/ ProfileFails \/ Examine
  \/ Unlink \/ Link \/ OpenCopy \/ Copy \/ SetMode \/ WriteFails
  \/ Relock \/ RunActions \/ FailRun

----------------------------------------------------------------------------
(* What happens around the runs.                                           *)

(* Power is lost or the service is killed.                                 *)
Kill ==
  /\ run.pc \notin {"idle", "start"}
  /\ Fault
  /\ run' = IdleRun /\ exit' = "none"
  /\ relockLost' = (relockLost \/ (run.unlocked /\ ~ locked))
  /\ skipped' = skipped \union owed /\ LeaveModeless
  /\ UNCHANGED <<environment, disk, composed, locked, owed>>

(* At boot every manager reads what is on disk, and the service starts.    *)
Boot ==
  /\ run.pc = "idle"
  /\ run' = [IdleRun EXCEPT !.pc = "start"]
  /\ owed' = {} /\ skipped' = {}
  /\ userBus' \in BOOLEAN
  /\ UNCHANGED <<manifest, payload, disk, upstream, composed, locked, exit,
                 modeless, relockLost, changes, faults>>

(* The service is started again by hand, without a boot.                   *)
StartAgain ==
  /\ run.pc = "idle"
  /\ run' = [IdleRun EXCEPT !.pc = "start"]
  /\ UNCHANGED <<environment, disk, composed, locked, exit, owed, skipped,
                 modeless, relockLost, faults>>

Change == run.pc = "idle" /\ changes < MaxChanges /\ changes' = changes + 1 /\ exit' = "none"

(* A new OS image: the system partition is replaced, locked, and what the  *)
(* /etc overlay keeps is arbitrary.                                        *)
OsUpdate ==
  /\ Change
  /\ \E lost \in SUBSET Dests : disk' = [d \in Dests |-> IF d \in lost THEN "none" ELSE disk[d]]
  /\ upstream' \in {"none", "plain", "tdp"}
  /\ composed' = "none" /\ locked' = TRUE /\ relockLost' = FALSE
  /\ UNCHANGED <<manifest, payload, run, owed, skipped, modeless, userBus, faults>>

(* A new release of the package: other payloads, another manifest.         *)
Upgrade ==
  /\ Change
  /\ manifest' \in Manifests
  /\ \E gone \in {{}} \union {{d} : d \in Dests} : payload' = Dests \ gone
  /\ \E new \in Dests : disk' = [disk EXCEPT ![new] = IF @ = "none" THEN @ ELSE "other"]
  /\ composed' \in {composed, IF composed = "none" THEN "none" ELSE "other"}
  /\ UNCHANGED <<upstream, locked, run, owed, skipped, modeless, userBus,
                 relockLost, faults>>

Next ==
  \/ StartRun \/ Unlock \/ WriteProfile \/ ProfileFails \/ Examine
  \/ Unlink \/ Link \/ OpenCopy \/ Copy \/ SetMode \/ WriteFails
  \/ Relock \/ RunActions \/ FailRun
  \/ Kill \/ Boot \/ StartAgain \/ OsUpdate \/ Upgrade

(* A run that started goes on, and a machine in use is booted again.       *)
Fairness == WF_vars(RunStep) /\ WF_vars(Boot)

Spec == Init /\ [][Next]_vars
FairSpec == Spec /\ Fairness

----------------------------------------------------------------------------
(* Properties.                                                             *)

TypeOK ==
  /\ manifest \in Manifests /\ payload \subseteq Dests
  /\ disk \in [Dests -> DiskStates]
  /\ upstream \in {"none", "plain", "tdp"}
  /\ composed \in {"none", "other", "current"}
  /\ run \in [pc : {"idle", "start", "unlock", "profile", "artifact", "unlink", "link",
                    "open", "copy", "mode", "relock", "actions"},
              at : Nat \ {0}, unlocked : BOOLEAN, failed : BOOLEAN,
              planned : SUBSET Actions, restarts : BOOLEAN]
  /\ exit \in {"none", "0", "1", "2"}
  /\ owed \subseteq Actions /\ skipped \subseteq Actions /\ modeless \subseteq Dests
  /\ userBus \in BOOLEAN
  /\ locked \in BOOLEAN /\ relockLost \in BOOLEAN
  /\ changes \in 0 .. MaxChanges /\ faults \in 0 .. MaxFaults

AllInPlace ==
  /\ \A i \in DOMAIN manifest : InPlace(manifest[i])
  /\ ~ ProfileDrifted

(* A run that reports success has put everything back: whatever earlier    *)
(* kills left half written, every managed file has the canonical content   *)
(* and its mode, unless an earlier run was stopped between the two, and    *)
(* the device profile is the one Valve's asks for; and it owes no reload   *)
(* but those that a run of this boot was killed before, failed at or       *)
(* found no user bus for.                                                  *)
SuccessMeansRestored ==
  exit = "0" /\ run.pc = "idle" => AllInPlace /\ owed \subseteq skipped

(* Between runs the system partition is read-only again, also after runs   *)
(* that failed, unless a run was killed or the relock itself failed.       *)
PartitionRelocked == run.pc = "idle" /\ ~ relockLost => locked

(* Whatever OS updates, upgrades and kills left, a machine that is booted  *)
(* again, with a complete payload and a valid manifest, ends up restored.  *)
BootsHeal ==
  <>[](payload = Dests /\ Loads(manifest)) => <>[]AllInPlace

(* manifest.toml gives every file its mode and every unit its reload; that *)
(* success means both, without the two exceptions, does not hold: a run    *)
(* that stops after the copy leaves a file that compares equal ever after. *)
SuccessMeansModes ==
  exit = "0" /\ run.pc = "idle" =>
    \A i \in DOMAIN manifest : Managed(manifest[i]) => disk[manifest[i].dest] # "mode"
SuccessMeansTold == exit = "0" /\ run.pc = "idle" => owed \subseteq {"systemd-user"}
=============================================================================
