--------------------------- MODULE RuntimeControl ---------------------------
(***************************************************************************)
(* The runtime control file (game_power_control.py), the governor that     *)
(* reads it on every tick (_refresh_config, the frame target provider and  *)
(* the runtime snapshot) and the Decky backend that shows the snapshot.    *)
(*                                                                         *)
(* Command line processes change the file by read, modify and rename, with *)
(* no lock.  The governor looks whether the file exists, then reads it.    *)
(***************************************************************************)
EXTENDS Naturals, FiniteSets

CONSTANTS
  Clients,      (* processes that may run a command at the same time        *)
  Fps,          (* frame targets a user may set                             *)
  Personas,     (* personas a user may set                                  *)
  Offered,      (* the commands these instances run                         *)
  HandEdits,    (* what an edit by hand may leave                           *)
  BaseMode,     (* --game-power-mode of the service                         *)
  FeedStale,    (* frame_feed_stale_s, in clock steps                       *)
  SnapStale,    (* RUNTIME_SNAPSHOT_STALE_AFTER_S, in clock steps           *)
  MaxCommands,  (* bound on commands                                        *)
  MaxEdits,     (* bound on edits of the file by hand                       *)
  MaxFaults     (* bound on failed writes, daemon deaths, plugs and unplugs *)

PublicModes == {"automatic", "legacy", "observe", "off"}

ASSUME ControlAssumption ==
  /\ BaseMode \in {"target-balance", "gpu-priority", "observe", "off"}
  /\ IsFiniteSet(Clients) /\ IsFiniteSet(Fps) /\ IsFiniteSet(Personas)
  /\ {"none", "bad"} \cap (Fps \union Personas) = {}
  /\ {"battery", "ac-performance"} \subseteq Personas
  /\ FeedStale \in Nat /\ SnapStale \in Nat
  /\ MaxCommands \in Nat /\ MaxEdits \in Nat /\ MaxFaults \in Nat

VARIABLES
  file,      (* the control file                                            *)
  client,    (* client[c]: the command c runs                               *)
  commands,  (* commands begun                                              *)
  edits,     (* edits by hand so far                                        *)
  gov,       (* the governor's tick                                         *)
  config,    (* GamePowerConfig as the governor holds it                    *)
  source,    (* "ac" or "battery"                                           *)
  feedAge,   (* age of the frame feed's record                              *)
  snap,      (* the runtime snapshot file                                   *)
  snapAge,   (* its age                                                     *)
  faults,
  intent,    (* what the commands asked for, one after the other            *)
  serial     (* no command stored over a change it had not read, no edit    *)

vars == <<file, client, commands, edits, gov, config, source, feedAge, snap,
          snapAge, faults, intent, serial>>

Fault == faults < MaxFaults /\ faults' = faults + 1

----------------------------------------------------------------------------
(* The file: absent, unreadable ("damaged": no JSON, no object, another    *)
(* schema), or a payload with three optional fields, each maybe invalid.   *)

Payload(mode, fps, persona) ==
  [there |-> "ok", mode |-> mode, fps |-> fps, persona |-> persona]
Blank == Payload("none", "none", "none")
Absent == [Blank EXCEPT !.there = "absent"]
Damaged == [Blank EXCEPT !.there = "damaged"]

Files ==
  {Absent, Damaged} \union
  [there : {"ok"}, mode : PublicModes \union {"none", "bad"},
   fps : Fps \union {"none", "bad"}, persona : Personas \union {"none", "bad"}]

(* _read_valid_payload, with the blank payload its callers fall back to.   *)
Loaded(f) == IF f.there = "ok" THEN f ELSE Blank

(* _payload_has_active_override                                            *)
HasOverride(f) ==
  f.mode \in PublicModes \/ f.fps \in Fps \/ f.persona \in Personas

OrUnlink(f) == IF HasOverride(f) THEN f ELSE Absent

SetMode(seen, mode) ==
  LET p == Loaded(seen)
  IN  [p EXCEPT !.mode = mode, !.fps = IF p.fps = "bad" THEN "none" ELSE p.fps]

SetFps(seen, fps) == [Loaded(seen) EXCEPT !.fps = fps]

SetPersona(seen, persona) == [Loaded(seen) EXCEPT !.persona = persona]

ClearFps(seen) ==
  IF seen.there = "ok" THEN OrUnlink([seen EXCEPT !.fps = "none"]) ELSE Absent

(* Mutant: clearing the persona forgets the other overrides.               *)
ClearPersonaUnlinks(seen, now) == IF seen.there = "ok" THEN Absent ELSE now

(* clear_persona leaves a file it cannot read as it is.                    *)
ClearPersona(seen, now) ==
  IF seen.there = "ok" THEN OrUnlink([seen EXCEPT !.persona = "none"]) ELSE now

Commands ==
  [op : {"set-mode"}, arg : PublicModes]
  \union [op : {"set-fps-target"}, arg : Fps]
  \union [op : {"set-persona"}, arg : Personas]
  \union [op : {"clear-fps-target", "clear-persona", "restore-defaults"}, arg : {"none"}]

(* The commands of an instance are commands of the interface, and an edit  *)
(* leaves something that the readers tell apart.                           *)
ASSUME InputAssumption == Offered \subseteq Commands /\ HandEdits \subseteq Files

(* What the file becomes, from what the command read and what is there.    *)
Stored(cmd, seen, now) ==
  CASE cmd.op = "set-mode" -> SetMode(seen, cmd.arg)
    [] cmd.op = "set-fps-target" -> SetFps(seen, cmd.arg)
    [] cmd.op = "set-persona" -> SetPersona(seen, cmd.arg)
    [] cmd.op = "clear-fps-target" -> ClearFps(seen)
    [] cmd.op = "clear-persona" -> ClearPersona(seen, now)
    [] cmd.op = "restore-defaults" -> Absent

(* The same command on a map from fields to settings.                      *)
Asked(cmd, was) ==
  CASE cmd.op = "set-mode" -> [was EXCEPT !.mode = cmd.arg]
    [] cmd.op = "set-fps-target" -> [was EXCEPT !.fps = cmd.arg]
    [] cmd.op = "set-persona" -> [was EXCEPT !.persona = cmd.arg]
    [] cmd.op = "clear-fps-target" -> [was EXCEPT !.fps = "none"]
    [] cmd.op = "clear-persona" -> [was EXCEPT !.persona = "none"]
    [] cmd.op = "restore-defaults" -> Blank

Idle == [pc |-> "idle", cmd |-> [op |-> "restore-defaults", arg |-> "none"],
         seen |-> Absent]

(* A command starts: argument validation, then the read of the file.       *)
Begin(c, cmd) ==
  /\ client[c].pc = "idle" /\ commands < MaxCommands
  /\ client' = [client EXCEPT ![c] = [pc |-> "loaded", cmd |-> cmd, seen |-> file]]
  /\ commands' = commands + 1
  /\ UNCHANGED <<file, edits, gov, config, source, feedAge, snap, snapAge,
                 faults, intent, serial>>

(* Mutant: the file is truncated and written in place.                     *)
StoreInPlace(c) ==
  LET me == client[c]
  IN  /\ \/ /\ me.pc = "loaded"
            /\ file' = Damaged
            /\ client' = [client EXCEPT ![c].pc = "torn"]
            /\ UNCHANGED <<intent, serial>>
         \/ /\ me.pc = "torn"
            /\ file' = Stored(me.cmd, me.seen, file)
            /\ client' = [client EXCEPT ![c] = Idle]
            /\ serial' = FALSE /\ intent' = Blank
      /\ UNCHANGED <<commands, edits, gov, config, source, feedAge, snap,
                     snapAge, faults>>

(* _atomic_json_write renames a complete file over the old one, or the     *)
(* file is unlinked.                                                       *)
Store(c) ==
  LET me == client[c]
  IN  /\ me.pc = "loaded"
      /\ file' = Stored(me.cmd, me.seen, file)
      /\ client' = [client EXCEPT ![c] = Idle]
      /\ serial' = IF me.cmd.op = "restore-defaults" THEN TRUE
                   ELSE serial /\ me.seen = file
      /\ intent' = IF serial' THEN Asked(me.cmd, intent) ELSE Blank
      /\ UNCHANGED <<commands, edits, gov, config, source, feedAge, snap,
                     snapAge, faults>>

(* The temporary file cannot be written: it is removed, the command fails. *)
StoreFails(c) ==
  /\ client[c].pc = "loaded"
  /\ client[c].cmd.op \in {"set-mode", "set-fps-target", "set-persona"}
  /\ Fault
  /\ client' = [client EXCEPT ![c] = Idle]
  /\ UNCHANGED <<file, commands, edits, gov, config, source, feedAge, snap,
                 snapAge, intent, serial>>

(* Somebody edits the file.                                                *)
Edit(f) ==
  /\ edits < MaxEdits
  /\ file' = f
  /\ edits' = edits + 1 /\ serial' = FALSE /\ intent' = Blank
  /\ UNCHANGED <<client, commands, gov, config, source, feedAge, snap, snapAge,
                 faults>>

----------------------------------------------------------------------------
(* The governor's tick.                                                    *)

Modes == {"target-balance", "gpu-priority", "observe", "off"}

Internal == [automatic |-> "target-balance", legacy |-> "gpu-priority",
             observe |-> "observe", off |-> "off"]

(* public_game_power_mode: both automatic controllers have one name.       *)
PublicMode(mode) ==
  IF mode \in {"target-balance", "gpu-priority"} THEN "automatic" ELSE mode

PersonaOf(src) == IF src = "battery" THEN "battery" ELSE "ac-performance"

Healthy(f) ==
  /\ f.there # "damaged"
  /\ "bad" \notin {f.mode, f.fps, f.persona}

(* Mutant: the fields are taken over without the health of the file.       *)
EffectiveUnchecked(f, src) ==
  [valid |-> Healthy(f),
   mode |-> IF f.mode \in PublicModes THEN Internal[f.mode] ELSE BaseMode,
   fps |-> f.fps,
   persona |-> IF f.persona # "none" THEN f.persona ELSE PersonaOf(src)]

(* effective_config_from_runtime_file over the persona of the source.      *)
Effective(f, src) ==
  LET ok == Healthy(f)
  IN  [valid |-> ok,
       mode |-> CASE ~ok -> "off"
                  [] ok /\ f.mode = "none" -> BaseMode
                  [] OTHER -> Internal[f.mode],
       fps |-> IF ok THEN f.fps ELSE "none",
       persona |-> IF ok /\ f.persona # "none" THEN f.persona ELSE PersonaOf(src)]

Configs ==
  [valid : BOOLEAN, mode : Modes, fps : Fps \union {"none"}, persona : Personas]

NoTick == [pc |-> "idle", live |-> FALSE, frameAge |-> 0, raced |-> FALSE]

NoSnap == [there |-> FALSE, mode |-> "off", status |-> "unavailable",
           claim |-> FALSE, frameAge |-> 0]

Init ==
  /\ file = Absent /\ client = [c \in Clients |-> Idle]
  /\ commands = 0 /\ edits = 0 /\ faults = 0
  /\ source \in {"ac", "battery"}
  /\ gov = NoTick /\ config = Effective(Absent, source)
  /\ feedAge = FeedStale + 1
  /\ snap = NoSnap /\ snapAge = 0
  /\ intent = Blank /\ serial = TRUE

Outside == <<file, client, commands, edits, source, feedAge, faults, intent, serial>>

Configured(f, raced) ==
  /\ config' = Effective(f, source)
  /\ gov' = [NoTick EXCEPT !.pc = IF config'.mode = "off" THEN "sampled" ELSE "ready",
                           !.raced = raced]

(* Mutant: a missing file leaves the configuration as it is.               *)
LookForFileKeeps ==
  /\ gov.pc = "idle"
  /\ IF file.there = "absent"
     THEN /\ gov' = [NoTick EXCEPT !.pc = IF config.mode = "off" THEN "sampled" ELSE "ready"]
          /\ UNCHANGED config
     ELSE gov' = [gov EXCEPT !.pc = "found"] /\ UNCHANGED config
  /\ UNCHANGED <<Outside, snap, snapAge>>

(* read_runtime_status: path.exists() ...                                  *)
LookForFile ==
  /\ gov.pc = "idle"
  /\ IF file.there = "absent" THEN Configured(Absent, FALSE)
     ELSE gov' = [gov EXCEPT !.pc = "found"] /\ UNCHANGED config
  /\ UNCHANGED <<Outside, snap, snapAge>>

(* ... and then read_text(): a file that has gone in between is invalid.   *)
ReadFile ==
  /\ gov.pc = "found"
  /\ IF file.there = "absent" THEN Configured(Damaged, TRUE)
     ELSE Configured(file, FALSE)
  /\ UNCHANGED <<Outside, snap, snapAge>>

(* Mutant: a record of the feed never gets stale.                          *)
AnyFeed == feedAge <= FeedStale + 1

FreshFeed == feedAge <= FeedStale

(* The frame target: the file, read a second time, or the limit of the     *)
(* compositor.                                                             *)
TargetKnown(limit) == Loaded(file).fps \in Fps \/ limit

(* Frames are ready: a fresh record of enough of them.                     *)
FrameReady(enough) == FreshFeed /\ enough

(* The observer's sample, live when target and frames are both ready.      *)
Sample(limit, enough) ==
  LET live == TargetKnown(limit) /\ FrameReady(enough)
  IN
  /\ gov.pc = "ready"
  /\ gov' = [gov EXCEPT !.pc = "sampled", !.live = live,
                        !.frameAge = IF live THEN feedAge ELSE 0]
  /\ UNCHANGED <<Outside, config, snap, snapAge>>

(* evidence_readiness_from_runtime                                         *)
Readiness ==
  CASE ~config.valid -> "control-invalid"
    [] config.valid /\ config.mode = "off" -> "stopped"
    [] config.mode = "observe" -> "view-data-only"
    [] OTHER -> IF gov.live THEN "target-aware-live"
                ELSE "power-signals-only"

(* runtime_snapshot_payload and write_runtime_snapshot.                    *)
Publish ==
  /\ gov.pc = "sampled"
  /\ snap' = [there |-> TRUE, mode |-> PublicMode(config.mode), status |-> Readiness,
              claim |-> Readiness = "target-aware-live", frameAge |-> gov.frameAge]
  /\ snapAge' = 0
  /\ gov' = [NoTick EXCEPT !.raced = gov.raced]
  /\ UNCHANGED <<Outside, config>>

PublishFails ==
  /\ gov.pc = "sampled"
  /\ Fault
  /\ gov' = [NoTick EXCEPT !.raced = gov.raced]
  /\ UNCHANGED <<file, client, commands, edits, config, source, feedAge, snap,
                 snapAge, intent, serial>>

(* The daemon dies; /run keeps its last snapshot.                          *)
Die ==
  /\ gov.pc # "down"
  /\ Fault
  /\ gov' = [NoTick EXCEPT !.pc = "down"]
  /\ UNCHANGED <<file, client, commands, edits, config, source, feedAge, snap,
                 snapAge, intent, serial>>

(* systemd starts it again, with the configuration of its command line.    *)
Restart ==
  /\ gov.pc = "down"
  /\ gov' = NoTick /\ config' = Effective(Absent, source)
  /\ UNCHANGED <<Outside, snap, snapAge>>

----------------------------------------------------------------------------
(* The world.                                                              *)

PlugOrUnplug ==
  /\ Fault
  /\ source' = IF source = "ac" THEN "battery" ELSE "ac"
  /\ UNCHANGED <<file, client, commands, edits, gov, config, feedAge, snap,
                 snapAge, intent, serial>>

(* The overlay process writes a record of the frames just shown.           *)
FeedWritten ==
  /\ feedAge' = 0
  /\ UNCHANGED <<file, client, commands, edits, gov, config, source, snap,
                 snapAge, faults, intent, serial>>

Older(age, limit) == IF age > limit THEN age ELSE age + 1

(* A step of the clock.                                                    *)
TimePasses ==
  /\ feedAge' = Older(feedAge, FeedStale)
  /\ snapAge' = Older(snapAge, SnapStale)
  /\ UNCHANGED <<file, client, commands, edits, gov, config, source, snap,
                 faults, intent, serial>>

GovernorStep ==
  \/ LookForFile \/ ReadFile
  \/ \E limit, enough \in BOOLEAN : Sample(limit, enough)
  \/ Publish \/ PublishFails \/ Die \/ Restart

Next ==
  \/ \E c \in Clients : \E cmd \in Offered : Begin(c, cmd)
  \/ \E c \in Clients : Store(c) \/ StoreFails(c)
  \/ \E f \in HandEdits : Edit(f)
  \/ GovernorStep
  \/ PlugOrUnplug \/ FeedWritten \/ TimePasses

Spec == Init /\ [][Next]_vars

(* The governor's task keeps running, systemd restarts it, and a command   *)
(* that has begun ends.                                                    *)
FairSpec ==
  /\ Spec
  /\ WF_vars(LookForFile) /\ WF_vars(ReadFile)
  /\ WF_vars(\E limit, enough \in BOOLEAN : Sample(limit, enough))
  /\ WF_vars(Publish) /\ WF_vars(Restart)
  /\ \A c \in Clients : WF_vars(Store(c))

----------------------------------------------------------------------------
(* The Decky backend: what get_status shows of the snapshot.               *)

Unavailable == [status |-> "unavailable", claim |-> FALSE]

(* The cross-checks of _public_evidence_readiness.                         *)
Consistent(s) ==
  /\ s.claim => s.status = "target-aware-live" /\ s.mode = "automatic"
  /\ s.status = "control-invalid" => ~s.claim

(* _public_runtime_snapshot, stale after SnapStale.                        *)
View ==
  IF ~snap.there \/ snapAge > SnapStale \/ ~Consistent(snap) THEN Unavailable
  ELSE [status |-> snap.status, claim |-> snap.claim]

----------------------------------------------------------------------------
(* Properties.                                                             *)

TypeOK ==
  /\ file \in Files
  /\ client \in [Clients -> [pc : {"idle", "loaded"}, cmd : Commands, seen : Files]]
  /\ commands \in 0..MaxCommands /\ edits \in 0..MaxEdits /\ faults \in 0..MaxFaults
  /\ gov \in [pc : {"down", "idle", "found", "ready", "sampled"}, live : BOOLEAN,
              frameAge : 0..(FeedStale + 1), raced : BOOLEAN]
  /\ config \in Configs /\ source \in {"ac", "battery"}
  /\ feedAge \in 0..(FeedStale + 1) /\ snapAge \in 0..(SnapStale + 1)
  /\ snap.mode \in {"automatic", "observe", "off"}
  /\ intent \in Files /\ serial \in BOOLEAN

(* Reading, changing, renaming and unlinking the whole file amounts to     *)
(* three independent settings: after commands of which none overtook       *)
(* another and no edit by hand, the file says exactly what they asked for. *)
SerialIntent == serial => Loaded(file) = intent

(* set_mode, set_persona and the rest never let the governor see a half    *)
(* written file: as long as nobody edits it by hand, the governor finds it *)
(* invalid, and turns itself off, only when a command unlinked it between  *)
(* its look and its read.                                                  *)
InvalidHasCause == ~config.valid /\ gov.pc # "down" => edits > 0 \/ gov.raced

(* A claim on the panel is backed by data: it comes from a snapshot young  *)
(* enough, taken with a valid control file in an automatic mode, a known   *)
(* target and frames no older than the feed's limit.                       *)
ClaimIsFresh ==
  View.claim => /\ snapAge <= SnapStale
                /\ snap.frameAge <= FeedStale
                /\ snap.mode = "automatic"

(* When commands, edits and faults have ended, the governor comes to run   *)
(* under what the file says, and stays there, deaths and lost races        *)
(* notwithstanding.                                                        *)
ConfigConverges == <>[](config = Effective(file, source))
=============================================================================
