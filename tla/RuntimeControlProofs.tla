------------------------ MODULE RuntimeControlProofs ------------------------
(***************************************************************************)
(* The control file, for any number of commands at the same time and any   *)
(* settings: what the readers may rely on.                                 *)
(***************************************************************************)
EXTENDS RuntimeControl, TLAPS

----------------------------------------------------------------------------
(* What a command does to the file.                                        *)

(* The bounds are numbers, and "none" and "bad" no settings.                *)
LEMMA Numbers == {FeedStale, SnapStale, MaxCommands, MaxEdits, MaxFaults} \subseteq Nat
BY ControlAssumption

(* Settings are no payload's fillers, and the defaults are settings.       *)
LEMMA Settings ==
  /\ \A x \in Fps \union Personas : x # "none" /\ x # "bad"
  /\ {"battery", "ac-performance"} \subseteq Personas
  /\ BaseMode \in {"target-balance", "gpu-priority", "observe", "off"}
BY ControlAssumption

USE DEF Payload, Blank, Absent, Damaged

(* A stored file is a file.                                                *)
LEMMA StoredIsFile ==
  ASSUME NEW cmd \in Commands, NEW seen \in Files, NEW now \in Files
  PROVE  Stored(cmd, seen, now) \in Files
<1> DEFINE p == Loaded(seen)
<1>1. p \in Files /\ p.there = "ok" /\ (seen.there = "ok" => p = seen)
  BY DEF Files, Loaded
<1> HIDE DEF p
<1>2. CASE cmd.op = "set-mode"
  <2>1. cmd.arg \in PublicModes
    BY <1>2 DEF Commands
  <2> DEFINE fps == IF p.fps = "bad" THEN "none" ELSE p.fps
  <2>2. fps \in Fps \union {"none"}
    BY <1>1 DEF Files
  <2> HIDE DEF fps
  <2>3. [p EXCEPT !.mode = cmd.arg, !.fps = fps] \in Files
    BY <1>1, <2>1, <2>2 DEF Files
  <2>4. QED
    BY <1>2, <2>3 DEF Stored, SetMode, p, fps
<1>3. CASE cmd.op = "set-fps-target"
  <2>1. cmd.arg \in Fps
    BY <1>3 DEF Commands
  <2>2. [p EXCEPT !.fps = cmd.arg] \in Files
    BY <1>1, <2>1 DEF Files
  <2>3. QED
    BY <1>3, <2>2 DEF Stored, SetFps, p
<1>4. CASE cmd.op = "set-persona"
  <2>1. cmd.arg \in Personas
    BY <1>4 DEF Commands
  <2>2. [p EXCEPT !.persona = cmd.arg] \in Files
    BY <1>1, <2>1 DEF Files
  <2>3. QED
    BY <1>4, <2>2 DEF Stored, SetPersona, p
<1>5. CASE cmd.op = "clear-fps-target"
  <2>1. [p EXCEPT !.fps = "none"] \in Files /\ Absent \in Files
    BY <1>1 DEF Files
  <2>2. QED
    BY <1>1, <1>5, <2>1 DEF Stored, ClearFps, OrUnlink
<1>6. CASE cmd.op = "clear-persona"
  <2>1. [p EXCEPT !.persona = "none"] \in Files /\ Absent \in Files
    BY <1>1 DEF Files
  <2>2. QED
    BY <1>1, <1>6, <2>1 DEF Stored, ClearPersona, OrUnlink
<1>7. CASE cmd.op = "restore-defaults"
  BY <1>7 DEF Stored, Files
<1>8. QED
  BY <1>2, <1>3, <1>4, <1>5, <1>6, <1>7 DEF Commands

(* A command on a clean file leaves a clean one, whatever it overtakes.    *)
LEMMA StoredIsClean ==
  ASSUME NEW cmd \in Commands, NEW seen \in Files, NEW now \in Files,
         Healthy(seen), Healthy(now)
  PROVE  Healthy(Stored(cmd, seen, now))
<1> USE Settings DEF Healthy, Files, Commands
<1>1. Loaded(seen) \in Files /\ Loaded(seen).there = "ok" /\ Healthy(Loaded(seen))
  BY DEF Loaded
<1>2. CASE cmd.op = "set-mode"
  <2>1. PICK p \in Files : p = Loaded(seen) /\ p.there = "ok" /\ Healthy(p)
    BY <1>1
  <2>2. cmd.arg \in PublicModes /\ cmd.arg # "bad"
    BY <1>2 DEF PublicModes
  <2>3. p.fps # "bad" /\ p.persona # "bad"
    BY <2>1
  <2>4. p = [there |-> p.there, mode |-> p.mode, fps |-> p.fps, persona |-> p.persona]
    BY <2>1
  <2>5. Stored(cmd, seen, now) =
        [there |-> "ok", mode |-> cmd.arg, fps |-> p.fps, persona |-> p.persona]
    BY <1>2, <2>1, <2>3, <2>4 DEF Stored, SetMode
  <2>6. QED
    BY <2>2, <2>3, <2>5 DEF Healthy
<1>3. CASE cmd.op = "set-fps-target"
  BY <1>1, <1>3 DEF Stored, SetFps
<1>4. CASE cmd.op = "set-persona"
  BY <1>1, <1>4 DEF Stored, SetPersona
<1>5. CASE cmd.op = "clear-fps-target"
  BY <1>1, <1>5 DEF Stored, ClearFps, OrUnlink
<1>6. CASE cmd.op = "clear-persona"
  BY <1>1, <1>6 DEF Stored, ClearPersona, OrUnlink
<1>7. CASE cmd.op = "restore-defaults"
  BY <1>7 DEF Stored
<1>8. QED
  BY <1>2, <1>3, <1>4, <1>5, <1>6, <1>7 DEF Commands

(* A command that was not overtaken does to a clean file what was asked.   *)
LEMMA StoredIsAsked ==
  ASSUME NEW cmd \in Commands, NEW f \in Files, Healthy(f)
  PROVE  Loaded(Stored(cmd, f, f)) = Asked(cmd, Loaded(f))
<1> USE Settings DEF Healthy, Files, Commands
<1>1. Loaded(f) \in Files /\ Loaded(f).there = "ok" /\ Healthy(Loaded(f))
  BY DEF Loaded
<1>2. CASE cmd.op = "set-mode"
  <2>1. PICK p \in Files : p = Loaded(f) /\ p.there = "ok" /\ p.fps # "bad"
    BY <1>1
  <2>2. [p EXCEPT !.mode = cmd.arg, !.fps = p.fps] = [p EXCEPT !.mode = cmd.arg]
    BY <2>1
  <2>3. SetMode(f, cmd.arg) = [p EXCEPT !.mode = cmd.arg]
    BY <2>1, <2>2 DEF SetMode
  <2>4. Loaded([p EXCEPT !.mode = cmd.arg]) = [p EXCEPT !.mode = cmd.arg]
    BY <2>1 DEF Loaded
  <2>5. QED
    BY <1>2, <2>1, <2>3, <2>4 DEF Stored, Asked
<1>3. CASE cmd.op = "set-fps-target"
  BY <1>1, <1>3 DEF Stored, SetFps, Asked, Loaded
<1>4. CASE cmd.op = "set-persona"
  BY <1>1, <1>4 DEF Stored, SetPersona, Asked, Loaded
<1>5. CASE cmd.op = "clear-fps-target"
  BY <1>1, <1>5 DEF Stored, ClearFps, OrUnlink, HasOverride, Asked, Loaded
<1>6. CASE cmd.op = "clear-persona"
  BY <1>1, <1>6 DEF Stored, ClearPersona, OrUnlink, HasOverride, Asked, Loaded
<1>7. CASE cmd.op = "restore-defaults"
  BY <1>7 DEF Stored, Asked, Loaded
<1>8. QED
  BY <1>2, <1>3, <1>4, <1>5, <1>6, <1>7 DEF Commands

(* What is asked for can be stored.                                        *)
LEMMA AskedIsFile ==
  ASSUME NEW cmd \in Commands, NEW was \in Files, was.there = "ok"
  PROVE  Asked(cmd, was) \in Files /\ Asked(cmd, was).there = "ok"
BY DEF Asked, Commands, Files

(* A configuration is made of every file and source.                       *)
LEMMA EffectiveTyped ==
  ASSUME NEW f \in Files, NEW src \in {"ac", "battery"}
  PROVE  Effective(f, src) \in Configs /\ Effective(f, src).valid = Healthy(f)
BY Settings DEF Effective, Configs, Files, Healthy, Modes, PublicModes, Internal, PersonaOf

----------------------------------------------------------------------------
(* Types.                                                                   *)
ClientType ==
  /\ file \in Files /\ serial \in BOOLEAN
  /\ intent \in Files /\ intent.there = "ok"
  /\ client \in [Clients -> [pc : {"idle", "loaded"}, cmd : Commands, seen : Files]]

GovType ==
  gov \in [pc : {"down", "idle", "found", "ready", "sampled"}, live : BOOLEAN,
           frameAge : 0..(FeedStale + 1), raced : BOOLEAN]

ConfigType == config \in Configs /\ source \in {"ac", "battery"}

CountType ==
  /\ commands \in 0..MaxCommands /\ edits \in 0..MaxEdits /\ faults \in 0..MaxFaults
  /\ feedAge \in 0..(FeedStale + 1) /\ snapAge \in 0..(SnapStale + 1)

(* A claim is published of a tick that was live, in an automatic mode.      *)
SnapInv ==
  /\ snap.mode \in {"automatic", "observe", "off"} /\ snap.claim \in BOOLEAN
  /\ snap.claim => snap.frameAge <= FeedStale

LiveInv == gov.live => gov.frameAge <= FeedStale

(* Until somebody edits the file it is clean, and so is what any command    *)
(* has read of it.                                                          *)
CleanInv ==
  edits = 0 => Healthy(file) /\ \A c \in Clients : Healthy(client[c].seen)

(* A serial history has made the file clean and as it was asked for.        *)
SerialInv == serial => Healthy(file) /\ Loaded(file) = intent

CInv ==
  /\ ClientType /\ GovType /\ ConfigType /\ CountType /\ SnapInv /\ LiveInv
  /\ CleanInv /\ SerialInv /\ InvalidHasCause

(* An absent file asks for nothing.                                         *)
LEMMA AbsentFacts ==
  /\ Absent \in Files /\ Healthy(Absent) /\ Loaded(Absent) = Blank
  /\ Damaged \in Files /\ ~Healthy(Damaged) /\ Blank \in Files
  /\ Idle \in [pc : {"idle", "loaded"}, cmd : Commands, seen : Files]
BY DEF Files, Healthy, Loaded, Idle, Commands

(* Nobody has asked for anything yet.                                      *)
LEMMA InitControl == Init => CInv
<1> SUFFICES ASSUME Init PROVE CInv
  OBVIOUS
<1>1. Effective(Absent, source) \in Configs /\ Effective(Absent, source).valid
  BY AbsentFacts, EffectiveTyped DEF Init
<1>2. ClientType /\ CleanInv /\ SerialInv
  BY AbsentFacts DEF Init, ClientType, CleanInv, SerialInv, Idle
<1>3. GovType /\ LiveInv
  BY Numbers DEF Init, GovType, LiveInv, NoTick
<1>4. CountType /\ SnapInv /\ ConfigType /\ InvalidHasCause
  BY <1>1, Numbers DEF Init, CountType, SnapInv, ConfigType, InvalidHasCause, NoSnap
<1>5. QED
  BY <1>2, <1>3, <1>4 DEF CInv

(* What each command leaves in the file and has read of it.                *)
LEMMA NextClientType == ClientType /\ [Next]_vars => ClientType'
<1> SUFFICES ASSUME ClientType, [Next]_vars PROVE ClientType'
  OBVIOUS
<1> USE DEF ClientType
<1>1. ASSUME NEW c \in Clients, NEW cmd \in Offered, Begin(c, cmd) PROVE ClientType'
  BY <1>1, InputAssumption DEF Begin
<1>2. ASSUME NEW c \in Clients, Store(c) PROVE ClientType'
  <2>1. file' \in Files
    BY <1>2, StoredIsFile DEF Store
  <2>2. client' \in [Clients -> [pc : {"idle", "loaded"}, cmd : Commands, seen : Files]]
    BY <1>2, AbsentFacts DEF Store
  <2>3. serial' \in BOOLEAN
    BY <1>2 DEF Store
  <2>4. intent' = Asked(client[c].cmd, intent) \/ intent' = Blank
    BY <1>2 DEF Store
  <2>5. client[c].cmd \in Commands /\ Blank.there = "ok"
    OBVIOUS
  <2>6. intent' \in Files /\ intent'.there = "ok"
    BY <2>4, <2>5, AbsentFacts, AskedIsFile
  <2>7. QED
    BY <2>1, <2>2, <2>3, <2>6
<1>3. ASSUME NEW c \in Clients, StoreFails(c) PROVE ClientType'
  BY <1>3, AbsentFacts DEF StoreFails
<1>4. ASSUME NEW f \in HandEdits, Edit(f) PROVE ClientType'
  BY <1>4, AbsentFacts, InputAssumption DEF Edit
<1>5. CASE UNCHANGED <<file, intent, serial, client>>
  BY <1>5
<1>6. QED
  BY <1>1, <1>2, <1>3, <1>4, <1>5
     DEF Next, GovernorStep, LookForFile, ReadFile, Sample, Publish, PublishFails, Die,
         Restart, PlugOrUnplug, FeedWritten, TimePasses, Outside, vars

(* One governor, one command or one edit at a time: what each changes.      *)
LEMMA NextGovType == GovType /\ CountType /\ [Next]_vars => GovType'
<1> SUFFICES ASSUME GovType, CountType, [Next]_vars PROVE GovType'
  OBVIOUS
<1>0. 0 \in 0..(FeedStale + 1) /\ feedAge \in 0..(FeedStale + 1)
  BY Numbers DEF CountType
<1> USE <1>0 DEF GovType, NoTick
<1>1. CASE LookForFile
  BY <1>1 DEF LookForFile, Configured
<1>2. CASE ReadFile
  BY <1>2 DEF ReadFile, Configured
<1>3. ASSUME NEW limit \in BOOLEAN, NEW enough \in BOOLEAN, Sample(limit, enough)
      PROVE  GovType'
  <2>1. (TargetKnown(limit) /\ FrameReady(enough)) \in BOOLEAN
    OBVIOUS
  <2>2. QED
    BY <1>3, <2>1 DEF Sample
<1>4. CASE Publish \/ PublishFails
  BY <1>4 DEF Publish, PublishFails
<1>5. CASE Die
  BY <1>5 DEF Die
<1>6. CASE Restart
  BY <1>6 DEF Restart
<1>7. CASE UNCHANGED gov
  BY <1>7
<1>8. QED
  BY <1>1, <1>2, <1>3, <1>4, <1>5, <1>6, <1>7
     DEF Next, GovernorStep, Begin, Store, StoreFails, Edit, PlugOrUnplug, FeedWritten,
         TimePasses, vars

(* The governor's configuration is what it made of some file.              *)
LEMMA NextConfigType == ClientType /\ ConfigType /\ [Next]_vars => ConfigType'
<1> SUFFICES ASSUME ClientType, ConfigType, [Next]_vars PROVE ConfigType'
  OBVIOUS
<1> USE DEF ConfigType, ClientType
<1>1. CASE LookForFile
  BY <1>1, EffectiveTyped, AbsentFacts DEF LookForFile, Configured, Outside
<1>2. CASE ReadFile
  BY <1>2, EffectiveTyped, AbsentFacts DEF ReadFile, Configured, Outside
<1>3. CASE Restart
  BY <1>3, EffectiveTyped, AbsentFacts DEF Restart, Outside
<1>4. CASE PlugOrUnplug
  BY <1>4 DEF PlugOrUnplug
<1>5. CASE UNCHANGED <<config, source>>
  BY <1>5
<1>6. QED
  BY <1>1, <1>2, <1>3, <1>4, <1>5
     DEF Next, GovernorStep, Begin, Store, StoreFails, Edit, Sample, Publish, PublishFails,
         Die, FeedWritten, TimePasses, Outside, vars

(* Ages and bounds.                                                        *)
LEMMA NextCountType == CountType /\ [Next]_vars => CountType'
<1> SUFFICES ASSUME CountType, [Next]_vars PROVE CountType'
  OBVIOUS
<1> USE Numbers DEF CountType
<1>1. ASSUME NEW c \in Clients, NEW cmd \in Offered, Begin(c, cmd) PROVE CountType'
  BY <1>1 DEF Begin
<1>2. ASSUME NEW f \in HandEdits, Edit(f) PROVE CountType'
  BY <1>2 DEF Edit
<1>3. CASE /\ Fault
           /\ UNCHANGED <<commands, edits, feedAge, snapAge>>
  BY <1>3 DEF Fault
<1>4. CASE Publish
  BY <1>4 DEF Publish, Outside
<1>5. CASE FeedWritten
  BY <1>5 DEF FeedWritten
<1>6. CASE TimePasses
  BY <1>6 DEF TimePasses, Older
<1>7. CASE UNCHANGED <<commands, edits, faults, feedAge, snapAge>>
  BY <1>7
<1>8. QED
  BY <1>1, <1>2, <1>3, <1>4, <1>5, <1>6, <1>7
     DEF Next, GovernorStep, Store, StoreFails, LookForFile, ReadFile, Sample, PublishFails,
         Die, Restart, PlugOrUnplug, Outside, vars

(* A tick is live only with a fresh record, and Publish claims only of one. *)
LEMMA NextLive == LiveInv /\ GovType /\ [Next]_vars => LiveInv'
<1> SUFFICES ASSUME LiveInv, GovType, [Next]_vars PROVE LiveInv'
  OBVIOUS
<1> USE DEF LiveInv, GovType, NoTick
<1>1. CASE LookForFile
  BY <1>1 DEF LookForFile, Configured
<1>2. CASE ReadFile
  BY <1>2 DEF ReadFile, Configured
<1>3. ASSUME NEW limit \in BOOLEAN, NEW enough \in BOOLEAN, Sample(limit, enough)
      PROVE  LiveInv'
  BY <1>3 DEF Sample, FrameReady, FreshFeed
<1>4. CASE Publish \/ PublishFails \/ Die \/ Restart
  BY <1>4 DEF Publish, PublishFails, Die, Restart
<1>5. CASE UNCHANGED gov
  BY <1>5
<1>6. QED
  BY <1>1, <1>2, <1>3, <1>4, <1>5
     DEF Next, GovernorStep, Begin, Store, StoreFails, Edit, PlugOrUnplug, FeedWritten,
         TimePasses, vars

(* A claim means a valid configuration, an automatic mode and a live tick.  *)
LEMMA ClaimedWhenLive ==
  ASSUME ConfigType, Readiness = "target-aware-live"
  PROVE  gov.live /\ PublicMode(config.mode) = "automatic"
BY DEF ConfigType, Configs, Modes, Readiness, PublicMode

(* A snapshot claims no more than the tick it is of.                       *)
LEMMA NextSnap ==
  SnapInv /\ LiveInv /\ ConfigType /\ GovType /\ [Next]_vars => SnapInv'
<1> SUFFICES ASSUME SnapInv, LiveInv, ConfigType, GovType, [Next]_vars PROVE SnapInv'
  OBVIOUS
<1>1. CASE Publish
  <2>1. snap'.mode = PublicMode(config.mode) /\ snap'.frameAge = gov.frameAge
    BY <1>1 DEF Publish
  <2>2. snap'.claim = (Readiness = "target-aware-live")
    BY <1>1 DEF Publish
  <2>3. PublicMode(config.mode) \in {"automatic", "observe", "off"}
    BY DEF ConfigType, Configs, Modes, PublicMode
  <2>4. QED
    BY <2>1, <2>2, <2>3, ClaimedWhenLive DEF SnapInv, LiveInv
<1>2. CASE UNCHANGED snap
  BY <1>2 DEF SnapInv
<1>3. QED
  BY <1>1, <1>2
     DEF Next, GovernorStep, Begin, Store, StoreFails, Edit, LookForFile, ReadFile, Sample,
         PublishFails, Die, Restart, PlugOrUnplug, FeedWritten, TimePasses, Outside, vars

(* Only an edit spoils the file.                                            *)
LEMMA NextClean == CleanInv /\ ClientType /\ CountType /\ [Next]_vars => CleanInv'
<1> SUFFICES ASSUME CleanInv, ClientType, CountType, [Next]_vars, edits' = 0 PROVE CleanInv'
  BY DEF CleanInv
<1> USE DEF CleanInv, ClientType
<1>1. ASSUME NEW c \in Clients, NEW cmd \in Offered, Begin(c, cmd) PROVE CleanInv'
  BY <1>1 DEF Begin
<1>2. ASSUME NEW c \in Clients, Store(c) PROVE CleanInv'
  <2>1. edits = 0 /\ Healthy(file) /\ Healthy(client[c].seen) /\ client[c].cmd \in Commands
    BY <1>2 DEF Store
  <2>2. Healthy(file')
    BY <1>2, <2>1, StoredIsClean DEF Store
  <2>3. \A d \in Clients : client'[d].seen = client[d].seen \/ client'[d].seen = Absent
    BY <1>2 DEF Store, Idle
  <2>4. QED
    BY <2>1, <2>2, <2>3, AbsentFacts
<1>3. ASSUME NEW c \in Clients, StoreFails(c) PROVE CleanInv'
  <2>1. \A d \in Clients : client'[d].seen = client[d].seen \/ client'[d].seen = Absent
    BY <1>3 DEF StoreFails, Idle
  <2>2. QED
    BY <1>3, <2>1, AbsentFacts DEF StoreFails
<1>4. ASSUME NEW f \in HandEdits, Edit(f) PROVE FALSE
  BY <1>4 DEF Edit, CountType
<1>5. CASE UNCHANGED <<file, client, edits>>
  BY <1>5
<1>6. QED
  BY <1>1, <1>2, <1>3, <1>4, <1>5
     DEF Next, GovernorStep, LookForFile, ReadFile, Sample, Publish, PublishFails, Die,
         Restart, PlugOrUnplug, FeedWritten, TimePasses, Outside, vars

(* A command that has overtaken another ends the serial history, and only   *)
(* restore-defaults begins a new one.                                       *)
LEMMA NextSerial == SerialInv /\ ClientType /\ [Next]_vars => SerialInv'
<1> SUFFICES ASSUME SerialInv, ClientType, [Next]_vars PROVE SerialInv'
  OBVIOUS
<1> USE DEF SerialInv, ClientType
<1>1. ASSUME NEW c \in Clients, Store(c) PROVE SerialInv'
  <2> DEFINE cmd == client[c].cmd
             seen == client[c].seen
  <2>1. cmd \in Commands /\ file' = Stored(cmd, seen, file)
    BY <1>1 DEF Store
  <2>2. CASE cmd.op = "restore-defaults"
    <3>1. file' = Absent /\ intent' = Blank
      BY <1>1, <2>2 DEF Store, Stored, Asked
    <3>2. QED
      BY <3>1, AbsentFacts
  <2>3. CASE cmd.op # "restore-defaults" /\ serial'
    <3>1. serial /\ seen = file /\ intent' = Asked(cmd, intent)
      BY <1>1, <2>3 DEF Store
    <3>2. QED
      BY <2>1, <3>1, StoredIsAsked, StoredIsClean
  <2>4. QED
    BY <2>2, <2>3
<1>2. ASSUME NEW f \in HandEdits, Edit(f) PROVE SerialInv'
  BY <1>2 DEF Edit
<1>3. CASE UNCHANGED <<file, intent, serial>>
  BY <1>3
<1>4. QED
  BY <1>1, <1>2, <1>3
     DEF Next, GovernorStep, Begin, StoreFails, LookForFile, ReadFile, Sample, Publish,
         PublishFails, Die, Restart, PlugOrUnplug, FeedWritten, TimePasses, Outside, vars

(* The governor turns itself off over a spoiled or a vanished file only.    *)
LEMMA NextInvalid ==
  /\ InvalidHasCause /\ CleanInv /\ ClientType /\ ConfigType /\ CountType /\ GovType
  /\ [Next]_vars
  => InvalidHasCause'
<1> SUFFICES ASSUME InvalidHasCause, CleanInv, ClientType, ConfigType, CountType, GovType,
                    [Next]_vars
             PROVE  InvalidHasCause'
  OBVIOUS
<1> USE DEF InvalidHasCause, NoTick
<1>0. edits \in Nat /\ source \in {"ac", "battery"} /\ file \in Files
  BY DEF CountType, ConfigType, ClientType
<1>1. CASE LookForFile
  BY <1>0, <1>1, EffectiveTyped, AbsentFacts DEF LookForFile, Configured, Outside, GovType
<1>2. CASE ReadFile
  <2>1. CASE file.there = "absent"
    BY <1>2, <2>1 DEF ReadFile, Configured, GovType
  <2>2. CASE file.there # "absent"
    <3>1. config' = Effective(file, source) /\ edits' = edits
      BY <1>2, <2>2 DEF ReadFile, Configured, Outside
    <3>2. config'.valid = Healthy(file)
      BY <1>0, <3>1, EffectiveTyped
    <3>3. QED
      BY <1>0, <3>1, <3>2 DEF CleanInv
  <2>3. QED
    BY <2>1, <2>2
<1>3. CASE Restart
  BY <1>0, <1>3, EffectiveTyped, AbsentFacts DEF Restart, Outside
<1>4. CASE Die
  BY <1>4 DEF Die
<1>5. CASE Publish \/ PublishFails
  BY <1>5 DEF Publish, PublishFails, GovType, Outside
<1>6. ASSUME NEW limit \in BOOLEAN, NEW enough \in BOOLEAN, Sample(limit, enough)
      PROVE  InvalidHasCause'
  BY <1>6 DEF Sample, GovType, Outside
<1>7. ASSUME NEW f \in HandEdits, Edit(f) PROVE InvalidHasCause'
  BY <1>0, <1>7 DEF Edit
<1>8. CASE UNCHANGED <<gov, config, edits>>
  BY <1>8
<1>9. QED
  BY <1>1, <1>2, <1>3, <1>4, <1>5, <1>6, <1>7, <1>8
     DEF Next, GovernorStep, Begin, Store, StoreFails, PlugOrUnplug, FeedWritten,
         TimePasses, vars

(* The parts together.                                                     *)
LEMMA NextControl == CInv /\ [Next]_vars => CInv'
BY NextClientType, NextGovType, NextConfigType, NextCountType, NextLive, NextSnap, NextClean,
   NextSerial, NextInvalid DEF CInv

----------------------------------------------------------------------------
(* The inductive invariant holds, with any number of commands at once.      *)
THEOREM ControlInvariant == Spec => []CInv
BY InitControl, NextControl, PTL DEF Spec

(* Every variable keeps its type, for all settings, stale times and bounds. *)
THEOREM ControlTyped == Spec => []TypeOK
<1>1. CInv => TypeOK
  BY DEF CInv, ClientType, GovType, ConfigType, CountType, SnapInv, TypeOK
<1>2. QED
  BY <1>1, ControlInvariant, PTL

(* Commands of which none has overtaken another leave what they ask for.    *)
THEOREM CommandsAreSettings == Spec => []SerialIntent
<1>1. CInv => SerialIntent
  BY DEF CInv, SerialInv, SerialIntent
<1>2. QED
  BY <1>1, ControlInvariant, PTL

(* No set of commands, however they overtake each other, makes the governor *)
(* see a spoiled file: it is off for an edit or for a file that vanished.   *)
THEOREM InvalidIsCaused == Spec => []InvalidHasCause
<1>1. CInv => InvalidHasCause
  BY DEF CInv
<1>2. QED
  BY <1>1, ControlInvariant, PTL

(* The panel claims live evidence only over data that was fresh, and young  *)
(* enough, in an automatic mode.                                            *)
THEOREM ClaimsAreFresh == Spec => []ClaimIsFresh
<1>1. CInv => ClaimIsFresh
  <2> SUFFICES ASSUME CInv, View.claim PROVE ClaimIsFresh
    BY DEF ClaimIsFresh
  <2>1. snapAge \in Nat /\ SnapStale \in Nat
    BY Numbers DEF CInv, CountType
  <2>2. ~(snapAge > SnapStale) /\ Consistent(snap) /\ snap.claim
    BY DEF View, Unavailable
  <2>3. QED
    BY <2>1, <2>2 DEF CInv, SnapInv, Consistent, ClaimIsFresh
<1>2. QED
  BY <1>1, ControlInvariant, PTL

============================================================================
