----------------------------- MODULE TdpBackend -----------------------------
(***************************************************************************)
(* The TDP service of power_control.py: TdpBackend, the D-Bus property     *)
(* that writes it, the power-source poller and the governor's calls of     *)
(* set_soft_pl1_w, all run by one asyncio thread, and the debounce timers  *)
(* that write the embedded controller from threads of their own.           *)
(*                                                                         *)
(* The asyncio thread runs one operation to its end (main.op), but the     *)
(* power supply, the timer threads and a crash may come between two of its *)
(* register writes, so an operation is a sequence of steps.                *)
(***************************************************************************)
EXTENDS TdpPolicy, Sequences, FiniteSets

CONSTANTS
  Domains,         (* the RAPL domains, in the order rapl_domains() yields  *)
  ShortMax,        (* per domain, max_power_uw of short_term in W, or None  *)
  EcEnabled,       (* --apply-msi-claw-ec, with a debounce above zero       *)
  Timers,          (* identities of debounce timer threads                  *)
  MaxInFlight,     (* timer threads that may run at once                    *)
  RestoreOnStart,  (* --restore-on-start                                    *)
  Requests,        (* values a D-Bus client writes, legal or not            *)
  Overlays,        (* soft-PL1 values the governor asks for                 *)
  BootRapl,        (* what firmware leaves in a domain at power-on          *)
  BootEc,          (* ... and in the embedded controller                    *)
  Sources,         (* what power_supply may come to say                     *)
  SourceFlicker,   (* may the source change while a policy is being applied *)
  IoFaults,        (* may a register or EC access raise                     *)
  MaxFaults        (* bound on crashes, reboots and failed I/O together     *)

ASSUME BackendAssumption ==
  /\ Domains \in Seq(STRING) /\ Domains # << >>
  /\ \A i, j \in DOMAIN Domains : Domains[i] = Domains[j] => i = j
  /\ ShortMax \in [DOMAIN Domains -> Nat]
  /\ EcEnabled \in BOOLEAN /\ RestoreOnStart \in BOOLEAN
  /\ Sources \subseteq PowerSources
  /\ SourceFlicker \in BOOLEAN /\ IoFaults \in BOOLEAN
  /\ MaxInFlight \in Nat /\ MaxFaults \in Nat
  /\ Requests \subseteq Nat /\ Overlays \subseteq Nat \ {0}
  /\ BootRapl \in [pl1 : Nat \ {0}, pl2 : Nat \ {0}]
  /\ BootEc \in [pl1 : Nat, pl2 : Nat, shift : {Comfort, Turbo}]

NoTimer == "none"

ASSUME TimersAssumption ==
  /\ Timers \subseteq STRING /\ NoTimer \notin Timers
  /\ IsFiniteSet(Timers)
  /\ EcEnabled => Cardinality(Timers) > MaxInFlight

VARIABLES
  source,      (* what power_supply says now                               *)
  stateFile,   (* the persisted slider, None when unreadable               *)
  rapl,        (* rapl[i] = [pl1, pl2] of Domains[i]                       *)
  ec,          (* the three bytes of the embedded controller               *)
  status,      (* "down" (systemd will start it), "up", "stopping", "stopped" *)
  softPl1,     (* _soft_pl1_w                                              *)
  lastSource,  (* _last_applied_power_source                               *)
  main,        (* the operation the asyncio thread is in                   *)
  govSoft,     (* the governor's _soft_pl1_applied                         *)
  govFailed,   (* the governor's _write_failed latch                       *)
  pendingEc,   (* _pending_ec_watts                                        *)
  timerRef,    (* _ec_write_timer                                          *)
  flush,       (* flush[t]: where timer thread t is                        *)
  faults,      (* crashes, reboots and failed I/O so far                   *)
  (* History, read by the properties only.                                 *)
  ioFailed,    (* an I/O error has cut an operation short, and none has    *)
               (* been through all its writes since                        *)
  applied,     (* the source whose policy the registers were last given    *)
  steady       (* since the policy of the last operation was computed, the *)
               (* source kept still while anything of it was under way,    *)
               (* and its EC write has had no other beside it              *)

hardware == <<rapl, ec>>
service == <<softPl1, lastSource, govSoft, govFailed>>
failures == <<ioFailed, faults>>
debounce == <<pendingEc, timerRef, flush>>
history == <<applied, steady>>
vars == <<source, stateFile, rapl, ec, status, softPl1, lastSource, main,
          govSoft, govFailed, pendingEc, timerRef, flush, faults, ioFailed,
          applied, steady>>

DomainIds == DOMAIN Domains
NoSource == "none"

(* op is the entry point; step the statement it is about to execute; next  *)
(* the domain it is at; seen the source the poller compared; src the one   *)
(* the policy was computed for; arg the overlay the governor asked for.    *)
Begin(op, step, watts, seen, arg) ==
  [op |-> op, step |-> step, watts |-> watts, next |-> 1,
   seen |-> seen, src |-> NoSource, arg |-> arg]

Idle == Begin("idle", "idle", None, NoSource, None)

NoBytes == [pl1 |-> None, pl2 |-> None, shift |-> Comfort]
IdleTimer == [pc |-> "idle", watts |-> None, bytes |-> NoBytes, todo |-> {}]

(* A timer thread past its wait and not yet done.                          *)
InFlight == {t \in Timers : flush[t].pc \notin {"idle", "armed"}}

(* It has left the lock with a value to write.                             *)
Carrying == {"taken", "computed", "writing"}

Init ==
  /\ source \in Sources
  /\ stateFile = None
  /\ rapl = [i \in DomainIds |-> BootRapl]
  /\ ec = BootEc
  /\ status = "down"
  /\ softPl1 = None /\ lastSource = NoSource
  /\ govSoft = None /\ govFailed = FALSE
  /\ main = Idle
  /\ pendingEc = None /\ timerRef = NoTimer
  /\ flush = [t \in Timers |-> IdleTimer]
  /\ faults = 0
  /\ ioFailed = FALSE /\ applied = NoSource /\ steady = TRUE

Fault == faults < MaxFaults /\ faults' = faults + 1

IoFault == IoFaults /\ Fault /\ ioFailed' = TRUE

----------------------------------------------------------------------------
(* The entry points.  Each needs the asyncio thread.                       *)

Ready == status = "up" /\ main.op = "idle"

(* A refused request has already dropped the overlay: write_limit_w clears *)
(* it before it looks at the value.                                        *)
RejectRequest(w) ==
  /\ Ready
  /\ ~ InSanityRange(w)
  /\ softPl1' = None
  /\ UNCHANGED <<source, stateFile, hardware, status, lastSource, main, govSoft,
                 govFailed, debounce, failures, history>>

(* The same when the EC preflight raises.                                  *)
PreflightFails(w) ==
  /\ Ready
  /\ EcEnabled /\ InSanityRange(w)
  /\ IoFault
  /\ softPl1' = None
  /\ UNCHANGED <<source, stateFile, hardware, status, lastSource, main, govSoft,
                 govFailed, debounce, history>>

(* The D-Bus setter: write_text truncates the state file first.            *)
WriteLimit(w) ==
  /\ Ready
  /\ InSanityRange(w)
  /\ softPl1' = None
  /\ stateFile' = None
  /\ main' = Begin("write", "save", ClampWatts(w), NoSource, None)
  /\ UNCHANGED <<source, hardware, status, lastSource, govSoft, govFailed,
                 debounce, failures, history>>

(* set_soft_pl1_w(v), called for op; with no state file only the field is  *)
(* set.                                                                    *)
CallSetSoft(op, v) ==
  /\ main.op = "idle"
  /\ softPl1' = StoredOverlay(v)
  /\ IF stateFile = None
     THEN govSoft' = v /\ UNCHANGED main
     ELSE main' = Begin(op, "policy", stateFile, NoSource, v) /\ UNCHANGED govSoft
  /\ UNCHANGED <<source, stateFile, hardware, status, lastSource, govFailed,
                 debounce, failures, history>>

(* _apply_gpu_pl1_intent: only a value other than the one believed applied.*)
GovernorSetsSoft(v) ==
  /\ status = "up" /\ ~ govFailed
  /\ v # govSoft
  /\ CallSetSoft("soft", v)

(* _restore_gpu_and_pl1, reached from a RESTORE decision, the end of a     *)
(* boost, a change of configuration and close().                           *)
RestoreSoft ==
  /\ status \in {"up", "stopping"}
  /\ govSoft # None
  /\ CallSetSoft("clear", None)

(* _refresh_config drops the latch once nothing is applied.                *)
ConfigChanges ==
  /\ Ready
  /\ govFailed /\ govSoft = None
  /\ govFailed' = FALSE
  /\ UNCHANGED <<source, stateFile, hardware, status, softPl1, lastSource, main,
                 govSoft, debounce, failures, history>>

(* reapply_if_power_source_changed compares a first reading of the source. *)
Poll ==
  /\ Ready
  /\ source # lastSource
  /\ IF stateFile = None
     THEN lastSource' = source /\ UNCHANGED main
     ELSE main' = Begin("poll", "policy", stateFile, source, None) /\ UNCHANGED lastSource
  /\ UNCHANGED <<source, stateFile, hardware, status, softPl1, govSoft,
                 govFailed, debounce, failures, history>>

(* serve(): restore the state file, or refresh PL2 and Tau when RAPL still *)
(* holds the persisted PL1, or leave the hardware alone.                   *)
Start ==
  /\ status \in {"stopped", "down"}
  /\ status' = "up"
  /\ ioFailed' = FALSE
  /\ main' = IF stateFile # None /\ RestoreOnStart
             THEN Begin("restore", "save", stateFile, NoSource, None)
             ELSE IF stateFile # None /\ rapl[1].pl1 = stateFile
             THEN Begin("start", "policy", stateFile, NoSource, None)
             ELSE Idle
  /\ stateFile' = IF main'.op = "restore" THEN None ELSE stateFile
  /\ UNCHANGED <<source, hardware, service, debounce, faults, history>>

----------------------------------------------------------------------------
(* The statements of an operation.                                         *)

SaveState ==
  /\ main.step = "save"
  /\ stateFile' = main.watts
  /\ main' = [main EXCEPT !.step = "policy"]
  /\ UNCHANGED <<source, hardware, status, service, debounce, failures, history>>

(* History: a poll is steady if both its readings are of one source; a     *)
(* forced restore is not, for it schedules no EC write.                    *)
PolicyRead ==
  /\ steady' = (main.op # "restore" /\ (main.op = "poll" => main.seen = source))
  /\ UNCHANGED applied

(* Mutant: the policy is computed from the cached source.                  *)
ReadPolicyCached ==
  /\ main.step = "policy"
  /\ main' = [main EXCEPT !.step = "pl1",
                !.src = IF lastSource = NoSource THEN source ELSE lastSource]
  /\ PolicyRead
  /\ UNCHANGED <<source, stateFile, hardware, status, service, debounce, failures>>

(* apply_limit_to_rapl reads the source again and fixes the policy.        *)
ReadPolicy ==
  /\ main.step = "policy"
  /\ main' = [main EXCEPT !.step = "pl1", !.src = source]
  /\ PolicyRead
  /\ UNCHANGED <<source, stateFile, hardware, status, service, debounce, failures>>

WritePl1 ==
  /\ main.step = "pl1"
  /\ rapl' = [rapl EXCEPT ![main.next].pl1 = EffectivePl1(main.watts, softPl1)]
  /\ main' = [main EXCEPT !.step = "pl2"]
  /\ UNCHANGED <<source, stateFile, ec, status, service, debounce, failures, history>>

WritePl2 ==
  LET i == main.next
  IN  /\ main.step = "pl2"
      /\ rapl' = [rapl EXCEPT ![i].pl2 =
                    DomainPl2(main.src, main.watts,
                              EffectivePl1(main.watts, softPl1), ShortMax[i])]
      /\ main' = IF i < Len(Domains)
                 THEN [main EXCEPT !.step = "pl1", !.next = i + 1]
                 ELSE [main EXCEPT !.step = "finish"]
      /\ UNCHANGED <<source, stateFile, ec, status, service, debounce, failures, history>>

(* The identities a new timer thread may have.                             *)
Free == {t \in Timers : flush[t].pc = "idle" \/ (t = timerRef /\ flush[t].pc = "armed")}

(* schedule_limit_to_msi_claw_ec: cancel() stops a timer that still waits  *)
(* and does nothing to one whose function is already running. The threads  *)
(* are alike, so that it does not matter which of the free ones is taken.  *)
Schedule(watts) ==
  /\ pendingEc' = watts
  /\ \E t \in Free :
       /\ t = CHOOSE u \in Free : TRUE
       /\ timerRef' = t
       /\ flush' = [u \in Timers |->
            IF u = t THEN [IdleTimer EXCEPT !.pc = "armed"]
            ELSE IF u = timerRef /\ flush[u].pc = "armed" THEN IdleTimer
            ELSE flush[u]]

Finish ==
  /\ main.step = "finish"
  /\ lastSource' = IF main.op = "poll" THEN main.seen ELSE main.src
  /\ govSoft' = IF main.op \in {"soft", "clear"} THEN main.arg ELSE govSoft
  /\ IF EcEnabled /\ main.op # "restore"
     THEN Schedule(main.watts)
     ELSE UNCHANGED debounce
  /\ main' = Idle
  /\ applied' = main.src
  /\ ioFailed' = (ioFailed /\ softPl1 \notin {None, StoredOverlay(govSoft')})
  /\ UNCHANGED <<source, stateFile, hardware, status, softPl1, govFailed, faults, steady>>

(* A register write raises OSError and the rest of the operation is lost.  *)
(* The setter answers with an error, the poller prints it; the governor    *)
(* latches and restores, which clears the overlay only if it believes one  *)
(* is applied.  During start-up the process ends: that is Crash.           *)
RaplWriteFails ==
  /\ main.step \in {"pl1", "pl2"}
  /\ main.op \notin {"start", "restore"}
  /\ IoFault
  /\ govFailed' = (govFailed \/ main.op \in {"soft", "clear"})
  /\ IF main.op = "soft" /\ govSoft # None
     THEN /\ softPl1' = None
          /\ main' = Begin("clear", "policy", stateFile, NoSource, None)
          /\ UNCHANGED govSoft
     ELSE /\ main' = Idle
          /\ govSoft' = IF main.op = "clear" THEN None ELSE govSoft
          /\ UNCHANGED softPl1
  /\ UNCHANGED <<source, stateFile, hardware, status, lastSource, debounce, history>>

----------------------------------------------------------------------------
(* The timer threads.                                                      *)

Fire(t) ==
  /\ flush[t].pc = "armed"
  /\ Cardinality(InFlight) < MaxInFlight
  /\ flush' = [flush EXCEPT ![t].pc = "fired"]
  /\ UNCHANGED <<source, stateFile, hardware, status, service, main, pendingEc,
                 timerRef, failures, history>>

(* History: a write that begins while another thread has not ended its own.*)
TakenAlone(t) ==
  /\ steady' = (steady /\ (\/ pendingEc = None
                           \/ \A u \in Timers \ {t} : flush[u].pc \notin Carrying))
  /\ UNCHANGED applied

(* Mutant: the pending value is taken but not cleared.                     *)
TakeKeepsPending(t) ==
  /\ flush[t].pc = "fired"
  /\ timerRef' = NoTimer
  /\ flush' = [flush EXCEPT ![t] =
       IF pendingEc = None THEN IdleTimer
       ELSE [IdleTimer EXCEPT !.pc = "taken", !.watts = pendingEc]]
  /\ TakenAlone(t)
  /\ UNCHANGED <<source, stateFile, hardware, status, service, main, pendingEc, failures>>

(* flush_pending_ec_write, under the lock: whoever gets here first takes   *)
(* the pending value and cancels the timer on record, its own or a later.  *)
Take(t) ==
  /\ flush[t].pc = "fired"
  /\ pendingEc' = None /\ timerRef' = NoTimer
  /\ flush' = [u \in Timers |->
       IF u = t THEN IF pendingEc = None THEN IdleTimer
                     ELSE [IdleTimer EXCEPT !.pc = "taken", !.watts = pendingEc]
       ELSE IF u = timerRef /\ flush[u].pc = "armed" THEN IdleTimer
       ELSE flush[u]]
  /\ TakenAlone(t)
  /\ UNCHANGED <<source, stateFile, hardware, status, service, main, failures>>

(* Mutant: the EC path forgets the overlay.                                *)
ComputeBytesNoOverlay(t) ==
  /\ flush[t].pc = "taken"
  /\ flush' = [flush EXCEPT ![t].pc = "computed",
                 ![t].bytes = EcBytes(source, flush[t].watts, None)]
  /\ UNCHANGED <<source, stateFile, hardware, status, service, main, pendingEc,
                 timerRef, failures, history>>

(* Outside the lock: the overlay and the source as they are now.           *)
ComputeBytes(t) ==
  /\ flush[t].pc = "taken"
  /\ flush' = [flush EXCEPT ![t].pc = "computed",
                 ![t].bytes = EcBytes(source, flush[t].watts, softPl1)]
  /\ UNCHANGED <<source, stateFile, hardware, status, service, main, pendingEc,
                 timerRef, failures, history>>

(* One dump of the EC decides which bytes will be written.                 *)
DumpEc(t) ==
  /\ flush[t].pc = "computed"
  /\ flush' = [flush EXCEPT ![t].pc = "writing",
                 ![t].todo = {b \in DOMAIN ec : ec[b] # flush[t].bytes[b]}]
  /\ UNCHANGED <<source, stateFile, hardware, status, service, main, pendingEc,
                 timerRef, failures, history>>

ByteOrder == <<"pl1", "pl2", "shift">>

WriteByte(t) ==
  /\ flush[t].pc = "writing"
  /\ \E k \in DOMAIN ByteOrder :
       LET b == ByteOrder[k]
       IN  /\ b \in flush[t].todo
           /\ \A j \in 1 .. k - 1 : ByteOrder[j] \notin flush[t].todo
           /\ ec' = [ec EXCEPT ![b] = flush[t].bytes[b]]
           /\ flush' = [flush EXCEPT ![t].todo = @ \ {b}]
  /\ UNCHANGED <<source, stateFile, rapl, status, service, main, pendingEc,
                 timerRef, failures, history>>

(* The read-back: a mismatch is printed, and nothing else happens.         *)
Verify(t) ==
  /\ flush[t].pc = "writing" /\ flush[t].todo = {}
  /\ flush' = [flush EXCEPT ![t] = IdleTimer]
  /\ UNCHANGED <<source, stateFile, hardware, status, service, main, pendingEc,
                 timerRef, failures, history>>

(* Any EC access may raise EcSafetyError; the thread prints it and ends.   *)
EcFails(t) ==
  /\ flush[t].pc \in {"computed", "writing"}
  /\ IoFault
  /\ flush' = [flush EXCEPT ![t] = IdleTimer]
  /\ UNCHANGED <<source, stateFile, hardware, status, service, main, pendingEc, timerRef,
                 history>>

TimerStep(t) == Fire(t) \/ Take(t) \/ ComputeBytes(t) \/ DumpEc(t) \/ WriteByte(t) \/ Verify(t)

----------------------------------------------------------------------------
(* The environment and the life of the process.                            *)

Applying ==
  \/ main.op # "idle"
  \/ pendingEc # None
  \/ InFlight # {}

PowerSourceChanges ==
  /\ SourceFlicker \/ ~ Applying
  /\ source' \in Sources \ {source}
  /\ steady' = (steady /\ ~ Applying)
  /\ UNCHANGED <<stateFile, hardware, status, service, main, debounce, failures, applied>>

(* Mutant: the governor is dropped without restoring.                      *)
StopWithoutRestore ==
  /\ Ready
  /\ status' = "stopping" /\ govSoft' = None
  /\ UNCHANGED <<source, stateFile, hardware, softPl1, lastSource, govFailed, main,
                 debounce, failures, history>>

(* SIGTERM: the tasks are cancelled and governor.close() runs.             *)
StopRequested ==
  /\ Ready
  /\ status' = "stopping"
  /\ UNCHANGED <<source, stateFile, hardware, service, main, debounce, failures, history>>

(* What a dying process takes with it; the timer threads are daemons.      *)
ProcessDies ==
  /\ softPl1' = None /\ lastSource' = NoSource
  /\ govSoft' = None /\ govFailed' = FALSE
  /\ main' = Idle
  /\ pendingEc' = None /\ timerRef' = NoTimer
  /\ flush' = [t \in Timers |-> IdleTimer]
  /\ applied' = NoSource /\ steady' = TRUE

Exit ==
  /\ status = "stopping" /\ main.op = "idle" /\ govSoft = None
  /\ status' = "stopped"
  /\ ProcessDies
  /\ UNCHANGED <<source, stateFile, hardware, failures>>

(* SIGKILL, or an exception nobody catches.                                *)
Crash ==
  /\ status \in {"up", "stopping"}
  /\ Fault
  /\ status' = "down"
  /\ ProcessDies
  /\ UNCHANGED <<source, stateFile, hardware, ioFailed>>

(* Power-off and power-on: the registers are what firmware leaves.         *)
Reboot ==
  /\ status \in {"stopped", "down"}
  /\ Fault
  /\ rapl' = [i \in DomainIds |-> BootRapl]
  /\ ec' = BootEc
  /\ status' = "down"
  /\ UNCHANGED <<source, stateFile, service, main, debounce, ioFailed, history>>

----------------------------------------------------------------------------
MainStep == SaveState \/ ReadPolicy \/ WritePl1 \/ WritePl2 \/ Finish

Next ==
  \/ \E w \in Requests : WriteLimit(w) \/ RejectRequest(w) \/ PreflightFails(w)
  \/ \E v \in Overlays \union {None} : GovernorSetsSoft(v)
  \/ RestoreSoft \/ ConfigChanges
  \/ Poll \/ Start \/ StopRequested \/ Exit
  \/ SaveState \/ ReadPolicy \/ WritePl1 \/ WritePl2 \/ Finish \/ RaplWriteFails
  \/ \E t \in Timers : TimerStep(t) \/ EcFails(t)
  \/ PowerSourceChanges \/ Crash \/ Reboot

(* The asyncio loop keeps running what is ready: an operation goes on, the *)
(* poller comes round, a timer thread is scheduled; systemd restarts the   *)
(* service (Restart=on-failure) and a stop request is carried out.         *)
TimersRun == \A t \in Timers : WF_vars(TimerStep(t))

Fairness ==
  /\ WF_vars(MainStep)
  /\ WF_vars(Poll)
  /\ WF_vars(status = "down" /\ Start)
  /\ WF_vars(status = "stopping" /\ RestoreSoft) /\ WF_vars(Exit)
  /\ TimersRun

Spec == Init /\ [][Next]_vars
FairSpec == Spec /\ Fairness
TimersSpec == Spec /\ TimersRun

----------------------------------------------------------------------------
(* Properties.                                                             *)

EcByteRecords == [pl1 : Nat, pl2 : Nat, shift : {Comfort, Turbo}]

MainSteps == {"idle", "save", "policy", "pl1", "pl2", "finish"}

MainOps == {"idle", "write", "soft", "clear", "poll", "start", "restore"}

MainType ==
  [op : MainOps, step : MainSteps, watts : Watts \union {None}, next : DomainIds,
   seen : PowerSources \union {NoSource}, src : PowerSources \union {NoSource},
   arg : Nat]

TimerType ==
  [pc : {"idle", "armed", "fired", "taken", "computed", "writing"},
   watts : Watts \union {None}, bytes : EcByteRecords,
   todo : SUBSET {"pl1", "pl2", "shift"}]

(* Every variable of the service, the registers and the environment keeps  *)
(* its type.                                                               *)
TypeOK ==
  /\ source \in PowerSources
  /\ stateFile \in Watts \union {None}
  /\ rapl \in [DomainIds -> [pl1 : Nat \ {0}, pl2 : Nat \ {0}]]
  /\ ec \in EcByteRecords
  /\ status \in {"down", "up", "stopping", "stopped"}
  /\ softPl1 \in Nat /\ govSoft \in Nat
  /\ govFailed \in BOOLEAN
  /\ lastSource \in PowerSources \union {NoSource}
  /\ main \in MainType
  /\ pendingEc \in Watts \union {None}
  /\ timerRef \in Timers \union {NoTimer}
  /\ flush \in [Timers -> TimerType]
  /\ faults \in 0 .. MaxFaults
  /\ ioFailed \in BOOLEAN /\ steady \in BOOLEAN
  /\ applied \in PowerSources \union {NoSource}

(* The overlay is reduction-only: no register write of any operation, in   *)
(* whatever order slider, governor, poller and restarts come, leaves a     *)
(* domain with a sustained limit above the slider on disk, or below the    *)
(* smaller of the slider and the overlay's floor.                          *)
ReductionOnly ==
  [][\A i \in DomainIds :
       rapl'[i].pl1 # rapl[i].pl1 /\ status = "up" =>
         /\ rapl'[i].pl1 <= stateFile
         /\ rapl'[i].pl1 >= MinOf(stateFile, SoftFloorW)]_vars

(* Something has been applied by this process, and what an I/O error has   *)
(* cut short since, another operation has done again in full.              *)
Settled == main.op = "idle" /\ lastSource # NoSource /\ ~ ioFailed /\ stateFile # None

(* Between operations the registers are those of the slider, the overlay   *)
(* and the source the policy was read for, in every domain: PL1 reduced by *)
(* the overlay (or by the one the governor still believes in, after a      *)
(* refused request dropped it), PL2 always from the full slider; and that  *)
(* source is the one the poller compares with, unless a plug event came    *)
(* between its two readings.                                               *)
SettledMatchesPolicy ==
  Settled =>
    /\ \A i \in DomainIds :
         /\ \/ rapl[i].pl1 = EffectivePl1(stateFile, softPl1)
            \/ softPl1 = None /\ rapl[i].pl1 = EffectivePl1(stateFile, StoredOverlay(govSoft))
         /\ rapl[i].pl2 = DomainPl2(applied, stateFile, rapl[i].pl1, ShortMax[i])
    /\ steady => lastSource = applied

(* Service stop gives the slider back: when nothing is left to do before   *)
(* the process exits, every domain has the full slider value again.        *)
StopGivesSliderBack ==
  status = "stopping" /\ govSoft = None /\ Settled =>
    \A i \in DomainIds : rapl[i].pl1 = stateFile

PolicyInForce(s) ==
  \A i \in DomainIds :
    /\ rapl[i].pl1 \in {EffectivePl1(stateFile, softPl1),
                        EffectivePl1(stateFile, StoredOverlay(govSoft))}
    /\ rapl[i].pl2 = DomainPl2(s, stateFile, rapl[i].pl1, ShortMax[i])

(* After a plug or unplug, even one in the middle of an operation, a crash *)
(* or a reboot, the policy of the present source reaches every domain      *)
(* unless the source changes again, the service goes down, the slider is   *)
(* being rewritten, a write failed, or the poller has recorded another     *)
(* source than the one it applied, which SourceIsAlwaysFollowed is about.  *)
SourceIsFollowed ==
  \A s \in Sources :
    (status = "up" /\ source = s) ~>
      \/ status # "up" \/ source # s \/ stateFile = None \/ ioFailed
      \/ applied # lastSource
      \/ PolicyInForce(s)

EcHoldsSettled ==
  ec \in {EcBytes(lastSource, stateFile, softPl1),
          EcBytes(lastSource, stateFile, StoredOverlay(govSoft))}

(* Once every scheduled byte is out, the EC holds the settled slider, the  *)
(* overlay and the shift mode of the source last applied, whatever threads *)
(* and sources got in each other's way before: one operation that ran with *)
(* a source that kept still, and whose EC write had no other beside it,    *)
(* puts everything right again.                                            *)
EcSettled == EcEnabled /\ Settled /\ ~ Applying /\ steady => EcHoldsSettled

(* A pending EC write is never forgotten by a service that keeps running:  *)
(* it is written unless new operations keep re-arming the debounce.        *)
EcDebounceEnds ==
  <>[](status = "up" /\ main.op = "idle") => <>[](pendingEc = None /\ InFlight = {})

----------------------------------------------------------------------------
(* What the documents say of this program and the code does not keep.      *)

(* docs/design.md: PL2 is a "profile-aware backend policy derived from PL1,*)
(* current power source" - also when a plug event comes between the two    *)
(* readings of one poll.                                                   *)
SourceIsAlwaysFollowed ==
  \A s \in Sources :
    (status = "up" /\ source = s) ~>
      \/ status # "up" \/ source # s \/ stateFile = None \/ ioFailed
      \/ PolicyInForce(s)

(* The EC holds the settled slider also when the write of one request has  *)
(* overtaken that of another.                                              *)
EcAlwaysSettled ==
  EcEnabled /\ Settled /\ ~ Applying /\ source = lastSource => EcHoldsSettled

(* docs/design.md: start-up without --restore-on-start converges the       *)
(* policy "without forcing an old PL1 back onto the system".  Until a      *)
(* request arrives, the process changes no domain's PL1.                   *)
RestartForcesNoPl1 ==
  [][lastSource = NoSource /\ main.op \in {"start", "poll"} =>
       \A i \in DomainIds : rapl'[i].pl1 = rapl[i].pl1]_vars

(* docs/game-power-v10-framework-plan.md: "Any user slider write, service  *)
(* stop, restore path, or governor deactivation clears the overlay and     *)
(* rewrites the slider value" - also after a governor write that failed.   *)
StopClearsFailedOverlay ==
  status = "stopping" /\ main.op = "idle" /\ govSoft = None /\ stateFile # None =>
    \A i \in DomainIds : rapl[i].pl1 >= MinOf(stateFile, BootRapl.pl1)

(* The same sentence, for the EC bytes that mirror the effective PL1: a    *)
(* stopped service leaves no reduced PL1 in the embedded controller.       *)
StopClearsEcOverlay ==
  status = "stopped" /\ ~ ioFailed /\ stateFile # None =>
    ec.pl1 >= MinOf(stateFile, EcPl1Max)
=============================================================================
