-------------------------- MODULE TdpBackendProofs --------------------------
(***************************************************************************)
(* The policy and the backend for every limit, mode, set of domains,       *)
(* timers, requests and overlays.  First what the tables and clamps of     *)
(* TdpPolicy guarantee; then type correctness and the reduction-only       *)
(* contract of the overlay (IInv); what the registers hold between         *)
(* operations (RInv); and what the embedded controller holds once the      *)
(* debounced writes are out (EcInv). No theorem restricts the constants:   *)
(* what flickers and overlaps can spoil is in the formulas (applied,       *)
(* steady).                                                                *)
(***************************************************************************)
EXTENDS TdpBackend, TLAPS

(* The policy.                                                             *)

(* A clamped request is a slider value (_clamp_watts).                     *)
LEMMA ClampInRange ==
  ASSUME NEW w \in Nat
  PROVE  ClampWatts(w) \in Watts
BY LimitsAssumption DEF ClampWatts, Watts, MinOf, MaxOf

(* _effective_pl1_w is reduction-only: whatever the overlay, the limit     *)
(* that is written is at most the user's and at least the smaller of the   *)
(* user's and the floor.                                                   *)
THEOREM EffectiveIsReduction ==
  ASSUME NEW user \in Nat, NEW soft \in Nat
  PROVE  /\ EffectivePl1(user, soft) \in Nat
         /\ EffectivePl1(user, soft) <= user
         /\ EffectivePl1(user, soft) >= MinOf(user, SoftFloorW)
BY LimitsAssumption DEF EffectivePl1, MinOf, MaxOf, None

(* A stored overlay is None or at least the floor.                         *)
LEMMA StoredOverlayType ==
  ASSUME NEW v \in Nat
  PROVE  StoredOverlay(v) \in Nat
BY LimitsAssumption DEF StoredOverlay, MaxOf, None

(* The resolved mode is one of the four tables.                            *)
LEMMA ResolvedModeType ==
  ASSUME NEW src \in PowerSources
  PROVE  ResolveMode(src) \in ResolvedModes
BY ModeAssumption DEF ResolveMode, ResolvedModes

(* Every table gives a whole number of watts.                              *)
LEMMA ModePl2Type ==
  ASSUME NEW mode \in ResolvedModes, NEW w \in Nat
  PROVE  ModePl2(mode, w) \in Nat
<1>1. BatteryLowPowerPl2(w) \in Nat
  BY DEF BatteryLowPowerPl2, MinOf, MaxOf
<1>2. BatteryMaxqPl2(w) \in Nat
  BY DEF BatteryMaxqPl2, CeilPercent, MinOf, MaxOf
<1>3. AcQuietPl2(w) \in Nat /\ AcPerformancePl2(w) \in Nat
  BY DEF AcQuietPl2, AcPerformancePl2
<1>. QED
  BY <1>1, <1>2, <1>3 DEF ModePl2, ResolvedModes

(* The burst limit never exceeds the hardware ceiling and keeps at least   *)
(* one watt over PL1 unless the ceiling takes it (_clamp_policy_pl2_w).    *)
THEOREM BurstWithinCeiling ==
  ASSUME NEW src \in PowerSources, NEW w \in Watts
  PROVE  /\ PolicyPl2(src, w) \in Nat
         /\ PolicyPl2(src, w) <= ShortLimitW
         /\ PolicyPl2(src, w) >= w
         /\ PolicyPl2(src, w) > w \/ PolicyPl2(src, w) = ShortLimitW
<1>1. w \in Nat /\ w <= ShortLimitW
  BY LimitsAssumption DEF Watts
<1>2. ModePl2(ResolveMode(src), w) \in Nat
  BY <1>1, ResolvedModeType, ModePl2Type
<1>. QED
  BY <1>1, <1>2, LimitsAssumption DEF PolicyPl2, ClampPl2, MinOf, MaxOf, None

(* What a domain is given never inverts the two limits, and exceeds the    *)
(* constraint's own max_power_uw only when PL1 itself does.                *)
THEOREM DomainBurstOrdered ==
  ASSUME NEW src \in PowerSources, NEW user \in Watts, NEW pl1 \in Nat,
         NEW maxPower \in Nat, pl1 <= user
  PROVE  /\ DomainPl2(src, user, pl1, maxPower) \in Nat
         /\ pl1 <= DomainPl2(src, user, pl1, maxPower)
         /\ DomainPl2(src, user, pl1, maxPower) <= ShortLimitW
         /\ maxPower # None =>
              \/ DomainPl2(src, user, pl1, maxPower) <= maxPower
              \/ DomainPl2(src, user, pl1, maxPower) = pl1
<1>1. /\ PolicyPl2(src, user) \in Nat
      /\ PolicyPl2(src, user) <= ShortLimitW
  BY BurstWithinCeiling
<1>2. ShortLimitW \in Nat /\ user \in Nat /\ user <= ShortLimitW
  BY LimitsAssumption DEF Watts
<1>. QED
  BY <1>1, <1>2 DEF DomainPl2, MinOf, MaxOf, None

(* Raising the slider never lowers the burst limit, in any mode: no step   *)
(* of a table is above the next one.                                       *)
THEOREM BurstMonotone ==
  ASSUME NEW mode \in ResolvedModes, NEW v \in Nat, NEW w \in Nat, v <= w
  PROVE  ModePl2(mode, v) <= ModePl2(mode, w)
<1>1. BatteryLowPowerPl2(v) <= BatteryLowPowerPl2(w)
  BY DEF BatteryLowPowerPl2, MinOf, MaxOf
<1>2. BatteryMaxqPl2(v) <= BatteryMaxqPl2(w)
  BY DEF BatteryMaxqPl2, CeilPercent, MinOf, MaxOf
<1>3. /\ AcQuietPl2(v) <= AcQuietPl2(w)
      /\ AcPerformancePl2(v) <= AcPerformancePl2(w)
  BY DEF AcQuietPl2, AcPerformancePl2
<1>. QED
  BY <1>1, <1>2, <1>3 DEF ModePl2, ResolvedModes

(* Over the slider's range the four modes are ordered: a quieter one never *)
(* allows a higher burst.                                                  *)
THEOREM ModesOrdered ==
  ASSUME NEW w \in 8 .. 30
  PROVE  /\ ModePl2("battery-low-power", w) <= ModePl2("battery-maxq", w)
         /\ ModePl2("battery-maxq", w) <= ModePl2("ac-quiet", w)
         /\ ModePl2("ac-quiet", w) <= ModePl2("ac-performance", w)
<1>1. BatteryLowPowerPl2(w) <= BatteryMaxqPl2(w)
  BY DEF BatteryLowPowerPl2, BatteryMaxqPl2, CeilPercent, MinOf, MaxOf
<1>2. BatteryMaxqPl2(w) <= AcQuietPl2(w)
  BY DEF BatteryMaxqPl2, AcQuietPl2, CeilPercent, MinOf, MaxOf
<1>3. AcQuietPl2(w) <= AcPerformancePl2(w)
  BY DEF AcQuietPl2, AcPerformancePl2
<1>. QED
  BY <1>1, <1>2, <1>3 DEF ModePl2

(* So are their burst windows, at any slider value: a quieter mode never   *)
(* holds a burst for longer.                                               *)
THEOREM WindowsOrdered ==
  ASSUME NEW w \in Nat
  PROVE  /\ ModeTau("battery-low-power", w) <= ModeTau("battery-maxq", w)
         /\ ModeTau("battery-maxq", w) <= ModeTau("ac-quiet", w)
         /\ ModeTau("ac-quiet", w) <= ModeTau("ac-performance", w)
BY DEF ModeTau

(* The window that is written is one the constraint advertises, whatever   *)
(* the policy asked for, when the advertised bounds are in order.          *)
LEMMA WindowAccepted ==
  ASSUME NEW requested \in Nat, NEW lo \in Nat, NEW hi \in Nat,
         lo <= hi \/ hi = None
  PROVE  /\ LimitTau(requested, lo, hi) >= lo
         /\ hi # None => LimitTau(requested, lo, hi) <= hi
BY DEF LimitTau, MinOf, MaxOf, None

(* The EC is never asked for more than 30 W sustained, never for PL2 below *)
(* the PL1 it is given, and its bytes fit the field.                       *)
THEOREM EcBytesOrdered ==
  ASSUME NEW src \in PowerSources, NEW user \in Watts, NEW soft \in Nat
  PROVE  /\ EcBytes(src, user, soft) \in
              [pl1 : Nat, pl2 : Nat, shift : {Comfort, Turbo}]
         /\ EcBytes(src, user, soft).pl1 <= EcPl1Max
         /\ EcBytes(src, user, soft).pl1 <= EcBytes(src, user, soft).pl2
         /\ EcBytes(src, user, soft).pl2 <= ShortLimitW
<1>1. user \in Nat /\ ShortLimitW \in Nat /\ user <= ShortLimitW
  BY LimitsAssumption DEF Watts
<1>2. /\ EffectivePl1(user, soft) \in Nat
      /\ EffectivePl1(user, soft) <= user
  BY <1>1, EffectiveIsReduction
<1>3. /\ PolicyPl2(src, user) \in Nat
      /\ PolicyPl2(src, user) <= ShortLimitW
  BY BurstWithinCeiling
<1>4. EcShift(src, user) \in {Comfort, Turbo}
  BY DEF EcShift
<1>. QED
  BY <1>1, <1>2, <1>3, <1>4 DEF EcBytes, EcPl1Max, MinOf, MaxOf

----------------------------------------------------------------------------
(* Types, and the reduction-only overlay.                                  *)

(* What an operation in flight may rely on: it runs in a live process, the *)
(* watts it carries are a slider value and, past the save, the one on      *)
(* disk; once the policy is fixed its source is a real reading.            *)
OperationInv ==
  /\ main.op = "idle" <=> main.step = "idle"
  /\ main.op # "idle" => status \in {"up", "stopping"} /\ main.watts \in Watts
  /\ main.step \in {"policy", "pl1", "pl2", "finish"} => stateFile = main.watts
  /\ main.step \in {"pl1", "pl2", "finish"} => main.src \in PowerSources

(* A timer thread that has taken a value carries a slider value.           *)
TakenInv == \A t \in Timers : flush[t].pc = "taken" => flush[t].watts \in Watts

IInv == TypeOK /\ OperationInv /\ TakenInv

(* The ids of the domains start at 1.                                      *)
LEMMA DomainIdsFacts ==
  /\ DomainIds \subseteq Nat
  /\ 1 \in DomainIds
  /\ \A i \in DomainIds : i < Len(Domains) => i + 1 \in DomainIds
<1>1. Len(Domains) \in Nat /\ DomainIds = 1 .. Len(Domains) /\ Len(Domains) >= 1
  BY BackendAssumption DEF DomainIds
<1>. QED
  BY <1>1

(* None is no slider value.                                                *)
LEMMA WattsFacts ==
  /\ Watts \subseteq Nat \ {0}
  /\ None \notin Watts
  /\ None \in Nat
BY LimitsAssumption DEF Watts, None

LEMMA IdleTypes ==
  /\ Idle \in MainType
  /\ IdleTimer \in TimerType
  /\ Idle.op = "idle" /\ Idle.step = "idle"
  /\ IdleTimer.pc = "idle"
BY DomainIdsFacts, WattsFacts
   DEF Idle, Begin, IdleTimer, NoBytes, MainType, MainOps, MainSteps, TimerType,
       EcByteRecords, None, Comfort, Turbo

(* The registers an operation writes keep their type and stay between the  *)
(* floor and the slider.                                                   *)
LEMMA Pl1Facts ==
  ASSUME NEW w \in Watts, NEW soft \in Nat
  PROVE  /\ EffectivePl1(w, soft) \in Nat \ {0}
         /\ EffectivePl1(w, soft) <= w
         /\ EffectivePl1(w, soft) >= MinOf(w, SoftFloorW)
<1>1. w \in Nat \ {0}
  BY WattsFacts
<1>2. MinOf(w, SoftFloorW) \in Nat \ {0}
  BY <1>1, LimitsAssumption DEF MinOf
<1>3. /\ EffectivePl1(w, soft) \in Nat
      /\ EffectivePl1(w, soft) <= w
      /\ EffectivePl1(w, soft) >= MinOf(w, SoftFloorW)
  BY <1>1, EffectiveIsReduction
<1>. QED
  BY <1>2, <1>3

----------------------------------------------------------------------------
LEMMA InitIInv == Init => IInv
<1>. SUFFICES ASSUME Init PROVE IInv
  OBVIOUS
<1>1. TypeOK
  <2>1. rapl \in [DomainIds -> [pl1 : Nat \ {0}, pl2 : Nat \ {0}]]
    BY BackendAssumption DEF Init
  <2>2. ec \in EcByteRecords
    BY BackendAssumption DEF Init, EcByteRecords
  <2>3. main \in MainType /\ flush \in [Timers -> TimerType]
    BY IdleTypes DEF Init
  <2>4. faults \in 0 .. MaxFaults
    BY BackendAssumption DEF Init
  <2>5. source \in PowerSources /\ applied \in PowerSources \union {NoSource}
        /\ steady \in BOOLEAN
    BY BackendAssumption DEF Init
  <2>. QED
    BY <2>1, <2>2, <2>3, <2>4, <2>5, WattsFacts DEF Init, TypeOK
<1>2. OperationInv
  BY IdleTypes DEF Init, OperationInv
<1>3. TakenInv
  BY IdleTypes DEF Init, TakenInv
<1>. QED
  BY <1>1, <1>2, <1>3 DEF IInv

----------------------------------------------------------------------------
(* Every step preserves the invariant, one lemma per group of actions.     *)

LEMMA RequestsPreserve ==
  ASSUME IInv,
         NEW w \in Requests,
         WriteLimit(w) \/ RejectRequest(w) \/ PreflightFails(w)
  PROVE  IInv'
<1>. USE DEF IInv, TypeOK, Ready
<1>1. CASE WriteLimit(w)
  <2>1. ClampWatts(w) \in Watts
    BY BackendAssumption, ClampInRange
  <2>2. main' \in MainType /\ main'.op = "write" /\ main'.step = "save"
        /\ main'.watts \in Watts
    BY <1>1, <2>1, DomainIdsFacts
       DEF WriteLimit, Begin, MainType, MainOps, MainSteps, None
  <2>3. TypeOK'
    BY <1>1, <2>2, WattsFacts DEF WriteLimit, hardware, debounce, failures, history
  <2>4. OperationInv'
    BY <1>1, <2>2 DEF WriteLimit, OperationInv
  <2>5. TakenInv'
    BY <1>1 DEF WriteLimit, TakenInv, debounce
  <2>. QED
    BY <2>3, <2>4, <2>5
<1>2. CASE RejectRequest(w)
  <2>1. TypeOK'
    BY <1>2, WattsFacts DEF RejectRequest, hardware, debounce, failures, history
  <2>2. OperationInv' /\ TakenInv'
    BY <1>2 DEF RejectRequest, OperationInv, TakenInv, debounce
  <2>. QED
    BY <2>1, <2>2
<1>3. CASE PreflightFails(w)
  <2>1. TypeOK'
    BY <1>3, WattsFacts, BackendAssumption
       DEF PreflightFails, IoFault, Fault, hardware, debounce, history
  <2>2. OperationInv' /\ TakenInv'
    BY <1>3 DEF PreflightFails, OperationInv, TakenInv, debounce
  <2>. QED
    BY <2>1, <2>2
<1>. QED
  BY <1>1, <1>2, <1>3

LEMMA CallSetSoftPreserves ==
  ASSUME IInv, status \in {"up", "stopping"},
         NEW op \in {"soft", "clear"}, NEW v \in Nat,
         CallSetSoft(op, v)
  PROVE  IInv'
<1>. USE DEF IInv, TypeOK
<1>1. softPl1' \in Nat
  BY StoredOverlayType DEF CallSetSoft
<1>2. CASE stateFile = None
  BY <1>1, <1>2, WattsFacts
     DEF CallSetSoft, OperationInv, TakenInv, hardware, debounce, failures, history
<1>3. CASE stateFile # None
  <2>1. stateFile \in Watts
    BY <1>3
  <2>2. main' \in MainType /\ main'.op = op /\ main'.step = "policy"
        /\ main'.watts = stateFile
    BY <1>3, <2>1, DomainIdsFacts
       DEF CallSetSoft, Begin, MainType, MainOps, MainSteps
  <2>3. TypeOK'
    BY <1>1, <1>3, <2>2 DEF CallSetSoft, hardware, debounce, failures, history
  <2>4. OperationInv'
    BY <1>3, <2>1, <2>2 DEF CallSetSoft, OperationInv
  <2>5. TakenInv'
    BY DEF CallSetSoft, TakenInv, debounce
  <2>. QED
    BY <2>3, <2>4, <2>5
<1>. QED
  BY <1>2, <1>3

LEMMA GovernorPreserves ==
  ASSUME IInv,
         \/ \E v \in Overlays \union {None} : GovernorSetsSoft(v)
         \/ RestoreSoft \/ ConfigChanges
  PROVE  IInv'
<1>1. CASE \E v \in Overlays \union {None} : GovernorSetsSoft(v)
  BY <1>1, CallSetSoftPreserves, BackendAssumption, WattsFacts DEF GovernorSetsSoft
<1>2. CASE RestoreSoft
  BY <1>2, CallSetSoftPreserves, WattsFacts DEF RestoreSoft
<1>3. CASE ConfigChanges
  BY <1>3 DEF ConfigChanges, IInv, TypeOK, OperationInv, TakenInv, hardware,
              debounce, failures, history
<1>. QED
  BY <1>1, <1>2, <1>3

LEMMA PollStartPreserve ==
  ASSUME IInv, Poll \/ Start
  PROVE  IInv'
<1>. USE DEF IInv, TypeOK
<1>1. CASE Poll
  <2>1. CASE stateFile = None
    BY <1>1, <2>1
       DEF Poll, Ready, OperationInv, TakenInv, hardware, debounce, failures, history
  <2>2. CASE stateFile # None
    <3>1. stateFile \in Watts
      BY <2>2
    <3>2. main' \in MainType /\ main'.op = "poll" /\ main'.step = "policy"
          /\ main'.watts = stateFile
      BY <1>1, <2>2, <3>1, DomainIdsFacts
         DEF Poll, Begin, MainType, MainOps, MainSteps, None
    <3>3. TypeOK'
      BY <1>1, <2>2, <3>2 DEF Poll, hardware, debounce, failures, history
    <3>4. OperationInv' /\ TakenInv'
      BY <1>1, <2>2, <3>1, <3>2 DEF Poll, Ready, OperationInv, TakenInv, debounce
    <3>. QED
      BY <3>3, <3>4
  <2>. QED
    BY <2>1, <2>2
<1>2. CASE Start
  <2>1. main' \in MainType /\ (main'.op = "idle" <=> main'.step = "idle")
        /\ (main'.op # "idle" => /\ main'.watts = stateFile /\ stateFile \in Watts
                                 /\ main'.step \in {"save", "policy"})
        /\ (main'.step = "policy" => main'.op # "restore")
    BY <1>2, DomainIdsFacts
       DEF Start, Begin, Idle, MainType, MainOps, MainSteps, None
  <2>2. TypeOK'
    BY <1>2, <2>1, WattsFacts DEF Start, hardware, service, debounce, history
  <2>3. OperationInv' /\ TakenInv'
    BY <1>2, <2>1 DEF Start, OperationInv, TakenInv, debounce
  <2>. QED
    BY <2>2, <2>3
<1>. QED
  BY <1>1, <1>2

LEMMA SavePolicyPreserve ==
  ASSUME IInv, SaveState \/ ReadPolicy
  PROVE  IInv'
<1>. USE DEF IInv, TypeOK
<1>1. CASE SaveState
  <2>1. main.op # "idle" /\ main.watts \in Watts
    BY <1>1 DEF SaveState, OperationInv
  <2>2. main' \in MainType /\ main'.step = "policy" /\ main'.op = main.op
        /\ main'.watts = main.watts
    BY <1>1 DEF SaveState, MainType, MainSteps
  <2>3. TypeOK'
    BY <1>1, <2>1, <2>2 DEF SaveState, hardware, service, debounce, failures, history
  <2>4. OperationInv' /\ TakenInv'
    BY <1>1, <2>1, <2>2 DEF SaveState, OperationInv, TakenInv, debounce
  <2>. QED
    BY <2>3, <2>4
<1>2. CASE ReadPolicy
  <2>1. main' \in MainType /\ main'.step = "pl1" /\ main'.op = main.op
        /\ main'.watts = main.watts /\ main'.src = source
    BY <1>2 DEF ReadPolicy, MainType, MainSteps
  <2>2. steady' \in BOOLEAN /\ applied' = applied
    BY <1>2 DEF ReadPolicy, PolicyRead
  <2>4. TypeOK'
    BY <1>2, <2>1, <2>2 DEF ReadPolicy, hardware, service, debounce, failures
  <2>3. OperationInv' /\ TakenInv'
    BY <1>2, <2>1 DEF ReadPolicy, OperationInv, TakenInv, debounce
  <2>. QED
    BY <2>3, <2>4
<1>. QED
  BY <1>1, <1>2

LEMMA RegistersPreserve ==
  ASSUME IInv, WritePl1 \/ WritePl2
  PROVE  IInv'
<1>. USE DEF IInv, TypeOK
<1>. DEFINE eff == EffectivePl1(main.watts, softPl1)
<1>1. /\ main.op # "idle" /\ main.watts \in Watts /\ stateFile = main.watts
      /\ main.src \in PowerSources /\ status \in {"up", "stopping"}
      /\ main.next \in DomainIds
  BY DEF WritePl1, WritePl2, OperationInv, MainType
<1>2. eff \in Nat \ {0} /\ eff <= main.watts
  BY <1>1, Pl1Facts
<1>3. CASE WritePl1
  <2>. HIDE DEF eff
  <2>1. rapl' \in [DomainIds -> [pl1 : Nat \ {0}, pl2 : Nat \ {0}]]
    BY <1>2, <1>3 DEF WritePl1, eff
  <2>2. main' \in MainType /\ main'.step = "pl2" /\ main'.op = main.op
        /\ main'.watts = main.watts /\ main'.src = main.src
    BY <1>3 DEF WritePl1, MainType, MainSteps
  <2>3. TypeOK'
    BY <1>3, <2>1, <2>2 DEF WritePl1, service, debounce, failures, history
  <2>4. OperationInv' /\ TakenInv'
    BY <1>1, <1>3, <2>2 DEF WritePl1, OperationInv, TakenInv, debounce
  <2>. QED
    BY <2>3, <2>4
<1>4. CASE WritePl2
  <2>. DEFINE burst == DomainPl2(main.src, main.watts, eff, ShortMax[main.next])
  <2>1. ShortMax[main.next] \in Nat
    BY <1>1, BackendAssumption DEF DomainIds
  <2>2. burst \in Nat \ {0}
    <3>1. /\ burst \in Nat
          /\ eff <= burst
      BY <1>1, <1>2, <2>1, DomainBurstOrdered
    <3>. QED
      BY <1>2, <3>1
  <2>3. rapl' = [rapl EXCEPT ![main.next].pl2 = burst]
    BY <1>4 DEF WritePl2
  <2>. HIDE DEF eff, burst
  <2>4. rapl' \in [DomainIds -> [pl1 : Nat \ {0}, pl2 : Nat \ {0}]]
    BY <2>2, <2>3
  <2>5. main' \in MainType /\ main'.step \in {"pl1", "finish"} /\ main'.op = main.op
        /\ main'.watts = main.watts /\ main'.src = main.src
    BY <1>1, <1>4, DomainIdsFacts DEF WritePl2, MainType, MainSteps
  <2>6. TypeOK'
    BY <1>4, <2>4, <2>5 DEF WritePl2, service, debounce, failures, history
  <2>7. OperationInv' /\ TakenInv'
    BY <1>1, <1>4, <2>5 DEF WritePl2, OperationInv, TakenInv, debounce
  <2>. QED
    BY <2>6, <2>7
<1>. QED
  BY <1>3, <1>4

(* Arming a timer for a slider value keeps the debounce state well typed.  *)
LEMMA ScheduleFacts ==
  ASSUME IInv, NEW watts \in Watts, Schedule(watts)
  PROVE  /\ pendingEc' \in Watts \union {None}
         /\ timerRef' \in Timers \union {NoTimer}
         /\ flush' \in [Timers -> TimerType]
         /\ TakenInv'
<1>. USE DEF IInv, TypeOK
<1>1. PICK t \in Timers :
        /\ timerRef' = t
        /\ flush' = [u \in Timers |->
             IF u = t THEN [IdleTimer EXCEPT !.pc = "armed"]
             ELSE IF u = timerRef /\ flush[u].pc = "armed" THEN IdleTimer
             ELSE flush[u]]
  BY DEF Schedule, Free
<1>2. /\ [IdleTimer EXCEPT !.pc = "armed"] \in TimerType
      /\ [IdleTimer EXCEPT !.pc = "armed"].pc = "armed"
  BY IdleTypes DEF TimerType
<1>3. flush' \in [Timers -> TimerType]
  BY <1>1, <1>2, IdleTypes
<1>4. TakenInv'
  BY <1>1, <1>2, IdleTypes DEF TakenInv
<1>. QED
  BY <1>1, <1>3, <1>4 DEF Schedule

LEMMA FinishPreserves ==
  ASSUME IInv, Finish \/ RaplWriteFails
  PROVE  IInv'
<1>. USE DEF IInv, TypeOK
<1>1. /\ main.op # "idle" /\ main.watts \in Watts /\ main.src \in PowerSources
      /\ stateFile = main.watts /\ status \in {"up", "stopping"}
      /\ main.arg \in Nat /\ main.seen \in PowerSources \union {NoSource}
  BY DEF Finish, RaplWriteFails, OperationInv, MainType
<1>2. CASE Finish
  <2>1. /\ pendingEc' \in Watts \union {None}
        /\ timerRef' \in Timers \union {NoTimer}
        /\ flush' \in [Timers -> TimerType]
        /\ TakenInv'
    <3>1. CASE Schedule(main.watts)
      BY <1>1, <3>1, ScheduleFacts
    <3>2. CASE UNCHANGED debounce
      BY <3>2 DEF debounce, TakenInv
    <3>. QED
      BY <1>2, <3>1, <3>2 DEF Finish
  <2>2. TypeOK'
    BY <1>1, <1>2, <2>1, IdleTypes DEF Finish, hardware, failures, history
  <2>3. OperationInv'
    BY <1>1, <1>2, IdleTypes DEF Finish, OperationInv
  <2>. QED
    BY <2>1, <2>2, <2>3
<1>3. CASE RaplWriteFails
  <2>1. /\ main' \in MainType /\ (main'.op = "idle" <=> main'.step = "idle")
        /\ main'.op # "idle" => main'.step = "policy" /\ main'.watts = stateFile
    BY <1>1, <1>3, DomainIdsFacts
       DEF RaplWriteFails, Begin, Idle, MainType, MainOps, MainSteps, None
  <2>2. softPl1' \in Nat /\ govSoft' \in Nat /\ govFailed' \in BOOLEAN
    BY <1>3, WattsFacts DEF RaplWriteFails
  <2>3. faults' \in 0 .. MaxFaults /\ ioFailed' \in BOOLEAN
    BY <1>3, BackendAssumption DEF RaplWriteFails, IoFault, Fault
  <2>4. TypeOK'
    BY <1>3, <2>1, <2>2, <2>3 DEF RaplWriteFails, hardware, debounce, history
  <2>5. OperationInv' /\ TakenInv'
    BY <1>1, <1>3, <2>1 DEF RaplWriteFails, OperationInv, TakenInv, debounce
  <2>. QED
    BY <2>4, <2>5
<1>. QED
  BY <1>2, <1>3

LEMMA TimersPreserve ==
  ASSUME IInv, NEW t \in Timers, TimerStep(t) \/ EcFails(t)
  PROVE  IInv'
<1>. USE DEF IInv, TypeOK
<1>. SUFFICES /\ ec' \in EcByteRecords
              /\ pendingEc' \in Watts \union {None}
              /\ timerRef' \in Timers \union {NoTimer}
              /\ flush' \in [Timers -> TimerType]
              /\ TakenInv'
              /\ faults' \in 0 .. MaxFaults /\ ioFailed' \in BOOLEAN
              /\ UNCHANGED <<source, stateFile, rapl, status, service, main, applied>>
              /\ steady' \in BOOLEAN
  BY DEF OperationInv, service
<1>1. flush[t] \in TimerType
  OBVIOUS
<1>2. CASE Fire(t)
  BY <1>1, <1>2 DEF Fire, TimerType, TakenInv, hardware, failures, history
<1>3. CASE Take(t)
  <2>1. ASSUME pendingEc # None
        PROVE  /\ [IdleTimer EXCEPT !.pc = "taken", !.watts = pendingEc] \in TimerType
               /\ [IdleTimer EXCEPT !.pc = "taken", !.watts = pendingEc].watts \in Watts
    BY <2>1, IdleTypes DEF TimerType
  <2>2. flush' \in [Timers -> TimerType]
    BY <1>3, <2>1, IdleTypes DEF Take
  <2>3. TakenInv'
    BY <1>3, <2>1, IdleTypes DEF Take, TakenInv
  <2>. QED
    BY <1>3, <2>2, <2>3, WattsFacts DEF Take, TakenAlone, hardware, failures
<1>4. CASE ComputeBytes(t)
  <2>1. EcBytes(source, flush[t].watts, softPl1) \in EcByteRecords
    BY <1>4, EcBytesOrdered DEF ComputeBytes, TakenInv, EcByteRecords
  <2>2. flush' \in [Timers -> TimerType]
    BY <1>1, <1>4, <2>1 DEF ComputeBytes, TimerType
  <2>3. TakenInv'
    BY <1>1, <1>4 DEF ComputeBytes, TakenInv, TimerType
  <2>. QED
    BY <1>4, <2>2, <2>3 DEF ComputeBytes, hardware, failures, history
<1>5. CASE DumpEc(t)
  <2>1. {b \in DOMAIN ec : ec[b] # flush[t].bytes[b]} \in SUBSET {"pl1", "pl2", "shift"}
    BY DEF EcByteRecords
  <2>2. flush' \in [Timers -> TimerType]
    BY <1>1, <1>5, <2>1 DEF DumpEc, TimerType
  <2>3. TakenInv'
    BY <1>1, <1>5 DEF DumpEc, TakenInv, TimerType
  <2>. QED
    BY <1>5, <2>2, <2>3 DEF DumpEc, hardware, failures, history
<1>6. CASE WriteByte(t)
  <2>1. PICK b \in {"pl1", "pl2", "shift"} :
          /\ ec' = [ec EXCEPT ![b] = flush[t].bytes[b]]
          /\ flush' = [flush EXCEPT ![t].todo = @ \ {b}]
    BY <1>1, <1>6 DEF WriteByte, TimerType
  <2>2. ec' \in EcByteRecords
    BY <1>1, <2>1 DEF EcByteRecords, TimerType
  <2>3. flush' \in [Timers -> TimerType] /\ TakenInv'
    BY <1>1, <2>1 DEF TimerType, TakenInv
  <2>. QED
    BY <1>6, <2>2, <2>3 DEF WriteByte, failures, history
<1>7. CASE Verify(t)
  BY <1>7, IdleTypes DEF Verify, TakenInv, hardware, failures, history
<1>8. CASE EcFails(t)
  BY <1>8, IdleTypes, BackendAssumption
     DEF EcFails, TakenInv, hardware, IoFault, Fault, history
<1>. QED
  BY <1>2, <1>3, <1>4, <1>5, <1>6, <1>7, <1>8 DEF TimerStep

LEMMA LifecyclePreserves ==
  ASSUME IInv,
         PowerSourceChanges \/ StopRequested \/ Exit \/ Crash \/ Reboot
  PROVE  IInv'
<1>. USE DEF IInv, TypeOK
<1>1. CASE PowerSourceChanges
  <2>1. source' \in PowerSources /\ steady' \in BOOLEAN
    BY <1>1, BackendAssumption DEF PowerSourceChanges
  <2>. QED
    BY <1>1, <2>1 DEF PowerSourceChanges, OperationInv, TakenInv, hardware, service,
                      debounce, failures
<1>2. CASE StopRequested
  BY <1>2 DEF StopRequested, Ready, OperationInv, TakenInv, hardware, service,
              debounce, failures, history
<1>3. ASSUME ProcessDies, faults' \in 0 .. MaxFaults, status' \in {"down", "stopped"},
             UNCHANGED <<source, stateFile, hardware, ioFailed>>
      PROVE  IInv'
  BY <1>3, IdleTypes, WattsFacts
     DEF ProcessDies, OperationInv, TakenInv, hardware
<1>4. CASE Exit
  BY <1>3, <1>4 DEF Exit, failures, history
<1>5. CASE Crash
  BY <1>3, <1>5, BackendAssumption DEF Crash, Fault
<1>6. CASE Reboot
  <2>1. rapl' \in [DomainIds -> [pl1 : Nat \ {0}, pl2 : Nat \ {0}]]
        /\ ec' \in EcByteRecords
    BY <1>6, BackendAssumption DEF Reboot, EcByteRecords
  <2>2. OperationInv' /\ TakenInv'
    BY <1>6 DEF Reboot, OperationInv, TakenInv, debounce
  <2>3. TypeOK'
    BY <1>6, <2>1, BackendAssumption DEF Reboot, Fault, service, debounce, history
  <2>. QED
    BY <2>2, <2>3
<1>. QED
  BY <1>1, <1>2, <1>4, <1>5, <1>6

LEMMA StepPreservesIInv == IInv /\ [Next]_vars => IInv'
<1>1. ASSUME IInv, UNCHANGED vars PROVE IInv'
  BY <1>1 DEF vars, IInv, TypeOK, OperationInv, TakenInv
<1>. QED
  BY <1>1, RequestsPreserve, GovernorPreserves, PollStartPreserve,
     SavePolicyPreserve, RegistersPreserve, FinishPreserves, TimersPreserve,
     LifecyclePreserves
     DEF Next

(* The inductive invariant holds throughout.                               *)
THEOREM BackendInvariant == Spec => []IInv
BY InitIInv, StepPreservesIInv, PTL DEF Spec

(* Every variable keeps its type, for all constants.                       *)
THEOREM BackendTyped == Spec => []TypeOK
<1>1. IInv => TypeOK
  BY DEF IInv
<1>. QED
  BY <1>1, BackendInvariant, PTL

(* The contract of set_soft_pl1_w: while the service is up a domain's PL1  *)
(* only ever changes to a value at most the persisted slider and at least  *)
(* the smaller of slider and floor - whatever the source, the timers, the  *)
(* poller, failed writes and restarts do in between.                       *)
THEOREM OverlayOnlyReduces == Spec => ReductionOnly
<1>. DEFINE Bounded(i) ==
       rapl'[i].pl1 # rapl[i].pl1 /\ status = "up" =>
         /\ rapl'[i].pl1 <= stateFile
         /\ rapl'[i].pl1 >= MinOf(stateFile, SoftFloorW)
<1>1. ASSUME IInv, [Next]_vars, NEW i \in DomainIds PROVE Bounded(i)
  <2>1. CASE WritePl1
    <3>1. /\ main.watts \in Watts /\ stateFile = main.watts /\ softPl1 \in Nat
          /\ main.next \in DomainIds
      BY <1>1, <2>1 DEF IInv, TypeOK, OperationInv, WritePl1, MainType
    <3>2. /\ EffectivePl1(main.watts, softPl1) <= main.watts
          /\ EffectivePl1(main.watts, softPl1) >= MinOf(main.watts, SoftFloorW)
      BY <3>1, Pl1Facts
    <3>3. rapl'[i].pl1 = IF i = main.next THEN EffectivePl1(main.watts, softPl1)
                         ELSE rapl[i].pl1
      BY <1>1, <2>1, <3>1 DEF IInv, TypeOK, WritePl1
    <3>. QED
      BY <3>1, <3>2, <3>3
  <2>2. CASE WritePl2
    <3>1. rapl'[i].pl1 = rapl[i].pl1
      BY <1>1, <2>2 DEF IInv, TypeOK, WritePl2
    <3>. QED
      BY <3>1
  <2>3. CASE Reboot
    BY <2>3 DEF Reboot
  <2>4. CASE ~ (WritePl1 \/ WritePl2 \/ Reboot)
    <3>1. UNCHANGED rapl
      BY <1>1, <2>4
         DEF Next, vars, TimerStep, WriteLimit, RejectRequest, PreflightFails,
             GovernorSetsSoft, RestoreSoft, CallSetSoft, ConfigChanges, Poll, Start,
             StopRequested, Exit, SaveState, ReadPolicy, Finish, RaplWriteFails,
             Fire, Take, ComputeBytes, DumpEc, WriteByte, Verify, EcFails,
             PowerSourceChanges, Crash, hardware
    <3>. QED
      BY <3>1
  <2>. QED
    BY <2>1, <2>2, <2>3, <2>4
<1>2. IInv /\ [Next]_vars =>
        [\A i \in DomainIds :
           rapl'[i].pl1 # rapl[i].pl1 /\ status = "up" =>
             /\ rapl'[i].pl1 <= stateFile
             /\ rapl'[i].pl1 >= MinOf(stateFile, SoftFloorW)]_vars
  BY <1>1
<1>. QED
  BY <1>2, BackendInvariant, PTL DEF Spec, ReductionOnly

----------------------------------------------------------------------------
(* The registers between operations.                                       *)

(* No process, nothing it remembers.                                       *)
GoneInv ==
  status \in {"down", "stopped"} =>
    /\ softPl1 = None /\ govSoft = None /\ lastSource = NoSource
    /\ main = Idle /\ pendingEc = None
    /\ \A t \in Timers : flush[t] = IdleTimer

(* The overlay in the service is the one the governor believes in, or none *)
(* after a request dropped it, unless a write of an overlay failed; during *)
(* such a write it is the value on its way.                                *)
OverlayInv ==
  IF main.op \in {"soft", "clear"} THEN softPl1 = StoredOverlay(main.arg)
  ELSE ~ ioFailed => softPl1 \in {None, StoredOverlay(govSoft)}

Written(i) == i < main.next \/ main.step = "finish"

(* The domains an operation has been through hold its policy.              *)
ProgressInv ==
  /\ main.step \in {"save", "policy"} => main.next = 1
  /\ main.step \in {"pl1", "pl2", "finish"} =>
       \A i \in DomainIds :
         /\ Written(i) \/ (i = main.next /\ main.step = "pl2") =>
              rapl[i].pl1 = EffectivePl1(main.watts, softPl1)
         /\ Written(i) =>
              rapl[i].pl2 = DomainPl2(main.src, main.watts, rapl[i].pl1, ShortMax[i])

(* A steady operation has its policy, and what the poller saw, from the    *)
(* source of now.                                                          *)
SteadyInv ==
  main.step \in {"pl1", "pl2", "finish"} /\ steady =>
    /\ main.op # "restore"
    /\ main.op = "poll" => main.seen = source
    /\ main.src = source

(* What SettledMatchesPolicy says of one domain.                           *)
SettledPl1(i) ==
  \/ rapl[i].pl1 = EffectivePl1(stateFile, softPl1)
  \/ softPl1 = None /\ rapl[i].pl1 = EffectivePl1(stateFile, StoredOverlay(govSoft))

SettledPl2(i) ==
  rapl[i].pl2 = DomainPl2(applied, stateFile, rapl[i].pl1, ShortMax[i])

SettledInv ==
  Settled =>
    /\ \A i \in DomainIds : SettledPl1(i) /\ SettledPl2(i)
    /\ steady => lastSource = applied

(* The inductive invariant of the registers. It is kept by every step      *)
(* together with IInv.                                                     *)
RInv == GoneInv /\ OverlayInv /\ ProgressInv /\ SteadyInv /\ SettledInv

(* No overlay is stored as no overlay.                                     *)
LEMMA StoredNone == StoredOverlay(None) = None
BY DEF StoredOverlay

(* A new operation starts at the first domain.                             *)
LEMMA BeginFields ==
  ASSUME NEW op, NEW step, NEW watts, NEW seen, NEW arg
  PROVE  /\ Begin(op, step, watts, seen, arg).op = op
         /\ Begin(op, step, watts, seen, arg).step = step
         /\ Begin(op, step, watts, seen, arg).watts = watts
         /\ Begin(op, step, watts, seen, arg).next = 1
         /\ Begin(op, step, watts, seen, arg).seen = seen
         /\ Begin(op, step, watts, seen, arg).arg = arg
BY DEF Begin

LEMMA InitRInv == Init => RInv
BY StoredNone, IdleTypes
   DEF Init, RInv, GoneInv, OverlayInv, ProgressInv, SteadyInv, SettledInv, Settled,
       None, NoSource

(* Every step keeps it. An entry point leaves nothing settled, or drops    *)
(* the overlay without a write; the domains then still hold the one the    *)
(* governor believes in.                                                   *)
LEMMA RequestsKeep ==
  ASSUME IInv, RInv, NEW w \in Requests,
         WriteLimit(w) \/ RejectRequest(w) \/ PreflightFails(w)
  PROVE  RInv'
<1>. USE DEF RInv, GoneInv, OverlayInv, ProgressInv, Written, SteadyInv, SettledInv,
             SettledPl1, SettledPl2, Settled, Ready
<1>1. CASE WriteLimit(w)
  BY <1>1, BeginFields, StoredNone DEF WriteLimit, hardware, debounce, failures, history
<1>2. CASE RejectRequest(w)
  BY <1>2, StoredNone DEF RejectRequest, hardware, debounce, failures, history, IInv, OperationInv
<1>3. CASE PreflightFails(w)
  BY <1>3, StoredNone DEF PreflightFails, IoFault, hardware, debounce, IInv, OperationInv
<1>. QED
  BY <1>1, <1>2, <1>3

LEMMA CallSetSoftKeeps ==
  ASSUME IInv, RInv, status \in {"up", "stopping"},
         NEW op \in {"soft", "clear"}, NEW v \in Nat,
         CallSetSoft(op, v)
  PROVE  RInv'
<1>. USE DEF RInv, GoneInv, OverlayInv, ProgressInv, Written, SteadyInv, SettledInv,
             SettledPl1, SettledPl2, Settled, Ready
<1>2. CASE stateFile = None
  BY <1>2, StoredNone DEF CallSetSoft, hardware, debounce, failures, history, IInv, OperationInv
<1>3. CASE stateFile # None
  BY <1>3, BeginFields DEF CallSetSoft, hardware, debounce, failures, history
<1>. QED
  BY <1>2, <1>3

LEMMA GovernorKeeps ==
  ASSUME IInv, RInv,
         \/ \E v \in Overlays \union {None} : GovernorSetsSoft(v)
         \/ RestoreSoft \/ ConfigChanges
  PROVE  RInv'
<1>1. CASE \E v \in Overlays \union {None} : GovernorSetsSoft(v)
  BY <1>1, CallSetSoftKeeps, BackendAssumption, WattsFacts DEF GovernorSetsSoft
<1>2. CASE RestoreSoft
  BY <1>2, CallSetSoftKeeps, WattsFacts DEF RestoreSoft
<1>3. CASE ConfigChanges
  BY <1>3 DEF ConfigChanges, Ready, RInv, GoneInv, OverlayInv, ProgressInv, Written,
              SteadyInv, SettledInv, SettledPl1, SettledPl2, Settled, hardware, debounce,
              failures, history
<1>. QED
  BY <1>1, <1>2, <1>3

LEMMA PollStartKeep ==
  ASSUME IInv, RInv, Poll \/ Start
  PROVE  RInv'
<1>. USE DEF RInv, GoneInv, OverlayInv, ProgressInv, Written, SteadyInv, SettledInv,
             SettledPl1, SettledPl2, Settled, Ready
<1>1. CASE Poll
  <2>1. CASE stateFile = None
    BY <1>1, <2>1 DEF Poll, hardware, debounce, failures, history, IInv, OperationInv
  <2>2. CASE stateFile # None
    BY <1>1, <2>2, BeginFields DEF Poll, hardware, debounce, failures, history
  <2>. QED
    BY <2>1, <2>2
<1>2. CASE Start
  <2>1. /\ main'.op \in {"idle", "restore", "start"}
        /\ main'.step \in {"idle", "save", "policy"} /\ main'.next = 1
    BY <1>2, BeginFields, IdleTypes DEF Start, Idle
  <2>2. softPl1' = None /\ govSoft' = None /\ lastSource' = NoSource /\ status' = "up"
    BY <1>2 DEF Start, service
  <2>. QED
    BY <2>1, <2>2, StoredNone
<1>. QED
  BY <1>1, <1>2

LEMMA SavePolicyKeep ==
  ASSUME IInv, RInv, SaveState \/ ReadPolicy
  PROVE  RInv'
<1>. USE DEF RInv, GoneInv, OverlayInv, ProgressInv, Written, SteadyInv, SettledInv,
             SettledPl1, SettledPl2, Settled
<1>0. main.op # "idle" /\ main \in MainType /\ status \in {"up", "stopping"}
  BY DEF SaveState, ReadPolicy, IInv, OperationInv, TypeOK
<1>1. CASE SaveState
  <2>1. /\ main'.step = "policy" /\ main'.op = main.op /\ main'.next = main.next
        /\ main'.seen = main.seen /\ main'.arg = main.arg
    BY <1>0, <1>1 DEF SaveState, MainType
  <2>. QED
    BY <1>0, <1>1, <2>1 DEF SaveState, hardware, service, debounce, failures, history
<1>2. CASE ReadPolicy
  <2>1. /\ main'.step = "pl1" /\ main'.op = main.op /\ main'.next = 1
        /\ main'.src = source /\ main'.seen = main.seen /\ main'.arg = main.arg
    BY <1>0, <1>2 DEF ReadPolicy, MainType
  <2>2. \A i \in DomainIds : ~ (i < 1)
    <3>1. Len(Domains) \in Nat /\ DomainIds = 1 .. Len(Domains)
      BY BackendAssumption DEF DomainIds
    <3>. QED
      BY <3>1
  <2>. QED
    BY <1>0, <1>2, <2>1, <2>2 DEF ReadPolicy, PolicyRead, hardware, service, debounce, failures
<1>. QED
  BY <1>1, <1>2

(* A register write extends what the operation has been through.           *)
LEMMA RegistersKeep ==
  ASSUME IInv, RInv, WritePl1 \/ WritePl2
  PROVE  RInv'
<1>. USE DEF RInv, GoneInv, OverlayInv, Written, SteadyInv, SettledInv, Settled
<1>. DEFINE eff == EffectivePl1(main.watts, softPl1)
<1>0. /\ main.op # "idle" /\ main \in MainType /\ status \in {"up", "stopping"}
      /\ main.next \in DomainIds
      /\ rapl \in [DomainIds -> [pl1 : Nat \ {0}, pl2 : Nat \ {0}]]
  BY DEF WritePl1, WritePl2, IInv, OperationInv, TypeOK, MainType
<1>1. CASE WritePl1
  <2>1. /\ main'.step = "pl2" /\ main'.op = main.op /\ main'.next = main.next
        /\ main'.src = main.src /\ main'.seen = main.seen /\ main'.arg = main.arg
        /\ main'.watts = main.watts
    BY <1>0, <1>1 DEF WritePl1, MainType
  <2>2. rapl' = [rapl EXCEPT ![main.next].pl1 = eff]
    BY <1>1 DEF WritePl1
  <2>. HIDE DEF eff
  <2>3. /\ rapl'[main.next].pl1 = eff
        /\ \A i \in DomainIds : i # main.next => rapl'[i] = rapl[i]
    BY <1>0, <2>2
  <2>4. softPl1' = softPl1
    BY <1>1 DEF WritePl1, service
  <2>5. ProgressInv'
    <3>. SUFFICES ASSUME NEW i \in DomainIds
                  PROVE  /\ i < main.next \/ i = main.next =>
                              rapl'[i].pl1 = EffectivePl1(main.watts, softPl1)
                         /\ i < main.next =>
                              rapl'[i].pl2 =
                                DomainPl2(main.src, main.watts, rapl'[i].pl1, ShortMax[i])
      BY <2>1, <2>4 DEF ProgressInv
    <3>1. main.step = "pl1"
      BY <1>1 DEF WritePl1
    <3>2. main.next \in Nat /\ i \in Nat
      BY <1>0, DomainIdsFacts
    <3>3. CASE i = main.next
      BY <2>3, <3>2, <3>3 DEF eff
    <3>4. CASE i # main.next
      BY <2>3, <3>1, <3>4 DEF ProgressInv
    <3>. QED
      BY <3>3, <3>4
  <2>. QED
    BY <1>0, <1>1, <2>1, <2>5 DEF WritePl1, service, debounce, failures, history
<1>2. CASE WritePl2
  <2>. DEFINE burst == DomainPl2(main.src, main.watts, eff, ShortMax[main.next])
  <2>1. /\ main'.op = main.op /\ main'.op # "idle"
        /\ main'.src = main.src /\ main'.seen = main.seen /\ main'.arg = main.arg
        /\ main'.watts = main.watts
        /\ IF main.next < Len(Domains)
           THEN main'.step = "pl1" /\ main'.next = main.next + 1
           ELSE main'.step = "finish" /\ main'.next = main.next
    BY <1>0, <1>2 DEF WritePl2, MainType
  <2>2. rapl' = [rapl EXCEPT ![main.next].pl2 = burst]
    BY <1>2 DEF WritePl2
  <2>. HIDE DEF burst
  <2>3. /\ rapl'[main.next].pl2 = burst
        /\ rapl'[main.next].pl1 = rapl[main.next].pl1
        /\ \A i \in DomainIds : i # main.next => rapl'[i] = rapl[i]
    BY <1>0, <2>2
  <2>4. softPl1' = softPl1
    BY <1>2 DEF WritePl2, service
  <2>5. rapl[main.next].pl1 = eff
    BY <1>0, <1>2 DEF WritePl2, ProgressInv
  <2>6. /\ main.next \in Nat /\ Len(Domains) \in Nat
        /\ \A i \in DomainIds : i \in Nat /\ i <= Len(Domains)
    BY <1>0, DomainIdsFacts, BackendAssumption DEF DomainIds
  <2>7. ProgressInv'
    <3>. SUFFICES ASSUME NEW i \in DomainIds, i <= main.next
                  PROVE  /\ rapl'[i].pl1 = eff
                         /\ rapl'[i].pl2 =
                              DomainPl2(main.src, main.watts, rapl'[i].pl1, ShortMax[i])
      BY <2>1, <2>4, <2>6 DEF ProgressInv
    <3>1. CASE i = main.next
      BY <2>3, <2>5, <3>1 DEF burst
    <3>2. CASE i # main.next
      <4>1. i < main.next
        BY <2>6, <3>2
      <4>. QED
        BY <1>2, <2>3, <3>2, <4>1 DEF ProgressInv, WritePl2
    <3>. QED
      BY <3>1, <3>2
  <2>. QED
    BY <1>0, <1>2, <2>1, <2>7 DEF WritePl2, service, debounce, failures, history
<1>. QED
  BY <1>1, <1>2

(* At the last statement every domain has been through the operation.      *)
LEMMA FinishKeeps ==
  ASSUME IInv, RInv, Finish \/ RaplWriteFails
  PROVE  RInv'
<1>0. /\ main.op # "idle" /\ main \in MainType /\ status \in {"up", "stopping"}
      /\ stateFile = main.watts
  BY DEF Finish, RaplWriteFails, IInv, OperationInv, TypeOK
<1>1. CASE Finish
  <2>1. /\ main' = Idle /\ main'.op = "idle" /\ main'.step = "idle"
        /\ UNCHANGED <<source, stateFile, rapl, ec, status, softPl1, govFailed>>
    BY <1>1, IdleTypes DEF Finish, hardware
  <2>2. GoneInv'
    BY <1>0, <2>1 DEF GoneInv
  <2>3. OverlayInv'
    BY <1>1, <2>1 DEF RInv, OverlayInv, Finish
  <2>4. ProgressInv' /\ SteadyInv'
    BY <2>1 DEF ProgressInv, SteadyInv
  <2>5. applied' = main.src /\ (steady => lastSource' = main.src) /\ steady' = steady
    BY <1>1 DEF Finish, RInv, SteadyInv
  <2>6. \A i \in DomainIds :
          /\ rapl[i].pl1 = EffectivePl1(main.watts, softPl1)
          /\ rapl[i].pl2 = DomainPl2(main.src, main.watts, rapl[i].pl1, ShortMax[i])
    BY <1>1 DEF Finish, RInv, ProgressInv, Written
  <2>7. SettledInv'
    BY <1>0, <2>1, <2>5, <2>6 DEF SettledInv, SettledPl1, SettledPl2
  <2>. QED
    BY <2>2, <2>3, <2>4, <2>7 DEF RInv
<1>2. CASE RaplWriteFails
  <2>. USE DEF RInv, GoneInv, OverlayInv, ProgressInv, SteadyInv, SettledInv, Settled
  <2>1. ioFailed'
    BY <1>2 DEF RaplWriteFails, IoFault
  <2>2. CASE main.op = "soft" /\ govSoft # None
    BY <1>0, <1>2, <2>1, <2>2, BeginFields, StoredNone DEF RaplWriteFails
  <2>3. CASE ~ (main.op = "soft" /\ govSoft # None)
    BY <1>0, <1>2, <2>1, <2>3, IdleTypes DEF RaplWriteFails
  <2>. QED
    BY <2>2, <2>3
<1>. QED
  BY <1>1, <1>2

LEMMA TimersKeep ==
  ASSUME IInv, RInv, NEW t \in Timers, TimerStep(t) \/ EcFails(t)
  PROVE  RInv'
<1>. USE DEF RInv, GoneInv, OverlayInv, ProgressInv, Written, SteadyInv, SettledInv,
             SettledPl1, SettledPl2, Settled
<1>1. flush[t] # IdleTimer
  BY IdleTypes DEF TimerStep, Fire, Take, ComputeBytes, DumpEc, WriteByte, Verify, EcFails
<1>2. status \notin {"down", "stopped"}
  BY <1>1
<1>3. UNCHANGED <<source, stateFile, rapl, status, service, main>>
  BY DEF TimerStep, Fire, Take, ComputeBytes, DumpEc, WriteByte, Verify, EcFails, hardware
<1>4. ioFailed => ioFailed'
  BY DEF TimerStep, Fire, Take, ComputeBytes, DumpEc, WriteByte, Verify, EcFails, failures,
         IoFault
<1>5. steady' => steady
  BY DEF TimerStep, Fire, Take, TakenAlone, ComputeBytes, DumpEc, WriteByte, Verify, EcFails,
         history
<1>6. applied' = applied
  BY DEF TimerStep, Fire, Take, TakenAlone, ComputeBytes, DumpEc, WriteByte, Verify, EcFails,
         history
<1>. QED
  BY <1>2, <1>3, <1>4, <1>5, <1>6 DEF service

LEMMA LifecycleKeeps ==
  ASSUME IInv, RInv,
         PowerSourceChanges \/ StopRequested \/ Exit \/ Crash \/ Reboot
  PROVE  RInv'
<1>. USE DEF RInv, GoneInv, OverlayInv, ProgressInv, Written, SteadyInv, SettledInv,
             SettledPl1, SettledPl2, Settled
<1>1. CASE PowerSourceChanges
  BY <1>1 DEF PowerSourceChanges, Applying, hardware, service, debounce, failures, history,
              IInv, OperationInv
<1>2. CASE StopRequested
  BY <1>2 DEF StopRequested, Ready, hardware, service, debounce, failures, history, IInv, OperationInv
<1>3. CASE Exit \/ Crash
  BY <1>3, IdleTypes, StoredNone DEF Exit, Crash, ProcessDies
<1>4. CASE Reboot
  BY <1>4, IdleTypes, StoredNone DEF Reboot, service, debounce
<1>. QED
  BY <1>1, <1>2, <1>3, <1>4

LEMMA StepKeepsRInv == IInv /\ RInv /\ [Next]_vars => RInv'
<1>1. ASSUME RInv, UNCHANGED vars PROVE RInv'
  BY <1>1 DEF vars, RInv, GoneInv, OverlayInv, ProgressInv, Written, SteadyInv, SettledInv,
              SettledPl1, SettledPl2, Settled
<1>. QED
  BY <1>1, RequestsKeep, GovernorKeeps, PollStartKeep, SavePolicyKeep, RegistersKeep,
     FinishKeeps, TimersKeep, LifecycleKeeps
     DEF Next

(* The domains behind an operation hold its policy, and all of them        *)
(* between operations.                                                     *)
THEOREM RegistersInvariant == Spec => []RInv
BY InitRInv, StepKeepsRInv, BackendInvariant, PTL DEF Spec

(* Between operations every domain holds the policy of the slider, the     *)
(* overlay and the source that policy was read for, for every number of    *)
(* domains, every request and overlay, and any plug events, failed writes, *)
(* crashes and restarts; and that source is the one the poller compares    *)
(* with, unless it changed while the operation ran.                        *)
THEOREM SettledRegisters == Spec => []SettledMatchesPolicy
<1>1. RInv => SettledMatchesPolicy
  BY DEF RInv, SettledInv, SettledPl1, SettledPl2, SettledMatchesPolicy
<1>. QED
  BY <1>1, RegistersInvariant, PTL

(* A service that stops leaves the full slider in every domain, whatever   *)
(* the source does (governor.close(), set_soft_pl1_w(None)).               *)
THEOREM StopGivesBack == Spec => []StopGivesSliderBack
<1>1. ASSUME IInv, RInv, status = "stopping", govSoft = None, Settled,
             NEW i \in DomainIds
      PROVE  rapl[i].pl1 = stateFile
  <2>1. EffectivePl1(stateFile, None) = stateFile
    BY DEF EffectivePl1
  <2>. QED
    BY <1>1, <2>1, StoredNone DEF RInv, OverlayInv, SettledInv, SettledPl1, Settled
<1>2. IInv /\ RInv => StopGivesSliderBack
  BY <1>1 DEF StopGivesSliderBack
<1>. QED
  BY <1>2, BackendInvariant, RegistersInvariant, PTL

----------------------------------------------------------------------------
(* The embedded controller.                                                *)

(* Only the timer on record is armed, and then something is pending.       *)
ArmedInv ==
  \A t \in Timers : flush[t].pc = "armed" => t = timerRef /\ pendingEc # None

(* What the EC may be asked to hold, for the source last applied.          *)
Good(bytes) ==
  \/ bytes = EcBytes(lastSource, stateFile, softPl1)
  \/ bytes = EcBytes(lastSource, stateFile, StoredOverlay(govSoft))

(* The settled slider is on its way to the EC: pending, whoever else still *)
(* writes; or carried by the one thread past the lock; or written.         *)
Alone(t) == \A u \in Timers : flush[u].pc \in Carrying => u = t

Delivered ==
  \/ pendingEc = stateFile
  \/ /\ pendingEc = None
     /\ \/ \E t \in Timers :
             /\ flush[t].pc = "taken" /\ Alone(t)
             /\ flush[t].watts = stateFile
        \/ \E t \in Timers :
             /\ flush[t].pc = "computed" /\ Alone(t)
             /\ Good(flush[t].bytes)
        \/ \E t \in Timers :
             /\ flush[t].pc = "writing" /\ Alone(t)
             /\ Good(flush[t].bytes)
             /\ \A b \in {"pl1", "pl2", "shift"} \ flush[t].todo :
                  ec[b] = flush[t].bytes[b]
        \/ /\ \A t \in Timers : flush[t].pc \notin Carrying
           /\ Good(ec)

DeliveryInv ==
  Settled /\ steady => (Applying => source = lastSource) /\ Delivered

(* The inductive invariant of the EC path.                                 *)
EcInv == EcEnabled => ArmedInv /\ DeliveryInv

LEMMA InitEcInv == Init => EcInv
BY IdleTypes DEF Init, EcInv, ArmedInv, DeliveryInv, Settled

(* A step that leaves the EC path alone and does not settle anything, or   *)
(* only drops the overlay.                                                 *)
LEMMA EcPathUntouched ==
  ASSUME IInv, RInv, EcInv,
         UNCHANGED <<pendingEc, timerRef, flush>>,
         Settled' /\ steady' =>
           /\ Settled /\ steady
           /\ UNCHANGED <<ec, stateFile, lastSource, govSoft>>
           /\ source' = source \/ ~ Applying
           /\ softPl1' = softPl1 \/ softPl1' = None
  PROVE  EcInv'
<1>. SUFFICES ASSUME EcEnabled PROVE EcInv'
  BY DEF EcInv
<1>1. ArmedInv'
  BY DEF EcInv, ArmedInv
<1>2. ASSUME Settled', steady' PROVE (Applying' => source' = lastSource') /\ Delivered'
  <2>1. main.op = "idle" /\ main'.op = "idle" /\ ~ ioFailed
    BY <1>2 DEF Settled
  <2>2. softPl1 = None \/ softPl1 = StoredOverlay(govSoft)
    BY <2>1 DEF RInv, OverlayInv
  <2>3. ASSUME NEW bytes, Good(bytes) PROVE Good(bytes)'
    BY <1>2, <2>2, <2>3 DEF Good
  <2>4. Applying' = Applying
    BY <2>1 DEF Applying, InFlight
  <2>5. Delivered
    BY <1>2 DEF EcInv, DeliveryInv
  <2>6. Delivered'
    BY <1>2, <2>3, <2>5 DEF Delivered, Alone
  <2>. QED
    BY <1>2, <2>4, <2>6 DEF EcInv, DeliveryInv
<1>. QED
  BY <1>1, <1>2 DEF EcInv, DeliveryInv

(* Start, WriteLimit and so on leave no process settled.                   *)
LEMMA EntriesKeepEc ==
  ASSUME IInv, RInv, EcInv,
         \/ \E w \in Requests : WriteLimit(w) \/ RejectRequest(w) \/ PreflightFails(w)
         \/ \E v \in Overlays \union {None} : GovernorSetsSoft(v)
         \/ RestoreSoft \/ ConfigChanges \/ Poll \/ Start \/ StopRequested
  PROVE  EcInv'
<1>. USE DEF Settled, Ready
<1>1. CASE \E w \in Requests : WriteLimit(w)
  BY <1>1, BeginFields, EcPathUntouched DEF WriteLimit, debounce
<1>2. CASE \E w \in Requests : RejectRequest(w)
  BY <1>2, EcPathUntouched DEF RejectRequest, hardware, debounce, failures, history
<1>3. CASE \E w \in Requests : PreflightFails(w)
  BY <1>3, EcPathUntouched DEF PreflightFails, IoFault, hardware, debounce
<1>4. ASSUME NEW op \in {"soft", "clear"}, NEW v, CallSetSoft(op, v) PROVE EcInv'
  BY <1>4, BeginFields, EcPathUntouched DEF CallSetSoft, debounce
<1>5. CASE ConfigChanges
  BY <1>5, EcPathUntouched DEF ConfigChanges, hardware, debounce, failures, history
<1>6. CASE Poll
  BY <1>6, BeginFields, EcPathUntouched DEF Poll, hardware, debounce, failures
<1>7. CASE Start
  <2>1. lastSource' = NoSource
    BY <1>7 DEF Start, service, RInv, GoneInv
  <2>. QED
    BY <1>7, <2>1, EcPathUntouched DEF Start, debounce
<1>8. CASE StopRequested
  BY <1>8, EcPathUntouched DEF StopRequested, hardware, service, debounce, failures, history
<1>. QED
  BY <1>1, <1>2, <1>3, <1>4, <1>5, <1>6, <1>7, <1>8 DEF GovernorSetsSoft, RestoreSoft

(* The statements of an operation in flight settle nothing.                *)
LEMMA StatementsKeepEc ==
  ASSUME IInv, RInv, EcInv,
         SaveState \/ ReadPolicy \/ WritePl1 \/ WritePl2 \/ RaplWriteFails
  PROVE  EcInv'
<1>0. main.op # "idle" /\ main \in MainType
  BY DEF IInv, OperationInv, TypeOK, SaveState, ReadPolicy, WritePl1, WritePl2,
         RaplWriteFails
<1>1. UNCHANGED <<pendingEc, timerRef, flush>>
  BY DEF SaveState, ReadPolicy, WritePl1, WritePl2, RaplWriteFails, debounce
<1>2. CASE RaplWriteFails
  <2>1. ioFailed'
    BY <1>2 DEF RaplWriteFails, IoFault
  <2>. QED
    BY <1>1, <2>1, EcPathUntouched DEF Settled
<1>3. CASE SaveState \/ ReadPolicy \/ WritePl1 \/ WritePl2
  <2>1. main'.op = main.op
    BY <1>0, <1>3 DEF SaveState, ReadPolicy, WritePl1, WritePl2, MainType
  <2>. QED
    BY <1>0, <1>1, <2>1, EcPathUntouched DEF Settled
<1>. QED
  BY <1>2, <1>3

(* A finished operation hands its watts to the debounce, and so makes up   *)
(* for whatever an earlier one or an overlap left; a forced restore does   *)
(* not, and is not steady.                                                 *)
LEMMA FinishKeepsEc ==
  ASSUME IInv, RInv, EcInv, Finish
  PROVE  EcInv'
<1>. SUFFICES ASSUME EcEnabled PROVE EcInv'
  BY DEF EcInv
<1>1. /\ main.watts \in Watts /\ stateFile = main.watts
      /\ UNCHANGED <<source, stateFile, steady>>
  BY DEF IInv, OperationInv, Finish
<1>2. steady => main.op # "restore" /\ lastSource' = source
  BY DEF Finish, RInv, SteadyInv
<1>3. CASE main.op = "restore"
  <2>1. UNCHANGED <<pendingEc, timerRef, flush>> /\ ~ steady'
    BY <1>1, <1>2, <1>3 DEF Finish, debounce
  <2>. QED
    BY <2>1, EcPathUntouched
<1>4. CASE main.op # "restore"
  <2>1. Schedule(main.watts)
    BY <1>4 DEF Finish
  <2>2. PICK t \in Timers :
          /\ flush[t].pc = "idle" \/ (t = timerRef /\ flush[t].pc = "armed")
          /\ timerRef' = t
          /\ flush' = [u \in Timers |->
               IF u = t THEN [IdleTimer EXCEPT !.pc = "armed"]
               ELSE IF u = timerRef /\ flush[u].pc = "armed" THEN IdleTimer
               ELSE flush[u]]
    BY <2>1 DEF Schedule, Free
  <2>3. pendingEc' = stateFile /\ pendingEc' # None
    BY <1>1, <2>1, WattsFacts DEF Schedule
  <2>4. [IdleTimer EXCEPT !.pc = "armed"].pc = "armed"
    BY DEF IdleTimer
  <2>5. ArmedInv'
    BY <2>2, <2>3, <2>4, IdleTypes DEF EcInv, ArmedInv
  <2>. QED
    BY <1>1, <1>2, <2>3, <2>5 DEF EcInv, DeliveryInv, Delivered
<1>. QED
  BY <1>3, <1>4

(* A record of three bytes is known by its bytes.                          *)
LEMMA SameBytes ==
  ASSUME NEW r \in EcByteRecords, NEW q \in EcByteRecords,
         \A b \in {"pl1", "pl2", "shift"} : r[b] = q[b]
  PROVE  r = q
<1>1. r = [pl1 |-> r.pl1, pl2 |-> r.pl2, shift |-> r.shift]
  BY DEF EcByteRecords
<1>2. q = [pl1 |-> q.pl1, pl2 |-> q.pl2, shift |-> q.shift]
  BY DEF EcByteRecords
<1>3. r.pl1 = q.pl1 /\ r.pl2 = q.pl2 /\ r.shift = q.shift
  OBVIOUS
<1>. QED
  BY <1>1, <1>2, <1>3

(* A thread carries the settled slider from the lock to the last byte. One *)
(* that takes it while another still writes ends the steadiness instead.   *)
LEMMA TimersKeepEc ==
  ASSUME IInv, IInv', RInv, EcInv, NEW t \in Timers, TimerStep(t) \/ EcFails(t)
  PROVE  EcInv'
<1>. SUFFICES ASSUME EcEnabled PROVE EcInv'
  BY DEF EcInv
<1>0. /\ UNCHANGED <<source, stateFile, service, main>>
      /\ flush \in [Timers -> TimerType] /\ flush' \in [Timers -> TimerType]
      /\ ec \in EcByteRecords /\ ec' \in EcByteRecords
      /\ ArmedInv
      /\ Settled /\ steady => (Applying => source = lastSource) /\ Delivered
  BY DEF EcInv, DeliveryInv, IInv, TypeOK, TimerStep, Fire, Take, ComputeBytes, DumpEc,
         WriteByte, Verify, EcFails, hardware
<1>1. /\ UNCHANGED <<softPl1, lastSource, govSoft>>
      /\ \A bytes : Good(bytes) <=> Good(bytes)'
  BY <1>0 DEF service, Good
<1>2. Applying
  BY <1>0 DEF ArmedInv, Applying, InFlight, TimerStep, Fire, Take, ComputeBytes, DumpEc,
              WriteByte, Verify, EcFails
<1>3. steady' => steady
  BY DEF TimerStep, Fire, Take, TakenAlone, ComputeBytes, DumpEc, WriteByte, Verify,
         EcFails, history
<1>4. SUFFICES ArmedInv' /\ (Settled' /\ steady' => Settled /\ Delivered')
  BY <1>0, <1>1, <1>2, <1>3 DEF EcInv, DeliveryInv
<1>5. ~ EcFails(t) => (Settled' <=> Settled)
  BY <1>0, <1>1 DEF Settled, failures, TimerStep, Fire, Take, ComputeBytes, DumpEc,
                    WriteByte, Verify
<1>6. CASE Fire(t)
  <2>1. /\ flush' = [flush EXCEPT ![t].pc = "fired"] /\ flush[t].pc = "armed"
        /\ UNCHANGED <<pendingEc, timerRef, ioFailed, ec>>
    BY <1>6 DEF Fire, failures, hardware
  <2>2. flush'[t].pc = "fired" /\ \A u \in Timers : u # t => flush'[u] = flush[u]
    BY <1>0, <2>1 DEF TimerType
  <2>3. ArmedInv'
    BY <1>0, <2>1, <2>2 DEF ArmedInv
  <2>4. pendingEc # None
    BY <1>0, <2>1 DEF ArmedInv
  <2>5. Settled /\ steady => pendingEc = stateFile
    BY <1>0, <2>4 DEF Delivered
  <2>. QED
    BY <1>0, <1>3, <1>5, <1>6, <2>1, <2>3, <2>5 DEF Delivered, EcFails, Fire
<1>7. CASE Take(t)
  <2>. DEFINE new == [IdleTimer EXCEPT !.pc = "taken", !.watts = pendingEc]
  <2>1. /\ flush[t].pc = "fired" /\ pendingEc' = None /\ timerRef' = NoTimer
        /\ flush' = [u \in Timers |->
             IF u = t THEN IF pendingEc = None THEN IdleTimer ELSE new
             ELSE IF u = timerRef /\ flush[u].pc = "armed" THEN IdleTimer
             ELSE flush[u]]
        /\ ec' = ec
        /\ steady' => \/ pendingEc = None
                      \/ \A u \in Timers \ {t} : flush[u].pc \notin Carrying
    BY <1>7 DEF Take, TakenAlone, hardware
  <2>2. new.pc = "taken" /\ new.watts = pendingEc
    BY DEF IdleTimer
  <2>. HIDE DEF new
  <2>3. flush'[t] = IF pendingEc = None THEN IdleTimer ELSE new
    BY <2>1
  <2>4. \A u \in Timers : u # t => flush'[u] = IdleTimer \/ flush'[u] = flush[u]
    BY <2>1
  <2>5. \A u \in Timers : u # t => flush'[u].pc # "armed"
    BY <1>0, <2>1, IdleTypes DEF ArmedInv
  <2>6. ArmedInv'
    BY <2>2, <2>3, <2>5, IdleTypes DEF ArmedInv
  <2>7. ASSUME Settled, steady, steady' PROVE Delivered'
    <3>0. stateFile # None
      BY <2>7 DEF Settled
    <3>1. CASE pendingEc = None
      <4>1. \A u \in Timers : u # t => flush'[u] = flush[u]
        BY <1>0, <2>1, <3>1 DEF ArmedInv
      <4>2. flush'[t].pc \notin Carrying /\ flush[t].pc \notin Carrying
        BY <2>1, <2>3, <3>1, IdleTypes DEF Carrying
      <4>3. \A u \in Timers :
              /\ flush'[u].pc \in Carrying <=> flush[u].pc \in Carrying
              /\ flush[u].pc \in Carrying => flush'[u] = flush[u]
        BY <4>1, <4>2
      <4>4. \A u \in Timers : Alone(u) => Alone(u)'
        BY <4>3 DEF Alone
      <4>5. Delivered /\ pendingEc # stateFile
        BY <1>0, <2>7, <3>0, <3>1
      <4>. QED
        BY <1>0, <1>1, <2>1, <3>1, <4>3, <4>4, <4>5 DEF Delivered, Carrying
    <3>2. CASE pendingEc # None
      <4>1. pendingEc = stateFile
        BY <1>0, <2>7, <3>2 DEF Delivered
      <4>2. \A u \in Timers : u # t => flush'[u].pc \notin Carrying
        BY <2>1, <2>4, <2>7, <3>2, IdleTypes DEF Carrying
      <4>3. Alone(t)'
        BY <4>2 DEF Alone
      <4>. QED
        BY <1>0, <2>1, <2>2, <2>3, <3>2, <4>1, <4>3 DEF Delivered
    <3>. QED
      BY <3>1, <3>2
  <2>. QED
    BY <1>3, <1>5, <1>7, <2>1, <2>6, <2>7 DEF EcFails, Take
<1>8. ASSUME flush[t].pc \in Carrying
      PROVE  Settled /\ steady /\ pendingEc # stateFile =>
               /\ pendingEc = None /\ Alone(t)
               /\ flush[t].pc = "taken" => flush[t].watts = stateFile
               /\ flush[t].pc \in {"computed", "writing"} => Good(flush[t].bytes)
               /\ flush[t].pc = "writing" =>
                    \A b \in {"pl1", "pl2", "shift"} \ flush[t].todo :
                      ec[b] = flush[t].bytes[b]
  BY <1>0, <1>8 DEF Delivered, Alone, Carrying
<1>9. ASSUME UNCHANGED <<pendingEc, timerRef>>, flush[t].pc \in Carrying,
             flush'[t].pc \in Carrying \union {"idle"},
             \A u \in Timers : u # t => flush'[u] = flush[u]
      PROVE  ArmedInv' /\ (Alone(t) => Alone(t)')
  BY <1>0, <1>9 DEF ArmedInv, Alone, Carrying
<1>10. CASE ComputeBytes(t)
  <2>. DEFINE bytes == EcBytes(source, flush[t].watts, softPl1)
  <2>1. /\ flush[t].pc = "taken"
        /\ flush' = [flush EXCEPT ![t].pc = "computed", ![t].bytes = bytes]
        /\ UNCHANGED <<pendingEc, timerRef, ec>>
    BY <1>10 DEF ComputeBytes, hardware
  <2>. HIDE DEF bytes
  <2>2. /\ flush'[t].pc = "computed" /\ flush'[t].bytes = bytes
        /\ \A u \in Timers : u # t => flush'[u] = flush[u]
    BY <1>0, <2>1 DEF TimerType
  <2>3. ArmedInv' /\ (Alone(t) => Alone(t)')
    BY <1>9, <2>1, <2>2 DEF Carrying
  <2>4. Settled /\ steady /\ pendingEc # stateFile =>
          pendingEc = None /\ Alone(t) /\ Good(bytes)
    BY <1>0, <1>2, <1>8, <2>1 DEF Carrying, Good, bytes
  <2>5. Settled /\ steady => Delivered'
    BY <1>0, <1>1, <2>1, <2>2, <2>3, <2>4 DEF Delivered
  <2>. QED
    BY <1>3, <1>5, <1>10, <2>1, <2>3, <2>5 DEF EcFails
<1>11. CASE DumpEc(t)
  <2>. DEFINE differ == {b \in DOMAIN ec : ec[b] # flush[t].bytes[b]}
  <2>1. /\ flush[t].pc = "computed"
        /\ flush' = [flush EXCEPT ![t].pc = "writing", ![t].todo = differ]
        /\ UNCHANGED <<pendingEc, timerRef, ec, ioFailed>>
    BY <1>11 DEF DumpEc, hardware, failures
  <2>2. \A b \in {"pl1", "pl2", "shift"} \ differ : ec[b] = flush[t].bytes[b]
    BY <1>0 DEF EcByteRecords
  <2>. HIDE DEF differ
  <2>3. /\ flush'[t].pc = "writing" /\ flush'[t].bytes = flush[t].bytes
        /\ flush'[t].todo = differ
        /\ \A u \in Timers : u # t => flush'[u] = flush[u]
    BY <1>0, <2>1 DEF TimerType
  <2>4. ArmedInv' /\ (Alone(t) => Alone(t)')
    BY <1>9, <2>1, <2>3 DEF Carrying
  <2>5. Settled /\ steady /\ pendingEc # stateFile =>
          pendingEc = None /\ Alone(t) /\ Good(flush[t].bytes)
    BY <1>8, <2>1 DEF Carrying
  <2>6. Settled /\ steady => Delivered'
    BY <1>0, <1>1, <2>1, <2>2, <2>3, <2>4, <2>5 DEF Delivered
  <2>7. Settled' => Settled
    BY <1>0, <1>1, <2>1 DEF Settled
  <2>. QED
    BY <1>3, <2>4, <2>6, <2>7
<1>12. CASE WriteByte(t)
  <2>1. PICK b \in {"pl1", "pl2", "shift"} :
          /\ b \in flush[t].todo
          /\ ec' = [ec EXCEPT ![b] = flush[t].bytes[b]]
          /\ flush' = [flush EXCEPT ![t].todo = @ \ {b}]
    BY <1>0, <1>12 DEF WriteByte, TimerType
  <2>2. flush[t].pc = "writing" /\ UNCHANGED <<pendingEc, timerRef, ioFailed>>
    BY <1>12 DEF WriteByte, failures
  <2>3. /\ flush'[t].pc = "writing" /\ flush'[t].bytes = flush[t].bytes
        /\ flush'[t].todo = flush[t].todo \ {b}
        /\ \A u \in Timers : u # t => flush'[u] = flush[u]
    BY <1>0, <2>1, <2>2 DEF TimerType
  <2>4. ArmedInv' /\ (Alone(t) => Alone(t)')
    BY <1>9, <2>2, <2>3 DEF Carrying
  <2>5. Settled /\ steady /\ pendingEc # stateFile =>
          /\ pendingEc = None /\ Alone(t) /\ Good(flush[t].bytes)
          /\ \A c \in {"pl1", "pl2", "shift"} \ flush[t].todo : ec[c] = flush[t].bytes[c]
    BY <1>8, <2>2 DEF Carrying
  <2>6. /\ ec'[b] = flush[t].bytes[b]
        /\ \A c \in {"pl1", "pl2", "shift"} : c # b => ec'[c] = ec[c]
    BY <1>0, <2>1 DEF EcByteRecords
  <2>7. Settled /\ steady => Delivered'
    BY <1>0, <1>1, <2>2, <2>3, <2>4, <2>5, <2>6 DEF Delivered
  <2>8. Settled' => Settled
    BY <1>0, <1>1, <2>2 DEF Settled
  <2>. QED
    BY <1>3, <2>4, <2>7, <2>8
<1>13. CASE Verify(t)
  <2>1. /\ flush[t].pc = "writing" /\ flush[t].todo = {}
        /\ flush' = [flush EXCEPT ![t] = IdleTimer]
        /\ UNCHANGED <<pendingEc, timerRef, ec, ioFailed>>
    BY <1>13 DEF Verify, hardware, failures
  <2>2. flush'[t] = IdleTimer /\ \A u \in Timers : u # t => flush'[u] = flush[u]
    BY <1>0, <2>1
  <2>3. ArmedInv'
    BY <1>9, <2>1, <2>2, IdleTypes DEF Carrying
  <2>4. ASSUME Settled, steady, pendingEc # stateFile
        PROVE  pendingEc = None /\ Alone(t) /\ Good(ec)
    <3>1. /\ pendingEc = None /\ Alone(t) /\ Good(flush[t].bytes)
          /\ \A b \in {"pl1", "pl2", "shift"} : ec[b] = flush[t].bytes[b]
      BY <1>8, <2>1, <2>4 DEF Carrying
    <3>2. flush[t].bytes \in EcByteRecords
      BY <1>0 DEF TimerType
    <3>3. ec = flush[t].bytes
      BY <1>0, <3>1, <3>2, SameBytes
    <3>. QED
      BY <3>1, <3>3
  <2>5. Alone(t) => \A u \in Timers : flush'[u].pc \notin Carrying
    BY <2>2, IdleTypes DEF Alone, Carrying
  <2>6. Settled /\ steady => Delivered'
    BY <1>0, <1>1, <2>1, <2>4, <2>5 DEF Delivered, Good
  <2>7. Settled' => Settled
    BY <1>0, <1>1, <2>1 DEF Settled
  <2>. QED
    BY <1>3, <2>3, <2>6, <2>7
<1>14. CASE EcFails(t)
  <2>1. ioFailed' /\ ~ Settled'
    BY <1>14 DEF EcFails, IoFault, Settled
  <2>2. /\ flush[t].pc \in Carrying /\ flush'[t] = IdleTimer
        /\ \A u \in Timers : u # t => flush'[u] = flush[u]
        /\ UNCHANGED <<pendingEc, timerRef>>
    BY <1>0, <1>14 DEF EcFails, Carrying
  <2>. QED
    BY <1>9, <2>1, <2>2, IdleTypes
<1>. QED
  BY <1>6, <1>7, <1>10, <1>11, <1>12, <1>13, <1>14 DEF TimerStep

(* A plug event in the middle of something ends the steadiness.            *)
LEMMA LifecycleKeepsEc ==
  ASSUME IInv, RInv, EcInv, PowerSourceChanges \/ Exit \/ Crash \/ Reboot
  PROVE  EcInv'
<1>1. CASE PowerSourceChanges
  BY <1>1, EcPathUntouched
     DEF PowerSourceChanges, Settled, hardware, service, debounce, failures
<1>2. CASE Exit \/ Crash
  BY <1>2, IdleTypes DEF Exit, Crash, ProcessDies, EcInv, ArmedInv, DeliveryInv, Settled
<1>3. CASE Reboot
  BY <1>3, EcPathUntouched DEF Reboot, service, debounce, Settled, RInv, GoneInv
<1>. QED
  BY <1>1, <1>2, <1>3

LEMMA StepKeepsEcInv == IInv /\ RInv /\ EcInv /\ [Next]_vars => EcInv'
<1>1. ASSUME EcInv, UNCHANGED vars PROVE EcInv'
  BY <1>1 DEF vars, EcInv, ArmedInv, DeliveryInv, Delivered, Alone, Good, Settled,
              Applying, InFlight
<1>. QED
  BY <1>1, StepPreservesIInv, EntriesKeepEc, StatementsKeepEc, FinishKeepsEc, TimersKeepEc,
     LifecycleKeepsEc
     DEF Next

(* Whatever threads overlapped, plug events came and operations failed     *)
(* before: once nothing is under way, and the last operation ran with a    *)
(* source that kept still and was the only one to write, the EC holds the  *)
(* settled slider, the overlay and the shift mode of the applied source.   *)
(* Nothing is asked of the constants: any number of timers may be in       *)
(* flight, and the source may change at any time.                          *)
THEOREM SettledEc == Spec => []EcSettled
<1>1. EcInv => EcSettled
  <2>1. ASSUME EcInv, EcEnabled, Settled, ~ Applying, steady
        PROVE  EcHoldsSettled
    <3>1. Delivered
      BY <2>1 DEF EcInv, DeliveryInv
    <3>2. pendingEc = None /\ \A t \in Timers : flush[t].pc \in {"idle", "armed"}
      BY <2>1 DEF Applying, InFlight
    <3>3. stateFile # None
      BY <2>1 DEF Settled
    <3>. QED
      BY <3>1, <3>2, <3>3 DEF Delivered, Good, EcHoldsSettled
  <2>. QED
    BY <2>1 DEF EcSettled
<1>2. IInv /\ RInv /\ EcInv /\ [Next]_vars => EcInv'
  BY StepKeepsEcInv
<1>3. Spec => []EcInv
  BY InitEcInv, <1>2, BackendInvariant, RegistersInvariant, PTL DEF Spec
<1>. QED
  BY <1>1, <1>3, PTL

=============================================================================
