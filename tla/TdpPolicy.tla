----------------------------- MODULE TdpPolicy -----------------------------
(***************************************************************************)
(* The pure part of power_control.py: from one slider value (the sustained *)
(* limit PL1, in whole watts) to everything the backend writes for it: the *)
(* burst limit PL2, its time window Tau, the PL1 that is left once the     *)
(* governor's soft-PL1 overlay is applied, and the three bytes of the MSI  *)
(* Claw embedded controller.  Watts are naturals; 0 plays Python's None    *)
(* (0 W is never a legal value).  Time windows are in seconds.             *)
(***************************************************************************)
EXTENDS Integers

CONSTANTS
  MinW,         (* TdpBackend.min_w: the smallest sustained limit          *)
  MaxW,         (* TdpBackend.max_w: the largest sustained limit           *)
  ShortLimitW,  (* TdpBackend.short_limit_max_w: the burst ceiling         *)
  SoftFloorW,   (* TdpBackend.soft_pl1_floor_w: no overlay goes below this *)
  Pl2Override,  (* TdpBackend.pl2_w (--pl2-w), 0 when it is not given      *)
  PolicyMode,   (* TdpBackend.tdp_policy_mode, "auto" when installed       *)
  ShiftPolicy   (* msi_claw_ec_shift_policy                                *)

None == 0

PowerSources == {"ac", "battery", "unknown"}

ResolvedModes ==
  {"battery-low-power", "battery-maxq", "ac-quiet", "ac-performance"}

ShiftPolicies == {"tdp-threshold", "profile"}

(* What TdpBackend.__init__ insists on before it accepts its arguments.    *)
ASSUME LimitsAssumption ==
  /\ MinW \in Nat \ {0} /\ MaxW \in Nat /\ MinW <= MaxW
  /\ ShortLimitW \in Nat /\ MaxW <= ShortLimitW
  /\ SoftFloorW \in Nat \ {0}
  /\ Pl2Override \in Nat

ASSUME ModeAssumption ==
  /\ PolicyMode \in ResolvedModes \union {"auto"}
  /\ ShiftPolicy \in ShiftPolicies

MinOf(a, b) == IF a <= b THEN a ELSE b
MaxOf(a, b) == IF a <= b THEN b ELSE a

(* The slider values the backend can hold.                                 *)
Watts == MinW .. MaxW

(* Mutant: the upper bound is forgotten.                                   *)
ClampWattsBelowOnly(w) == MaxOf(MinW, w)

ClampWatts(w) == MaxOf(MinW, MinOf(MaxW, w))

(* _normalize_requested_watts raises TdpRangeError outside this range.     *)
InSanityRange(w) == w > 0 /\ w <= ShortLimitW

ResolveMode(source) ==
  IF PolicyMode # "auto" THEN PolicyMode
  ELSE IF source = "ac" THEN "ac-performance"
  ELSE "battery-maxq"

----------------------------------------------------------------------------
(* The burst limit of each mode.                                           *)

CeilPercent(w, percent) == (w * percent + 99) \div 100

BatteryLowPowerPl2(w) ==
  IF w <= 8 THEN w + 2
  ELSE IF w <= 12 THEN MinOf(15, w + 3)
  ELSE IF w <= 18 THEN MinOf(24, w + 6)
  ELSE IF w <= 25 THEN MinOf(28, MaxOf(25, w + 3))
  ELSE MinOf(33, w + 3)

BatteryMaxqPl2(w) ==
  IF w <= 12 THEN MinOf(15, MaxOf(w + 1, CeilPercent(w, 125)))
  ELSE IF w <= 18 THEN MinOf(25, MaxOf(w + 1, CeilPercent(w, 145)))
  ELSE IF w <= 25 THEN MinOf(30, MaxOf(25, w + 5))
  ELSE MinOf(35, w + 5)

AcQuietPl2(w) ==
  IF w <= 8 THEN 12
  ELSE IF w <= 12 THEN 18
  ELSE IF w <= 18 THEN 25
  ELSE IF w <= 25 THEN 30
  ELSE 35

AcPerformancePl2(w) ==
  IF w >= 17 THEN 37 ELSE IF w <= 8 THEN 18 ELSE 25

ModePl2(mode, w) ==
  CASE mode = "battery-low-power" -> BatteryLowPowerPl2(w)
    [] mode = "battery-maxq"      -> BatteryMaxqPl2(w)
    [] mode = "ac-quiet"          -> AcQuietPl2(w)
    [] mode = "ac-performance"    -> AcPerformancePl2(w)

(* Headroom over PL1 when possible; the hardware ceiling wins.             *)
ClampPl2(w, computed) == MinOf(ShortLimitW, MaxOf(w + 1, computed))

PolicyPl2(source, w) ==
  ClampPl2(w, IF Pl2Override # None THEN Pl2Override
              ELSE ModePl2(ResolveMode(source), w))

(* The burst window, seconds.                                              *)
ModeTau(mode, w) ==
  CASE mode = "battery-low-power" -> IF w <= 8 THEN 1 ELSE IF w <= 12 THEN 2 ELSE 3
    [] mode = "battery-maxq" ->
         IF w <= 8 THEN 2 ELSE IF w <= 12 THEN 3 ELSE IF w <= 20 THEN 5 ELSE 8
    [] mode = "ac-quiet" -> IF w <= 12 THEN 5 ELSE IF w <= 20 THEN 8 ELSE 10
    [] mode = "ac-performance" -> IF w <= 8 THEN 8 ELSE IF w < 17 THEN 10 ELSE 28

(* The window a constraint accepts: lo and hi are its advertised bounds,   *)
(* None where the kernel gives none.                                       *)
LimitTau(requested, lo, hi) ==
  LET raised == IF lo = None THEN requested ELSE MaxOf(lo, requested)
  IN  IF hi = None THEN raised ELSE MinOf(hi, raised)

----------------------------------------------------------------------------
(* The overlay, the RAPL registers and the EC bytes.                       *)

(* set_soft_pl1_w never stores less than the floor.                        *)
StoredOverlay(v) == IF v = None THEN None ELSE MaxOf(SoftFloorW, v)

(* Mutant: the floor is applied last, over the user's slider.              *)
EffectivePl1FloorWins(user, soft) ==
  IF soft = None THEN user ELSE MaxOf(MinOf(user, soft), SoftFloorW)

(* The sustained limit that is written: the overlay may only lower it.     *)
EffectivePl1(user, soft) ==
  IF soft = None THEN user
  ELSE MinOf(MaxOf(MinOf(user, soft), SoftFloorW), user)

(* What one domain gets for its short-term constraint: maxPower is the     *)
(* constraint's max_power_uw, None when absent or zero.                    *)
DomainPl2(source, user, pl1, maxPower) ==
  LET limit == PolicyPl2(source, user)
  IN  MaxOf(pl1, IF maxPower = None THEN limit ELSE MinOf(limit, maxPower))

EcPl1Max == 30
Comfort == "comfort"
Turbo == "turbo"

(* The shift mode is chosen from the user's slider, not from the overlay.  *)
EcShift(source, user) ==
  IF \/ /\ ShiftPolicy = "tdp-threshold"
        /\ user > 17
     \/ /\ ShiftPolicy = "profile"
        /\ user >= 17
        /\ ResolveMode(source) # "battery-low-power"
        /\ ResolveMode(source) = "ac-quiet" => user > 17
  THEN Turbo ELSE Comfort

EcBytes(source, user, soft) ==
  [pl1   |-> MinOf(EffectivePl1(user, soft), EcPl1Max),
   pl2   |-> MaxOf(MinOf(user, EcPl1Max),
                   MinOf(PolicyPl2(source, user), ShortLimitW)),
   shift |-> EcShift(source, user)]

=============================================================================
