----------------------------- MODULE AutoTarget -----------------------------
(***************************************************************************)
(* The frame cap: the estimator that judges whether a game can hold its    *)
(* frame target, the monitor that knows how long nobody has touched the    *)
(* machine, and the governor's writer that caps the compositor for either  *)
(* reason below the limit the player set.                                  *)
(*                                                                         *)
(* Time is counted in polls of the governor.  The frame rates, the phase   *)
(* (reduced to "below the target or not") and whether a trim is in force   *)
(* are inputs of a poll; Governor has the other knobs and the order in     *)
(* which restores reach them.                                              *)
(***************************************************************************)
EXTENDS Integers, Sequences, FiniteSets, TLC

CONSTANTS
  Games,         (* appids                                                 *)
  Personas,      (* the personas the power source or the user selects      *)
  Limits,        (* limits the player sets in the quick access menu        *)
  Manual,        (* frame targets the player writes in the control file    *)
  LaunchFps,     (* the limit on the compositor's command line, or NoFps   *)
  Rates,         (* average frame rates a sample may report                *)
  Refresh,       (* of the panel, in Hz                                    *)
  IdleFps,       (* the idle cap before it is snapped to the panel         *)
  Devices,       (* input devices                                          *)
  ShortWindow,   (* samples that judge a shortfall                         *)
  ClearWindow,   (* samples that earn a climb                              *)
  MaxDrops,      (* felt changes of one session of a game                  *)
  Grace,         (* polls without input before the idle cap                *)
  Rediscover,    (* polls between two searches for new devices             *)
  CacheTtl,      (* polls for which a limit that was read is used again    *)
  MaxChanges,    (* bound on what the player and the system change         *)
  MaxFaults      (* bound on failed reads and writes and on crashes        *)

NoFps == 0
NoGame == "none"
Unread == -1     (* the compositor did not say                             *)
Absent == -1     (* the age of a device that is not there                  *)

MinFps == 30
MaxFps == 120
CapPersonas == {"battery", "ac-quiet"}
AllPersonas == CapPersonas \union {"ac-performance"}

ASSUME AutoTargetAssumption ==
  /\ NoGame \notin Games /\ Personas \subseteq AllPersonas
  /\ Limits \subseteq Nat /\ NoFps \in Limits
  /\ Manual \subseteq Nat /\ NoFps \in Manual
  /\ LaunchFps \in Nat /\ Rates \subseteq Nat \ {NoFps}
  /\ Refresh \in Nat /\ IdleFps \in Nat
  /\ ShortWindow \in Nat \ {0} /\ ClearWindow \in Nat \ {0}
  /\ MaxDrops \in Nat /\ Grace \in Nat
  /\ Rediscover \in Nat \ {0} /\ CacheTtl \in Nat
  /\ MaxChanges \in Nat /\ MaxFaults \in Nat

VARIABLES
  user,      (* [game, limit, manual, persona]: what was chosen            *)
  devices,   (* polls since a device appeared, no further than Rediscover  *)
  cap,       (* the cap of ours the compositor has                         *)
  est,       (* the estimator: [game, drops, window, clear]                *)
  proposal,  (* the frame rate proposed last, NoFps if none was            *)
  applied,   (* the cap the governor thinks is in force                    *)
  cache,     (* [value, age]: the limit that was read last                 *)
  monitor,   (* [watched, idle, searched]: the thread that reads input     *)
  quiet,     (* polls since a device that can be known was touched         *)
  earned,    (* [game, samples]: samples of the game since its last drop   *)
  orphan,    (* the cap outlived what the governor knows of it             *)
  changes, faults

vars == <<user, devices, cap, est, proposal, applied, cache, monitor,
          quiet, earned, orphan, changes, faults>>

Least(a, b) == IF a < b THEN a ELSE b
Capped(n, bound) == Least(n + 1, bound)

-----------------------------------------------------------------------------
(* Frame rates the panel can show evenly.                                  *)

Candidates ==
  {fps \in MinFps..MaxFps : \E n \in 1..4 : Refresh = n * fps}

Highest(S) == CHOOSE x \in S : \A y \in S : y <= x
Lowest(S) == CHOOSE x \in S : \A y \in S : x <= y

(* The highest candidate no more than pct per cent of a frame rate.        *)
SnapDown(fps, pct) ==
  LET held == {c \in Candidates : c * 100 <= fps * pct}
  IN  IF held = {} THEN NoFps ELSE Highest(held)

NextUp(fps) ==
  LET above == {c \in Candidates : c > fps}
  IN  IF above = {} THEN NoFps ELSE Lowest(above)

Percentile(values, pct) ==
  LET ordered == SortSeq(values, <)
      index == (Len(values) * pct) \div 100
  IN  ordered[Least(index, Len(values) - 1) + 1]

-----------------------------------------------------------------------------
(* The estimator.                                                          *)

ShortfallPct == 34
MaterialPct == 90
ReachablePct == 90
SustainablePct == 25
SnapPct == 105
ClimbPct == 108

Fresh(game) == [game |-> game, drops |-> 0, window |-> <<>>, clear |-> <<>>]

(* A deque with a maximal length: the oldest element makes room.           *)
Push(seq, x, bound) ==
  IF Len(seq) < bound THEN Append(seq, x) ELSE Append(Tail(seq), x)

OfGame(game) == IF est.game = game THEN est ELSE Fresh(game)

(* A miss while a trim is in force says nothing about the game.            *)
Counts(target, fps, below, trims) ==
  target # NoFps /\ fps # NoFps /\ Candidates # {} /\ ~ (trims /\ below)

Counted(e, fps, below) ==
  [e EXCEPT !.window = Push(@, [below |-> below, fps |-> fps], ShortWindow),
            !.clear = IF below THEN <<>> ELSE Push(@, fps, ClearWindow)]

FpsOf(window) == [i \in 1..Len(window) |-> window[i].fps]

Shortfalls(window) == Cardinality({i \in 1..Len(window) : window[i].below})

(* Where a game that is short of its target again and again would hold:    *)
(* not when its good moments reach the target.                             *)
DropTo(e, target) ==
  LET held == SnapDown(Percentile(FpsOf(e.window), SustainablePct), SnapPct)
  IN  IF \/ e.drops >= MaxDrops
         \/ Len(e.window) < ShortWindow
         \/ Shortfalls(e.window) * 100 < Len(e.window) * ShortfallPct
         \/ Percentile(FpsOf(e.window), ReachablePct) * 100 >= target * MaterialPct
      THEN NoFps
      ELSE IF held < target THEN held ELSE NoFps

ClimbTo(e, target) ==
  LET higher == NextUp(target)
  IN  IF \/ Len(e.clear) < ClearWindow
         \/ higher = NoFps
         \/ Percentile(e.clear, SustainablePct) * 100 < higher * ClimbPct
      THEN NoFps
      ELSE higher

(* The estimator after a sample, and what it proposes then.                *)
Climbed(e) == [e EXCEPT !.clear = <<>>]

(* Mutant of Dropped: the shortfall is not spent.                          *)
DropKeepsWindow(e) == [e EXCEPT !.drops = @ + 1]

Dropped(e) ==
  [game |-> e.game, drops |-> e.drops + 1, window |-> <<>>, clear |-> e.clear]

Observe(target, fps, below, trims) ==
  LET e == OfGame(user.game)
      c == Counted(e, fps, below)
  IN  IF ~ Counts(target, fps, below, trims) THEN [est |-> e, fps |-> NoFps]
      ELSE IF DropTo(c, target) # NoFps
        THEN [est |-> Dropped(c), fps |-> DropTo(c, target)]
      ELSE IF ClimbTo(c, target) # NoFps
        THEN [est |-> Climbed(c), fps |-> ClimbTo(c, target)]
      ELSE [est |-> c, fps |-> NoFps]

-----------------------------------------------------------------------------
(* What the governor reads.                                                *)

(* The limit is read again when the last reading is too old; a reading     *)
(* that failed is kept as long as one that did not.                        *)
ReadLimit(readable) ==
  IF cache.age < CacheTtl THEN cache
  ELSE [value |-> IF readable THEN user.limit ELSE Unread, age |-> 0]

Target(reading) ==
  IF user.manual # NoFps THEN user.manual
  ELSE IF reading.value = Unread THEN LaunchFps ELSE reading.value

(* The monitor's thread wakes several times between two polls and opens    *)
(* the devices that appeared since its last search.                        *)
Present == {d \in Devices : devices[d] # Absent}

(* Mutant of Search: what was found first is all there is.                 *)
SearchesOnce ==
  IF monitor.searched < Rediscover \/ monitor.watched # {} THEN monitor
  ELSE [monitor EXCEPT !.watched = Present, !.searched = 0]

Search ==
  IF monitor.searched < Rediscover THEN monitor
  ELSE [monitor EXCEPT !.watched = Present, !.searched = 0]

-----------------------------------------------------------------------------
(* The writer of the cap.                                                  *)

IdleCap(idle) == IF idle >= Grace THEN SnapDown(IdleFps, 100) ELSE NoFps

(* The cap that should be in force; the one applied, when nothing changes. *)
WantedCap(target, idle, proposed) ==
  LET below(fps) == target = NoFps \/ fps < target
  IN  IF user.persona \notin CapPersonas \/ user.manual # NoFps THEN NoFps
      ELSE IF IdleCap(idle) # NoFps /\ target # NoFps /\ below(IdleCap(idle))
        THEN IdleCap(idle)
      ELSE IF IdleCap(idle) = NoFps /\ proposed = NoFps THEN NoFps
      ELSE IF proposed # NoFps /\ below(proposed) THEN proposed
      ELSE applied

(* A write that is needed may succeed, fail, or be given up after it took  *)
(* effect.                                                                 *)
Outcomes == {"written", "refused", "late"}

(* Mutant of WriteLimiter: a clear that failed is forgotten.               *)
ClearForgets(wanted, outcome) ==
  IF wanted = applied THEN outcome = "written" /\ UNCHANGED <<applied, cap, orphan>>
  ELSE /\ cap' = IF outcome = "refused" THEN cap ELSE wanted
       /\ applied' = IF outcome = "written" \/ wanted = NoFps THEN wanted ELSE applied
       /\ orphan' = (outcome = "late" \/ (outcome = "refused" /\ orphan))

WriteLimiter(wanted, outcome) ==
  IF wanted = applied THEN outcome = "written" /\ UNCHANGED <<applied, cap, orphan>>
  ELSE /\ cap' = IF outcome = "refused" THEN cap ELSE wanted
       /\ applied' = IF outcome = "written" THEN wanted ELSE applied
       /\ orphan' = (outcome = "late" \/ (outcome = "refused" /\ orphan))

(* Every fault and every change of the surroundings is bounded.            *)
Costs(n) == faults + n <= MaxFaults /\ faults' = faults + n
Change == changes < MaxChanges /\ changes' = changes + 1

FaultsOf(outcome, readable) ==
  (IF outcome = "written" THEN 0 ELSE 1) + (IF readable THEN 0 ELSE 1)

-----------------------------------------------------------------------------
(* One poll of the governor, as far as the cap is concerned.               *)

Reachable(fps) == \A limit \in {cap, user.limit} \ {NoFps} : fps <= limit

Tick(fps, below, trims, outcome, readable) ==
  LET reading == ReadLimit(readable)
      seen == Search
      target == Target(reading)
      judged == Observe(target, fps, below, trims)
      proposed == IF judged.fps = NoFps THEN proposal ELSE judged.fps
      samples == (IF earned.game = user.game THEN earned.samples ELSE 0)
                   + (IF Counts(target, fps, below, trims) THEN 1 ELSE 0)
      dropped == judged.est.drops > OfGame(user.game).drops
  IN  /\ Reachable(fps) /\ (user.game = NoGame => fps = NoFps)
      /\ below => fps # NoFps /\ target # NoFps
      /\ readable \/ cache.age >= CacheTtl
      /\ est' = judged.est
      /\ proposal' = proposed
      /\ WriteLimiter(WantedCap(target, seen.idle, proposed), outcome)
      /\ cache' = [reading EXCEPT !.age = Capped(@, CacheTtl)]
      /\ monitor' = [seen EXCEPT !.idle = Capped(@, Grace),
                                 !.searched = Capped(@, Rediscover)]
      /\ devices' = [d \in Devices |->
            IF devices[d] = Absent THEN Absent ELSE Capped(devices[d], Rediscover)]
      /\ quiet' = Capped(quiet, Grace)
      /\ earned' = [game |-> user.game,
                    samples |-> IF dropped THEN 0 ELSE Least(samples, ShortWindow)]
      /\ Costs(FaultsOf(outcome, readable))
      /\ UNCHANGED <<user, changes>>

(* Every restore of the governor lifts the cap first: a session that ends, *)
(* a mode that stops, a boost that is over.                                *)
Restore(outcome) ==
  /\ applied # NoFps
  /\ WriteLimiter(NoFps, outcome)
  /\ Costs(FaultsOf(outcome, TRUE))
  /\ UNCHANGED <<user, devices, est, proposal, cache, monitor,
                 quiet, earned, changes>>

(* The player touches a device: the monitor's thread wakes at once if it   *)
(* watches it.                                                             *)
Press(d) ==
  /\ d \in Present /\ Change
  /\ monitor' = IF d \in monitor.watched THEN [monitor EXCEPT !.idle = 0] ELSE monitor
  /\ quiet' = IF devices[d] >= Rediscover THEN 0 ELSE quiet
  /\ UNCHANGED <<user, devices, cap, est, proposal, applied, cache,
                 earned, orphan, faults>>

(* A controller reconnects or Steam creates its virtual pad.               *)
Appear(d) ==
  /\ d \notin Present /\ Change
  /\ devices' = [devices EXCEPT ![d] = 0]
  /\ UNCHANGED <<user, cap, est, proposal, applied, cache, monitor,
                 quiet, earned, orphan, faults>>

(* A device that goes away wakes the thread, which drops it and counts the *)
(* wake-up as input.                                                       *)
Vanish(d) ==
  /\ d \in Present /\ Change
  /\ devices' = [devices EXCEPT ![d] = Absent]
  /\ monitor' = IF d \in monitor.watched
                THEN [monitor EXCEPT !.watched = @ \ {d}, !.idle = 0] ELSE monitor
  /\ UNCHANGED <<user, cap, est, proposal, applied, cache,
                 quiet, earned, orphan, faults>>

(* The player moves the slider of the quick access menu.                   *)
SetLimit(limit) ==
  /\ limit # user.limit /\ Change
  /\ user' = [user EXCEPT !.limit = limit]
  /\ UNCHANGED <<devices, cap, est, proposal, applied, cache, monitor,
                 quiet, earned, orphan, faults>>

(* The game, the power source or the target of the control file changes.   *)
Choose(choice) ==
  /\ choice # user /\ choice.limit = user.limit /\ Change
  /\ user' = choice
  /\ UNCHANGED <<devices, cap, est, proposal, applied, cache, monitor,
                 quiet, earned, orphan, faults>>

StartMonitor == [watched |-> {}, idle |-> 0, searched |-> Rediscover]
StaleCache == [value |-> Unread, age |-> CacheTtl]

(* The service is killed and started again: the compositor keeps its cap.  *)
Crash ==
  /\ Costs(1)
  /\ est' = Fresh(NoGame) /\ proposal' = NoFps /\ applied' = NoFps
  /\ cache' = StaleCache /\ monitor' = StartMonitor
  /\ orphan' = (cap # NoFps)
  /\ UNCHANGED <<user, devices, cap, quiet, earned, changes>>

(* The compositor starts again without a cap; the governor is not told.    *)
SessionRestart ==
  /\ cap # NoFps /\ Change
  /\ cap' = NoFps /\ orphan' = FALSE
  /\ UNCHANGED <<user, devices, est, proposal, applied, cache, monitor,
                 quiet, earned, faults>>

Init ==
  /\ user \in [game : {NoGame}, limit : Limits, manual : {NoFps}, persona : Personas]
  /\ devices \in [Devices -> {Absent, Rediscover}]
  /\ cap = NoFps /\ applied = NoFps /\ proposal = NoFps
  /\ est = Fresh(NoGame) /\ cache = StaleCache /\ monitor = StartMonitor
  /\ quiet = 0 /\ earned = [game |-> NoGame, samples |-> 0]
  /\ orphan = FALSE /\ changes = 0 /\ faults = 0

Choices == [game : Games \union {NoGame}, limit : Limits, manual : Manual,
            persona : Personas]

Next ==
  \/ \E fps \in Rates \union {NoFps}, below, trims, readable \in BOOLEAN, outcome \in Outcomes :
        Tick(fps, below, trims, outcome, readable)
  \/ \E outcome \in Outcomes : Restore(outcome)
  \/ \E d \in Devices : Press(d)
  \/ \E d \in Devices : Appear(d)
  \/ \E d \in Devices : Vanish(d)
  \/ \E limit \in Limits : SetLimit(limit)
  \/ \E choice \in Choices : Choose(choice)
  \/ Crash
  \/ SessionRestart

Spec == Init /\ [][Next]_vars

-----------------------------------------------------------------------------
(* The machine never counts as idle for longer than the player has kept    *)
(* off every device that has been there for a search: devices reconnect    *)
(* under new names and Steam's virtual pad, the only one that carries the  *)
(* input of a game, comes late.                                            *)
IdleNeedsQuiet == monitor.idle <= quiet

(* A cap of ours in the compositor is one the governor knows and so can    *)
(* lift, whatever order of proposals, idle caps, refused writes and        *)
(* restores led to it, unless a write was given up that took effect or the *)
(* service was killed.                                                     *)
CapIsOwned == cap # NoFps /\ ~ orphan => applied = cap

(* A drop is earned: the estimator takes a rung from a game only after a   *)
(* whole window of samples of the game's own since it started or since its *)
(* last drop.  It says nothing of the cap: a proposal kept from the game   *)
(* before is still applied to this one until it is replaced                *)
(* (game_power.py:3897).                                                   *)
DropIsEarned ==
  [][LET mine == IF earned.game = user.game THEN earned.samples ELSE 0
     IN  est'.game = user.game /\ est'.drops > OfGame(user.game).drops
           => mine + 1 >= ShortWindow]_vars

(* game_power_frame_target.py:133: "Only samples taken with nothing of ours *)
(* applied count toward a shortfall".  Our own cap is not excluded.        *)
ShortfallsAreOfTheScene ==
  [][est' # est /\ est'.window # <<>> /\ est'.window[Len(est'.window)].below
       => applied = NoFps]_vars

=============================================================================
