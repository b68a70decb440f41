-------------------------- MODULE AutoTargetProofs --------------------------
(***************************************************************************)
(* What AutoTarget keeps for every panel, window, grace and set of         *)
(* devices: the governor knows its cap, idleness is never overstated, and  *)
(* a drop is paid for by samples of its own game.                          *)
(***************************************************************************)
EXTENDS AutoTarget, SequenceTheorems, TLAPS

USE DEF NoFps, Absent

-----------------------------------------------------------------------------
(* The cap.  The invariant is inductive as it stands.                      *)

(* Whatever becomes of a write, the governor knows the cap or the cap is   *)
(* marked as an orphan.                                                    *)
LEMMA WriteKeepsOwner ==
  ASSUME CapIsOwned, NEW wanted, NEW outcome \in Outcomes,
         WriteLimiter(wanted, outcome)
  PROVE  CapIsOwned'
<1>1. CASE wanted = applied
  BY <1>1 DEF CapIsOwned, WriteLimiter
<1>2. CASE wanted # applied /\ outcome = "written"
  BY <1>2 DEF CapIsOwned, WriteLimiter
<1>3. CASE wanted # applied /\ outcome = "late"
  BY <1>3 DEF CapIsOwned, WriteLimiter
<1>4. CASE wanted # applied /\ outcome = "refused"
  <2>1. cap' = cap /\ applied' = applied /\ (orphan' <=> orphan)
    BY <1>4 DEF WriteLimiter
  <2>2. QED
    BY <2>1 DEF CapIsOwned
<1>5. QED
  BY <1>1, <1>2, <1>3, <1>4 DEF Outcomes

(* Every cap of ours in the compositor is one the governor can lift, for   *)
(* any game, limit, persona and failure (game_power.py:3969-4018).         *)
THEOREM CapAlwaysOwned == Spec => []CapIsOwned
<1>1. Init => CapIsOwned
  BY DEF Init, CapIsOwned
<1>2. CapIsOwned /\ [Next]_vars => CapIsOwned'
  <2> SUFFICES ASSUME CapIsOwned, [Next]_vars PROVE CapIsOwned'
    OBVIOUS
  <2>1. CASE \E fps \in Rates \union {NoFps}, below, trims, readable \in BOOLEAN,
                outcome \in Outcomes : Tick(fps, below, trims, outcome, readable)
    BY <2>1, WriteKeepsOwner DEF Tick
  <2>2. CASE \E outcome \in Outcomes : Restore(outcome)
    BY <2>2, WriteKeepsOwner DEF Restore
  <2>3. CASE Crash
    BY <2>3 DEF Crash, CapIsOwned
  <2>4. CASE SessionRestart
    BY <2>4 DEF SessionRestart, CapIsOwned
  <2>5. CASE UNCHANGED <<cap, applied, orphan>>
    BY <2>5 DEF CapIsOwned
  <2>6. QED
    BY <2>1, <2>2, <2>3, <2>4, <2>5
       DEF Next, Press, Appear, Vanish, SetLimit, Choose, vars
<1>3. QED
  BY <1>1, <1>2, PTL DEF Spec

-----------------------------------------------------------------------------
(* Idleness.  A device the monitor does not watch yet appeared after its   *)
(* last search, so that it is younger than that search is old; only a      *)
(* monitor that has just started may not have searched at all.             *)

MonitorTyped ==
  /\ monitor = [watched |-> monitor.watched, idle |-> monitor.idle,
                searched |-> monitor.searched]
  /\ monitor.idle \in 0..Grace /\ monitor.searched \in 1..Rediscover
  /\ devices \in [Devices -> 0..Rediscover \union {Absent}]
  /\ quiet \in 0..Grace

UnseenIsYoung ==
  \/ \A d \in Present \ monitor.watched : devices[d] < monitor.searched
  \/ monitor.idle = 0 /\ monitor.searched = Rediscover

MonitorInv == MonitorTyped /\ UnseenIsYoung /\ IdleNeedsQuiet

USE AutoTargetAssumption DEF AutoTargetAssumption

LEMMA MonitorInit == Init => MonitorInv
  BY DEF Init, MonitorInv, MonitorTyped, UnseenIsYoung, IdleNeedsQuiet, StartMonitor

(* A poll ages the search and the devices alike, or searches.              *)
LEMMA MonitorTick ==
  ASSUME MonitorInv, NEW fps, NEW below, NEW trims, NEW outcome, NEW readable,
         Tick(fps, below, trims, outcome, readable)
  PROVE  MonitorInv'
<1> DEFINE seen == Search
<1>1. /\ monitor' = [seen EXCEPT !.idle = Capped(@, Grace),
                                 !.searched = Capped(@, Rediscover)]
      /\ devices' = [d \in Devices |->
            IF devices[d] = Absent THEN Absent ELSE Capped(devices[d], Rediscover)]
      /\ quiet' = Capped(quiet, Grace)
  BY DEF Tick
<1>2. \/ seen = monitor /\ monitor.searched < Rediscover
      \/ seen = [watched |-> Present, idle |-> monitor.idle, searched |-> 0]
  <2>1. CASE monitor.searched < Rediscover
    BY <2>1 DEF Search
  <2>2. CASE ~ monitor.searched < Rediscover
    <3>1. seen = [monitor EXCEPT !.watched = Present, !.searched = 0]
      BY <2>2 DEF Search
    <3>2. QED
      BY <3>1 DEF MonitorInv, MonitorTyped
  <2>3. QED
    BY <2>1, <2>2
<1>3. /\ seen = [watched |-> seen.watched, idle |-> seen.idle,
                 searched |-> seen.searched]
      /\ seen.idle = monitor.idle /\ seen.idle \in 0..Grace
      /\ seen.searched \in 0..Rediscover
      /\ \/ seen = monitor /\ seen.searched < Rediscover
         \/ seen.watched = Present /\ seen.searched = 0
  BY <1>2 DEF MonitorInv, MonitorTyped
<1> HIDE DEF seen
<1>4. monitor' = [watched |-> seen.watched, idle |-> Capped(seen.idle, Grace),
                  searched |-> Capped(seen.searched, Rediscover)]
  BY <1>1, <1>3
<1>5. /\ Capped(seen.idle, Grace) \in 0..Grace
      /\ Capped(seen.searched, Rediscover) \in 1..Rediscover
      /\ Capped(quiet, Grace) \in 0..Grace
      /\ Capped(seen.idle, Grace) <= Capped(quiet, Grace)
  BY <1>3 DEF Capped, Least, MonitorInv, MonitorTyped, IdleNeedsQuiet
<1>6. devices' \in [Devices -> 0..Rediscover \union {Absent}]
  BY <1>1 DEF Capped, Least, MonitorInv, MonitorTyped
<1>7. MonitorTyped' /\ IdleNeedsQuiet'
  BY <1>1, <1>4, <1>5, <1>6 DEF MonitorTyped, IdleNeedsQuiet
<1>8. UnseenIsYoung'
  <2> SUFFICES ASSUME NEW d \in Present' \ monitor'.watched
               PROVE  devices'[d] < monitor'.searched
    BY DEF UnseenIsYoung
  <2>1. /\ d \in Devices /\ devices'[d] # Absent /\ d \notin seen.watched
        /\ monitor'.searched = Capped(seen.searched, Rediscover)
    BY <1>4 DEF Present
  <2>2. /\ devices[d] # Absent /\ devices[d] \in 0..Rediscover
        /\ devices'[d] = Capped(devices[d], Rediscover)
    BY <1>1, <2>1 DEF MonitorInv, MonitorTyped
  <2>3. seen = monitor /\ monitor.searched < Rediscover
    BY <2>1, <2>2, <1>3 DEF Present
  <2>4. devices[d] < monitor.searched
    BY <2>1, <2>2, <2>3 DEF MonitorInv, MonitorTyped, UnseenIsYoung, Present
  <2>5. QED
    BY <2>1, <2>2, <2>3, <2>4 DEF MonitorInv, MonitorTyped, Capped, Least
<1>9. QED
  BY <1>7, <1>8 DEF MonitorInv

(* A touch of an unwatched device counts only if it has been there for a   *)
(* search, and then the monitor has just started.                          *)
LEMMA MonitorPress ==
  ASSUME MonitorInv, NEW d \in Devices, Press(d)
  PROVE  MonitorInv'
<1>1. CASE d \in monitor.watched
  BY <1>1 DEF MonitorInv, MonitorTyped, UnseenIsYoung, IdleNeedsQuiet, Present, Press
<1>2. CASE d \notin monitor.watched
  <2>1. monitor' = monitor /\ devices' = devices
    BY <1>2 DEF Press
  <2>2. devices[d] >= Rediscover => monitor.idle = 0
    BY <1>2 DEF MonitorInv, MonitorTyped, UnseenIsYoung, Present, Press
  <2>3. QED
    BY <2>1, <2>2 DEF MonitorInv, MonitorTyped, UnseenIsYoung, IdleNeedsQuiet, Present, Press
<1>3. QED
  BY <1>1, <1>2

LEMMA MonitorAppear ==
  ASSUME MonitorInv, NEW d \in Devices, Appear(d)
  PROVE  MonitorInv'
  BY DEF MonitorInv, MonitorTyped, UnseenIsYoung, IdleNeedsQuiet, Present, Appear

LEMMA MonitorVanish ==
  ASSUME MonitorInv, NEW d \in Devices, Vanish(d)
  PROVE  MonitorInv'
<1>1. MonitorTyped' /\ IdleNeedsQuiet'
  <2>1. devices' \in [Devices -> 0..Rediscover \union {Absent}]
    BY DEF MonitorInv, MonitorTyped, Vanish
  <2>2. \/ monitor' = monitor
        \/ monitor' = [watched |-> monitor.watched \ {d}, idle |-> 0,
                       searched |-> monitor.searched]
    BY DEF MonitorInv, MonitorTyped, Vanish
  <2>3. quiet' = quiet
    BY DEF Vanish
  <2>4. QED
    BY <2>1, <2>2, <2>3 DEF MonitorInv, MonitorTyped, IdleNeedsQuiet
<1>2. UnseenIsYoung'
  BY DEF MonitorInv, MonitorTyped, UnseenIsYoung, Present, Vanish
<1>3. QED
  BY <1>1, <1>2 DEF MonitorInv

(* The governor never takes the machine for idle for longer than the       *)
(* player has kept off every device that has been there for a search, for  *)
(* any grace and any rediscovery interval (game_power_input.py:149-171).   *)
THEOREM IdleNeverOverstated == Spec => []IdleNeedsQuiet
<1>1. MonitorInv /\ [Next]_vars => MonitorInv'
  <2> SUFFICES ASSUME MonitorInv, [Next]_vars PROVE MonitorInv'
    OBVIOUS
  <2>1. CASE \E fps \in Rates \union {NoFps}, below, trims, readable \in BOOLEAN,
                outcome \in Outcomes : Tick(fps, below, trims, outcome, readable)
    BY <2>1, MonitorTick
  <2>2. CASE \E d \in Devices : Press(d)
    BY <2>2, MonitorPress
  <2>3. CASE \E d \in Devices : Appear(d)
    BY <2>3, MonitorAppear
  <2>4. CASE \E d \in Devices : Vanish(d)
    BY <2>4, MonitorVanish
  <2>5. CASE Crash
    BY <2>5 DEF Crash, StartMonitor, MonitorInv, MonitorTyped, UnseenIsYoung, IdleNeedsQuiet
  <2>6. CASE UNCHANGED <<monitor, devices, quiet>>
    BY <2>6 DEF MonitorInv, MonitorTyped, UnseenIsYoung, IdleNeedsQuiet, Present
  <2>7. QED
    BY <2>1, <2>2, <2>3, <2>4, <2>5, <2>6
       DEF Next, Restore, SetLimit, Choose, SessionRestart, vars
<1>2. MonitorInv => IdleNeedsQuiet
  BY DEF MonitorInv
<1>3. QED
  BY <1>1, <1>2, MonitorInit, PTL DEF Spec

-----------------------------------------------------------------------------
(* Drops.  The window of the estimator holds samples of one game, and no   *)
(* more than that game has delivered since it started or since its last    *)
(* drop: without this a step cannot tell whose samples fill the window.    *)

Samples == [below : BOOLEAN, fps : Nat]

WindowIsOfGame ==
  /\ est = [game |-> est.game, drops |-> est.drops,
            window |-> est.window, clear |-> est.clear]
  /\ est.window \in Seq(Samples) /\ est.drops \in Nat
  /\ Len(est.window) <= ShortWindow
  /\ earned.samples \in 0..ShortWindow
  /\ Len(est.window) > 0 => est.game = earned.game /\ Len(est.window) <= earned.samples

Mine == IF earned.game = user.game THEN earned.samples ELSE 0

(* A deque grows by one until it is full.                                  *)
LEMMA PushBounded ==
  ASSUME NEW S, NEW seq \in Seq(S), NEW x \in S, NEW bound \in Nat \ {0},
         Len(seq) <= bound
  PROVE  /\ Push(seq, x, bound) \in Seq(S)
         /\ Len(Push(seq, x, bound)) <= bound
         /\ Len(Push(seq, x, bound)) <= Len(seq) + 1
<1>1. CASE Len(seq) < bound
  BY <1>1 DEF Push
<1>2. CASE ~ Len(seq) < bound
  <2>1. seq # <<>> /\ Len(seq) = bound
    BY <1>2
  <2>2. Tail(seq) \in Seq(S) /\ Len(Tail(seq)) = Len(seq) - 1
    BY <2>1, HeadTailProperties
  <2>3. QED
    BY <1>2, <2>1, <2>2 DEF Push
<1>3. QED
  BY <1>1, <1>2

(* What the estimator holds of the game that is running is no more than    *)
(* what that game has earned.                                              *)
LEMMA HeldIsMine ==
  ASSUME WindowIsOfGame
  PROVE  LET e == OfGame(user.game)
         IN  /\ e = [game |-> user.game, drops |-> e.drops,
                     window |-> e.window, clear |-> e.clear]
             /\ e.window \in Seq(Samples) /\ e.drops \in Nat
             /\ Len(e.window) <= ShortWindow /\ Len(e.window) <= Mine
             /\ Mine \in 0..ShortWindow
<1>1. CASE est.game = user.game
  BY <1>1 DEF OfGame, WindowIsOfGame, Mine
<1>2. CASE est.game # user.game
  BY <1>2 DEF OfGame, Fresh, WindowIsOfGame, Mine
<1>3. QED
  BY <1>1, <1>2

LEMMA CountedGrowsByOne ==
  ASSUME NEW e, NEW fps \in Nat, NEW below \in BOOLEAN,
         e = [game |-> e.game, drops |-> e.drops, window |-> e.window, clear |-> e.clear],
         e.window \in Seq(Samples), Len(e.window) <= ShortWindow
  PROVE  LET c == Counted(e, fps, below)
         IN  /\ c = [game |-> e.game, drops |-> e.drops,
                     window |-> c.window, clear |-> c.clear]
             /\ c.window \in Seq(Samples) /\ Len(c.window) <= ShortWindow
             /\ Len(c.window) <= Len(e.window) + 1
<1> DEFINE sample == [below |-> below, fps |-> fps]
<1> DEFINE longer == Push(e.window, sample, ShortWindow)
<1> DEFINE clear == IF below THEN <<>> ELSE Push(e.clear, fps, ClearWindow)
<1>1. sample \in Samples
  BY DEF Samples
<1>2. /\ longer \in Seq(Samples) /\ Len(longer) <= ShortWindow
      /\ Len(longer) <= Len(e.window) + 1
  BY <1>1, PushBounded
<1>3. Counted(e, fps, below) = [e EXCEPT !.window = longer, !.clear = clear]
  BY DEF Counted
<1> HIDE DEF longer, clear
<1>4. Counted(e, fps, below) = [game |-> e.game, drops |-> e.drops,
                                window |-> longer, clear |-> clear]
  BY <1>3
<1>5. QED
  BY <1>2, <1>4

(* The four outcomes of a sample: not counted, a drop, a climb, neither.   *)
LEMMA ObserveOutcomes ==
  ASSUME NEW target, NEW fps, NEW below, NEW trims
  PROVE  LET e == OfGame(user.game)
             c == Counted(e, fps, below)
             o == Observe(target, fps, below, trims)
         IN  \/ o.est = e
             \/ /\ Counts(target, fps, below, trims)
                /\ ~ Len(c.window) < ShortWindow /\ o.est = Dropped(c)
             \/ Counts(target, fps, below, trims) /\ o.est \in {c, Climbed(c)}
<1> DEFINE e == OfGame(user.game)
<1> DEFINE c == Counted(e, fps, below)
<1>1. CASE ~ Counts(target, fps, below, trims)
  BY <1>1 DEF Observe
<1>2. CASE Counts(target, fps, below, trims) /\ DropTo(c, target) # NoFps
  <2>1. ~ Len(c.window) < ShortWindow
    BY <1>2 DEF DropTo
  <2>2. QED
    BY <1>2, <2>1 DEF Observe
<1>3. CASE Counts(target, fps, below, trims) /\ DropTo(c, target) = NoFps
  BY <1>3 DEF Observe
<1>4. QED
  BY <1>1, <1>2, <1>3

LEMMA DroppedRecord ==
  ASSUME NEW c, NEW game, NEW drops \in Nat, NEW window, NEW clear,
         c = [game |-> game, drops |-> drops, window |-> window, clear |-> clear]
  PROVE  /\ Dropped(c) = [game |-> game, drops |-> drops + 1, window |-> <<>>, clear |-> clear]
         /\ Climbed(c) = [game |-> game, drops |-> drops, window |-> window, clear |-> <<>>]
<1>1. Dropped(c) = [game |-> game, drops |-> drops + 1, window |-> <<>>, clear |-> clear]
  BY DEF Dropped
<1>2. Climbed(c) = [game |-> game, drops |-> drops, window |-> window, clear |-> <<>>]
  BY DEF Climbed
<1>3. QED
  BY <1>1, <1>2

(* A poll pays every drop, and the window keeps to what was earned.        *)
LEMMA TickEarns ==
  ASSUME WindowIsOfGame, NEW fps \in Rates \union {NoFps}, NEW below \in BOOLEAN,
         NEW trims \in BOOLEAN, NEW outcome, NEW readable,
         Tick(fps, below, trims, outcome, readable)
  PROVE  /\ WindowIsOfGame'
         /\ est'.drops > OfGame(user.game).drops => Mine + 1 >= ShortWindow
<1> DEFINE e == OfGame(user.game)
<1> DEFINE c == Counted(e, fps, below)
<1> DEFINE target == Target(ReadLimit(readable))
<1> DEFINE counts == Counts(target, fps, below, trims)
<1> DEFINE total == Mine + (IF counts THEN 1 ELSE 0)
<1>1. est' = Observe(target, fps, below, trims).est
  BY DEF Tick
<1>2. earned' = [game |-> user.game,
                 samples |-> IF est'.drops > e.drops THEN 0 ELSE Least(total, ShortWindow)]
  BY DEF Tick, Mine
<1>3. /\ e = [game |-> user.game, drops |-> e.drops,
              window |-> e.window, clear |-> e.clear]
      /\ e.window \in Seq(Samples) /\ e.drops \in Nat
      /\ Len(e.window) <= ShortWindow /\ Len(e.window) <= Mine
      /\ Mine \in 0..ShortWindow
  BY HeldIsMine
<1>4. /\ c = [game |-> user.game, drops |-> e.drops,
              window |-> c.window, clear |-> c.clear]
      /\ c.window \in Seq(Samples) /\ Len(c.window) <= ShortWindow
      /\ Len(c.window) <= Len(e.window) + 1
  <2>1. fps \in Nat
    OBVIOUS
  <2>2. QED
    BY <1>3, <2>1, CountedGrowsByOne
<1>5. \/ est' = e
      \/ counts /\ ~ Len(c.window) < ShortWindow /\ est' = Dropped(c)
      \/ counts /\ est' \in {c, Climbed(c)}
  BY <1>1, ObserveOutcomes
<1>6. Len(e.window) \in Nat /\ Len(c.window) \in Nat
  BY <1>3, <1>4
<1> SUFFICES WindowIsOfGame' /\ (est'.drops > e.drops => Mine + 1 >= ShortWindow)
  OBVIOUS
<1> HIDE DEF e, c, target, counts
<1>7. CASE est' = e
  <2>1. earned'.game = user.game /\ earned'.samples = Least(total, ShortWindow)
    BY <1>2, <1>3, <1>7
  <2>2. earned'.samples \in 0..ShortWindow /\ Mine <= earned'.samples
    BY <1>3, <2>1 DEF Least
  <2>3. /\ est'.game = user.game /\ est'.drops = e.drops /\ est'.window = e.window
        /\ est' = [game |-> est'.game, drops |-> est'.drops,
                   window |-> est'.window, clear |-> est'.clear]
    BY <1>3, <1>7
  <2>4. Len(est'.window) <= ShortWindow /\ Len(est'.window) <= earned'.samples
    BY <1>3, <1>6, <2>2, <2>3
  <2>5. WindowIsOfGame'
    BY <1>3, <2>1, <2>2, <2>3, <2>4 DEF WindowIsOfGame
  <2>6. ~ est'.drops > e.drops
    BY <1>3, <2>3
  <2>7. QED
    BY <2>5, <2>6
<1>8. CASE counts /\ ~ Len(c.window) < ShortWindow /\ est' = Dropped(c)
  <2>1. est' = [game |-> user.game, drops |-> e.drops + 1, window |-> <<>>,
                clear |-> c.clear]
    BY <1>3, <1>4, <1>8, DroppedRecord
  <2>2. est'.drops = e.drops + 1 /\ est'.window = <<>> /\ earned'.samples = 0
    BY <1>2, <1>3, <2>1
  <2>3. Mine + 1 >= ShortWindow
    BY <1>3, <1>4, <1>6, <1>8
  <2>4. est'.window \in Seq(Samples) /\ Len(est'.window) = 0 /\ est'.drops \in Nat
    BY <1>3, <2>2
  <2>5. est' = [game |-> est'.game, drops |-> est'.drops,
                window |-> est'.window, clear |-> est'.clear]
    BY <2>1
  <2>6. WindowIsOfGame'
    BY <2>2, <2>4, <2>5 DEF WindowIsOfGame
  <2>7. QED
    BY <2>3, <2>6
<1>9. CASE counts /\ est' \in {c, Climbed(c)}
  <2>1. /\ est'.game = user.game /\ est'.drops = e.drops /\ est'.window = c.window
        /\ est' = [game |-> est'.game, drops |-> est'.drops,
                   window |-> est'.window, clear |-> est'.clear]
    <3>1. CASE est' = c
      BY <1>4, <3>1
    <3>2. CASE est' = Climbed(c)
      <4>1. est' = [game |-> user.game, drops |-> e.drops, window |-> c.window,
                    clear |-> <<>>]
        BY <1>3, <1>4, <3>2, DroppedRecord
      <4>2. QED
        BY <4>1
    <3>3. QED
      BY <1>9, <3>1, <3>2
  <2>2. earned'.game = user.game /\ earned'.samples = Least(Mine + 1, ShortWindow)
    BY <1>2, <1>3, <1>9, <2>1
  <2>3. earned'.samples \in 0..ShortWindow /\ Len(c.window) <= earned'.samples
    BY <1>3, <1>4, <1>6, <2>2 DEF Least
  <2>4. WindowIsOfGame'
    BY <1>3, <1>4, <2>1, <2>2, <2>3 DEF WindowIsOfGame
  <2>5. ~ est'.drops > e.drops
    BY <1>3, <2>1
  <2>6. QED
    BY <2>4, <2>5
<1>10. QED
  BY <1>5, <1>7, <1>8, <1>9

(* The estimator takes a rung from a game only after a whole window of     *)
(* samples of its own, for any windows, percentiles and panels             *)
(* (game_power_frame_target.py:159-232).                                   *)
THEOREM DropsAreEarned == Spec => DropIsEarned
<1>1. Init => WindowIsOfGame
  BY DEF Init, Fresh, WindowIsOfGame
<1>2. WindowIsOfGame /\ [Next]_vars =>
        /\ WindowIsOfGame'
        /\ est'.game = user.game /\ est'.drops > OfGame(user.game).drops
             => Mine + 1 >= ShortWindow
  <2> SUFFICES ASSUME WindowIsOfGame, [Next]_vars
               PROVE  /\ WindowIsOfGame'
                      /\ est'.game = user.game /\ est'.drops > OfGame(user.game).drops
                           => Mine + 1 >= ShortWindow
    OBVIOUS
  <2>1. CASE \E fps \in Rates \union {NoFps}, below, trims, readable \in BOOLEAN,
                outcome \in Outcomes : Tick(fps, below, trims, outcome, readable)
    BY <2>1, TickEarns
  <2>2. CASE Crash
    BY <2>2 DEF Crash, Fresh, WindowIsOfGame, OfGame
  <2>3. CASE UNCHANGED <<est, earned>>
    BY <2>3 DEF WindowIsOfGame, OfGame
  <2>4. QED
    BY <2>1, <2>2, <2>3
       DEF Next, Restore, Press, Appear, Vanish, SetLimit, Choose, SessionRestart, vars
<1>3. QED
  BY <1>1, <1>2, PTL DEF Spec, DropIsEarned, Mine

=============================================================================
