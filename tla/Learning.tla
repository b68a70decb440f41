------------------------------ MODULE Learning ------------------------------
(***************************************************************************)
(* The gpu-priority controller and what it learns.  Samples of a game move *)
(* the controller by hysteresis and a rolling majority; a session, the     *)
(* samples of one context, is summed up when the context changes; clean    *)
(* sessions add up to a hint, kept in a file, with which a later session   *)
(* of the same context starts earlier; a hint that the samples contradict  *)
(* is dropped for the session and, after enough sessions, blocked.         *)
(*                                                                         *)
(* One tick closes the old session, judges the sample, writes the CPU      *)
(* policies and records the sample: a composition of operators on g, the   *)
(* governor's fields beside the store, its file and the knob.  F is the    *)
(* set of writes that fail in this tick.  The limits on the number of      *)
(* records and on the size of the file (128, 64, 256 KiB) are not reached. *)
(***************************************************************************)
EXTENDS Integers, FiniteSets, SequencesExt

CONSTANTS
  Contexts,     (* what a sample may be taken in                            *)
  Kinds,        (* what a sample may show                                   *)
  Activate, Hinted, RestoreAfter, Window,      (* samples                   *)
  Threshold,    (* negative samples in a row that disable a hint            *)
  MinSessions, MinSamples, MinRatio,           (* of a promotion; percent   *)
  Limit,        (* contradicted sessions that block a hint                  *)
  HintAge, AggregateAge,                       (* in clock units            *)
  FailureSets,  (* writes that may fail together in one tick                *)
  MaxTicks, MaxSession, MaxClock, MaxFaults    (* bounds                    *)

ASSUME LearningAssumption ==
  /\ \A c \in Contexts : c.complete \in BOOLEAN /\ c.game \in BOOLEAN
                         /\ (c.complete => c.game)
  /\ Kinds \subseteq [power : BOOLEAN, bound : BOOLEAN, gpu : BOOLEAN,
                      core : BOOLEAN, satisfied : BOOLEAN]
  /\ {Activate, Hinted, RestoreAfter, Threshold, MinSessions, MinSamples,
      Limit} \subseteq Nat \ {0}
  /\ {Window, MinRatio, HintAge, AggregateAge, MaxTicks, MaxSession, MaxClock,
      MaxFaults} \subseteq Nat
  /\ FailureSets \subseteq SUBSET {"apply", "restore", "save"}

Keys == {c \in Contexts : c.complete}
NoContext == [id |-> 0, game |-> FALSE, complete |-> FALSE]

NoAggregate == [sessions |-> 0, samples |-> 0, positives |-> 0, at |-> 0]
NoEntry == [sessions |-> 0, samples |-> 0, positives |-> 0, at |-> 0,
            contradicted |-> 0]
EmptyStore == [aggregates |-> [k \in Keys |-> NoAggregate],
               entries |-> [k \in Keys |-> NoEntry]]
NoSnapshot == "none"

VARIABLES
  g,       (* the governor, its hint store, the file and the CPU knob       *)
  clock,
  hist,    (* what the samples of the session showed, and the sessions      *)
  ticks, faults

vars == <<g, clock, hist, ticks, faults>>

(* A fresh GamePowerController. *)
Controller(hint) ==
  [hint |-> hint, positive |-> 0, negative |-> 0, active |-> FALSE,
   disabled |-> FALSE, streak |-> 0, total |-> 0, recent |-> <<>>]

NoSession == [samples |-> 0, positives |-> 0, applied |-> FALSE,
              contradictions |-> 0, disabled |-> FALSE, failed |-> FALSE,
              attempted |-> FALSE, restored |-> FALSE, open |-> FALSE]
NewSession == [NoSession EXCEPT !.open = TRUE]

----------------------------------------------------------------------------
(* The hint store. *)

Expired(entry) == clock - entry.at > HintAge

(* get_hint *)
GetHint(store, context) ==
  LET entry == store.entries[context]
  IN IF /\ context.complete /\ entry # NoEntry
        /\ ~ Expired(entry)
        /\ entry.contradicted < Limit
     THEN entry ELSE NoEntry

(* _session_eligible *)
Eligible(context, s) ==
  /\ context.complete /\ s.samples > 0 /\ ~ s.failed
  /\ s.applied \/ s.attempted => s.restored
  /\ s.contradictions = 0 /\ ~ s.disabled

(* What a clean session takes from the count of contradicted ones. *)
RepairedUnbounded(count) == count - 1     (* mutant *)
Repaired(count) == IF count = 0 THEN 0 ELSE count - 1

AddSession(a, s) ==
  [sessions |-> a.sessions + 1, samples |-> a.samples + s.samples,
   positives |-> a.positives + s.positives, at |-> clock]

(* _maybe_promote *)
Promotes(a) ==
  /\ a.sessions >= MinSessions
  /\ a.samples >= MinSamples
  /\ 100 * a.positives >= MinRatio * a.samples

Promoted(a, count) ==
  [sessions |-> a.sessions, samples |-> a.samples, positives |-> a.positives,
   at |-> a.at, contradicted |-> Repaired(count)]

(* _prune: after the session has been added, so an aggregate that was too  *)
(* old counts once more.                                                   *)
Prune(store) ==
  [aggregates |-> [k \in Keys |->
     IF clock - store.aggregates[k].at > AggregateAge
     THEN NoAggregate ELSE store.aggregates[k]],
   entries |-> [k \in Keys |->
     IF Expired(store.entries[k]) THEN NoEntry ELSE store.entries[k]]]

WithAggregate(store, key, a) ==
  [aggregates |-> [store.aggregates EXCEPT ![key] = a], entries |-> store.entries]
WithEntry(store, key, entry) ==
  [aggregates |-> store.aggregates, entries |-> [store.entries EXCEPT ![key] = entry]]

(* _write: memory is ahead of the file until a later write gets through. *)
Save(s, store, F) ==
  IF "save" \in F THEN [s EXCEPT !.store = store, !.unsaved = TRUE]
  ELSE [s EXCEPT !.store = store, !.unsaved = FALSE,
                 !.file = [readable |-> TRUE, store |-> store]]

(* record_session *)
RecordSession(s, F) ==
  LET key == s.context
      a == AddSession(s.store.aggregates[key], s.session)
      entry == s.store.entries[key]
      added == WithAggregate(s.store, key, a)
  IN CASE Eligible(key, s.session) ->
            Save(s, Prune(IF Promotes(a)
                          THEN WithEntry(added, key, Promoted(a, entry.contradicted))
                          ELSE added), F)
       [] /\ key.complete /\ entry # NoEntry
          /\ s.session.contradictions > 0 \/ s.session.disabled ->
            Save(s, Prune(WithEntry(s.store, key,
                                    [entry EXCEPT !.contradicted = @ + 1])), F)
       [] OTHER -> s

(* _load: a damaged file is not read, and the next save replaces it. *)
LoadForgiving(file) ==                    (* mutant: the count is not loaded *)
  IF ~ file.readable THEN EmptyStore
  ELSE [file.store EXCEPT !.entries =
          [k \in Keys |-> [@[k] EXCEPT !.contradicted = 0]]]

Load(file) == IF file.readable THEN file.store ELSE EmptyStore

----------------------------------------------------------------------------
(* The CPU policies. *)

RestoreFails(s, F) == "restore" \in F /\ s.cpu # s.snap

(* restore, and what the session remembers of it. *)
Restore(s, F) ==
  IF s.snap = NoSnapshot THEN s
  ELSE [s EXCEPT !.cpu = IF RestoreFails(s, F) THEN "mixed" ELSE s.snap,
                 !.snap = NoSnapshot,
                 !.latched = @ \/ RestoreFails(s, F),
                 !.session = IF s.session.open
                             THEN [@ EXCEPT !.attempted = TRUE,
                                            !.restored = ~ RestoreFails(s, F)]
                             ELSE @]

(* The EPP alone leaves a frequency cap of an earlier tick in place. *)
Written(cpu, action) ==
  CASE action = "cap" -> "capped"
    [] action = "epp" -> IF cpu = "base" THEN "epp" ELSE cpu

(* _apply_decision *)
Apply(s, action, F) ==
  LET t == [s EXCEPT !.snap = IF @ = NoSnapshot THEN s.cpu ELSE @]
  IN CASE s.latched \/ action = "observe" -> s
       [] ~ s.latched /\ action = "restore" -> Restore(s, F)
       [] ~ s.latched /\ action \in {"epp", "cap"} ->
            IF "apply" \in F
            THEN [Restore([t EXCEPT !.cpu = "mixed"], F) EXCEPT !.latched = TRUE]
            ELSE [t EXCEPT !.cpu = Written(@, action)]

(* _close_current_session *)
CloseSession(s, F) ==
  IF ~ s.session.open THEN [s EXCEPT !.context = NoContext]
  ELSE [RecordSession(Restore(s, F), F) EXCEPT
          !.session = NoSession, !.context = NoContext,
          !.ctl = Controller(NoEntry)]

----------------------------------------------------------------------------
(* The controller. *)

Positive(k, context) ==
  context.game /\ ~ k.satisfied /\ k.power /\ k.bound /\ k.gpu

(* classify_game_power_sample, in gpu-priority mode *)
Classify(k, context) ==
  IF ~ context.game THEN "no-foreground-game"
  ELSE IF k.satisfied THEN "fps-target-satisfied"
  ELSE IF ~ k.power THEN "insufficient-power-evidence"
  ELSE IF ~ k.bound THEN "not-package-bound"
  ELSE IF ~ k.gpu THEN "unknown-package-pressure"
  ELSE IF k.core THEN "gpu-package-bound-cpu-contention"
  ELSE "gpu-package-bound"

Bound == {"gpu-package-bound", "gpu-package-bound-cpu-contention"}

LastN(seq, n) ==
  SubSeq(seq, IF Len(seq) > n THEN Len(seq) - n + 1 ELSE 1, Len(seq))
Majority(seq, b) == 2 * Cardinality({i \in DOMAIN seq : seq[i] = b}) > Len(seq)

(* _hint_available *)
HintAvailable(c) == c.hint # NoEntry /\ ~ c.disabled

(* The counters, and _update_hint_contradiction: any sample that is not    *)
(* positive tells against the hint, also one that meets its target.        *)
Observed(c, positive) ==
  LET against == HintAvailable(c) /\ ~ positive
      streak == IF ~ HintAvailable(c) THEN c.streak
                ELSE IF positive THEN 0 ELSE c.streak + 1
  IN [c EXCEPT !.positive = IF positive THEN @ + 1 ELSE 0,
               !.negative = IF positive THEN 0 ELSE @ + 1,
               !.recent = LastN(Append(@, positive), Window),
               !.streak = streak,
               !.total = IF against THEN @ + 1 ELSE @,
               !.disabled = @ \/ (against /\ streak >= Threshold)]

(* _rolling_activation_ready, _rolling_restore_ready *)
RollingReady(c, required, b) ==
  Window <= 1 \/ (Len(c.recent) >= required /\ Majority(c.recent, b))

(* _activation_required_samples *)
Required(c) == IF HintAvailable(c) THEN Hinted ELSE Activate

(* _evaluate_gpu_priority *)
Decision(c, k) ==
  IF c.active /\ c.negative >= RestoreAfter
  THEN IF RollingReady(c, RestoreAfter, FALSE) THEN "restore" ELSE "observe"
  ELSE IF c.positive >= Required(c) /\ RollingReady(c, Required(c), TRUE)
  THEN IF k.core THEN "cap" ELSE "epp"
  ELSE "observe"

Decided(c, action) ==
  [c EXCEPT !.active = CASE action = "restore" -> FALSE
                         [] action \in {"epp", "cap"} -> TRUE
                         [] action = "observe" -> @]

----------------------------------------------------------------------------
(* One tick. *)

(* Mutant: the controller of the old context goes on. *)
PrepareContextKeepsCounts(s, context, F) ==
  IF context = s.context THEN s
  ELSE [CloseSession(s, F) EXCEPT
          !.context = context,
          !.ctl = [s.ctl EXCEPT !.hint = GetHint(CloseSession(s, F).store, context)],
          !.session = IF context.game THEN NewSession ELSE NoSession]

(* _prepare_context: a new context closes the session of the old one. *)
PrepareContext(s, context, F) ==
  IF context = s.context THEN s
  ELSE LET closed == CloseSession(s, F)
       IN [closed EXCEPT
             !.context = context,
             !.ctl = Controller(GetHint(closed.store, context)),
             !.session = IF context.game THEN NewSession ELSE NoSession]

(* _record_session_sample, after the decision has been applied. *)
Sampled(s, positive, action) ==
  [s.session EXCEPT !.samples = @ + 1,
                    !.positives = IF positive THEN @ + 1 ELSE @,
                    !.applied = @ \/ action \in {"epp", "cap"},
                    !.contradictions = s.ctl.total,
                    !.disabled = @ \/ s.ctl.disabled,
                    !.failed = @ \/ s.latched]

RecordSample(s, positive, action) ==
  IF ~ s.session.open THEN s
  ELSE [s EXCEPT !.session = Sampled(s, positive, action)]

(* The rest of run_once on a prepared context. *)
Judge(s, k, F) ==
  LET positive == Positive(k, s.context)
      c == Observed(s.ctl, positive)
      action == Decision(c, k)
  IN RecordSample(Apply([s EXCEPT !.ctl = Decided(c, action)], action, F),
                  positive, action)

----------------------------------------------------------------------------
(* History: what the samples of the session were seen to show, the CPU as  *)
(* the session found it, and for each context what its clean sessions add  *)
(* up to and how many sessions contradicted its hint since the last clean  *)
(* one.                                                                    *)

NoHistory == [log |-> <<>>, found |-> "base",
              clean |-> [k \in Keys |-> [sessions |-> 0, samples |-> 0,
                                         positives |-> 0]],
              offences |-> [k \in Keys |-> 0]]

(* The session of s has been closed, which left p. *)
AfterClose(h, s, p) ==
  LET key == s.context
      contradicted == s.ctl.hint # NoEntry /\ \E i \in DOMAIN h.log : ~ h.log[i]
      clean == /\ key.complete /\ h.log # <<>>
               /\ ~ contradicted /\ p.cpu = h.found
      hits == Cardinality({i \in DOMAIN h.log : h.log[i]})
  IN [log |-> <<>>, found |-> p.cpu,
      clean |-> IF ~ clean THEN h.clean
                ELSE [h.clean EXCEPT ![key] =
                        [sessions |-> @.sessions + 1,
                         samples |-> @.samples + Len(h.log),
                         positives |-> @.positives + hits]],
      offences |-> [k \in Keys |->
        IF p.store.entries[k] = NoEntry \/ (k = key /\ clean) THEN 0
        ELSE IF k = key /\ contradicted THEN h.offences[k] + 1
        ELSE h.offences[k]]]

----------------------------------------------------------------------------

Down(file, cpu, unsaved) ==
  [up |-> FALSE, on |-> TRUE, context |-> NoContext, session |-> NoSession,
   ctl |-> Controller(NoEntry), snap |-> NoSnapshot, latched |-> FALSE,
   store |-> EmptyStore, file |-> file, unsaved |-> unsaved, cpu |-> cpu]

Init ==
  /\ g = Down([readable |-> TRUE, store |-> EmptyStore], "base", FALSE)
  /\ clock = 0 /\ hist = NoHistory /\ ticks = 0 /\ faults = 0

Fault(F) ==
  /\ faults + Cardinality(F) <= MaxFaults
  /\ faults' = faults + Cardinality(F)

(* One run_once in gpu-priority mode. *)
Tick(context, k, F) ==
  LET p == PrepareContext(g, context, F)
      h == IF context = g.context THEN hist ELSE AfterClose(hist, g, p)
  IN /\ g.up /\ g.on /\ ticks < MaxTicks /\ Fault(F)
     /\ Len(h.log) < MaxSession
     /\ g' = Judge(p, k, F)
     /\ hist' = IF context.game
                THEN [h EXCEPT !.log = Append(@, Classify(k, context) \in Bound)]
                ELSE h
     /\ ticks' = ticks + 1
     /\ UNCHANGED clock

(* _refresh_config: the control file selects another mode, or this again.  *)
SwitchMode(F) ==
  LET p == Restore(CloseSession(g, F), F)
  IN /\ g.up /\ Fault(F)
     /\ g' = [p EXCEPT !.on = ~ g.on, !.latched = FALSE,
                       !.ctl = Controller(NoEntry)]
     /\ hist' = AfterClose(hist, g, p)
     /\ UNCHANGED <<clock, ticks>>

(* close, at the end of the service *)
Stop(F) ==
  LET p == Restore(CloseSession(g, F), F)
  IN /\ g.up /\ Fault(F)
     /\ g' = Down(p.file, p.cpu, p.unsaved)
     /\ hist' = AfterClose(hist, g, p)
     /\ UNCHANGED <<clock, ticks>>

(* The process is killed: the session is lost, the CPU stays as it is.     *)
Crash ==
  /\ g.up /\ Fault({"crash"})
  /\ g' = Down(g.file, g.cpu, g.unsaved)
  /\ hist' = [hist EXCEPT !.log = <<>>, !.found = g.cpu]
  /\ UNCHANGED <<clock, ticks>>

(* A loss of power empties the file that has just been renamed.            *)
Damage ==
  /\ ~ g.up /\ Fault({"damage"})
  /\ g' = [g EXCEPT !.file.readable = FALSE, !.unsaved = TRUE]
  /\ UNCHANGED <<clock, hist, ticks>>

(* GamePowerHintStore.__init__.  What was not saved is forgotten, offences *)
(* included.                                                               *)
Start ==
  /\ ~ g.up
  /\ g' = [g EXCEPT !.up = TRUE, !.store = Load(g.file), !.unsaved = FALSE]
  /\ hist' = IF g.unsaved THEN [hist EXCEPT !.offences = NoHistory.offences]
             ELSE hist
  /\ UNCHANGED <<clock, ticks, faults>>

Age ==
  /\ clock < MaxClock /\ clock' = clock + 1
  /\ UNCHANGED <<g, hist, ticks, faults>>

Next ==
  \/ \E F \in FailureSets :
       \/ \E context \in Contexts \union {NoContext}, k \in Kinds :
            Tick(context, k, F)
       \/ SwitchMode(F) \/ Stop(F)
  \/ Crash \/ Damage \/ Start \/ Age

Spec == Init /\ [][Next]_vars

----------------------------------------------------------------------------
(* Properties.                                                             *)

CpuStates == {"base", "epp", "capped", "mixed"}
Stores ==
  [aggregates : [Keys -> [sessions : Nat, samples : Nat, positives : Nat,
                          at : 0 .. MaxClock]],
   entries : [Keys -> [sessions : Nat, samples : Nat, positives : Nat,
                       at : 0 .. MaxClock, contradicted : Nat]]]

TypeOK ==
  /\ {g.up, g.on, g.latched, g.unsaved} \subseteq BOOLEAN
  /\ g.context \in Contexts \union {NoContext}
  /\ g.store \in Stores /\ g.file \in [readable : BOOLEAN, store : Stores]
  /\ g.cpu \in CpuStates /\ g.snap \in CpuStates \union {NoSnapshot}
  /\ (g.session.open <=> g.context.game)
  /\ g.session.positives <= g.session.samples
  /\ {g.ctl.positive, g.ctl.negative, g.ctl.streak, g.ctl.total} \subseteq 0 .. MaxTicks
  /\ Len(g.ctl.recent) <= Window
  /\ clock \in 0 .. MaxClock /\ ticks \in 0 .. MaxTicks /\ faults \in 0 .. MaxFaults

(* The controller starts to tune only on what this session showed: enough  *)
(* package-bound samples in a row at its end and a majority of the window, *)
(* or fewer when there is a hint for this context that the session has not *)
(* contradicted - whatever the contexts before it were like.               *)
EnoughEvidence ==
  LET refuted == \E i \in 1 .. Len(hist.log) - Threshold + 1 :
                   \A j \in i .. i + Threshold - 1 : ~ hist.log[j]
      n == IF g.ctl.hint # NoEntry /\ ~ refuted THEN Hinted ELSE Activate
  IN /\ Len(hist.log) >= n
     /\ \A i \in Len(hist.log) - n + 1 .. Len(hist.log) : hist.log[i]
     /\ Window > 1 => Majority(LastN(hist.log, Window), TRUE)

ActivationHasEvidence ==
  [][g'.ctl.active /\ (~ g.ctl.active \/ g'.context # g.context)
       => EnoughEvidence']_vars

(* A hint in use rests on sessions that really were clean: no sample told  *)
(* against a hint and the CPU was left as it was found, across restarts,   *)
(* failed saves and damaged files; there were enough of them, and fewer    *)
(* than Limit sessions have contradicted it since the last clean one.      *)
HintHasEvidence ==
  g.ctl.hint # NoEntry =>
    LET clean == hist.clean[g.context] hint == g.ctl.hint
    IN /\ MinSessions <= hint.sessions /\ hint.sessions <= clean.sessions
       /\ MinSamples <= hint.samples /\ hint.samples <= clean.samples
       /\ hint.positives <= clean.positives
       /\ 100 * hint.positives >= MinRatio * hint.samples
       /\ hist.offences[g.context] < Limit

=============================================================================
