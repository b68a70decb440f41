------------------------------ MODULE Verdicts ------------------------------
(***************************************************************************)
(* From a measured run to an unlocked lane.  The profiler records paired   *)
(* runs off, candidate, off (profile-game-power-on-device.sh and           *)
(* summarize); aggregate groups them and compares the groups; export       *)
(* writes the BETTER ones to a ledger file, in place; the daemon keeps a   *)
(* copy of that file (GamePowerVerdictLedger) and asks it on every tick    *)
(* which gated lanes may be used.                                          *)
(*                                                                         *)
(* One game is profiled and played.  The 1% low stands for the frame       *)
(* metrics of a run, and every run sustains its target.  The names carry   *)
(* this module's own where the profiler's lanes (RunLanes) have theirs.    *)
(***************************************************************************)
EXTENDS Integers, FiniteSets, Sequences

CONSTANTS
  Plans,        (* the profiling sessions that may be run                   *)
  Contexts,     (* what the daemon may see when it ticks                    *)
  MinRuns,      (* --min-runs                                               *)
  Repeats,      (* pairs per session                                        *)
  MaxSessions,  (* bound on sessions                                        *)
  MaxWrites,    (* bound on exports, reports and removals                   *)
  MaxAccidents  (* bound on spoilt runs, aborts, kills and reboots          *)

Paths == {"primary", "fallback"}
Phases == {"below-cpu", "below-gpu", "at", "unknown", "loading"}

ASSUME VerdictsAssumption ==
  /\ \A p \in Plans :
       p.tdp \in Nat /\ p.low \in Nat \ {0} /\ p.watts \in Nat \ {0}
       /\ p.controlled \in BOOLEAN /\ p.policy # "off"
  /\ \A c \in Contexts : c.pl1 \in Nat /\ c.phase \in Phases
  /\ MinRuns \in Nat \ {0} /\ Repeats \in Nat \ {0}
  /\ {MaxSessions, MaxWrites, MaxAccidents} \subseteq Nat

VARIABLES
  root,      (* the summaries recorded, in order                            *)
  session,   (* the profiling session that runs                             *)
  source,    (* "ac" or "battery"                                           *)
  kernel,    (* the kernel that runs: 1 before the update, 2 after          *)
  kept,      (* the BETTER comparisons of an aggregate kept in a file       *)
  file,      (* file[p]: the ledger file at p                               *)
  export,    (* the export that writes: none, or its path and entries       *)
  clock,
  cache,     (* the daemon's copy of the ledger                             *)
  gov,       (* the daemon's tick                                           *)
  writes, accidents

verdictVars == <<root, session, source, kernel, kept, file, export, clock, cache,
          gov, writes, accidents>>
profiling == <<root, session, source>>
ledger == <<cache, gov>>

Accident == accidents < MaxAccidents /\ accidents' = accidents + 1
Write == writes < MaxWrites /\ writes' = writes + 1

----------------------------------------------------------------------------
(* Recording. *)

NoSession == [n |-> 0, plan |-> "none", pair |-> 0, at |-> 0]
Positions == <<"baseline-before", "candidate", "baseline-after">>

Base == [low |-> 100, watts |-> 200]    (* what the game does with policy off *)

(* One summary.json.  An imported capture carries no A/B evidence. *)
Summary(plan, n, pair, at, how) ==
  [id |-> <<n, pair>>, position |-> Positions[at],
   policy |-> IF at = 2 THEN plan.policy ELSE "off",
   candidate |-> IF plan.controlled THEN plan.policy ELSE "none",
   tdp |-> plan.tdp, fps |-> plan.fps, scene |-> plan.scene,
   controlled |-> plan.controlled,
   source |-> IF how = "plug" THEN "mixed" ELSE source,
   start |-> IF how = "hot" THEN 66 ELSE 60,
   cooled |-> how # "late",
   restored |-> how # "unrestored",
   proof |-> at = 2 /\ how # "unproven",
   low |-> IF at = 2 THEN plan.low ELSE Base.low,
   watts |-> IF at = 2 THEN plan.watts ELSE Base.watts]

Unplugged == IF source = "ac" THEN "battery" ELSE "ac"

(* The charger is moved between two runs, with a run to come.              *)
MovePlug ==
  /\ Accident /\ (session.at > 0 \/ session.n < MaxSessions)
  /\ source' = Unplugged
  /\ UNCHANGED <<root, session, kernel, kept, file, export, clock, ledger, writes>>

StartSession(plan) ==
  /\ session.at = 0 /\ session.n < MaxSessions
  /\ session' = [n |-> session.n + 1, plan |-> plan, pair |-> 1, at |-> 1]
  /\ UNCHANGED <<root, source, kernel, kept, file, export, clock, ledger,
                 writes, accidents>>

(* What may happen to a run: the charger is moved, it starts hot, it       *)
(* starts too long after the cool-down, a restore does not verify, or the  *)
(* lane's own restore evidence is missing.                                 *)
Flaws == {"plug", "hot", "late", "unrestored", "unproven"}

RecordRun(how) ==
  /\ session.at > 0
  /\ how # "fine" => Accident /\ (how = "unproven" => session.at = 2)
  /\ how = "fine" => UNCHANGED accidents
  /\ root' = Append(root, Summary(session.plan, session.n, session.pair,
                                  session.at, how))
  /\ source' = IF how = "plug" THEN Unplugged ELSE source
  /\ session' = CASE session.at < 3 -> [session EXCEPT !.at = @ + 1]
                  [] session.at = 3 /\ session.pair < Repeats ->
                       [session EXCEPT !.at = 1, !.pair = @ + 1]
                  [] OTHER -> [session EXCEPT !.at = 0]
  /\ UNCHANGED <<kernel, kept, file, export, clock, ledger, writes>>

(* exit 1 in the middle of a session: the pair stays incomplete. *)
AbortSession ==
  /\ session.at > 0 /\ Accident
  /\ session' = [session EXCEPT !.at = 0]
  /\ UNCHANGED <<root, source, kernel, kept, file, export, clock, ledger,
                 writes>>

----------------------------------------------------------------------------
(* Aggregation.  A group is a set of indices into root.  A summary that    *)
(* two --root arguments reach is in it twice: twice is the set of these.   *)

Values(group, field) == {root[i][field] : i \in group}
Count(group, twice) == Cardinality(group) + Cardinality(group \intersect twice)

(* _single_present: the runs agree on one value. *)
Agree(group, field) == Cardinality(Values(group, field)) = 1

(* The k-th smallest value.                                                *)
Ranked(group, field, k) ==
  CHOOSE v \in Values(group, field) :
    /\ Cardinality({i \in group : root[i][field] < v}) < k
    /\ Cardinality({i \in group : root[i][field] <= v}) >= k

(* Twice the median.  It is asked for only of runs that count once: the    *)
(* gate has rejected a pair with a run that counts twice by then.          *)
Median2(group, field) ==
  LET n == Cardinality(group)
  IN Ranked(group, field, (n + 1) \div 2) + Ranked(group, field, (n + 2) \div 2)

PairsOf(group) == Values(group, "id")
CountAt(group, twice, id, position) ==
  Count({i \in group : root[i].id = id /\ root[i].position = position}, twice)

(* _aggregate_ab_evidence_complete *)
EvidenceComplete(group) ==
  /\ group # {}
  /\ \A i \in group : root[i].controlled /\ root[i].cooled
  /\ Agree(group, "scene")
  /\ Agree(group, "source")
  /\ Values(group, "source") \subseteq {"ac", "battery"}

(* Mutant: the pairs are counted, not looked at one by one. *)
PairsCounted(base, cand, twice) ==
  /\ PairsOf(base) = PairsOf(cand)
  /\ Count(base, twice) = 2 * Count(cand, twice)

(* The order and the positions of each pair. *)
PairsMatch(base, cand, twice) ==
  /\ PairsOf(base) = PairsOf(cand)
  /\ Count(base, twice) = 2 * Count(cand, twice)
  /\ \A id \in PairsOf(cand) :
       /\ CountAt(cand, twice, id, "candidate") = 1
       /\ CountAt(base, twice, id, "baseline-before") = 1
       /\ CountAt(base, twice, id, "baseline-after") = 1

AbDelta(a, b) == IF a < b THEN b - a ELSE a - b

(* Both sides start at the same temperature, by median and in each pair.   *)
StartsMatch(base, cand) ==
  /\ AbDelta(Median2(base, "start"),
             Median2(cand, "start")) <= 2 * 5
  /\ \A i \in base, j \in cand :
       root[i].id = root[j].id => AbDelta(root[i].start, root[j].start) <= 5

(* _ab_pairwise_gate *)
PairwiseGate(base, cand, twice) ==
  /\ EvidenceComplete(base) /\ EvidenceComplete(cand)
  /\ PairsMatch(base, cand, twice)
  /\ Values(base, "scene") = Values(cand, "scene")
  /\ Values(base, "source") = Values(cand, "source")
  /\ StartsMatch(base, cand)

Improves(base, cand) ==
  LET b(field) == Median2(base, field)
      c(field) == Median2(cand, field)
  IN \/ 100 * (c("low") - b("low")) >= 5 * b("low")
     \/ /\ 100 * (b("watts") - c("watts")) >= 5 * b("watts")
        /\ 100 * (c("low") - b("low")) >= -3 * b("low")

AllRestored(group) == \A i \in group : root[i].restored

(* The candidate whose lane pins the game needs proof that it was pinned.  *)
Pinned(cand) == \A i \in cand : root[i].policy = "gpu-priority-affinity" => root[i].proof

(* compare_policy_aggregates says BETTER. *)
Better(base, cand, twice) ==
  /\ Count(base, twice) >= MinRuns /\ Count(cand, twice) >= MinRuns
  /\ AllRestored(base) /\ AllRestored(cand) /\ Pinned(cand)
  /\ PairwiseGate(base, cand, twice)
  /\ Improves(base, cand)

(* _gate_new_lane_evidence *)
LaneProven(cand) ==
  \A i \in cand : root[i].policy = "target-balance-uclampmin" => root[i].proof

(* run_aggregate: the runs of the roots asked for, of one capture mode,    *)
(* with off runs only where they accompany a requested candidate.          *)
Selected(roots, wanted, controlled) ==
  {i \in DOMAIN root :
     /\ root[i].id[1] \in roots /\ root[i].controlled = controlled
     /\ root[i].policy \in wanted \union {"off"}
     /\ root[i].policy = "off" => root[i].candidate \in wanted \union {"none"}}

Key(r) == <<r.tdp, r.policy, r.fps, r.candidate>>
ContextKey(r) == <<r.tdp, r.fps, r.candidate>>

GroupOf(picked, r) == {i \in picked : Key(root[i]) = Key(r)}
ContextOf(picked, r) == {i \in picked : ContextKey(root[i]) = ContextKey(r)}

Aggregate(picked, twice) ==
  LET runs == {root[i] : i \in picked}
      better == {c \in runs : c.policy # "off" /\ \E b \in runs :
                   /\ b.policy = "off" /\ ContextKey(b) = ContextKey(c)
                   /\ Better(GroupOf(picked, b), GroupOf(picked, c), twice)
                   /\ LaneProven(GroupOf(picked, c))}
  IN {[policy |-> c.policy, tdp |-> c.tdp, fps |-> c.fps, runs |-> ContextOf(picked, c)]
        : c \in better}

----------------------------------------------------------------------------
(* Export. *)

Buckets == {12, 17, 22, 30}
NoBucket == 0

(* verdict_tdp_bucket *)
Bucket(watts) ==
  LET near == {b \in Buckets : AbDelta(b, watts) <= 2}
  IN IF near = {} THEN NoBucket ELSE CHOOSE b \in near : TRUE

(* VERDICT_ACTUATOR_BY_CANDIDATE_POLICY *)
ActuatorsOf(policy) ==
  CASE policy = "gpu-priority-bg-weight" -> {"bg-weight"}
    [] policy = "gpu-priority-bg-uclamp" -> {"bg-uclamp"}
    [] policy = "gpu-priority-affinity" -> {"compact-affinity"}
    [] policy = "target-balance-uclampmin" -> {"uclamp-min"}
    [] policy = "target-balance-ladder5" -> {"ladder-step-5"}
    [] policy = "v10-gpu-cap" -> {"gpu-cap"}
    [] policy = "v10-soft-pl1" -> {"soft-pl1"}
    [] OTHER -> {}

(* Mutant: the TDP that was measured is exported as it is. *)
EntriesUnbucketed(comparisons) ==
  UNION {{[actuator |-> a, bucket |-> c.tdp, fps |-> c.fps,
           kernel |-> kernel, runs |-> c.runs] : a \in ActuatorsOf(c.policy)}
           : c \in comparisons}

(* The kernel is the argument of the export, the running one.  A report    *)
(* edited by hand may name its own lanes; aggregate writes none that does. *)
Entries(comparisons) ==
  UNION {{[actuator |-> a, bucket |-> Bucket(c.tdp), fps |-> c.fps,
           kernel |-> kernel, runs |-> c.runs] : a \in ActuatorsOf(c.policy)}
           : c \in {d \in comparisons : Bucket(d.tdp) # NoBucket}}

(* Two exports, commands of an operator, never get the same time stamp;    *)
(* the two writes of one export may.                                       *)
NewStamp == clock' = clock + 1
SameOrNewStamp == clock' \in {clock, clock + 1}

Absent == [there |-> "absent", entries |-> {}, mtime |-> 0]
Broken == [there |-> "broken", entries |-> {}, mtime |-> clock']
Whole(entries) == [there |-> "whole", entries |-> entries, mtime |-> clock']

Candidates == {p.policy : p \in Plans}
NoExport == [path |-> "none", entries |-> {}]

(* write_text empties the file and then writes it. *)
OpenLedger(path, comparisons) ==
  /\ export = NoExport /\ NewStamp
  /\ export' = [path |-> path, entries |-> Entries(comparisons)]
  /\ file' = [file EXCEPT ![path] = Broken]

(* export-verdicts --root *)
ExportRoot(path, roots, twice, controlled) ==
  /\ Write
  /\ OpenLedger(path, Aggregate(Selected(roots, Candidates, controlled), twice))
  /\ UNCHANGED <<profiling, kernel, kept, ledger, accidents>>

(* aggregate, its report kept; export-verdicts --aggregate, maybe later.   *)
(* A run reached twice could only have kept a comparison out of it.        *)
SaveReport(roots) ==
  /\ Write
  /\ kept' = Aggregate(Selected(roots, Candidates, TRUE), {})
  /\ kept' # {}
  /\ UNCHANGED <<profiling, kernel, file, export, clock, ledger, accidents>>

ExportReport(path) ==
  /\ Write /\ kept # {}
  /\ OpenLedger(path, kept)
  /\ UNCHANGED <<profiling, kernel, kept, ledger, accidents>>

FinishExport ==
  /\ export # NoExport /\ SameOrNewStamp
  /\ file' = [file EXCEPT ![export.path] = Whole(export.entries)]
  /\ export' = NoExport
  /\ UNCHANGED <<profiling, kernel, kept, ledger, writes, accidents>>

KillExport ==
  /\ export # NoExport /\ Accident
  /\ export' = NoExport
  /\ UNCHANGED <<profiling, kernel, kept, file, clock, ledger, writes>>

RemoveLedger(path) ==
  /\ Write /\ export = NoExport /\ file[path].there # "absent"
  /\ file' = [file EXCEPT ![path] = Absent]
  /\ UNCHANGED <<profiling, kernel, kept, export, clock, ledger, accidents>>

----------------------------------------------------------------------------
(* The daemon's copy of the ledger. *)

NoCache == [status |-> "unavailable", path |-> "none", mtime |-> -1,
            entries |-> {}]

(* _active_path *)
ActivePath ==
  CASE file["primary"].there # "absent" -> "primary"
    [] file["fallback"].there # "absent" -> "fallback"
    [] OTHER -> "none"

(* _maybe_reload *)
MustLoad ==
  IF ActivePath = "none"
    THEN cache.path # "none" \/ cache.status = "ready"
    ELSE ActivePath # cache.path \/ file[ActivePath].mtime # cache.mtime

(* Mutant: a file that does not parse counts as read. *)
CorruptStamped(path) == [cache EXCEPT !.status = "corrupt", !.entries = {},
                           !.path = path, !.mtime = file[path].mtime]
Corrupt(path) == [cache EXCEPT !.status = "corrupt", !.entries = {}, !.path = path]
Ready(path, entries) == [status |-> "ready", path |-> path,
                         mtime |-> file[path].mtime, entries |-> entries]

AnyContext == CHOOSE c \in Contexts : TRUE
FirstTick(at) == [at |-> at, ctx |-> AnyContext, todo |-> <<>>,
                  path |-> "none", text |-> {}, active |-> {}]

(* The rest of a lookup, once the copy is as fresh as it will be: it goes  *)
(* through the entries, the lane is active or not, and the next lookup     *)
(* follows.  The health report asks for no lane.                           *)
Matches(c, actuator) ==
  {e \in c.entries :
     /\ c.status = "ready" /\ e.actuator = actuator
     /\ e.bucket = Bucket(gov.ctx.pl1) /\ e.fps = gov.ctx.fps
     /\ e.kernel = kernel}

Answer(c) ==
  IF gov.todo = <<>>
    THEN FirstTick("idle")
    ELSE [gov EXCEPT
            !.active = @ \union {[entry |-> e, ctx |-> gov.ctx]
                                   : e \in Matches(c, Head(gov.todo))},
            !.todo = Tail(@), !.text = {}, !.path = "none",
            !.at = IF Len(gov.todo) = 1 THEN "idle" ELSE "check",
            !.ctx = IF Len(gov.todo) = 1 THEN AnyContext ELSE @]

(* The lookups of a tick, in order: evaluate_target_balance. *)
ShapingLookups == <<"bg-weight", "bg-uclamp">>
Lookups(phase) ==
  CASE phase = "below-cpu" -> <<"uclamp-min">> \o ShapingLookups
    [] phase = "below-gpu" -> ShapingLookups
    [] phase = "at" -> ShapingLookups \o <<"ladder-step-5", "gpu-cap">>
    [] OTHER -> <<>>

(* A tick first reports the ledger's health.  An unknown phase keeps the   *)
(* lanes of the tick before.                                               *)
Tick(ctx) ==
  /\ gov.at = "idle"
  /\ gov' = [gov EXCEPT !.at = "check", !.ctx = ctx,
               !.todo = <<"health">> \o Lookups(ctx.phase),
               !.active = IF ctx.phase = "unknown" THEN @ ELSE {}]
  /\ UNCHANGED <<profiling, kernel, kept, file, export, clock, cache, writes,
                 accidents>>

Check ==
  /\ gov.at = "check"
  /\ gov' = IF MustLoad THEN [gov EXCEPT !.at = "load"] ELSE Answer(cache)
  /\ UNCHANGED <<profiling, kernel, kept, file, export, clock, cache, writes,
                 accidents>>

(* _load finds the file, reads it and then asks for its time stamp. *)
Load ==
  /\ gov.at = "load"
  /\ IF ActivePath = "none"
       THEN cache' = NoCache /\ gov' = Answer(NoCache)
       ELSE /\ gov' = [gov EXCEPT !.at = "read", !.path = ActivePath]
            /\ UNCHANGED cache
  /\ UNCHANGED <<profiling, kernel, kept, file, export, clock, writes, accidents>>

Read ==
  /\ gov.at = "read"
  /\ IF file[gov.path].there = "whole"
       THEN /\ gov' = [gov EXCEPT !.at = "stat", !.text = file[gov.path].entries]
            /\ UNCHANGED cache
       ELSE /\ cache' = Corrupt(gov.path)
            /\ gov' = Answer(Corrupt(gov.path))
  /\ UNCHANGED <<profiling, kernel, kept, file, export, clock, writes, accidents>>

Stat ==
  /\ gov.at = "stat"
  /\ cache' = IF file[gov.path].there = "absent" THEN Corrupt(gov.path)
                                                 ELSE Ready(gov.path, gov.text)
  /\ gov' = Answer(cache')
  /\ UNCHANGED <<profiling, kernel, kept, file, export, clock, writes, accidents>>

(* An update of the OS: another kernel, /run is empty, whatever ran is     *)
(* gone, and the daemon starts again.                                      *)
Reboot ==
  /\ kernel = 1 /\ Accident
  /\ kernel' = 2
  /\ session' = [session EXCEPT !.at = 0]
  /\ export' = NoExport
  /\ file' = [file EXCEPT !["fallback"] = Absent]
  /\ cache' = NoCache /\ gov' = FirstTick("load")
  /\ UNCHANGED <<root, source, kept, clock, writes>>

----------------------------------------------------------------------------
VerdictInit ==
  /\ root = <<>> /\ session = NoSession /\ source = "ac" /\ kernel = 1
  /\ kept = {} /\ file = [p \in Paths |-> Absent] /\ export = NoExport
  /\ clock = 0 /\ cache = NoCache /\ gov = FirstTick("load")
  /\ writes = 0 /\ accidents = 0

(* The profiler and the daemon share no state: a step of one commutes with *)
(* every step of the other, and it is enough to let the profiler step      *)
(* between ticks, while an export may still read what it records.          *)
Profile ==
  /\ gov.at = "idle" /\ export = NoExport /\ writes < MaxWrites
  /\ \/ \E plan \in Plans : StartSession(plan)
     \/ \E how \in Flaws \union {"fine"} : RecordRun(how)
     \/ AbortSession \/ MovePlug

SomeRoots == (SUBSET (1..session.n)) \ {{}}
Operate ==
  \/ \E path \in Paths, roots \in SomeRoots :
       \/ \E twice \in SUBSET Selected(roots, Candidates, TRUE) :
            ExportRoot(path, roots, twice, TRUE)
       \/ ExportRoot(path, roots, {}, FALSE)
  \/ \E roots \in SomeRoots : SaveReport(roots)
  \/ \E path \in Paths : ExportReport(path) \/ RemoveLedger(path)
  \/ FinishExport \/ KillExport \/ Reboot

Work == Check \/ Load \/ Read \/ Stat
Daemon == (\E ctx \in Contexts : Tick(ctx)) \/ Work

VerdictNext == Profile \/ Operate \/ Daemon

VerdictSpec == VerdictInit /\ [][VerdictNext]_verdictVars
(* The daemon's loop goes on; nothing else has to happen. *)
FairVerdictSpec == VerdictSpec /\ WF_verdictVars(Daemon)

----------------------------------------------------------------------------
Policies == Candidates \union {"off"}
EntryRuns(e) == {root[i] : i \in e.runs}

(* Types: entries lie in a bucket and name an actuator and recorded runs,  *)
(* and a copy that is not ready holds nothing.                             *)
VerdictTypeOK ==
  /\ session.n \in 0..MaxSessions /\ session.at \in 0..3
  /\ session.pair \in 0..Repeats
  /\ \A i \in DOMAIN root : /\ root[i].policy \in Policies
                            /\ root[i].source \in {"ac", "battery", "mixed"}
  /\ source \in {"ac", "battery"} /\ kernel \in {1, 2}
  /\ \A p \in Paths : /\ file[p].there \in {"absent", "broken", "whole"}
                      /\ file[p].there # "whole" => file[p].entries = {}
                      /\ file[p].mtime \in 0..clock
  /\ \A e \in (UNION {file[p].entries : p \in Paths})
              \union export.entries \union cache.entries :
       /\ e.bucket \in Buckets
       /\ e.actuator \in UNION {ActuatorsOf(p) : p \in Policies}
       /\ e.runs \subseteq DOMAIN root /\ e.runs # {}
  /\ cache.status \in {"unavailable", "corrupt", "ready"}
  /\ cache.status # "ready" => cache.entries = {}
  /\ gov.at \in {"idle", "check", "load", "read", "stat"}
  /\ clock \in 0..(2 * MaxWrites) /\ writes \in 0..MaxWrites
  /\ accidents \in 0..MaxAccidents

(* What a pair has to be: one run in each position, none of them spoilt,   *)
(* and the baselines as warm as the candidate at the start.                *)
FairPair(runs, id) ==
  LET pair == {r \in runs : r.id = id}
  IN /\ Cardinality(pair) = 3
     /\ \A position \in {"baseline-before", "candidate", "baseline-after"} :
          \E r \in pair : r.position = position
     /\ \A r \in pair : r.controlled /\ r.restored /\ r.cooled
     /\ \A r, q \in pair : r.position = "candidate" =>
          AbDelta(r.start, q.start) <= 5

(* A lane the daemon has unlocked rests on a BETTER verdict measured in    *)
(* at least MinRuns whole pairs of its own control, at the TDP bucket and  *)
(* frame target the daemon saw, on one power source and in one scene; the  *)
(* lane that needs it has its restore evidence in every candidate run      *)
(* (docs/design.md:126, export_verdicts).  It is about the pairs and what  *)
(* they were measured in, not about the figures of the comparison.         *)
UnlockHasEvidence ==
  \A a \in gov.active :
    LET runs == EntryRuns(a.entry)
        ids == {r.id : r \in runs}
    IN /\ Cardinality(ids) >= MinRuns
       /\ \A id \in ids : FairPair(runs, id)
       /\ Cardinality({r.scene : r \in runs}) = 1
       /\ {r.source : r \in runs} \in {{"ac"}, {"battery"}}
       /\ \A r \in runs : /\ r.policy \in Policies
                          /\ Bucket(r.tdp) = Bucket(a.ctx.pl1)
                          /\ r.fps = a.ctx.fps
       /\ \A r \in runs : r.policy # "off" =>
            /\ a.entry.actuator \in ActuatorsOf(r.policy)
            /\ a.entry.actuator = "uclamp-min" => r.proof

(* The file changed between the daemon's read and its stat: it holds what  *)
(* it read under the stamp of what followed, and cannot know.              *)
Overtaken ==
  /\ cache.status = "ready" /\ cache.path = ActivePath
  /\ file[ActivePath].mtime = cache.mtime

UpToDate ==
  IF ActivePath # "none" /\ file[ActivePath].there = "whole"
    THEN cache.status = "ready" /\ cache.path = ActivePath
         /\ cache.entries = file[ActivePath].entries
    ELSE cache.entries = {}

(* Once the ledger is left alone the daemon's copy agrees with the file    *)
(* that counts, also after it met that file empty, half written or gone,   *)
(* unless the change came between the read and the stat of one load.       *)
LedgerCatchesUp == <>[](UpToDate \/ Overtaken)

(* docs/design.md:126 has no such exception: "a missing or corrupt ledger  *)
(* disables every gated lane".                                             *)
CorruptDisables ==
  <>[](ActivePath = "none" \/ file[ActivePath].there = "whole"
       \/ cache.entries = {})

=============================================================================
