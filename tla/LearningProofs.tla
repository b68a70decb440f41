--------------------------- MODULE LearningProofs ---------------------------
(***************************************************************************)
(* A tick, a switch of mode and a stop are compositions of operators on    *)
(* the governor's record: each operator gets a lemma that says what it     *)
(* changes, and the invariant is stated over a record, a history and a     *)
(* number of ticks, so that it can be carried from one operator to the     *)
(* next inside a step.                                                     *)
(*                                                                         *)
(* The invariant has the controller in step with the log of its session,   *)
(* the knob in step with what the session found, and the store and its     *)
(* file within what the clean sessions showed.                             *)
(***************************************************************************)
EXTENDS Learning, FiniteSetTheorems, SequenceTheorems, TLAPS

(* The records of the store.                                                *)
Aggregates == [sessions : Nat, samples : Nat, positives : Nat, at : 0 .. MaxClock]
Entries == [sessions : Nat, samples : Nat, positives : Nat, at : 0 .. MaxClock,
            contradicted : Nat]

(* The samples that spoke for tuning.                                       *)
Hits(log) == {i \in DOMAIN log : log[i]}

(* Threshold samples in a row that told against the hint.                   *)
Refuted(log) ==
  \E i \in 1 .. Len(log) - Threshold + 1 : \A j \in i .. i + Threshold - 1 : ~ log[j]

(* A record that claims no more than the clean sessions of its context.     *)
Within(r, clean) ==
  /\ r.sessions <= clean.sessions /\ r.samples <= clean.samples
  /\ r.positives <= clean.positives

(* An entry that was promoted for its sessions, samples and ratio.          *)
Earned(entry) ==
  entry # NoEntry =>
    /\ entry.sessions >= MinSessions /\ entry.samples >= MinSamples
    /\ 100 * entry.positives >= MinRatio * entry.samples

(* A store whose records claim nothing that was not shown.                  *)
Backed(store, clean) ==
  \A k \in Keys : /\ Within(store.aggregates[k], clean[k])
                  /\ Within(store.entries[k], clean[k])
                  /\ Earned(store.entries[k])

(* A store that forgets no contradicted session.                            *)
Counted(store, offences) ==
  \A k \in Keys : offences[k] <= store.entries[k].contradicted

(* What LearningAssumption says of the numbers.                             *)
LEMMA Numbers ==
  /\ {Activate, Hinted, RestoreAfter, Threshold, MinSessions, MinSamples,
      Limit} \subseteq Nat \ {0}
  /\ {Window, MinRatio, HintAge, AggregateAge, MaxTicks, MaxSession, MaxClock,
      MaxFaults} \subseteq Nat
BY LearningAssumption

(* The last n elements of a log, or all of them.                            *)
LEMMA LastNFacts ==
  ASSUME NEW q \in Seq(BOOLEAN), NEW n \in Nat
  PROVE  /\ LastN(q, n) \in Seq(BOOLEAN)
         /\ Len(q) > n => Len(LastN(q, n)) = n
         /\ Len(q) <= n => Len(LastN(q, n)) = Len(q)
         /\ \A i \in 1 .. Len(LastN(q, n)) :
              LastN(q, n)[i] = q[Len(q) - Len(LastN(q, n)) + i]
<1> DEFINE m == IF Len(q) > n THEN Len(q) - n + 1 ELSE 1
<1>1. /\ Len(q) \in Nat /\ m \in 1 .. Len(q) + 1
      /\ Len(q) > n => Len(q) - m + 1 = n
      /\ Len(q) <= n => m = 1
  OBVIOUS
<1>0. LastN(q, n) = SubSeq(q, m, Len(q))
  BY DEF LastN
<1> HIDE DEF m
<1>2. \A i \in m .. Len(q) : q[i] \in BOOLEAN
  BY <1>1
<1>3. /\ SubSeq(q, m, Len(q)) \in Seq(BOOLEAN)
      /\ Len(SubSeq(q, m, Len(q))) = IF m <= Len(q) THEN Len(q) - m + 1 ELSE 0
      /\ \A i \in 1 .. Len(q) - m + 1 : SubSeq(q, m, Len(q))[i] = q[m + i - 1]
  <2>1. m \in Int /\ Len(q) \in Int
    BY <1>1
  <2>2. QED
    BY <1>2, <2>1, SubSeqProperties
<1>5. Len(SubSeq(q, m, Len(q))) = Len(q) - m + 1
  BY <1>1, <1>3
<1>6. \A i \in 1 .. Len(LastN(q, n)) : Len(q) - Len(LastN(q, n)) + i = m + i - 1
  BY <1>0, <1>1, <1>5
<1>7. Len(LastN(q, n)) = Len(q) - m + 1
  BY <1>0, <1>5
<1>8. \A i \in 1 .. Len(LastN(q, n)) :
        LastN(q, n)[i] = q[Len(q) - Len(LastN(q, n)) + i]
  BY <1>0, <1>3, <1>6, <1>7
<1>9. /\ Len(q) > n => Len(LastN(q, n)) = n
      /\ Len(q) <= n => Len(LastN(q, n)) = Len(q)
  BY <1>1, <1>7
<1>10. QED
  BY <1>0, <1>3, <1>8, <1>9

(* To keep the last of a log is to keep the last of what was kept.         *)
LEMMA LastOfLast ==
  ASSUME NEW q \in Seq(BOOLEAN), NEW x \in BOOLEAN, NEW n \in Nat
  PROVE  LastN(Append(LastN(q, n), x), n) = LastN(Append(q, x), n)
<1>1. PICK r \in Seq(BOOLEAN) : r = LastN(q, n)
  BY LastNFacts
<1>2. PICK ra \in Seq(BOOLEAN) : ra = Append(r, x)
  BY AppendProperties
<1>3. PICK qa \in Seq(BOOLEAN) : qa = Append(q, x)
  BY AppendProperties
<1>4. PICK a \in Seq(BOOLEAN) : a = LastN(ra, n)
  BY LastNFacts
<1>5. PICK b \in Seq(BOOLEAN) : b = LastN(qa, n)
  BY LastNFacts
<1>6. /\ Len(q) > n => Len(r) = n
      /\ Len(q) <= n => Len(r) = Len(q)
      /\ \A i \in 1 .. Len(r) : r[i] = q[Len(q) - Len(r) + i]
  BY <1>1, LastNFacts
<1>7. /\ Len(ra) = Len(r) + 1 /\ ra[Len(r) + 1] = x
      /\ \A i \in 1 .. Len(r) : ra[i] = r[i]
  BY <1>2, AppendProperties
<1>8. /\ Len(qa) = Len(q) + 1 /\ qa[Len(q) + 1] = x
      /\ \A i \in 1 .. Len(q) : qa[i] = q[i]
  BY <1>3, AppendProperties
<1>9. /\ Len(ra) > n => Len(a) = n
      /\ Len(ra) <= n => Len(a) = Len(ra)
      /\ \A i \in 1 .. Len(a) : a[i] = ra[Len(ra) - Len(a) + i]
  BY <1>4, LastNFacts
<1>10. /\ Len(qa) > n => Len(b) = n
       /\ Len(qa) <= n => Len(b) = Len(qa)
       /\ \A i \in 1 .. Len(b) : b[i] = qa[Len(qa) - Len(b) + i]
  BY <1>5, LastNFacts
<1>11. {Len(q), Len(r), Len(ra), Len(qa), Len(a), Len(b)} \subseteq Nat
  OBVIOUS
<1>12. Len(a) = Len(b) /\ Len(a) <= Len(ra) /\ Len(b) <= Len(qa)
  BY <1>6, <1>7, <1>8, <1>9, <1>10, <1>11
<1>13. ASSUME NEW i \in 1 .. Len(a) PROVE a[i] = b[i]
  <2>1. a[i] = ra[Len(ra) - Len(a) + i] /\ b[i] = qa[Len(qa) - Len(a) + i]
    BY <1>9, <1>10, <1>12
  <2>2. CASE i = Len(a)
    BY <2>1, <2>2, <1>7, <1>8, <1>11
  <2>3. CASE i < Len(a)
    <3> DEFINE j == Len(ra) - Len(a) + i
               k == Len(qa) - Len(a) + i
    <3>1. j \in 1 .. Len(r) /\ k \in 1 .. Len(q)
      BY <2>3, <1>7, <1>8, <1>11, <1>12
    <3>2. ra[j] = r[j] /\ qa[k] = q[k] /\ r[j] = q[Len(q) - Len(r) + j]
      BY <3>1, <1>6, <1>7, <1>8
    <3>3. Len(q) - Len(r) + j = k
      BY <1>7, <1>8, <1>11
    <3>4. QED
      BY <2>1, <3>2, <3>3
  <2>4. QED
    BY <2>2, <2>3, <1>11
<1>14. a = b
  BY <1>12, <1>13, SeqEqual
<1>15. QED
  BY <1>1, <1>2, <1>3, <1>4, <1>5, <1>14

(* One more sample of a log.                                               *)
LEMMA HitsOfMore ==
  ASSUME NEW q \in Seq(BOOLEAN), NEW x \in BOOLEAN
  PROVE  /\ IsFiniteSet(Hits(q)) /\ Cardinality(Hits(q)) \in 0 .. Len(q)
         /\ Cardinality(Hits(Append(q, x))) = Cardinality(Hits(q)) + (IF x THEN 1 ELSE 0)
<1>1. Hits(q) \subseteq 1 .. Len(q)
  BY DEF Hits
<1>2. IsFiniteSet(1 .. Len(q)) /\ Cardinality(1 .. Len(q)) = Len(q)
  BY FS_Interval
<1>3. IsFiniteSet(Hits(q)) /\ Cardinality(Hits(q)) <= Len(q)
  BY <1>1, <1>2, FS_Subset
<1>4. Cardinality(Hits(q)) \in Nat
  BY <1>3, FS_CardinalityType
<1>5. Hits(Append(q, x)) = IF x THEN Hits(q) \cup {Len(q) + 1} ELSE Hits(q)
  BY DEF Hits
<1>6. Len(q) + 1 \notin Hits(q)
  BY <1>1
<1>7. Cardinality(Hits(q) \cup {Len(q) + 1}) = Cardinality(Hits(q)) + 1
  BY <1>3, <1>6, FS_AddElement
<1>8. QED
  BY <1>3, <1>4, <1>5, <1>7

(* The last n samples of a log all show x.                                  *)
Ends(log, n, x) ==
  n <= Len(log) /\ \A i \in Len(log) - n + 1 .. Len(log) : log[i] = x

(* The states of the controller.                                            *)
Controllers ==
  [hint : Entries, positive : Nat, negative : Nat, active : BOOLEAN, disabled : BOOLEAN,
   streak : Nat, total : Nat, recent : Seq(BOOLEAN)]

(* The controller keeps the window and the run at the end of the log, and   *)
(* has disabled its hint exactly when the log refutes it.                   *)
RunOf(c, log) ==
  /\ c.recent = LastN(log, Window)
  /\ Ends(log, c.positive, TRUE)
  /\ c.hint # NoEntry => (c.disabled <=> Refuted(log))
  /\ c.hint # NoEntry /\ ~c.disabled =>
       /\ Ends(log, c.streak, FALSE) /\ c.streak < Threshold
       /\ c.streak < Len(log) => log[Len(log) - c.streak]

(* One more sample prolongs the run at the end, or begins another.          *)
LEMMA EndsMore ==
  ASSUME NEW q \in Seq(BOOLEAN), NEW x \in BOOLEAN, NEW n \in Nat, NEW y \in BOOLEAN
  PROVE  /\ Ends(Append(q, x), n + 1, y) <=> x = y /\ Ends(q, n, y)
         /\ Ends(q, 0, y)
<1>1. PICK a \in Seq(BOOLEAN) : a = Append(q, x)
  BY AppendProperties
<1>2. /\ Len(a) = Len(q) + 1 /\ a[Len(q) + 1] = x
      /\ \A i \in 1 .. Len(q) : a[i] = q[i]
  BY <1>1, AppendProperties
<1>3. Len(q) \in Nat
  OBVIOUS
<1>4. ASSUME Ends(a, n + 1, y) PROVE x = y /\ Ends(q, n, y)
  <2>1. n <= Len(q) /\ \A i \in Len(q) - n + 1 .. Len(q) + 1 : a[i] = y
    BY <1>2, <1>3, <1>4 DEF Ends
  <2>2. a[Len(q) + 1] = y
    BY <2>1, <1>3
  <2>3. \A i \in Len(q) - n + 1 .. Len(q) : i \in 1 .. Len(q) /\ a[i] = y
    BY <2>1, <1>3
  <2>4. QED
    BY <1>2, <2>1, <2>2, <2>3 DEF Ends
<1>5. ASSUME x = y, Ends(q, n, y) PROVE Ends(a, n + 1, y)
  <2>1. n <= Len(q) /\ \A i \in Len(q) - n + 1 .. Len(q) : q[i] = y
    BY <1>5 DEF Ends
  <2>2. ASSUME NEW i \in Len(q) - n + 1 .. Len(q) + 1 PROVE a[i] = y
    <3>1. CASE i = Len(q) + 1
      BY <3>1, <1>2, <1>5
    <3>2. CASE i # Len(q) + 1
      BY <3>2, <2>1, <1>2, <1>3
    <3>3. QED
      BY <3>1, <3>2
  <2>3. Len(a) - (n + 1) + 1 = Len(q) - n + 1 /\ n + 1 <= Len(a)
    BY <1>2, <1>3, <2>1
  <2>4. QED
    BY <1>2, <2>2, <2>3 DEF Ends
<1>6. Ends(q, 0, y)
  BY <1>3 DEF Ends
<1>7. QED
  BY <1>1, <1>4, <1>5, <1>6

(* A log is refuted by one more sample when that ends the first long run.   *)
LEMMA RefutedMore ==
  ASSUME NEW q \in Seq(BOOLEAN), NEW x \in BOOLEAN
  PROVE  Refuted(Append(q, x)) <=> Refuted(q) \/ Ends(Append(q, x), Threshold, FALSE)
<1>1. PICK a \in Seq(BOOLEAN) : a = Append(q, x)
  BY AppendProperties
<1>2. /\ Len(a) = Len(q) + 1 /\ a[Len(q) + 1] = x
      /\ \A i \in 1 .. Len(q) : a[i] = q[i]
  BY <1>1, AppendProperties
<1>3. Len(q) \in Nat /\ Threshold \in Nat /\ Threshold # 0
  BY Numbers
<1>4. ASSUME Refuted(a) PROVE Refuted(q) \/ Ends(a, Threshold, FALSE)
  <2>1. PICK i \in 1 .. Len(a) - Threshold + 1 : \A j \in i .. i + Threshold - 1 : ~a[j]
    BY <1>4 DEF Refuted
  <2>2. CASE i = Len(a) - Threshold + 1
    <3>1. i + Threshold - 1 = Len(a) /\ Threshold <= Len(a)
      BY <2>2, <1>2, <1>3
    <3>2. \A j \in Len(a) - Threshold + 1 .. Len(a) : a[j] = FALSE
      <4>1. ASSUME NEW j \in Len(a) - Threshold + 1 .. Len(a) PROVE a[j] = FALSE
        <5>1. j \in 1 .. Len(a)
          BY <1>2, <1>3, <3>1
        <5>2. a[j] \in BOOLEAN /\ ~a[j]
          BY <2>1, <2>2, <3>1, <5>1
        <5>3. QED
          BY <5>2
      <4>2. QED
        BY <4>1
    <3>3. QED
      BY <3>1, <3>2 DEF Ends
  <2>3. CASE i # Len(a) - Threshold + 1
    <3>1. i \in 1 .. Len(q) - Threshold + 1
      BY <2>3, <1>2, <1>3
    <3>2. \A j \in i .. i + Threshold - 1 : j \in 1 .. Len(q)
      BY <3>1, <1>3
    <3>3. \A j \in i .. i + Threshold - 1 : ~q[j]
      BY <2>1, <3>2, <1>2
    <3>4. QED
      BY <3>1, <3>3 DEF Refuted
  <2>4. QED
    BY <2>2, <2>3
<1>5. ASSUME Refuted(q) PROVE Refuted(a)
  <2>1. PICK i \in 1 .. Len(q) - Threshold + 1 : \A j \in i .. i + Threshold - 1 : ~q[j]
    BY <1>5 DEF Refuted
  <2>2. \A j \in i .. i + Threshold - 1 : j \in 1 .. Len(q)
    BY <1>3
  <2>3. i \in 1 .. Len(a) - Threshold + 1 /\ \A j \in i .. i + Threshold - 1 : ~a[j]
    BY <2>1, <2>2, <1>2, <1>3
  <2>4. QED
    BY <2>3 DEF Refuted
<1>6. ASSUME Ends(a, Threshold, FALSE) PROVE Refuted(a)
  <2>1. Len(a) - Threshold + 1 \in 1 .. Len(a) - Threshold + 1
    BY <1>2, <1>3, <1>6 DEF Ends
  <2>2. (Len(a) - Threshold + 1) + Threshold - 1 = Len(a)
    BY <1>2, <1>3
  <2>3. QED
    BY <1>6, <2>1, <2>2 DEF Ends, Refuted
<1>7. QED
  BY <1>1, <1>4, <1>5, <1>6

(* What one sample does to the counters.                                    *)
LEMMA ObservedFields ==
  ASSUME NEW c \in Controllers, NEW p \in BOOLEAN
  PROVE  LET d == Observed(c, p) IN
         /\ d \in Controllers
         /\ d.hint = c.hint /\ d.active = c.active
         /\ d.positive = IF p THEN c.positive + 1 ELSE 0
         /\ d.negative = IF p THEN 0 ELSE c.negative + 1
         /\ d.recent = LastN(Append(c.recent, p), Window)
         /\ d.streak = IF ~HintAvailable(c) THEN c.streak ELSE IF p THEN 0 ELSE c.streak + 1
         /\ d.total = IF HintAvailable(c) /\ ~p THEN c.total + 1 ELSE c.total
         /\ d.disabled <=>
              c.disabled \/ (HintAvailable(c) /\ ~p /\ c.streak + 1 >= Threshold)
<1>1. LastN(Append(c.recent, p), Window) \in Seq(BOOLEAN)
  <2>1. Append(c.recent, p) \in Seq(BOOLEAN)
    BY AppendProperties DEF Controllers
  <2>2. QED
    BY <2>1, LastNFacts, Numbers
<1> DEFINE r == LastN(Append(c.recent, p), Window)
           h == HintAvailable(c)
<1>2. h \in BOOLEAN
  BY DEF HintAvailable
<1> DEFINE k == IF ~h THEN c.streak ELSE IF p THEN 0 ELSE c.streak + 1
<1>3. Observed(c, p) =
        [c EXCEPT !.positive = IF p THEN @ + 1 ELSE 0,
                  !.negative = IF p THEN 0 ELSE @ + 1,
                  !.recent = r, !.streak = k,
                  !.total = IF h /\ ~p THEN @ + 1 ELSE @,
                  !.disabled = @ \/ ((h /\ ~p) /\ k >= Threshold)]
  BY DEF Observed
<1> HIDE DEF r, h, k
<1>4. c = [hint |-> c.hint, positive |-> c.positive, negative |-> c.negative,
           active |-> c.active, disabled |-> c.disabled, streak |-> c.streak,
           total |-> c.total, recent |-> c.recent]
  BY DEF Controllers
<1>5. Observed(c, p) =
        [hint |-> c.hint, positive |-> IF p THEN c.positive + 1 ELSE 0,
         negative |-> IF p THEN 0 ELSE c.negative + 1, active |-> c.active,
         disabled |-> c.disabled \/ ((h /\ ~p) /\ k >= Threshold),
         streak |-> k, total |-> IF h /\ ~p THEN c.total + 1 ELSE c.total, recent |-> r]
  BY <1>3, <1>4
<1>6. k \in Nat /\ (h /\ ~p => k = c.streak + 1)
  BY <1>2 DEF k, Controllers
<1>7. Observed(c, p) \in Controllers
  BY <1>1, <1>2, <1>5, <1>6 DEF Controllers, r
<1> DEFINE d == Observed(c, p)
<1>8. /\ d.hint = c.hint /\ d.active = c.active
      /\ d.positive = IF p THEN c.positive + 1 ELSE 0
      /\ d.negative = IF p THEN 0 ELSE c.negative + 1
      /\ d.recent = r /\ d.streak = k
      /\ d.total = IF h /\ ~p THEN c.total + 1 ELSE c.total
  BY <1>5
<1>9. d.disabled <=> c.disabled \/ (h /\ ~p /\ c.streak + 1 >= Threshold)
  <2>1. d.disabled = (c.disabled \/ ((h /\ ~p) /\ k >= Threshold))
    BY <1>5
  <2>2. QED
    BY <2>1, <1>6
<1> HIDE DEF d
<1>10. d \in Controllers
  BY <1>7 DEF d
<1>11. QED
  BY <1>8, <1>9, <1>10 DEF d, r, h, k

(* The counters and the window keep up with the log of the session, and the *)
(* hint is disabled exactly when the log refutes it.                        *)
LEMMA ObservedRun ==
  ASSUME NEW c \in Controllers, NEW log \in Seq(BOOLEAN), NEW p \in BOOLEAN, RunOf(c, log)
  PROVE  RunOf(Observed(c, p), Append(log, p))
<1>1. PICK d \in Controllers : d = Observed(c, p)
  BY ObservedFields
<1>2. /\ d.hint = c.hint /\ d.positive = IF p THEN c.positive + 1 ELSE 0
      /\ d.recent = LastN(Append(c.recent, p), Window)
      /\ d.streak = IF ~HintAvailable(c) THEN c.streak ELSE IF p THEN 0 ELSE c.streak + 1
      /\ d.disabled <=> c.disabled \/ (HintAvailable(c) /\ ~p /\ c.streak + 1 >= Threshold)
  BY <1>1, ObservedFields
<1>3. PICK a \in Seq(BOOLEAN) : a = Append(log, p)
  BY AppendProperties
<1>4. c.positive \in Nat /\ c.streak \in Nat /\ Threshold \in Nat /\ Threshold # 0
  BY Numbers DEF Controllers
<1>5. d.recent = LastN(a, Window)
  BY <1>2, <1>3, LastOfLast, Numbers DEF RunOf
<1>6. Ends(a, d.positive, TRUE)
  <2>1. CASE p
    <3>1. p = TRUE /\ d.positive = c.positive + 1 /\ Ends(log, c.positive, TRUE)
      BY <2>1, <1>2 DEF RunOf
    <3>2. Ends(Append(log, p), c.positive + 1, TRUE)
            <=> p = TRUE /\ Ends(log, c.positive, TRUE)
      BY <1>4, EndsMore
    <3>3. QED
      BY <3>1, <3>2, <1>3
  <2>2. CASE ~p
    BY <2>2, <1>2, <1>3, EndsMore
  <2>3. QED
    BY <2>1, <2>2
<1>7. /\ Refuted(a) <=> Refuted(log) \/ Ends(a, Threshold, FALSE)
      /\ Len(a) = Len(log) + 1 /\ a[Len(log) + 1] = p
      /\ \A i \in 1 .. Len(log) : a[i] = log[i]
  <2>1. Refuted(a) <=> Refuted(log) \/ Ends(a, Threshold, FALSE)
    BY <1>3, RefutedMore
  <2>2. /\ Len(a) = Len(log) + 1 /\ a[Len(log) + 1] = p
        /\ \A i \in 1 .. Len(log) : a[i] = log[i]
    BY <1>3, AppendProperties
  <2>3. QED
    BY <2>1, <2>2
<1>8. ASSUME c.hint # NoEntry, c.disabled PROVE d.disabled /\ Refuted(a)
  BY <1>2, <1>7, <1>8 DEF RunOf
<1>9. ASSUME c.hint # NoEntry, ~c.disabled, p
      PROVE  /\ ~d.disabled /\ ~Refuted(a)
             /\ Ends(a, d.streak, FALSE) /\ d.streak < Threshold
             /\ d.streak < Len(a) => a[Len(a) - d.streak]
  <2>1. ~d.disabled /\ d.streak = 0
    BY <1>2, <1>9 DEF HintAvailable
  <2>2. ~Ends(a, Threshold, FALSE)
    <3>1. Threshold - 1 \in Nat /\ (Threshold - 1) + 1 = Threshold
      BY <1>4
    <3>2. PICK m \in Nat : m = Threshold - 1
      BY <3>1
    <3>3. Ends(Append(log, p), m + 1, FALSE) <=> p = FALSE /\ Ends(log, m, FALSE)
      BY EndsMore
    <3>4. ~(p = FALSE)
      BY <1>9
    <3>5. QED
      BY <3>1, <3>2, <3>3, <3>4, <1>3
  <2>3. ~Refuted(a)
    BY <2>2, <1>7, <1>9 DEF RunOf
  <2>4. Ends(a, 0, FALSE)
    BY <1>3, EndsMore DEF Ends
  <2>5. a[Len(a) - d.streak]
    <3>1. Len(log) \in Nat
      OBVIOUS
    <3>2. Len(a) - d.streak = Len(log) + 1
      BY <3>1, <2>1, <1>7
    <3>3. QED
      BY <3>2, <1>7, <1>9
  <2>6. Ends(a, d.streak, FALSE)
    BY <2>1, <2>4
  <2>7. d.streak < Threshold
    BY <2>1, <1>4
  <2>8. QED
    BY <2>1, <2>3, <2>5, <2>6, <2>7
<1>10. ASSUME c.hint # NoEntry, ~c.disabled, ~p
       PROVE  /\ d.disabled <=> Refuted(a)
              /\ ~d.disabled =>
                   /\ Ends(a, d.streak, FALSE) /\ d.streak < Threshold
                   /\ d.streak < Len(a) => a[Len(a) - d.streak]
  <2>1. /\ d.streak = c.streak + 1
        /\ d.disabled <=> c.streak + 1 >= Threshold
    BY <1>2, <1>10 DEF HintAvailable
  <2>2. /\ Ends(log, c.streak, FALSE) /\ c.streak < Threshold /\ ~Refuted(log)
        /\ c.streak < Len(log) => log[Len(log) - c.streak]
    BY <1>10 DEF RunOf
  <2>3. Ends(a, c.streak + 1, FALSE)
    BY <2>2, <1>3, <1>4, <1>10, EndsMore
  <2>4. c.streak + 1 < Len(a) => a[Len(a) - (c.streak + 1)]
    <3>1. Len(log) \in Nat
      OBVIOUS
    <3>2. c.streak + 1 < Len(a) =>
            /\ Len(log) - c.streak \in 1 .. Len(log)
            /\ Len(a) - (c.streak + 1) = Len(log) - c.streak
      BY <3>1, <1>4, <1>7
    <3>3. QED
      BY <3>1, <3>2, <2>2, <1>4, <1>7
  <2>5. Ends(a, Threshold, FALSE) <=> c.streak + 1 >= Threshold
    <3>1. ASSUME Ends(a, Threshold, FALSE), c.streak + 1 < Threshold PROVE FALSE
      <4>1. Len(a) \in Nat /\ Threshold <= Len(a)
        BY <3>1 DEF Ends
      <4>2. /\ c.streak + 1 < Len(a)
            /\ Len(a) - (c.streak + 1) \in Len(a) - Threshold + 1 .. Len(a)
        BY <4>1, <3>1, <1>4
      <4>3. QED
        BY <4>2, <2>4, <3>1 DEF Ends
    <3>2. ASSUME c.streak + 1 >= Threshold PROVE Ends(a, Threshold, FALSE)
      <4>1. c.streak + 1 = Threshold
        BY <3>2, <2>2, <1>4
      <4>2. QED
        BY <4>1, <2>3
    <3>3. c.streak + 1 < Threshold \/ c.streak + 1 >= Threshold
      BY <1>4
    <3>4. CASE c.streak + 1 < Threshold
      <4>1. ~(c.streak + 1 >= Threshold)
        BY <3>4, <1>4
      <4>2. QED
        BY <3>1, <3>4, <4>1
    <3>5. QED
      BY <3>2, <3>3, <3>4
  <2>6. d.disabled <=> Refuted(a)
    BY <2>1, <2>2, <2>5, <1>7
  <2>7. ~d.disabled => d.streak < Threshold
    BY <2>1, <1>4
  <2>8. QED
    BY <2>1, <2>3, <2>4, <2>6, <2>7
<1>11. QED
  BY <1>1, <1>2, <1>3, <1>5, <1>6, <1>8, <1>9, <1>10 DEF RunOf

(* What the controller asks for when it starts to tune.                     *)
Evidence(c, log) ==
  LET n == IF c.hint # NoEntry /\ ~Refuted(log) THEN Hinted ELSE Activate
  IN /\ Len(log) >= n
     /\ \A i \in Len(log) - n + 1 .. Len(log) : log[i]
     /\ Window > 1 => Majority(LastN(log, Window), TRUE)

(* It tunes only when the log has what it asks for.                         *)
LEMMA DecisionHasEvidence ==
  ASSUME NEW c \in Controllers, NEW log \in Seq(BOOLEAN), RunOf(c, log), NEW k,
         Decision(c, k) \in {"epp", "cap"}
  PROVE  Evidence(c, log)
<1> DEFINE n == Required(c)
<1>1. c.positive >= n /\ RollingReady(c, n, TRUE)
  BY DEF Decision
<1>2. n = IF c.hint # NoEntry /\ ~Refuted(log) THEN Hinted ELSE Activate
  BY DEF Required, HintAvailable, RunOf
<1>3. n \in Nat /\ Window \in Nat /\ c.positive \in Nat /\ Len(log) \in Nat
  BY Numbers DEF Required, Controllers
<1> HIDE DEF n
<1>4. /\ c.positive <= Len(log)
      /\ \A i \in Len(log) - c.positive + 1 .. Len(log) : log[i] = TRUE
  BY DEF RunOf, Ends
<1>5. Len(log) >= n /\ \A i \in Len(log) - n + 1 .. Len(log) : log[i]
  BY <1>1, <1>3, <1>4
<1>6. Window > 1 => Majority(LastN(log, Window), TRUE)
  <2>1. c.recent = LastN(log, Window)
    BY DEF RunOf
  <2>2. Window > 1 => ~(Window <= 1)
    BY <1>3
  <2>3. QED
    BY <1>1, <2>1, <2>2 DEF RollingReady
<1>7. QED
  BY <1>2, <1>5, <1>6 DEF Evidence

(* No sample, no evidence.                                                  *)
LEMMA NewRun ==
  ASSUME NEW hint \in Entries
  PROVE  RunOf(Controller(hint), <<>>) /\ Controller(hint) \in Controllers
<1>1. LastN(<<>>, Window) = <<>>
  <2>1. <<>> \in Seq(BOOLEAN) /\ Len(<<>>) = 0
    OBVIOUS
  <2>2. Window \in Nat /\ 0 <= Window
    BY Numbers
  <2>3. LastN(<<>>, Window) \in Seq(BOOLEAN) /\ Len(LastN(<<>>, Window)) = 0
    BY <2>1, <2>2, LastNFacts
  <2>4. QED
    BY <2>3
<1>2. ~Refuted(<<>>)
  <2>1. Threshold \in Nat /\ Threshold # 0 /\ Len(<<>>) = 0
    BY Numbers
  <2>2. ~\E i \in Int : 1 <= i /\ i <= 0 - Threshold + 1
    BY <2>1
  <2>3. QED
    BY <2>1, <2>2 DEF Refuted
<1>3. Ends(<<>>, 0, TRUE) /\ Ends(<<>>, 0, FALSE)
  BY DEF Ends
<1>4. Controller(hint) \in Controllers
  BY DEF Controller, Controllers
<1>5. QED
  <2>1. Threshold > 0 /\ Len(<<>>) = 0
    BY Numbers
  <2> DEFINE c == Controller(hint)
  <2>2. c.recent = <<>> /\ c.positive = 0 /\ c.streak = 0 /\ c.disabled = FALSE
    BY DEF Controller
  <2> HIDE DEF c
  <2>3. ~(0 < 0)
    OBVIOUS
  <2>4. RunOf(c, <<>>)
    BY <1>1, <1>2, <1>3, <2>1, <2>2, <2>3 DEF RunOf
  <2>5. QED
    BY <1>4, <2>4 DEF c

(* The states of the governor.                                              *)
Sessions ==
  [samples : Nat, positives : Nat, applied : BOOLEAN, contradictions : Nat,
   disabled : BOOLEAN, failed : BOOLEAN, attempted : BOOLEAN, restored : BOOLEAN,
   open : BOOLEAN]

States ==
  [up : BOOLEAN, on : BOOLEAN, context : Contexts \union {NoContext}, session : Sessions,
   ctl : Controllers, snap : CpuStates \union {NoSnapshot}, latched : BOOLEAN,
   store : Stores, file : [readable : BOOLEAN, store : Stores], unsaved : BOOLEAN,
   cpu : CpuStates]

(* What the knob and its snapshot have to do with the session.  A restore   *)
(* that failed sets the latch, and then nothing is tuned any more.          *)
KnobOf(s, found) ==
  /\ s.latched => s.snap = NoSnapshot
  /\ ~s.session.open => s.snap = NoSnapshot
  /\ s.session.open =>
       IF s.snap # NoSnapshot THEN s.snap = found
       ELSE s.cpu = found \/ (s.latched /\ s.session.attempted /\ ~s.session.restored)

(* Two states of the governor that differ in the knob and its bookkeeping.  *)
SameBut(s, t) ==
  /\ t.up = s.up /\ t.on = s.on /\ t.context = s.context /\ t.ctl = s.ctl
  /\ t.store = s.store /\ t.file = s.file /\ t.unsaved = s.unsaved
  /\ t.session.open = s.session.open /\ t.session.samples = s.session.samples
  /\ t.session.positives = s.session.positives
  /\ t.session.contradictions = s.session.contradictions
  /\ t.session.applied = s.session.applied

(* A restore moves the knob, and an open session remembers it.              *)
LEMMA RestoreFields ==
  ASSUME NEW s \in States, NEW F
  PROVE  LET t == Restore(s, F) IN
         /\ t \in States /\ SameBut(s, t) /\ t.snap = NoSnapshot
         /\ s.snap = NoSnapshot => t = s
         /\ s.snap # NoSnapshot =>
              /\ t.cpu = IF RestoreFails(s, F) THEN "mixed" ELSE s.snap
              /\ t.latched <=> s.latched \/ RestoreFails(s, F)
              /\ s.session.open => /\ t.session.attempted
                                   /\ t.session.restored <=> ~RestoreFails(s, F)
<1> DEFINE t == Restore(s, F)
           b == RestoreFails(s, F)
           x == IF s.session.open
                THEN [s.session EXCEPT !.attempted = TRUE, !.restored = ~b] ELSE s.session
<1>1. b \in BOOLEAN
  BY DEF RestoreFails
<1>2. CASE s.snap = NoSnapshot
  <2>1. t = s
    BY <1>2 DEF Restore
  <2>2. QED
    BY <1>2, <2>1 DEF SameBut
<1>3. CASE s.snap # NoSnapshot
  <2> HIDE DEF b
  <2>1. x \in Sessions
    BY <1>1 DEF States, Sessions
  <2>2. /\ x.open = s.session.open /\ x.samples = s.session.samples
        /\ x.positives = s.session.positives
        /\ x.contradictions = s.session.contradictions
        /\ x.applied = s.session.applied
        /\ s.session.open => x.attempted /\ (x.restored <=> ~b)
    BY <1>1 DEF States, Sessions
  <2> HIDE DEF x
  <2> DEFINE c == IF b THEN "mixed" ELSE s.snap
             l == s.latched \/ b
  <2>3. t = [s EXCEPT !.cpu = c, !.snap = NoSnapshot, !.latched = l, !.session = x]
    BY <1>3 DEF Restore, b, x, States
  <2>4. c \in CpuStates /\ l \in BOOLEAN /\ NoSnapshot \in CpuStates \union {NoSnapshot}
    BY <1>1, <1>3 DEF CpuStates, States
  <2> HIDE DEF t, c, l
  <2>5. /\ t \in States /\ t.snap = NoSnapshot /\ t.session = x /\ t.cpu = c /\ t.latched = l
        /\ t.up = s.up /\ t.on = s.on /\ t.context = s.context /\ t.ctl = s.ctl
        /\ t.store = s.store /\ t.file = s.file /\ t.unsaved = s.unsaved
    BY <2>1, <2>3, <2>4 DEF States
  <2>6. SameBut(s, t)
    BY <2>2, <2>5 DEF SameBut
  <2>7. QED
    BY <1>3, <2>2, <2>5, <2>6 DEF t, b, c, l
<1>4. QED
  BY <1>2, <1>3

(* The value written is a state of the knob.                                *)
LEMMA WrittenTyped ==
  ASSUME NEW cpu \in CpuStates, NEW action \in {"epp", "cap"}
  PROVE  Written(cpu, action) \in CpuStates
BY DEF Written, CpuStates

Actions == {"observe", "restore", "epp", "cap"}

(* A decision moves the knob, and the session remembers every restore.      *)
LEMMA ApplyFields ==
  ASSUME NEW s \in States, NEW action \in Actions, NEW F, NEW found,
         KnobOf(s, found), action \in {"epp", "cap"} => s.session.open
  PROVE  LET t == Apply(s, action, F) IN
         t \in States /\ SameBut(s, t) /\ KnobOf(t, found)
<1>1. CASE s.latched \/ action = "observe"
  BY <1>1 DEF Apply, SameBut
<1>2. CASE ~s.latched /\ action = "restore"
  <2>1. PICK t : t = Restore(s, F)
    OBVIOUS
  <2>2. KnobOf(t, found)
    BY <1>2, <2>1, RestoreFields DEF KnobOf, SameBut
  <2>3. QED
    BY <1>2, <2>1, <2>2, RestoreFields DEF Apply
<1>3. CASE ~s.latched /\ action \in {"epp", "cap"}
  <2> DEFINE snap == IF s.snap = NoSnapshot THEN s.cpu ELSE s.snap
  <2>1. snap \in CpuStates /\ snap # NoSnapshot /\ snap = found
    BY <1>3 DEF KnobOf, States, CpuStates, NoSnapshot
  <2> DEFINE v == [s EXCEPT !.snap = IF @ = NoSnapshot THEN s.cpu ELSE @]
  <2>2. v = [s EXCEPT !.snap = snap]
    BY DEF States
  <2> HIDE DEF v, snap
  <2>3. CASE "apply" \notin F
    <3> DEFINE w == Written(s.cpu, action)
               t == [v EXCEPT !.cpu = w]
    <3>1. w \in CpuStates
      BY <1>3, WrittenTyped DEF States
    <3>2. Apply(s, action, F) = [v EXCEPT !.cpu = Written(@, action)]
      BY <1>3, <2>3 DEF Apply, v, Actions
    <3>3. [v EXCEPT !.cpu = Written(@, action)] = t
      BY <2>2 DEF States
    <3> HIDE DEF w
    <3>4. /\ t \in States /\ t.snap = snap /\ t.cpu = w /\ t.session = s.session
          /\ t.up = s.up /\ t.on = s.on /\ t.context = s.context /\ t.ctl = s.ctl
          /\ t.store = s.store /\ t.file = s.file /\ t.unsaved = s.unsaved
          /\ t.latched = s.latched
      BY <2>1, <2>2, <3>1 DEF States
    <3> HIDE DEF t
    <3>5. SameBut(s, t) /\ KnobOf(t, found)
      BY <1>3, <2>1, <3>4 DEF SameBut, KnobOf
    <3>6. QED
      BY <3>2, <3>3, <3>4, <3>5
  <2>4. CASE "apply" \in F
    <3> DEFINE u == [v EXCEPT !.cpu = "mixed"]
               r == Restore(u, F)
               t == [r EXCEPT !.latched = TRUE]
    <3>1. Apply(s, action, F) = t
      BY <1>3, <2>4 DEF Apply, v, Actions
    <3>2. /\ u \in States /\ u.snap = snap /\ u.cpu = "mixed" /\ u.session = s.session
          /\ u.up = s.up /\ u.on = s.on /\ u.context = s.context /\ u.ctl = s.ctl
          /\ u.store = s.store /\ u.file = s.file /\ u.unsaved = s.unsaved
          /\ u.latched = s.latched
      BY <2>1, <2>2 DEF States, CpuStates
    <3> HIDE DEF u
    <3>3. /\ r \in States /\ SameBut(u, r) /\ r.snap = NoSnapshot
          /\ r.cpu = IF RestoreFails(u, F) THEN "mixed" ELSE snap
          /\ r.session.attempted /\ (r.session.restored <=> ~RestoreFails(u, F))
      BY <1>3, <2>1, <3>2, RestoreFields
    <3> HIDE DEF r
    <3>4. /\ t \in States /\ t.snap = r.snap /\ t.cpu = r.cpu /\ t.session = r.session
          /\ t.up = r.up /\ t.on = r.on /\ t.context = r.context /\ t.ctl = r.ctl
          /\ t.store = r.store /\ t.file = r.file /\ t.unsaved = r.unsaved
          /\ t.latched = TRUE
      BY <3>3 DEF States
    <3> HIDE DEF t
    <3>5. SameBut(s, t)
      BY <3>2, <3>3, <3>4 DEF SameBut
    <3>6. KnobOf(t, found)
      BY <2>1, <3>3, <3>4 DEF KnobOf
    <3>7. QED
      BY <3>1, <3>4, <3>5, <3>6
  <2>5. QED
    BY <2>3, <2>4
<1>4. QED
  BY <1>1, <1>2, <1>3 DEF Actions

(* Whether a context is a game is never in doubt.                           *)
LEMMA ContextTyped ==
  ASSUME NEW context \in Contexts \union {NoContext}
  PROVE  context.game \in BOOLEAN
<1>1. CASE context \in Contexts
  BY <1>1, LearningAssumption
<1>2. CASE context = NoContext
  BY <1>2 DEF NoContext
<1>3. QED
  BY <1>1, <1>2

(* The history judges a sample as the controller does.                      *)
LEMMA SampleJudged ==
  ASSUME NEW k \in Kinds, NEW context \in Contexts \union {NoContext}
  PROVE  /\ Positive(k, context) \in BOOLEAN
         /\ (Classify(k, context) \in Bound) = Positive(k, context)
         /\ ~context.game => ~Positive(k, context)
<1>1. context.game \in BOOLEAN
  BY ContextTyped
<1>2. k \in [power : BOOLEAN, bound : BOOLEAN, gpu : BOOLEAN, core : BOOLEAN,
            satisfied : BOOLEAN]
  <2>1. Kinds \subseteq [power : BOOLEAN, bound : BOOLEAN, gpu : BOOLEAN,
                        core : BOOLEAN, satisfied : BOOLEAN]
    BY LearningAssumption
  <2>2. QED
    BY <2>1
<1>3. /\ k.satisfied \in BOOLEAN /\ k.power \in BOOLEAN /\ k.bound \in BOOLEAN
      /\ k.gpu \in BOOLEAN
  BY <1>2
<1>4. Positive(k, context) \in BOOLEAN /\ (~context.game => ~Positive(k, context))
  BY <1>1, <1>3 DEF Positive
<1>5. (Classify(k, context) \in Bound) <=> Positive(k, context)
  BY <1>1, <1>3 DEF Positive, Classify, Bound
<1>6. QED
  BY <1>4, <1>5

(* Deciding changes nothing but whether the controller tunes.               *)
LEMMA DecidedFields ==
  ASSUME NEW c \in Controllers, NEW k
  PROVE  LET a == Decision(c, k)
             d == Decided(c, a)
         IN  /\ a \in Actions /\ d \in Controllers
             /\ d.hint = c.hint /\ d.positive = c.positive /\ d.negative = c.negative
             /\ d.disabled = c.disabled /\ d.streak = c.streak /\ d.total = c.total
             /\ d.recent = c.recent
             /\ d.active => c.active \/ a \in {"epp", "cap"}
<1> DEFINE a == Decision(c, k)
<1>1. a \in Actions
  BY DEF Decision, Actions
<1> HIDE DEF a
<1>2. QED
  BY <1>1 DEF Decided, Actions, Controllers, a

(* Nothing is tuned on a sample that is not positive.                       *)
LEMMA NoTuning ==
  ASSUME NEW c \in Controllers, NEW k
  PROVE  Decision(Observed(c, FALSE), k) \notin {"epp", "cap"}
<1>1. PICK d \in Controllers : d = Observed(c, FALSE)
  BY ObservedFields
<1>2. d.positive = 0
  BY <1>1, ObservedFields
<1>3. Required(d) \in Nat /\ Required(d) # 0
  BY Numbers DEF Required
<1>4. ~(d.positive >= Required(d))
  BY <1>2, <1>3
<1>5. Decision(d, k) \notin {"epp", "cap"}
  BY <1>4 DEF Decision
<1>6. QED
  BY <1>1, <1>5

(* What a session remembers of a sample.                                    *)
LEMMA SampledFields ==
  ASSUME NEW s \in States, NEW p \in BOOLEAN, NEW action
  PROVE  LET x == Sampled(s, p, action) IN
         /\ x \in Sessions /\ x.open = s.session.open
         /\ x.attempted = s.session.attempted /\ x.restored = s.session.restored
         /\ x.samples = s.session.samples + 1
         /\ x.positives = s.session.positives + (IF p THEN 1 ELSE 0)
         /\ x.contradictions = s.ctl.total
<1> DEFINE x == Sampled(s, p, action)
           tuned == action \in {"epp", "cap"}
<1>1. PICK e \in Sessions, c \in Controllers, l \in BOOLEAN :
        e = s.session /\ c = s.ctl /\ l = s.latched
  BY DEF States
<1>2. x = [e EXCEPT !.samples = @ + 1, !.positives = IF p THEN @ + 1 ELSE @,
                    !.applied = @ \/ tuned, !.contradictions = c.total,
                    !.disabled = @ \/ c.disabled, !.failed = @ \/ l]
  BY <1>1 DEF Sampled
<1>3. e = [samples |-> e.samples, positives |-> e.positives, applied |-> e.applied,
           contradictions |-> e.contradictions, disabled |-> e.disabled,
           failed |-> e.failed, attempted |-> e.attempted,
           restored |-> e.restored, open |-> e.open]
  BY DEF Sessions
<1> HIDE DEF x, tuned
<1>4. x = [samples |-> e.samples + 1,
           positives |-> IF p THEN e.positives + 1 ELSE e.positives,
           applied |-> e.applied \/ tuned, contradictions |-> c.total,
           disabled |-> e.disabled \/ c.disabled, failed |-> e.failed \/ l,
           attempted |-> e.attempted, restored |-> e.restored, open |-> e.open]
  BY <1>2, <1>3
<1>5. c.total \in Nat /\ c.disabled \in BOOLEAN
  BY DEF Controllers
<1>6. x \in Sessions
  BY <1>4, <1>5 DEF Sessions
<1>7. /\ x.open = e.open /\ x.attempted = e.attempted /\ x.restored = e.restored
      /\ x.samples = e.samples + 1 /\ x.contradictions = c.total
      /\ x.positives = IF p THEN e.positives + 1 ELSE e.positives
  BY <1>4
<1>8. x.positives = e.positives + (IF p THEN 1 ELSE 0)
  BY <1>7 DEF Sessions
<1>9. QED
  BY <1>1, <1>6, <1>7, <1>8 DEF x

(* A sample is recorded in the session and nowhere else.                    *)
LEMMA SampleRecorded ==
  ASSUME NEW s \in States, NEW p \in BOOLEAN, NEW action
  PROVE  LET t == RecordSample(s, p, action) IN
         /\ t \in States /\ t.ctl = s.ctl
         /\ t.up = s.up /\ t.on = s.on /\ t.context = s.context
         /\ t.store = s.store /\ t.file = s.file /\ t.unsaved = s.unsaved
         /\ t.snap = s.snap /\ t.cpu = s.cpu /\ t.latched = s.latched
         /\ t.session.open = s.session.open
         /\ t.session.attempted = s.session.attempted
         /\ t.session.restored = s.session.restored
         /\ ~s.session.open => t = s
         /\ s.session.open =>
              /\ t.session.samples = s.session.samples + 1
              /\ t.session.positives = s.session.positives + (IF p THEN 1 ELSE 0)
              /\ t.session.contradictions = s.ctl.total
<1>1. CASE ~s.session.open
  BY <1>1 DEF RecordSample
<1>2. CASE s.session.open
  <2> DEFINE x == Sampled(s, p, action)
             t == RecordSample(s, p, action)
  <2>1. t = [s EXCEPT !.session = x]
    BY <1>2 DEF RecordSample
  <2>2. /\ x \in Sessions /\ x.open = s.session.open
        /\ x.attempted = s.session.attempted /\ x.restored = s.session.restored
        /\ x.samples = s.session.samples + 1
        /\ x.positives = s.session.positives + (IF p THEN 1 ELSE 0)
        /\ x.contradictions = s.ctl.total
    BY SampledFields
  <2> HIDE DEF x, t
  <2>3. /\ t \in States /\ t.ctl = s.ctl /\ t.session = x
        /\ t.up = s.up /\ t.on = s.on /\ t.context = s.context
        /\ t.store = s.store /\ t.file = s.file /\ t.unsaved = s.unsaved
        /\ t.snap = s.snap /\ t.cpu = s.cpu /\ t.latched = s.latched
    BY <2>1, <2>2 DEF States
  <2>4. QED
    BY <1>2, <2>2, <2>3 DEF t
<1>3. QED
  BY <1>1, <1>2

(* The rest of a tick, on a prepared context.                               *)
LEMMA JudgeFields ==
  ASSUME NEW s \in States, NEW k \in Kinds, NEW F, NEW found, KnobOf(s, found),
         s.session.open <=> s.context.game
  PROVE  LET p == Positive(k, s.context)
             c == Observed(s.ctl, p)
             t == Judge(s, k, F)
         IN  /\ t \in States /\ KnobOf(t, found)
             /\ t.ctl = Decided(c, Decision(c, k))
             /\ t.up = s.up /\ t.on = s.on /\ t.context = s.context
             /\ t.store = s.store /\ t.file = s.file /\ t.unsaved = s.unsaved
             /\ t.session.open = s.session.open
             /\ ~s.session.open =>
                  /\ t.session.samples = s.session.samples
                  /\ t.session.positives = s.session.positives
             /\ s.session.open =>
                  /\ t.session.samples = s.session.samples + 1
                  /\ t.session.positives = s.session.positives + (IF p THEN 1 ELSE 0)
                  /\ t.session.contradictions = t.ctl.total
<1> DEFINE p == Positive(k, s.context)
           c == Observed(s.ctl, p)
           a == Decision(c, k)
           d == Decided(c, a)
           u == [s EXCEPT !.ctl = d]
           v == Apply(u, a, F)
           t == RecordSample(v, p, a)
<1>1. s.context \in Contexts \union {NoContext} /\ s.ctl \in Controllers
  BY DEF States
<1>2. p \in BOOLEAN /\ (~s.context.game => p = FALSE)
  BY <1>1, SampleJudged
<1>3. c \in Controllers
  BY <1>1, <1>2, ObservedFields
<1>4. a \in {"epp", "cap"} => s.session.open
  BY <1>1, <1>2, NoTuning
<1>5. Judge(s, k, F) = t
  BY DEF Judge
<1> HIDE DEF p, c
<1>6. a \in Actions /\ d \in Controllers
  BY <1>3, DecidedFields
<1> HIDE DEF a, d
<1>7. /\ u \in States /\ u.ctl = d /\ u.session = s.session /\ u.snap = s.snap
      /\ u.cpu = s.cpu /\ u.latched = s.latched
      /\ u.up = s.up /\ u.on = s.on /\ u.context = s.context
      /\ u.store = s.store /\ u.file = s.file /\ u.unsaved = s.unsaved
  BY <1>6 DEF States
<1> HIDE DEF u
<1>8. KnobOf(u, found)
  BY <1>7 DEF KnobOf
<1>9. v \in States /\ SameBut(u, v) /\ KnobOf(v, found)
  BY <1>4, <1>6, <1>7, <1>8, ApplyFields
<1> HIDE DEF v
<1>10. /\ t \in States /\ t.ctl = v.ctl
       /\ t.up = v.up /\ t.on = v.on /\ t.context = v.context
       /\ t.store = v.store /\ t.file = v.file /\ t.unsaved = v.unsaved
       /\ t.snap = v.snap /\ t.cpu = v.cpu /\ t.latched = v.latched
       /\ t.session.open = v.session.open
       /\ t.session.attempted = v.session.attempted
       /\ t.session.restored = v.session.restored
       /\ ~v.session.open => t = v
       /\ v.session.open =>
            /\ t.session.samples = v.session.samples + 1
            /\ t.session.positives = v.session.positives + (IF p THEN 1 ELSE 0)
            /\ t.session.contradictions = v.ctl.total
  BY <1>2, <1>9, SampleRecorded
<1> HIDE DEF t
<1>11. KnobOf(t, found)
  BY <1>9, <1>10 DEF KnobOf
<1>12. QED
  BY <1>5, <1>7, <1>9, <1>10, <1>11 DEF SameBut, p, c, a, d

(* What has been seen: the log of the session, and the sessions before it.  *)
Histories ==
  [log : Seq(BOOLEAN), found : CpuStates,
   clean : [Keys -> [sessions : Nat, samples : Nat, positives : Nat]],
   offences : [Keys -> Nat]]

(* The session has counted what the log shows.                              *)
SessionOf(s, h) ==
  /\ s.session.open <=> s.context.game
  /\ s.session.positives <= s.session.samples
  /\ ~s.session.open => h.log = <<>>
  /\ s.session.open =>
       /\ s.session.samples = Len(h.log)
       /\ s.session.positives = Cardinality(Hits(h.log))
       /\ s.session.contradictions = s.ctl.total

(* The controller has counted what tells against its hint.                  *)
ToldOf(c, h) ==
  /\ c.disabled => c.total > 0
  /\ c.hint # NoEntry => \A i \in DOMAIN h.log : ~h.log[i] => c.total > 0

(* No counter runs ahead of the ticks.                                      *)
CountOf(c, n) ==
  /\ c.positive <= n /\ c.negative <= n /\ c.streak <= n /\ c.total <= n
  /\ Len(c.recent) <= Window

(* The store and its file claim no more than the clean sessions showed.     *)
StoreOf(s, h) == Backed(s.store, h.clean) /\ Backed(s.file.store, h.clean)

(* Nothing is forgotten of what counts against an entry.                    *)
OffenceOf(s, h) ==
  /\ s.up => Counted(s.store, h.offences)
  /\ s.up /\ ~s.unsaved => s.store = Load(s.file)
  /\ ~s.unsaved => Counted(Load(s.file), h.offences)

(* The hint in use has been earned in its context and is not blocked.       *)
HintOf(c, context, h) ==
  c.hint # NoEntry => /\ context \in Keys
                      /\ Within(c.hint, h.clean[context])
                      /\ Earned(c.hint)
                      /\ h.offences[context] < Limit

(* The governor s is in step with the history h after at most n ticks.      *)
LInv(s, h, n) ==
  /\ s \in States /\ h \in Histories
  /\ SessionOf(s, h) /\ KnobOf(s, h.found) /\ ToldOf(s.ctl, h)
  /\ s.session.open => RunOf(s.ctl, h.log)
  /\ CountOf(s.ctl, n)
  /\ StoreOf(s, h) /\ OffenceOf(s, h) /\ HintOf(s.ctl, s.context, h)

(* A tick on a prepared context keeps the governor in step with its history.*)
LEMMA JudgeKeeps ==
  ASSUME NEW s, NEW h, NEW n \in Nat, LInv(s, h, n), NEW k \in Kinds, NEW F
  PROVE  LET hit == Positive(k, s.context)
             q == IF s.context.game THEN [h EXCEPT !.log = Append(@, hit)] ELSE h
         IN  LInv(Judge(s, k, F), q, n + 1) /\ q.found = h.found
<1> DEFINE hit == Positive(k, s.context)
           q == IF s.context.game THEN [h EXCEPT !.log = Append(@, hit)] ELSE h
           c == Observed(s.ctl, hit)
           t == Judge(s, k, F)
           d == Decided(c, Decision(c, k))
<1>1. s \in States /\ h \in Histories /\ SessionOf(s, h) /\ KnobOf(s, h.found)
  BY DEF LInv
<1>2. s.context \in Contexts \union {NoContext} /\ s.ctl \in Controllers
  BY <1>1 DEF States
<1>3. hit \in BOOLEAN /\ (~s.context.game => hit = FALSE)
  BY <1>2, SampleJudged
<1>4. h.log \in Seq(BOOLEAN) /\ h.found \in CpuStates
  BY <1>1 DEF Histories
<1>5. PICK log \in Seq(BOOLEAN) :
        log = IF s.context.game THEN Append(h.log, hit) ELSE h.log
  BY <1>3, <1>4, AppendProperties
<1>6. /\ q \in Histories /\ q.log = log /\ q.found = h.found /\ q.clean = h.clean
      /\ q.offences = h.offences
  <2> HIDE DEF hit
  <2>1. CASE s.context.game
    <3>1. q = [h EXCEPT !.log = log]
      BY <1>1, <1>5, <2>1 DEF Histories
    <3> HIDE DEF q
    <3>2. QED
      BY <1>1, <3>1 DEF Histories
  <2>2. CASE ~s.context.game
    BY <1>1, <1>5, <2>2
  <2>3. QED
    BY <2>1, <2>2
<1>7. c \in Controllers
  BY <1>2, <1>3, ObservedFields
<1>8. /\ d \in Controllers
      /\ d.hint = c.hint /\ d.positive = c.positive /\ d.negative = c.negative
      /\ d.disabled = c.disabled /\ d.streak = c.streak /\ d.total = c.total
      /\ d.recent = c.recent
  BY <1>7, DecidedFields
<1>9. /\ t \in States /\ KnobOf(t, h.found) /\ t.ctl = d
      /\ t.up = s.up /\ t.on = s.on /\ t.context = s.context
      /\ t.store = s.store /\ t.file = s.file /\ t.unsaved = s.unsaved
      /\ t.session.open = s.session.open
      /\ ~s.session.open => /\ t.session.samples = s.session.samples
                            /\ t.session.positives = s.session.positives
      /\ s.session.open =>
           /\ t.session.samples = s.session.samples + 1
           /\ t.session.positives = s.session.positives + (IF hit THEN 1 ELSE 0)
           /\ t.session.contradictions = t.ctl.total
  BY <1>1, JudgeFields DEF SessionOf
<1>10. /\ c.hint = s.ctl.hint
       /\ c.positive = IF hit THEN s.ctl.positive + 1 ELSE 0
       /\ c.negative = IF hit THEN 0 ELSE s.ctl.negative + 1
       /\ c.recent = LastN(Append(s.ctl.recent, hit), Window)
       /\ c.streak = IF ~HintAvailable(s.ctl) THEN s.ctl.streak
                     ELSE IF hit THEN 0 ELSE s.ctl.streak + 1
       /\ c.total = IF HintAvailable(s.ctl) /\ ~hit THEN s.ctl.total + 1 ELSE s.ctl.total
       /\ c.disabled <=> s.ctl.disabled \/ (HintAvailable(s.ctl) /\ ~hit
                                            /\ s.ctl.streak + 1 >= Threshold)
  BY <1>2, <1>3, ObservedFields
<1>11. s.session.open => RunOf(c, log)
  <2>1. s.session.open => log = Append(h.log, hit)
    BY <1>1, <1>5 DEF SessionOf
  <2>2. s.session.open => RunOf(c, Append(h.log, hit))
    BY <1>2, <1>3, <1>4, ObservedRun DEF LInv
  <2>3. QED
    BY <2>1, <2>2
<1> HIDE DEF c, d, t, q, hit
<1>12. s.ctl.hint \in Entries /\ {s.ctl.positive, s.ctl.negative, s.ctl.streak,
                                  s.ctl.total} \subseteq Nat
       /\ s.ctl.disabled \in BOOLEAN /\ s.ctl.recent \in Seq(BOOLEAN)
  BY <1>2 DEF Controllers
<1>13. SessionOf(t, q)
  <2>1. CASE ~s.session.open
    BY <1>1, <1>5, <1>6, <1>9, <2>1 DEF SessionOf
  <2>2. CASE s.session.open
    <3>1. log = Append(h.log, hit)
      BY <1>1, <1>5, <2>2 DEF SessionOf
    <3>2. /\ Len(log) = Len(h.log) + 1
          /\ Cardinality(Hits(log)) = Cardinality(Hits(h.log)) + (IF hit THEN 1 ELSE 0)
      BY <1>3, <1>4, <3>1, HitsOfMore, AppendProperties
    <3>3. t.session.samples = Len(log) /\ t.session.positives = Cardinality(Hits(log))
      BY <1>1, <1>9, <2>2, <3>2 DEF SessionOf
    <3>4. Cardinality(Hits(log)) \in 0 .. Len(log)
      BY HitsOfMore
    <3>5. t.session.positives <= t.session.samples
      BY <3>3, <3>4
    <3>6. QED
      BY <1>1, <1>6, <1>9, <2>2, <3>3, <3>5 DEF SessionOf
  <2>3. QED
    BY <2>1, <2>2
<1>14. ToldOf(t.ctl, q)
  <2>1. c.disabled => c.total > 0
    BY <1>10, <1>12 DEF LInv, ToldOf
  <2>2. ASSUME c.hint # NoEntry, NEW i \in DOMAIN log, ~log[i]
        PROVE  c.total > 0
    <3>1. CASE i \in DOMAIN h.log /\ h.log[i] = log[i]
      <4>1. s.ctl.total > 0
        BY <1>10, <2>2, <3>1 DEF LInv, ToldOf
      <4>2. QED
        BY <1>10, <1>12, <4>1
    <3>2. CASE ~(i \in DOMAIN h.log /\ h.log[i] = log[i])
      <4>1. log = Append(h.log, hit)
        BY <1>5, <2>2, <3>2
      <4>2. /\ Len(log) = Len(h.log) + 1 /\ log[Len(h.log) + 1] = hit
            /\ \A j \in 1 .. Len(h.log) : log[j] = h.log[j]
        BY <1>3, <1>4, <4>1, AppendProperties
      <4>3. DOMAIN log = 1 .. Len(log) /\ DOMAIN h.log = 1 .. Len(h.log)
            /\ Len(h.log) \in Nat
        BY <1>4
      <4>4. i = Len(h.log) + 1
        BY <2>2, <3>2, <4>2, <4>3
      <4>5. ~hit
        BY <2>2, <4>2, <4>4
      <4>6. s.ctl.disabled \/ HintAvailable(s.ctl)
        BY <1>10, <2>2 DEF HintAvailable
      <4>7. CASE s.ctl.disabled
        BY <1>10, <1>12, <4>7 DEF LInv, ToldOf
      <4>8. CASE HintAvailable(s.ctl)
        BY <1>10, <1>12, <4>5, <4>8
      <4>9. QED
        BY <4>6, <4>7, <4>8
    <3>3. QED
      BY <3>1, <3>2
  <2>3. QED
    BY <1>6, <1>8, <1>9, <2>1, <2>2 DEF ToldOf
<1>15. t.session.open => RunOf(t.ctl, q.log)
  BY <1>6, <1>8, <1>9, <1>11 DEF RunOf
<1>16. CountOf(t.ctl, n + 1)
  <2>1. Len(c.recent) <= Window
    <3>1. Append(s.ctl.recent, hit) \in Seq(BOOLEAN)
      BY <1>3, <1>12, AppendProperties
    <3>2. PICK r \in Seq(BOOLEAN) : r = Append(s.ctl.recent, hit)
      BY <3>1
    <3>3. /\ Len(r) > Window => Len(LastN(r, Window)) = Window
          /\ Len(r) <= Window => Len(LastN(r, Window)) = Len(r)
      BY Numbers, LastNFacts
    <3>4. c.recent = LastN(r, Window)
      BY <1>10, <3>2
    <3>5. Window \in Nat /\ Len(r) \in Nat
      BY Numbers
    <3>6. Len(c.recent) = Window \/ (Len(c.recent) = Len(r) /\ Len(r) <= Window)
      BY <3>3, <3>4, <3>5
    <3>7. QED
      BY <3>5, <3>6
  <2>2. /\ s.ctl.positive <= n /\ s.ctl.negative <= n /\ s.ctl.streak <= n
        /\ s.ctl.total <= n
    BY DEF LInv, CountOf
  <2>3. /\ c.positive <= n + 1 /\ c.negative <= n + 1 /\ c.streak <= n + 1
        /\ c.total <= n + 1
    <3>1. /\ s.ctl.positive \in Nat /\ s.ctl.negative \in Nat /\ s.ctl.streak \in Nat
          /\ s.ctl.total \in Nat
      BY <1>12
    <3>2. c.positive <= n + 1 /\ c.negative <= n + 1
      BY <1>10, <2>2, <3>1
    <3>3. c.streak <= n + 1 /\ c.total <= n + 1
      <4>1. CASE HintAvailable(s.ctl) /\ ~hit
        BY <1>10, <2>2, <3>1, <4>1
      <4>2. CASE ~(HintAvailable(s.ctl) /\ ~hit)
        BY <1>10, <2>2, <3>1, <4>2
      <4>3. QED
        BY <4>1, <4>2
    <3>4. QED
      BY <3>2, <3>3
  <2>4. QED
    BY <1>8, <1>9, <2>1, <2>3 DEF CountOf
<1>17. StoreOf(t, q) /\ OffenceOf(t, q)
  BY <1>6, <1>9 DEF LInv, StoreOf, OffenceOf
<1>18. HintOf(t.ctl, t.context, q)
  BY <1>6, <1>8, <1>9, <1>10 DEF LInv, HintOf
<1>19. LInv(t, q, n + 1)
  BY <1>6, <1>9, <1>13, <1>14, <1>15, <1>16, <1>17, <1>18 DEF LInv
<1>20. QED
  BY <1>6, <1>19 DEF t, q, hit

(* What the clean sessions of a context add up to.                          *)
Totals == [sessions : Nat, samples : Nat, positives : Nat]

(* What is kept of a context.                                               *)
LEMMA StoreTyped ==
  /\ Stores = [aggregates : [Keys -> Aggregates], entries : [Keys -> Entries]]
  /\ NoAggregate \in Aggregates /\ NoEntry \in Entries /\ EmptyStore \in Stores
  /\ NoContext \notin Keys
<1>1. 0 \in 0 .. MaxClock
  BY Numbers
<1>2. NoAggregate \in Aggregates /\ NoEntry \in Entries
  BY <1>1 DEF NoAggregate, NoEntry, Aggregates, Entries
<1>3. Stores = [aggregates : [Keys -> Aggregates], entries : [Keys -> Entries]]
  BY DEF Stores, Aggregates, Entries
<1>4. EmptyStore \in Stores
  BY <1>2, <1>3 DEF EmptyStore
<1>5. NoContext \notin Keys
  BY DEF Keys, NoContext
<1>6. QED
  BY <1>2, <1>3, <1>4, <1>5

(* A hint handed out is the entry of its context, and not a blocked one.    *)
LEMMA GetHintFacts ==
  ASSUME NEW store \in Stores, NEW context \in Contexts \union {NoContext}
  PROVE  LET hint == GetHint(store, context) IN
         /\ hint \in Entries
         /\ hint # NoEntry => /\ context \in Keys /\ hint = store.entries[context]
                              /\ hint.contradicted < Limit
<1>1. context.complete => context \in Keys
  BY DEF Keys, NoContext
<1>2. \A k \in Keys : store.entries[k] \in Entries
  BY StoreTyped
<1>3. QED
  BY <1>1, <1>2, StoreTyped DEF GetHint

(* What a write of the store changes.                                       *)
LEMMA SaveFields ==
  ASSUME NEW s \in States, NEW store \in Stores, NEW F
  PROVE  LET t == Save(s, store, F) IN
         /\ t \in States /\ t.store = store /\ (t.unsaved <=> "save" \in F)
         /\ "save" \in F => t.file = s.file
         /\ "save" \notin F => t.file.readable /\ t.file.store = store
         /\ t.up = s.up /\ t.on = s.on /\ t.context = s.context /\ t.ctl = s.ctl
         /\ t.session = s.session /\ t.snap = s.snap /\ t.cpu = s.cpu
         /\ t.latched = s.latched
<1> DEFINE file == [readable |-> TRUE, store |-> store]
           t == Save(s, store, F)
<1>1. file \in [readable : BOOLEAN, store : Stores]
  OBVIOUS
<1>2. CASE "save" \in F
  <2>1. t = [s EXCEPT !.store = store, !.unsaved = TRUE]
    BY <1>2 DEF Save
  <2> HIDE DEF t
  <2>2. QED
    BY <1>2, <2>1 DEF States, t
<1>3. CASE "save" \notin F
  <2>1. t = [s EXCEPT !.store = store, !.unsaved = FALSE, !.file = file]
    BY <1>3 DEF Save
  <2> HIDE DEF t, file
  <2>2. /\ t \in States /\ t.store = store /\ t.unsaved = FALSE /\ t.file = file
        /\ t.up = s.up /\ t.on = s.on /\ t.context = s.context /\ t.ctl = s.ctl
        /\ t.session = s.session /\ t.snap = s.snap /\ t.cpu = s.cpu
        /\ t.latched = s.latched
    BY <1>1, <2>1 DEF States
  <2>3. QED
    BY <1>3, <2>2 DEF t, file
<1>4. QED
  BY <1>2, <1>3

(* Pruning only drops records.                                              *)
LEMMA PruneKeeps ==
  ASSUME NEW store \in Stores, NEW clean \in [Keys -> Totals], Backed(store, clean),
         NEW offences \in [Keys -> Nat], Counted(store, offences),
         \A k \in Keys : Prune(store).entries[k] = NoEntry => offences[k] = 0
  PROVE  LET t == Prune(store) IN
         t \in Stores /\ Backed(t, clean) /\ Counted(t, offences)
<1> DEFINE t == Prune(store)
<1>1. /\ \A k \in Keys : store.aggregates[k] \in Aggregates
      /\ \A k \in Keys : store.entries[k] \in Entries
  BY StoreTyped
<1>2. /\ t.aggregates \in [Keys -> Aggregates] /\ t.entries \in [Keys -> Entries]
      /\ t = [aggregates |-> t.aggregates, entries |-> t.entries]
      /\ \A k \in Keys :
           t.aggregates[k] = NoAggregate \/ t.aggregates[k] = store.aggregates[k]
      /\ \A k \in Keys : t.entries[k] = NoEntry \/ t.entries[k] = store.entries[k]
  BY <1>1, StoreTyped DEF Prune
<1> HIDE DEF t
<1>3. t \in Stores
  BY <1>2, StoreTyped
<1>4. ASSUME NEW k \in Keys
      PROVE  /\ Within(t.aggregates[k], clean[k]) /\ Within(t.entries[k], clean[k])
             /\ Earned(t.entries[k])
  <2>1. clean[k] \in Totals
    OBVIOUS
  <2>2. Within(NoAggregate, clean[k]) /\ Within(NoEntry, clean[k]) /\ Earned(NoEntry)
    BY <2>1 DEF Totals, Within, NoAggregate, NoEntry, Earned
  <2>3. QED
    BY <1>2, <2>2 DEF Backed
<1>5. ASSUME NEW k \in Keys PROVE offences[k] <= t.entries[k].contradicted
  <2>1. CASE t.entries[k] = NoEntry
    BY <2>1 DEF NoEntry, t
  <2>2. CASE t.entries[k] = store.entries[k]
    BY <2>2 DEF Counted
  <2>3. QED
    BY <1>2, <2>1, <2>2
<1>6. QED
  BY <1>3, <1>4, <1>5 DEF Backed, Counted, t

(* The history only ever adds to what the sessions showed.                  *)
Grows(clean, more) == \A k \in Keys : Within(clean[k], more[k])

(* So what was backed stays backed.                                         *)
LEMMA BackedMore ==
  ASSUME NEW store \in Stores, NEW clean \in [Keys -> Totals],
         NEW more \in [Keys -> Totals], Backed(store, clean), Grows(clean, more)
  PROVE  Backed(store, more)
<1>1. ASSUME NEW k \in Keys
      PROVE  /\ Within(store.aggregates[k], more[k]) /\ Within(store.entries[k], more[k])
  <2>1. /\ store.aggregates[k] \in Aggregates /\ store.entries[k] \in Entries
        /\ clean[k] \in Totals /\ more[k] \in Totals
    BY StoreTyped
  <2>2. /\ Within(store.aggregates[k], clean[k]) /\ Within(store.entries[k], clean[k])
        /\ Within(clean[k], more[k])
    BY DEF Backed, Grows
  <2>3. QED
    BY <2>1, <2>2 DEF Within, Aggregates, Entries, Totals
<1>2. QED
  BY <1>1 DEF Backed

(* A write of a store that is backed and forgets nothing.                   *)
LEMMA SaveKeeps ==
  ASSUME NEW s \in States, NEW store \in Stores, NEW F, NEW h \in Histories,
         NEW q \in Histories, Grows(h.clean, q.clean), StoreOf(s, h),
         Backed(store, q.clean), Counted(store, q.offences)
  PROVE  StoreOf(Save(s, store, F), q) /\ OffenceOf(Save(s, store, F), q)
<1>1. PICK t : t = Save(s, store, F)
  OBVIOUS
<1>2. /\ t \in States /\ t.store = store /\ (t.unsaved <=> "save" \in F)
      /\ "save" \in F => t.file = s.file
      /\ "save" \notin F => t.file.readable /\ t.file.store = store
  BY <1>1, SaveFields
<1>3. Backed(s.file.store, q.clean)
  BY BackedMore DEF StoreOf, Histories, States, Totals
<1>4. CASE "save" \in F
  BY <1>1, <1>2, <1>3, <1>4 DEF StoreOf, OffenceOf
<1>5. CASE "save" \notin F
  <2>1. t.file.store = store /\ Load(t.file) = store
    BY <1>2, <1>5 DEF Load
  <2>2. QED
    BY <1>1, <1>2, <1>5, <2>1 DEF StoreOf, OffenceOf
<1>6. QED
  BY <1>4, <1>5

(* A record put in the place of one context.                                *)
LEMMA WithFields ==
  ASSUME NEW store \in Stores, NEW key \in Keys
  PROVE  /\ \A a \in Aggregates :
              LET t == WithAggregate(store, key, a) IN
              /\ t \in Stores /\ t.entries = store.entries
              /\ \A k \in Keys :
                   t.aggregates[k] = IF k = key THEN a ELSE store.aggregates[k]
         /\ \A entry \in Entries :
              LET t == WithEntry(store, key, entry) IN
              /\ t \in Stores /\ t.aggregates = store.aggregates
              /\ \A k \in Keys : t.entries[k] = IF k = key THEN entry ELSE store.entries[k]
<1>1. store.aggregates \in [Keys -> Aggregates] /\ store.entries \in [Keys -> Entries]
  BY StoreTyped
<1>2. ASSUME NEW a \in Aggregates
      PROVE  LET t == WithAggregate(store, key, a) IN
             /\ t \in Stores /\ t.entries = store.entries
             /\ \A k \in Keys : t.aggregates[k] = IF k = key THEN a ELSE store.aggregates[k]
  BY <1>1, StoreTyped DEF WithAggregate
<1>3. ASSUME NEW entry \in Entries
      PROVE  LET t == WithEntry(store, key, entry) IN
             /\ t \in Stores /\ t.aggregates = store.aggregates
             /\ \A k \in Keys : t.entries[k] = IF k = key THEN entry ELSE store.entries[k]
  BY <1>1, StoreTyped DEF WithEntry
<1>4. QED
  BY <1>2, <1>3

(* What the history takes over from a session that is recorded as clean.    *)
Extends(x, e, y) ==
  /\ x.sessions + 1 <= y.sessions /\ x.samples + e.samples <= y.samples
  /\ x.positives + e.positives <= y.positives

(* An aggregate with one more session, and the entry promoted from it.      *)
LEMMA SessionAdded ==
  ASSUME NEW a \in Aggregates, NEW e \in Sessions, clock \in 0 .. MaxClock,
         NEW x \in Totals, NEW y \in Totals, Within(a, x), Extends(x, e, y)
  PROVE  LET b == AddSession(a, e) IN
         /\ b \in Aggregates /\ Within(b, y)
         /\ \A count \in Nat : /\ Promoted(b, count) \in Entries
                               /\ Within(Promoted(b, count), y)
                               /\ Promotes(b) => Earned(Promoted(b, count))
<1> DEFINE b == AddSession(a, e)
<1>1. b \in Aggregates
  BY DEF AddSession, Aggregates, Sessions
<1>2. Within(b, y)
  <2>1. b.sessions = a.sessions + 1 /\ b.samples = a.samples + e.samples
        /\ b.positives = a.positives + e.positives
    BY DEF AddSession
  <2> HIDE DEF b
  <2>2. QED
    BY <2>1 DEF Within, Extends, Aggregates, Sessions, Totals
<1> HIDE DEF b
<1>3. ASSUME NEW count \in Nat
      PROVE  /\ Promoted(b, count) \in Entries /\ Within(Promoted(b, count), y)
             /\ Promotes(b) => Earned(Promoted(b, count))
  <2> DEFINE p == Promoted(b, count)
  <2>1. Repaired(count) \in Nat
    BY DEF Repaired
  <2>2. p \in Entries
    BY <1>1, <2>1 DEF Promoted, Entries, Aggregates
  <2>3. p.sessions = b.sessions /\ p.samples = b.samples /\ p.positives = b.positives
    BY DEF Promoted
  <2> HIDE DEF p
  <2>4. QED
    BY <1>2, <2>2, <2>3 DEF Within, Promotes, Earned, p
<1>4. QED
  BY <1>1, <1>2, <1>3 DEF b

(* A pruned store is written.                                               *)
LEMMA PruneSaved ==
  ASSUME NEW s \in States, NEW st \in Stores, NEW F, NEW h \in Histories,
         NEW q \in Histories, Grows(h.clean, q.clean), StoreOf(s, h),
         Backed(st, q.clean), Counted(st, q.offences),
         \A k \in Keys :
           Save(s, Prune(st), F).store.entries[k] = NoEntry => q.offences[k] = 0
  PROVE  LET t == Save(s, Prune(st), F) IN
         /\ t \in States /\ StoreOf(t, q) /\ OffenceOf(t, q)
         /\ t.up = s.up /\ t.on = s.on /\ t.context = s.context /\ t.ctl = s.ctl
         /\ t.session = s.session /\ t.snap = s.snap /\ t.cpu = s.cpu
         /\ t.latched = s.latched
<1>1. PICK pr \in Stores : pr = Prune(st)
  <2>1. \A k \in Keys : st.aggregates[k] \in Aggregates /\ st.entries[k] \in Entries
    BY StoreTyped
  <2>2. QED
    BY <2>1, StoreTyped DEF Prune
<1>2. PICK t : t = Save(s, pr, F)
  OBVIOUS
<1>3. /\ t \in States /\ t.store = pr
      /\ t.up = s.up /\ t.on = s.on /\ t.context = s.context /\ t.ctl = s.ctl
      /\ t.session = s.session /\ t.snap = s.snap /\ t.cpu = s.cpu
      /\ t.latched = s.latched
  <2>1. LET u == Save(s, pr, F) IN
        /\ u \in States /\ u.store = pr
        /\ u.up = s.up /\ u.on = s.on /\ u.context = s.context /\ u.ctl = s.ctl
        /\ u.session = s.session /\ u.snap = s.snap /\ u.cpu = s.cpu
        /\ u.latched = s.latched
    BY <1>1, SaveFields
  <2>2. QED
    BY <1>2, <2>1
<1>4. \A k \in Keys : pr.entries[k] = NoEntry => q.offences[k] = 0
  BY <1>1, <1>2, <1>3
<1>5. q.clean \in [Keys -> Totals] /\ q.offences \in [Keys -> Nat]
  BY DEF Histories, Totals
<1>6. Backed(pr, q.clean) /\ Counted(pr, q.offences)
  BY <1>1, <1>4, <1>5, PruneKeeps
<1>7. StoreOf(t, q) /\ OffenceOf(t, q)
  BY <1>2, <1>6, SaveKeeps
<1>8. QED
  BY <1>1, <1>2, <1>3, <1>7

(* A closed session leaves a store that claims no more than was shown and   *)
(* forgets nothing that was held against an entry.                          *)
LEMMA RecordKeeps ==
  ASSUME NEW s \in States, NEW F, NEW h \in Histories, NEW q \in Histories,
         clock \in 0 .. MaxClock, s.up, StoreOf(s, h), OffenceOf(s, h),
         Grows(h.clean, q.clean),
         Eligible(s.context, s.session) =>
           /\ Extends(h.clean[s.context], s.session, q.clean[s.context])
           /\ q.offences[s.context] = 0,
         \A k \in Keys : \/ q.offences[k] <= h.offences[k]
                         \/ /\ k = s.context /\ q.offences[k] <= h.offences[k] + 1
                            /\ s.session.contradictions > 0,
         \A k \in Keys :
           RecordSession(s, F).store.entries[k] = NoEntry => q.offences[k] = 0
  PROVE  LET t == RecordSession(s, F) IN
         /\ t \in States /\ StoreOf(t, q) /\ OffenceOf(t, q)
         /\ t.up = s.up /\ t.on = s.on /\ t.context = s.context /\ t.ctl = s.ctl
         /\ t.session = s.session /\ t.snap = s.snap /\ t.cpu = s.cpu
         /\ t.latched = s.latched
<1> DEFINE key == s.context
           t == RecordSession(s, F)
           entry == s.store.entries[key]
<1>1. /\ s.session \in Sessions /\ s.store \in Stores
      /\ s.context \in Contexts \union {NoContext} /\ s.file.store \in Stores
  BY DEF States
<1>2. /\ h.clean \in [Keys -> Totals] /\ q.clean \in [Keys -> Totals]
      /\ h.offences \in [Keys -> Nat] /\ q.offences \in [Keys -> Nat]
  BY DEF Histories, Totals
<1>3. key.complete => key \in Keys
  BY <1>1 DEF Keys, NoContext
<1>4. Backed(s.store, q.clean) /\ Backed(s.file.store, q.clean)
  BY <1>1, <1>2, BackedMore DEF StoreOf
<1>5. \A k \in Keys : /\ s.store.aggregates[k] \in Aggregates
                      /\ s.store.entries[k] \in Entries
  BY <1>1, StoreTyped
<1>6. \A k \in Keys : h.offences[k] <= s.store.entries[k].contradicted
  BY DEF OffenceOf, Counted
<1>7. ASSUME NEW st \in Stores, t = Save(s, Prune(st), F), Backed(st, q.clean),
             Counted(st, q.offences)
      PROVE  /\ t \in States /\ StoreOf(t, q) /\ OffenceOf(t, q)
             /\ t.up = s.up /\ t.on = s.on /\ t.context = s.context /\ t.ctl = s.ctl
             /\ t.session = s.session /\ t.snap = s.snap /\ t.cpu = s.cpu
             /\ t.latched = s.latched
  <2>1. \A k \in Keys :
          Save(s, Prune(st), F).store.entries[k] = NoEntry => q.offences[k] = 0
    BY <1>7
  <2>2. LET u == Save(s, Prune(st), F) IN
        /\ u \in States /\ StoreOf(u, q) /\ OffenceOf(u, q)
        /\ u.up = s.up /\ u.on = s.on /\ u.context = s.context /\ u.ctl = s.ctl
        /\ u.session = s.session /\ u.snap = s.snap /\ u.cpu = s.cpu
        /\ u.latched = s.latched
    BY <1>7, <2>1, PruneSaved
  <2> HIDE DEF t
  <2>3. QED
    BY <1>7, <2>2
<1>8. CASE Eligible(key, s.session)
  <2>1. key \in Keys
    BY <1>3, <1>8 DEF Eligible
  <2> DEFINE a == AddSession(s.store.aggregates[key], s.session)
             p == Promoted(a, entry.contradicted)
             added == WithAggregate(s.store, key, a)
             st == IF Promotes(a) THEN WithEntry(added, key, p) ELSE added
  <2>2. Within(s.store.aggregates[key], h.clean[key]) /\ entry.contradicted \in Nat
    BY <1>5, <2>1 DEF StoreOf, Backed, Entries
  <2>3. /\ a \in Aggregates /\ Within(a, q.clean[key])
        /\ p \in Entries /\ Within(p, q.clean[key])
        /\ Promotes(a) => Earned(p)
    BY <1>1, <1>2, <1>5, <1>8, <2>1, <2>2, SessionAdded
  <2>4. t = Save(s, Prune(st), F)
    <3>1. ~(s.session.contradictions > 0) /\ ~s.session.disabled
      BY <1>8 DEF Eligible
    <3>2. QED
      BY <1>8, <3>1 DEF RecordSession
  <2> HIDE DEF a, p
  <2>5. /\ added \in Stores /\ added.entries = s.store.entries
        /\ \A k \in Keys :
             added.aggregates[k] = IF k = key THEN a ELSE s.store.aggregates[k]
    BY <1>1, <2>1, <2>3, WithFields
  <2> HIDE DEF added
  <2>6. /\ st \in Stores /\ st.aggregates = added.aggregates
        /\ \A k \in Keys : st.entries[k] =
             IF k = key /\ Promotes(a) THEN p ELSE s.store.entries[k]
    <3>1. CASE Promotes(a)
      BY <2>1, <2>3, <2>5, <3>1, WithFields
    <3>2. CASE ~Promotes(a)
      BY <2>5, <3>2
    <3>3. QED
      BY <3>1, <3>2
  <2> HIDE DEF st
  <2>7. Backed(st, q.clean)
    BY <1>4, <2>3, <2>5, <2>6 DEF Backed
  <2>8. ASSUME NEW k \in Keys PROVE q.offences[k] <= st.entries[k].contradicted
    <3>1. CASE k = key
      <4>1. q.offences[k] = 0
        BY <1>8, <3>1
      <4>2. st.entries[k] \in Entries
        BY <2>6, StoreTyped
      <4>3. QED
        BY <4>1, <4>2 DEF Entries
    <3>2. CASE k # key
      <4>1. st.entries[k] = s.store.entries[k] /\ q.offences[k] <= h.offences[k]
        BY <2>6, <3>2
      <4>2. st.entries[k].contradicted \in Nat /\ h.offences[k] \in Nat
            /\ q.offences[k] \in Nat
        BY <1>2, <1>5, <4>1 DEF Entries
      <4>3. h.offences[k] <= st.entries[k].contradicted
        BY <1>6, <4>1
      <4>4. QED
        BY <4>1, <4>2, <4>3
    <3>3. QED
      BY <3>1, <3>2
  <2>9. QED
    BY <1>7, <2>4, <2>6, <2>7, <2>8 DEF Counted
<1> DEFINE told == s.session.contradictions > 0 \/ s.session.disabled
<1>9. CASE ~Eligible(key, s.session) /\ key.complete /\ entry # NoEntry /\ told
  <2>1. key \in Keys
    BY <1>3, <1>9
  <2> DEFINE e == [entry EXCEPT !.contradicted = @ + 1]
             st == WithEntry(s.store, key, e)
  <2>2. /\ e \in Entries /\ e.contradicted = entry.contradicted + 1
        /\ e.sessions = entry.sessions /\ e.samples = entry.samples
        /\ e.positives = entry.positives
    <3>1. entry \in Entries
      BY <1>5, <2>1
    <3> HIDE DEF entry
    <3>2. QED
      BY <3>1 DEF Entries
  <2>3. t = Save(s, Prune(st), F)
    BY <1>9 DEF RecordSession
  <2> HIDE DEF e
  <2>4. /\ st \in Stores /\ st.aggregates = s.store.aggregates
        /\ \A k \in Keys : st.entries[k] = IF k = key THEN e ELSE s.store.entries[k]
    BY <1>1, <2>1, <2>2, WithFields
  <2> HIDE DEF st
  <2>5. Within(e, q.clean[key]) /\ Earned(e)
    <3>1. Within(entry, q.clean[key]) /\ Earned(entry)
      BY <1>4, <2>1 DEF Backed
    <3>2. QED
      BY <1>9, <2>2, <3>1 DEF Within, Earned
  <2>6. Backed(st, q.clean)
    BY <1>4, <2>4, <2>5 DEF Backed
  <2>7. ASSUME NEW k \in Keys PROVE q.offences[k] <= st.entries[k].contradicted
    <3>1. /\ q.offences[k] \in Nat /\ h.offences[k] \in Nat
          /\ s.store.entries[k].contradicted \in Nat
          /\ h.offences[k] <= s.store.entries[k].contradicted
      BY <1>2, <1>5, <1>6 DEF Entries
    <3>2. CASE k = key
      <4>1. st.entries[k].contradicted = s.store.entries[k].contradicted + 1
        BY <2>2, <2>4, <3>2
      <4>2. q.offences[k] <= h.offences[k] + 1
        BY <3>1
      <4>3. QED
        BY <3>1, <4>1, <4>2
    <3>3. CASE k # key
      BY <2>4, <3>1, <3>3
    <3>4. QED
      BY <3>2, <3>3
  <2>8. QED
    BY <1>7, <2>3, <2>4, <2>6, <2>7 DEF Counted
<1>10. CASE ~Eligible(key, s.session) /\ ~(key.complete /\ entry # NoEntry /\ told)
  <2>1. t = s
    BY <1>10 DEF RecordSession
  <2>2. ASSUME NEW k \in Keys PROVE q.offences[k] <= s.store.entries[k].contradicted
    <3>1. /\ q.offences[k] \in Nat /\ h.offences[k] \in Nat
          /\ s.store.entries[k].contradicted \in Nat
          /\ h.offences[k] <= s.store.entries[k].contradicted
      BY <1>2, <1>5, <1>6 DEF Entries
    <3>2. CASE q.offences[k] <= h.offences[k]
      BY <3>1, <3>2
    <3>3. CASE ~(q.offences[k] <= h.offences[k])
      <4>1. k = key /\ s.session.contradictions > 0
        BY <3>3
      <4>2. key.complete
        BY <4>1 DEF Keys
      <4>3. s.store.entries[k] = NoEntry
        BY <1>10, <4>1, <4>2
      <4>4. q.offences[k] = 0
        BY <2>1, <4>3
      <4>5. QED
        BY <3>1, <4>4
    <3>4. QED
      BY <3>2, <3>3
  <2>3. StoreOf(s, q)
    BY <1>4 DEF StoreOf
  <2>4. OffenceOf(s, q)
    <3>1. Counted(s.store, q.offences)
      BY <2>2 DEF Counted
    <3>2. QED
      BY <3>1 DEF OffenceOf
  <2>5. QED
    BY <2>1, <2>3, <2>4
<1>11. QED
  BY <1>8, <1>9, <1>10

(* A session whose samples told against the hint it had.                    *)
Told(h, s) == s.ctl.hint # NoEntry /\ \E i \in DOMAIN h.log : ~h.log[i]

(* A session that counts for its context.                                   *)
Clean(h, s, p) ==
  /\ s.context.complete /\ h.log # <<>>
  /\ ~Told(h, s) /\ p.cpu = h.found

(* What the end of a session adds to the history.                           *)
LEMMA AfterCloseFacts ==
  ASSUME NEW h \in Histories, NEW s \in States, NEW p, p.cpu \in CpuStates
  PROVE  LET q == AfterClose(h, s, p) IN
         /\ q \in Histories /\ q.log = <<>> /\ q.found = p.cpu
         /\ Grows(h.clean, q.clean)
         /\ ~Clean(h, s, p) => q.clean = h.clean
         /\ Clean(h, s, p) =>
              /\ q.clean[s.context].sessions = h.clean[s.context].sessions + 1
              /\ q.clean[s.context].samples = h.clean[s.context].samples + Len(h.log)
              /\ q.clean[s.context].positives
                   = h.clean[s.context].positives + Cardinality(Hits(h.log))
              /\ q.offences[s.context] = 0
         /\ \A k \in Keys : \/ q.offences[k] <= h.offences[k]
                            \/ /\ k = s.context /\ Told(h, s)
                               /\ q.offences[k] <= h.offences[k] + 1
         /\ \A k \in Keys : p.store.entries[k] = NoEntry => q.offences[k] = 0
<1> DEFINE q == AfterClose(h, s, p)
           key == s.context
           told == Told(h, s)
           clean == Clean(h, s, p)
           hits == Cardinality(Hits(h.log))
           log == h.log
           total == [sessions |-> h.clean[key].sessions + 1,
                     samples |-> h.clean[key].samples + Len(log),
                     positives |-> h.clean[key].positives + hits]
           sums == IF ~clean THEN h.clean ELSE [h.clean EXCEPT ![key] = total]
           offences == [k \in Keys |->
                          IF p.store.entries[k] = NoEntry \/ (k = key /\ clean) THEN 0
                          ELSE IF k = key /\ told THEN h.offences[k] + 1
                          ELSE h.offences[k]]
<1>1. /\ h.log \in Seq(BOOLEAN) /\ h.clean \in [Keys -> Totals]
      /\ h.offences \in [Keys -> Nat] /\ p.cpu \in CpuStates
      /\ s.context \in Contexts \union {NoContext}
  BY DEF Histories, States, Totals
<1>2. hits \in Nat /\ Len(log) \in Nat
  <2>1. \A l \in Seq(BOOLEAN) : Cardinality(Hits(l)) \in 0 .. Len(l)
    BY HitsOfMore
  <2>2. QED
    BY <1>1, <2>1
<1>3. clean => key \in Keys
  BY <1>1 DEF Clean, Keys, NoContext
<1>4. q = [log |-> <<>>, found |-> p.cpu, clean |-> sums, offences |-> offences]
  BY DEF AfterClose, Told, Clean, Hits
<1> HIDE DEF hits, clean, told
<1>5. clean => total \in Totals
  <2> SUFFICES ASSUME clean PROVE total \in Totals
    OBVIOUS
  <2>1. PICK x \in Totals : x = h.clean[key]
    BY <1>1, <1>3
  <2>2. PICK len \in Nat : len = Len(log)
    BY <1>2
  <2>3. /\ x.sessions + 1 \in Nat /\ x.samples + len \in Nat /\ x.positives + hits \in Nat
    BY <1>2 DEF Totals
  <2>4. QED
    BY <2>1, <2>2, <2>3 DEF Totals
<1>6. sums \in [Keys -> Totals]
  <2> HIDE DEF total
  <2>1. QED
    BY <1>1, <1>5
<1>7. \A k \in Keys : sums[k] = IF k = key /\ clean THEN total ELSE h.clean[k]
  <2> HIDE DEF total
  <2>1. QED
    BY <1>1, <1>3
<1>8. offences \in [Keys -> Nat]
  BY <1>1
<1>9. \A k \in Keys :
        offences[k] = IF p.store.entries[k] = NoEntry \/ (k = key /\ clean) THEN 0
                      ELSE IF k = key /\ told THEN h.offences[k] + 1
                      ELSE h.offences[k]
  OBVIOUS
<1> HIDE DEF sums, offences
<1>10. /\ q \in Histories /\ q.log = <<>> /\ q.found = p.cpu /\ q.clean = sums
       /\ q.offences = offences
  <2>1. <<>> \in Seq(BOOLEAN)
    OBVIOUS
  <2>2. QED
    BY <1>1, <1>4, <1>6, <1>8, <2>1 DEF Histories, Totals
<1>11. Grows(h.clean, sums)
  <2>1. ASSUME NEW k \in Keys PROVE Within(h.clean[k], sums[k])
    <3>1. h.clean[k] \in Totals
      BY <1>1
    <3>2. Within(h.clean[k], h.clean[k])
      BY <3>1 DEF Within, Totals
    <3>3. k = key => Within(h.clean[k], total)
      BY <1>2, <3>1 DEF Within, Totals
    <3> HIDE DEF total
    <3>4. QED
      BY <1>7, <3>2, <3>3
  <2>2. QED
    BY <2>1 DEF Grows
<1>12. ~clean => sums = h.clean
  BY DEF sums
<1>13. clean =>
         /\ sums[key].sessions = h.clean[key].sessions + 1
         /\ sums[key].samples = h.clean[key].samples + Len(log)
         /\ sums[key].positives = h.clean[key].positives + hits
         /\ offences[key] = 0
  BY <1>3, <1>7, <1>9
<1>14. ASSUME NEW k \in Keys
       PROVE  \/ offences[k] <= h.offences[k]
              \/ k = key /\ told /\ offences[k] <= h.offences[k] + 1
  <2>1. h.offences[k] \in Nat
    BY <1>1
  <2>2. QED
    BY <1>9, <2>1
<1> HIDE DEF q
<1>15. QED
  BY <1>9, <1>10, <1>11, <1>12, <1>13, <1>14 DEF q, clean, told, hits

(* Only the store and the knob of the new state enter the history.          *)
LEMMA AfterCloseSame ==
  ASSUME NEW h, NEW s, NEW p, NEW r, p.cpu = r.cpu, p.store = r.store
  PROVE  AfterClose(h, s, p) = AfterClose(h, s, r)
BY DEF AfterClose

(* The end of a session leaves a store that matches the history.            *)
LEMMA CloseKeeps ==
  ASSUME NEW s, NEW h, NEW n \in Nat, LInv(s, h, n), s.up, NEW F,
         clock \in 0 .. MaxClock
  PROVE  LET t == CloseSession(s, F)
             q == AfterClose(h, s, t)
         IN  /\ t \in States /\ q \in Histories /\ q.log = <<>> /\ q.found = t.cpu
             /\ t.up /\ t.on = s.on /\ t.context = NoContext
             /\ t.snap = NoSnapshot /\ ~t.session.open
             /\ t.session.positives <= t.session.samples
             /\ StoreOf(t, q) /\ OffenceOf(t, q)
<1>1. /\ s \in States /\ h \in Histories /\ SessionOf(s, h) /\ KnobOf(s, h.found)
      /\ ToldOf(s.ctl, h) /\ StoreOf(s, h) /\ OffenceOf(s, h)
  BY DEF LInv
<1>2. NoSession \in Sessions /\ NoSession.open = FALSE /\ NoSession.positives = 0
      /\ NoSession.samples = 0
  BY DEF NoSession, Sessions
<1>3. CASE ~s.session.open
  <2> DEFINE t == CloseSession(s, F)
             q == AfterClose(h, s, t)
  <2>1. t = [s EXCEPT !.context = NoContext]
    BY <1>3 DEF CloseSession
  <2> HIDE DEF t
  <2>2. /\ t \in States /\ t.context = NoContext /\ t.session = s.session /\ t.cpu = s.cpu
        /\ t.store = s.store /\ t.file = s.file /\ t.unsaved = s.unsaved
        /\ t.up = s.up /\ t.on = s.on /\ t.snap = s.snap
    BY <1>1, <2>1 DEF States
  <2>3. ~Told(h, s) /\ ~Clean(h, s, t)
    BY <1>1, <1>3 DEF SessionOf, Told, Clean
  <2>4. /\ q \in Histories /\ q.log = <<>> /\ q.found = t.cpu /\ q.clean = h.clean
        /\ \A k \in Keys : q.offences[k] <= h.offences[k]
    <3>1. t.cpu \in CpuStates
      BY <2>2 DEF States
    <3>2. /\ q \in Histories /\ q.log = <<>> /\ q.found = t.cpu /\ q.clean = h.clean
          /\ \A k \in Keys : \/ q.offences[k] <= h.offences[k]
                             \/ /\ k = s.context /\ Told(h, s)
                                /\ q.offences[k] <= h.offences[k] + 1
      BY <1>1, <2>3, <3>1, AfterCloseFacts
    <3>3. QED
      BY <2>3, <3>2
  <2> HIDE DEF q
  <2>5. \A store \in Stores : Counted(store, h.offences) => Counted(store, q.offences)
    <3>1. ASSUME NEW store \in Stores, Counted(store, h.offences), NEW k \in Keys
          PROVE  q.offences[k] <= store.entries[k].contradicted
      <4>1. q.offences[k] \in Nat /\ h.offences[k] \in Nat
            /\ store.entries[k].contradicted \in Nat
        BY <1>1, <2>4, StoreTyped DEF Histories, Entries
      <4>2. h.offences[k] <= store.entries[k].contradicted /\ q.offences[k] <= h.offences[k]
        BY <2>4, <3>1 DEF Counted
      <4>3. QED
        BY <4>1, <4>2
    <3>2. QED
      BY <3>1 DEF Counted
  <2>6. s.store \in Stores
    BY <1>1 DEF States
  <2>7. OffenceOf(t, q)
    BY <1>1, <2>2, <2>5, <2>6 DEF OffenceOf
  <2>8. StoreOf(t, q)
    BY <1>1, <2>2, <2>4 DEF StoreOf
  <2>9. t.snap = NoSnapshot /\ t.session.positives <= t.session.samples
    BY <1>1, <1>3, <2>2 DEF KnobOf, SessionOf
  <2>10. QED
    BY <1>3, <2>2, <2>4, <2>7, <2>8, <2>9 DEF t, q
<1>4. CASE s.session.open
  <2>1. PICK r \in States : r = Restore(s, F) /\ SameBut(s, r) /\ r.snap = NoSnapshot
                            /\ KnobOf(r, h.found)
    <3>1. PICK r : r = Restore(s, F)
      OBVIOUS
    <3>2. KnobOf(r, h.found)
      <4>1. CASE s.snap = NoSnapshot
        BY <1>1, <3>1, <4>1, RestoreFields
      <4>2. CASE s.snap # NoSnapshot
        BY <1>1, <1>4, <3>1, <4>2, RestoreFields DEF KnobOf, SameBut
      <4>3. QED
        BY <4>1, <4>2
    <3>3. QED
      BY <1>1, <3>1, <3>2, RestoreFields
  <2>2. PICK u : u = RecordSession(r, F)
    OBVIOUS
  <2> DEFINE c == Controller(NoEntry)
             t == CloseSession(s, F)
             q == AfterClose(h, s, t)
  <2>3. t = [u EXCEPT !.session = NoSession, !.context = NoContext, !.ctl = c]
    BY <1>4, <2>1, <2>2 DEF CloseSession
  <2>4. c \in Controllers
    BY NewRun, StoreTyped
  <2> DEFINE w == [r EXCEPT !.store = u.store]
             v == AfterClose(h, s, w)
             key == s.context
  <2>5. w.cpu = r.cpu /\ w.store = u.store /\ w.cpu \in CpuStates
    BY DEF States
  <2> HIDE DEF w
  <2>6. /\ v \in Histories /\ v.log = <<>> /\ v.found = r.cpu
        /\ Grows(h.clean, v.clean)
        /\ Clean(h, s, w) =>
             /\ v.clean[key].sessions = h.clean[key].sessions + 1
             /\ v.clean[key].samples = h.clean[key].samples + Len(h.log)
             /\ v.clean[key].positives = h.clean[key].positives + Cardinality(Hits(h.log))
             /\ v.offences[key] = 0
        /\ \A k \in Keys : \/ v.offences[k] <= h.offences[k]
                           \/ /\ k = key /\ Told(h, s)
                              /\ v.offences[k] <= h.offences[k] + 1
        /\ \A k \in Keys : u.store.entries[k] = NoEntry => v.offences[k] = 0
    <3>1. h \in Histories /\ s \in States /\ w.cpu \in CpuStates
      BY <1>1, <2>5
    <3>2. v \in Histories /\ v.log = <<>> /\ v.found = w.cpu /\ Grows(h.clean, v.clean)
      BY <3>1, AfterCloseFacts
    <3>3. Clean(h, s, w) =>
            /\ v.clean[key].sessions = h.clean[key].sessions + 1
            /\ v.clean[key].samples = h.clean[key].samples + Len(h.log)
            /\ v.clean[key].positives = h.clean[key].positives + Cardinality(Hits(h.log))
            /\ v.offences[key] = 0
      BY <3>1, AfterCloseFacts
    <3>4. \A k \in Keys : \/ v.offences[k] <= h.offences[k]
                          \/ /\ k = key /\ Told(h, s)
                             /\ v.offences[k] <= h.offences[k] + 1
      BY <3>1, AfterCloseFacts
    <3>5. \A k \in Keys : w.store.entries[k] = NoEntry => v.offences[k] = 0
      BY <3>1, AfterCloseFacts
    <3>6. QED
      BY <2>5, <3>2, <3>3, <3>4, <3>5
  <2> HIDE DEF v
  <2>7. /\ r.context = key /\ r.up /\ r.on = s.on /\ r.ctl = s.ctl
        /\ StoreOf(r, h) /\ OffenceOf(r, h)
        /\ r.session.samples = Len(h.log)
        /\ r.session.positives = Cardinality(Hits(h.log))
        /\ r.session.contradictions = s.ctl.total
        /\ r.session.open
    BY <1>1, <1>4, <2>1 DEF SameBut, SessionOf, StoreOf, OffenceOf
  <2>8. Told(h, s) => r.session.contradictions > 0
    BY <1>1, <2>7 DEF Told, ToldOf
  <2>9. ASSUME Eligible(key, r.session) PROVE Clean(h, s, w)
    <3>1. key.complete /\ r.session.samples > 0 /\ r.session.contradictions = 0
          /\ (r.session.attempted => r.session.restored)
      BY <2>9 DEF Eligible
    <3>2. h.log # <<>>
      <4>1. Len(<<>>) = 0
        OBVIOUS
      <4>2. QED
        BY <2>7, <3>1, <4>1
    <3>3. w.cpu = h.found
      BY <2>1, <2>5, <2>7, <3>1 DEF KnobOf
    <3>4. ~Told(h, s)
      BY <2>8, <3>1
    <3>5. QED
      BY <3>1, <3>2, <3>3, <3>4 DEF Clean
  <2>10. Eligible(key, r.session) => /\ Extends(h.clean[key], r.session, v.clean[key])
                                     /\ v.offences[key] = 0
    <3> SUFFICES ASSUME Eligible(key, r.session)
                 PROVE  /\ Extends(h.clean[key], r.session, v.clean[key])
                        /\ v.offences[key] = 0
      OBVIOUS
    <3>1. key \in Keys
      BY <1>1 DEF Eligible, States, Keys, NoContext
    <3>2. h.clean[key] \in Totals /\ r.session \in Sessions
      BY <1>1, <2>1, <3>1 DEF Histories, Totals, States
    <3>3. Clean(h, s, w)
      BY <2>9
    <3>4. PICK x \in Totals, e \in Sessions : x = h.clean[key] /\ e = r.session
      BY <3>2
    <3>5. PICK y : y = v.clean[key]
      OBVIOUS
    <3>6. /\ y.sessions = x.sessions + 1 /\ y.samples = x.samples + e.samples
          /\ y.positives = x.positives + e.positives
      BY <2>6, <2>7, <3>3, <3>4, <3>5
    <3>7. Extends(x, e, y)
      BY <3>6 DEF Extends, Totals, Sessions
    <3>8. QED
      BY <2>6, <3>3, <3>4, <3>5, <3>7
  <2>11. \A k \in Keys : \/ v.offences[k] <= h.offences[k]
                         \/ /\ k = key /\ v.offences[k] <= h.offences[k] + 1
                            /\ r.session.contradictions > 0
    BY <2>6, <2>8
  <2>12. /\ u \in States /\ StoreOf(u, v) /\ OffenceOf(u, v)
         /\ u.up = r.up /\ u.on = r.on /\ u.snap = r.snap /\ u.cpu = r.cpu
    <3>1. \A k \in Keys :
            RecordSession(r, F).store.entries[k] = NoEntry => v.offences[k] = 0
      BY <2>2, <2>6
    <3>2. LET x == RecordSession(r, F) IN
          /\ x \in States /\ StoreOf(x, v) /\ OffenceOf(x, v)
          /\ x.up = r.up /\ x.on = r.on /\ x.snap = r.snap /\ x.cpu = r.cpu
      <4>1. Eligible(r.context, r.session) =>
              /\ Extends(h.clean[r.context], r.session, v.clean[r.context])
              /\ v.offences[r.context] = 0
        BY <2>7, <2>10
      <4>2. \A k \in Keys : \/ v.offences[k] <= h.offences[k]
                            \/ /\ k = r.context /\ v.offences[k] <= h.offences[k] + 1
                               /\ r.session.contradictions > 0
        BY <2>7, <2>11
      <4>3. h \in Histories /\ v \in Histories /\ r \in States /\ Grows(h.clean, v.clean)
            /\ r.up /\ StoreOf(r, h) /\ OffenceOf(r, h)
        BY <1>1, <2>1, <2>6, <2>7
      <4> HIDE DEF key, q, t, c
      <4>4. QED
        BY <3>1, <4>1, <4>2, <4>3, RecordKeeps
    <3>3. QED
      BY <2>2, <3>2
  <2> HIDE DEF c, t, q
  <2>13. /\ t \in States /\ t.session = NoSession /\ t.context = NoContext
         /\ t.cpu = u.cpu /\ t.store = u.store /\ t.file = u.file
         /\ t.unsaved = u.unsaved /\ t.up = u.up /\ t.on = u.on /\ t.snap = u.snap
    BY <1>2, <2>3, <2>4, <2>12 DEF States
  <2>14. q = v
    BY <2>5, <2>12, <2>13, AfterCloseSame DEF q, v
  <2>15. StoreOf(t, q) /\ OffenceOf(t, q)
    BY <2>12, <2>13, <2>14 DEF StoreOf, OffenceOf
  <2>16. QED
    BY <1>2, <2>1, <2>6, <2>7, <2>12, <2>13, <2>14, <2>15 DEF t, q
<1>5. QED
  BY <1>3, <1>4

(* A fresh controller has counted nothing.                                  *)
LEMMA FreshController ==
  ASSUME NEW hint \in Entries, NEW n \in Nat, NEW h, h.log = <<>>
  PROVE  LET c == Controller(hint) IN
         /\ c \in Controllers /\ c.hint = hint /\ ~c.active /\ c.total = 0
         /\ ToldOf(c, h) /\ CountOf(c, n) /\ RunOf(c, h.log)
<1> DEFINE c == Controller(hint)
<1>1. c \in Controllers /\ RunOf(c, h.log)
  BY NewRun
<1>2. /\ c.hint = hint /\ ~c.active /\ c.total = 0 /\ c.positive = 0 /\ c.negative = 0
      /\ c.streak = 0 /\ ~c.disabled /\ c.recent = <<>>
  BY DEF Controller
<1> HIDE DEF c
<1>3. ToldOf(c, h)
  <2>1. DOMAIN h.log = {}
    OBVIOUS
  <2>2. QED
    BY <1>2, <2>1 DEF ToldOf
<1>4. CountOf(c, n)
  <2>1. Len(<<>>) = 0 /\ Window \in Nat
    BY Numbers
  <2>2. 0 <= n /\ 0 <= Window
    BY <2>1
  <2>3. QED
    BY <1>2, <2>1, <2>2 DEF CountOf
<1>5. QED
  BY <1>1, <1>2, <1>3, <1>4 DEF c

(* Between sessions nothing but the store and the file has to be right.     *)
LEMMA Quiet ==
  ASSUME NEW s \in States, NEW q \in Histories, NEW n \in Nat, q.log = <<>>,
         ~s.session.open, ~s.context.game, s.session.positives <= s.session.samples,
         s.snap = NoSnapshot, s.ctl = Controller(NoEntry), StoreOf(s, q), OffenceOf(s, q)
  PROVE  LInv(s, q, n)
<1>1. /\ s.ctl.hint = NoEntry /\ ToldOf(s.ctl, q) /\ CountOf(s.ctl, n)
  BY StoreTyped, FreshController
<1>2. SessionOf(s, q) /\ KnobOf(s, q.found) /\ HintOf(s.ctl, s.context, q)
  BY <1>1 DEF SessionOf, KnobOf, HintOf
<1>3. QED
  BY <1>1, <1>2 DEF LInv

(* The session of a new context starts in step with a history of its own,   *)
(* and with a hint that context has earned.                                 *)
LEMMA PrepareKeeps ==
  ASSUME NEW s, NEW h, NEW n \in Nat, LInv(s, h, n), s.up, NEW F,
         clock \in 0 .. MaxClock, NEW context \in Contexts \union {NoContext},
         context # s.context
  PROVE  LET p == PrepareContext(s, context, F) IN
         /\ LInv(p, AfterClose(h, s, p), n)
         /\ p.context = context /\ ~p.ctl.active
<1>1. PICK t : t = CloseSession(s, F)
  OBVIOUS
<1>2. PICK q : q = AfterClose(h, s, t)
  OBVIOUS
<1>3. /\ t \in States /\ q \in Histories /\ q.log = <<>> /\ q.found = t.cpu
      /\ t.up /\ t.snap = NoSnapshot
      /\ StoreOf(t, q) /\ OffenceOf(t, q)
  BY <1>1, <1>2, CloseKeeps
<1> DEFINE hint == GetHint(t.store, context)
           c == Controller(hint)
           e == IF context.game THEN NewSession ELSE NoSession
           p == PrepareContext(s, context, F)
<1>4. t.store \in Stores
  BY <1>3 DEF States
<1>5. hint \in Entries /\ (hint # NoEntry => /\ context \in Keys
                                            /\ hint = t.store.entries[context]
                                            /\ hint.contradicted < Limit)
  BY <1>4, GetHintFacts
<1>6. context.game \in BOOLEAN
  BY ContextTyped
<1>7. /\ e \in Sessions /\ (e.open <=> context.game) /\ e.samples = 0 /\ e.positives = 0
      /\ e.contradictions = 0
  BY <1>6 DEF NewSession, NoSession, Sessions
<1>8. p = [t EXCEPT !.context = context, !.ctl = c, !.session = e]
  BY <1>1 DEF PrepareContext
<1> HIDE DEF hint
<1>9. /\ c \in Controllers /\ c.hint = hint /\ ~c.active /\ c.total = 0
      /\ ToldOf(c, q) /\ CountOf(c, n) /\ RunOf(c, q.log)
  BY <1>3, <1>5, FreshController
<1> HIDE DEF p, c, e
<1>10. /\ p \in States /\ p.context = context /\ p.ctl = c /\ p.session = e
       /\ p.cpu = t.cpu /\ p.store = t.store /\ p.file = t.file
       /\ p.unsaved = t.unsaved /\ p.up = t.up /\ p.snap = t.snap
  BY <1>3, <1>7, <1>8, <1>9 DEF States
<1>11. AfterClose(h, s, p) = q
  BY <1>2, <1>10, AfterCloseSame
<1>12. SessionOf(p, q)
  <2>1. Hits(<<>>) = {}
    BY DEF Hits
  <2>2. Len(<<>>) = 0 /\ Cardinality(Hits(<<>>)) = 0
    BY <2>1, FS_EmptySet
  <2>3. QED
    BY <1>3, <1>7, <1>9, <1>10, <2>2 DEF SessionOf
<1>13. KnobOf(p, q.found)
  BY <1>3, <1>10 DEF KnobOf
<1>14. StoreOf(p, q) /\ OffenceOf(p, q)
  BY <1>3, <1>10 DEF StoreOf, OffenceOf
<1>15. HintOf(p.ctl, p.context, q)
  <2> SUFFICES ASSUME hint # NoEntry
               PROVE  /\ context \in Keys /\ Within(hint, q.clean[context])
                      /\ Earned(hint) /\ q.offences[context] < Limit
    BY <1>9, <1>10 DEF HintOf
  <2>1. context \in Keys /\ hint = t.store.entries[context] /\ hint.contradicted < Limit
    BY <1>5
  <2>2. Within(hint, q.clean[context]) /\ Earned(hint)
    BY <1>3, <2>1 DEF StoreOf, Backed
  <2>3. q.offences[context] <= hint.contradicted
    BY <1>3, <2>1 DEF OffenceOf, Counted
  <2>4. q.offences[context] \in Nat /\ hint.contradicted \in Nat /\ Limit \in Nat
    BY <1>3, <1>5, <2>1, Numbers DEF Histories, Entries
  <2>5. QED
    BY <2>1, <2>2, <2>3, <2>4
<1>16. LInv(p, q, n)
  BY <1>3, <1>9, <1>10, <1>12, <1>13, <1>14, <1>15 DEF LInv
<1>17. QED
  BY <1>9, <1>10, <1>11, <1>16 DEF p

(* A controller that starts to tune has the evidence for it in the log.     *)
LEMMA JudgeActivates ==
  ASSUME NEW s, NEW h, NEW n \in Nat, LInv(s, h, n), NEW k \in Kinds, NEW F,
         ~s.ctl.active, Judge(s, k, F).ctl.active
  PROVE  s.context.game /\ Evidence(Judge(s, k, F).ctl,
                                    Append(h.log, Positive(k, s.context)))
<1> DEFINE hit == Positive(k, s.context)
           c == Observed(s.ctl, hit)
           a == Decision(c, k)
           d == Decided(c, a)
<1>1. /\ s \in States /\ h \in Histories /\ SessionOf(s, h) /\ KnobOf(s, h.found)
      /\ s.session.open => RunOf(s.ctl, h.log)
  BY DEF LInv
<1>2. s.context \in Contexts \union {NoContext} /\ s.ctl \in Controllers
      /\ h.log \in Seq(BOOLEAN)
  BY <1>1 DEF States, Histories
<1>3. hit \in BOOLEAN /\ (~s.context.game => hit = FALSE)
  BY <1>2, SampleJudged
<1>4. Judge(s, k, F).ctl = d
  BY <1>1, JudgeFields DEF SessionOf
<1>5. c \in Controllers /\ c.active = s.ctl.active
  BY <1>2, <1>3, ObservedFields
<1>6. d.hint = c.hint /\ (d.active => c.active \/ a \in {"epp", "cap"})
  BY <1>5, DecidedFields
<1>7. a \in {"epp", "cap"}
  BY <1>4, <1>5, <1>6
<1>8. s.context.game
  BY <1>2, <1>3, <1>7, NoTuning
<1>9. RunOf(c, Append(h.log, hit))
  BY <1>1, <1>2, <1>3, <1>8, ObservedRun DEF SessionOf
<1>10. Append(h.log, hit) \in Seq(BOOLEAN)
  BY <1>2, <1>3, AppendProperties
<1> HIDE DEF c, hit, d
<1>11. Evidence(c, Append(h.log, hit))
  <2>1. PICK log \in Seq(BOOLEAN) : log = Append(h.log, hit)
    BY <1>10
  <2>2. c \in Controllers /\ RunOf(c, log) /\ Decision(c, k) \in {"epp", "cap"}
    BY <1>5, <1>7, <1>9, <2>1
  <2> HIDE DEF a
  <2>3. Evidence(c, log)
    BY <2>2, DecisionHasEvidence
  <2>4. QED
    BY <2>1, <2>3
<1>12. QED
  BY <1>4, <1>6, <1>8, <1>11 DEF Evidence, hit

(* The inductive invariant.                                                 *)
IInv ==
  /\ LInv(g, hist, ticks)
  /\ clock \in 0 .. MaxClock /\ ticks \in 0 .. MaxTicks /\ faults \in 0 .. MaxFaults

(* A state without a process has no session, and the file it leaves.        *)
LEMMA DownFields ==
  ASSUME NEW file \in [readable : BOOLEAN, store : Stores], NEW cpu \in CpuStates,
         NEW unsaved \in BOOLEAN
  PROVE  LET s == Down(file, cpu, unsaved) IN
         /\ s \in States /\ ~s.up /\ s.file = file /\ s.cpu = cpu
         /\ s.unsaved = unsaved /\ s.store = EmptyStore
         /\ ~s.session.open /\ ~s.context.game
         /\ s.session.positives <= s.session.samples
         /\ s.snap = NoSnapshot /\ s.ctl = Controller(NoEntry)
<1> DEFINE c == Controller(NoEntry)
           s == Down(file, cpu, unsaved)
<1>1. c \in Controllers
  BY NewRun, StoreTyped
<1>2. NoSession \in Sessions /\ NoSession.open = FALSE
      /\ NoSession.positives = 0 /\ NoSession.samples = 0
  BY DEF NoSession, Sessions
<1>3. NoContext \in Contexts \union {NoContext} /\ NoContext.game = FALSE
      /\ EmptyStore \in Stores
  BY StoreTyped DEF NoContext
<1>4. s = [up |-> FALSE, on |-> TRUE, context |-> NoContext, session |-> NoSession,
           ctl |-> c, snap |-> NoSnapshot, latched |-> FALSE, store |-> EmptyStore,
           file |-> file, unsaved |-> unsaved, cpu |-> cpu]
  BY DEF Down
<1> HIDE DEF c, s
<1>5. /\ s \in States /\ ~s.up /\ s.file = file /\ s.cpu = cpu
      /\ s.unsaved = unsaved /\ s.store = EmptyStore /\ s.context = NoContext
      /\ s.session = NoSession /\ s.snap = NoSnapshot /\ s.ctl = c
  BY <1>1, <1>3, <1>4, <1>2 DEF States
<1>6. QED
  BY <1>2, <1>3, <1>5 DEF s, c

(* An empty store claims nothing.                                           *)
LEMMA EmptyBacked ==
  ASSUME NEW clean \in [Keys -> Totals]
  PROVE  Backed(EmptyStore, clean)
<1>1. ASSUME NEW k \in Keys
      PROVE  /\ Within(NoAggregate, clean[k]) /\ Within(NoEntry, clean[k])
             /\ Earned(NoEntry)
  <2>1. clean[k] \in Totals
    OBVIOUS
  <2>2. QED
    BY <2>1 DEF Within, NoAggregate, NoEntry, Earned, Totals
<1>2. QED
  BY <1>1 DEF Backed, EmptyStore

(* What a damaged file loads as claims nothing, and a readable one itself.  *)
LEMMA LoadBacked ==
  ASSUME NEW s \in States, NEW h \in Histories, StoreOf(s, h)
  PROVE  Load(s.file) \in Stores /\ Backed(Load(s.file), h.clean)
BY StoreTyped, EmptyBacked DEF Load, StoreOf, States, Histories, Totals

(* A process that goes down leaves a state without a session.               *)
LEMMA DownKeeps ==
  ASSUME NEW s \in States, NEW q \in Histories, NEW n \in Nat, q.log = <<>>,
         StoreOf(s, q), OffenceOf(s, q)
  PROVE  LInv(Down(s.file, s.cpu, s.unsaved), q, n)
<1>1. PICK t : t = Down(s.file, s.cpu, s.unsaved)
  OBVIOUS
<1>2. s.file \in [readable : BOOLEAN, store : Stores] /\ s.cpu \in CpuStates
      /\ s.unsaved \in BOOLEAN
  BY DEF States
<1>3. /\ t \in States /\ ~t.up /\ t.file = s.file /\ t.unsaved = s.unsaved
      /\ t.store = EmptyStore /\ ~t.session.open /\ ~t.context.game
      /\ t.session.positives <= t.session.samples
      /\ t.snap = NoSnapshot /\ t.ctl = Controller(NoEntry)
  BY <1>1, <1>2, DownFields
<1>4. Backed(EmptyStore, q.clean)
  BY EmptyBacked DEF Histories, Totals
<1>5. StoreOf(t, q) /\ OffenceOf(t, q)
  BY <1>3, <1>4 DEF StoreOf, OffenceOf
<1>6. QED
  BY <1>1, <1>3, <1>5, Quiet

(* At first there is nothing to claim.                                      *)
LEMMA InitLearning == Init => IInv
<1> SUFFICES ASSUME Init PROVE IInv
  OBVIOUS
<1> DEFINE file == [readable |-> TRUE, store |-> EmptyStore]
<1>1. file \in [readable : BOOLEAN, store : Stores] /\ "base" \in CpuStates
  BY StoreTyped DEF CpuStates
<1>2. file.store = EmptyStore /\ Load(file) = EmptyStore
  BY DEF Load
<1>3. g = Down(file, "base", FALSE) /\ hist = NoHistory
  BY DEF Init
<1> HIDE DEF file
<1>4. /\ g \in States /\ ~g.up /\ g.file = file /\ g.store = EmptyStore
      /\ ~g.session.open /\ ~g.context.game
      /\ g.session.positives <= g.session.samples
      /\ g.snap = NoSnapshot /\ g.ctl = Controller(NoEntry)
  BY <1>1, <1>3, DownFields
<1>5. hist \in Histories /\ hist.log = <<>> /\ \A k \in Keys : hist.offences[k] = 0
  BY <1>3 DEF NoHistory, Histories, CpuStates
<1>6. Backed(EmptyStore, hist.clean)
  BY <1>5, EmptyBacked DEF Histories, Totals
<1>7. Counted(EmptyStore, hist.offences)
  BY <1>5 DEF Counted, EmptyStore, NoEntry
<1>8. StoreOf(g, hist) /\ OffenceOf(g, hist)
  BY <1>2, <1>4, <1>6, <1>7 DEF StoreOf, OffenceOf
<1>9. ticks = 0 /\ clock = 0 /\ faults = 0
  BY DEF Init
<1>10. LInv(g, hist, ticks)
  BY <1>4, <1>5, <1>8, <1>9, Quiet
<1>11. QED
  BY <1>9, <1>10, Numbers DEF IInv

(* The faults of one step are a number.                                     *)
LEMMA FaultTyped ==
  ASSUME NEW F, F \in FailureSets \/ F = {"crash"} \/ F = {"damage"},
         faults \in 0 .. MaxFaults, Fault(F)
  PROVE  faults' \in 0 .. MaxFaults
<1>1. Cardinality(F) \in Nat
  <2>1. IsFiniteSet({"apply", "restore", "save"}) /\ IsFiniteSet({"crash"})
        /\ IsFiniteSet({"damage"})
    <3>1. IsFiniteSet({"apply"}) /\ IsFiniteSet({"crash"}) /\ IsFiniteSet({"damage"})
      BY FS_Singleton
    <3>2. IsFiniteSet({"apply"} \union {"restore"})
      BY <3>1, FS_AddElement
    <3>3. IsFiniteSet(({"apply"} \union {"restore"}) \union {"save"})
      BY <3>2, FS_AddElement
    <3>4. ({"apply"} \union {"restore"}) \union {"save"} = {"apply", "restore", "save"}
      OBVIOUS
    <3>5. QED
      BY <3>1, <3>3, <3>4
  <2>2. CASE F \in FailureSets
    <3>1. F \subseteq {"apply", "restore", "save"}
      BY <2>2, LearningAssumption
    <3>2. QED
      BY <2>1, <3>1, FS_Subset, FS_CardinalityType
  <2>3. CASE F \notin FailureSets
    BY <2>1, <2>3, FS_CardinalityType
  <2>4. QED
    BY <2>2, <2>3
<1>2. QED
  BY <1>1, Numbers DEF Fault

(* A tick.                                                                  *)
LEMMA TickKeeps ==
  ASSUME IInv, NEW context \in Contexts \union {NoContext}, NEW k \in Kinds,
         NEW F \in FailureSets, Tick(context, k, F)
  PROVE  /\ IInv'
         /\ g'.ctl.active /\ (~g.ctl.active \/ g'.context # g.context)
              => Evidence(g'.ctl, hist'.log)
<1> DEFINE p == PrepareContext(g, context, F)
           h == IF context = g.context THEN hist ELSE AfterClose(hist, g, p)
           hit == Positive(k, context)
           q == IF context.game THEN [h EXCEPT !.log = Append(@, hit)] ELSE h
<1>1. /\ LInv(g, hist, ticks) /\ clock \in 0 .. MaxClock /\ ticks \in Nat /\ g.up
      /\ ticks + 1 \in 0 .. MaxTicks
  <2>1. MaxTicks \in Nat
    BY Numbers
  <2>2. ticks \in 0 .. MaxTicks /\ ticks < MaxTicks /\ g.up
    BY DEF IInv, Tick
  <2>3. QED
    BY <2>1, <2>2 DEF IInv
<1>2. LInv(p, h, ticks) /\ p.context = context
      /\ (context = g.context => p = g) /\ (context # g.context => ~p.ctl.active)
  <2>1. CASE context = g.context
    BY <1>1, <2>1 DEF PrepareContext
  <2>2. CASE context # g.context
    <3>1. /\ LInv(p, AfterClose(hist, g, p), ticks) /\ p.context = context
          /\ ~p.ctl.active
      BY <1>1, <2>2, PrepareKeeps
    <3>2. QED
      BY <2>2, <3>1
  <2>3. QED
    BY <2>1, <2>2
<1>3. (Classify(k, context) \in Bound) = hit
  BY SampleJudged
<1>4. /\ g' = Judge(p, k, F) /\ ticks' = ticks + 1 /\ clock' = clock /\ Fault(F)
      /\ hist' = IF context.game
                 THEN [h EXCEPT !.log = Append(@, Classify(k, context) \in Bound)]
                 ELSE h
  BY DEF Tick
<1> HIDE DEF p, h, hit
<1>5. hist' = q
  BY <1>3, <1>4
<1>6. LInv(Judge(p, k, F), q, ticks + 1)
  <2>1. PICK s : s = p /\ s.context = context
    BY <1>2
  <2>2. LET x == IF s.context.game THEN [h EXCEPT !.log = Append(@, Positive(k, s.context))]
                 ELSE h
        IN  LInv(Judge(s, k, F), x, ticks + 1)
    BY <1>1, <1>2, <2>1, JudgeKeeps
  <2>3. QED
    BY <2>1, <2>2 DEF hit
<1>7. LInv(g', hist', ticks')
  BY <1>4, <1>5, <1>6
<1>8. faults' \in 0 .. MaxFaults
  BY <1>4, FaultTyped DEF IInv
<1>9. IInv'
  BY <1>1, <1>4, <1>7, <1>8 DEF IInv
<1>10. ASSUME g'.ctl.active, ~g.ctl.active \/ g'.context # g.context
       PROVE  Evidence(g'.ctl, hist'.log)
  <2>1. p \in States /\ h \in Histories /\ SessionOf(p, h) /\ KnobOf(p, h.found)
    BY <1>2 DEF LInv
  <2>2. g'.context = context
    BY <1>2, <1>4, <2>1, JudgeFields DEF SessionOf
  <2>3. ~p.ctl.active
    BY <1>2, <1>10, <2>2
  <2>4. /\ context.game
        /\ Evidence(g'.ctl, Append(h.log, hit))
    BY <1>1, <1>2, <1>4, <1>10, <2>3, JudgeActivates DEF hit
  <2>5. q.log = Append(h.log, hit)
    BY <2>1, <2>4 DEF Histories
  <2>6. QED
    BY <1>5, <2>4, <2>5
<1>11. QED
  BY <1>9, <1>10

(* The controller stops, or the process does.                               *)
LEMMA EndKeeps ==
  ASSUME IInv, NEW F \in FailureSets, SwitchMode(F) \/ Stop(F)
  PROVE  IInv' /\ ~g'.ctl.active
<1> DEFINE c == CloseSession(g, F)
           q == AfterClose(hist, g, c)
<1>1. /\ LInv(g, hist, ticks) /\ clock \in 0 .. MaxClock /\ ticks \in Nat /\ g.up
  BY Numbers DEF IInv, SwitchMode, Stop
<1>2. /\ c \in States /\ q \in Histories /\ q.log = <<>>
      /\ c.context = NoContext /\ c.snap = NoSnapshot /\ ~c.session.open
      /\ c.session.positives <= c.session.samples
      /\ StoreOf(c, q) /\ OffenceOf(c, q)
  BY <1>1, CloseKeeps
<1>3. Restore(c, F) = c
  BY <1>2, RestoreFields
<1>4. Fault(F) /\ hist' = q /\ clock' = clock /\ ticks' = ticks
  BY <1>3 DEF SwitchMode, Stop
<1> DEFINE i == Controller(NoEntry)
<1>5. i \in Controllers /\ ~i.active
  BY NewRun, StoreTyped DEF Controller
<1>6. CASE SwitchMode(F)
  <2>1. g' = [c EXCEPT !.on = ~g.on, !.latched = FALSE, !.ctl = i]
    BY <1>3, <1>6 DEF SwitchMode
  <2>2. (~g.on) \in BOOLEAN
    BY <1>1 DEF LInv, States
  <2> HIDE DEF c, i
  <2>3. PICK s : s = g'
    OBVIOUS
  <2>4. /\ s \in States /\ s.ctl = i /\ s.context = c.context /\ s.session = c.session
        /\ s.snap = c.snap /\ s.store = c.store /\ s.file = c.file
        /\ s.unsaved = c.unsaved /\ s.up = c.up
    BY <1>2, <1>5, <2>1, <2>2, <2>3 DEF States
  <2>5. StoreOf(s, q) /\ OffenceOf(s, q)
    BY <1>2, <2>4 DEF StoreOf, OffenceOf
  <2>6. ~NoContext.game
    BY DEF NoContext
  <2>7. LInv(s, q, ticks)
    BY <1>1, <1>2, <2>4, <2>5, <2>6, Quiet DEF i
  <2>8. LInv(g', hist', ticks')
    BY <1>4, <2>3, <2>7
  <2>9. QED
    BY <1>1, <1>4, <1>5, <2>3, <2>4, <2>8, FaultTyped DEF IInv
<1>7. CASE Stop(F)
  <2>1. g' = Down(c.file, c.cpu, c.unsaved)
    BY <1>3, <1>7 DEF Stop
  <2> HIDE DEF c, q
  <2>2. LInv(Down(c.file, c.cpu, c.unsaved), q, ticks)
    BY <1>1, <1>2, DownKeeps
  <2>3. LInv(g', hist', ticks')
    BY <1>4, <2>1, <2>2
  <2>4. g'.ctl = i
    BY <2>1 DEF Down
  <2>5. QED
    BY <1>1, <1>4, <1>5, <2>3, <2>4, FaultTyped DEF IInv
<1>8. QED
  BY <1>6, <1>7

(* The process is killed.                                                   *)
LEMMA CrashKeeps ==
  ASSUME IInv, Crash
  PROVE  IInv' /\ ~g'.ctl.active
<1>1. /\ g \in States /\ hist \in Histories /\ StoreOf(g, hist) /\ OffenceOf(g, hist)
      /\ ticks \in Nat
  BY Numbers DEF IInv, LInv
<1>2. /\ g' = Down(g.file, g.cpu, g.unsaved) /\ Fault({"crash"})
      /\ hist' = [hist EXCEPT !.log = <<>>, !.found = g.cpu]
      /\ clock' = clock /\ ticks' = ticks
  BY DEF Crash
<1>3. PICK q : q = hist'
  OBVIOUS
<1>4. g.cpu \in CpuStates /\ <<>> \in Seq(BOOLEAN)
  BY <1>1 DEF States
<1>5. /\ q \in Histories /\ q.log = <<>> /\ q.clean = hist.clean
      /\ q.offences = hist.offences
  BY <1>1, <1>2, <1>3, <1>4 DEF Histories
<1>6. StoreOf(g, q) /\ OffenceOf(g, q)
  BY <1>1, <1>5 DEF StoreOf, OffenceOf
<1>7. LInv(Down(g.file, g.cpu, g.unsaved), q, ticks)
  BY <1>1, <1>5, <1>6, DownKeeps
<1>8. LInv(g', hist', ticks')
  BY <1>2, <1>3, <1>7
<1>9. ~g'.ctl.active
  <2>1. g'.ctl = Controller(NoEntry)
    BY <1>2 DEF Down
  <2>2. QED
    BY <2>1 DEF Controller
<1>10. faults' \in 0 .. MaxFaults
  BY <1>2, FaultTyped DEF IInv
<1>11. QED
  BY <1>2, <1>8, <1>9, <1>10 DEF IInv

(* The file is damaged while no process is there.                           *)
LEMMA DamageKeeps ==
  ASSUME IInv, Damage
  PROVE  IInv' /\ g'.ctl = g.ctl /\ g'.context = g.context
<1> DEFINE file == [g.file EXCEPT !.readable = FALSE]
<1>1. g \in States /\ LInv(g, hist, ticks)
  BY DEF IInv, LInv
<1>2. /\ g' = [g EXCEPT !.file.readable = FALSE, !.unsaved = TRUE] /\ ~g.up
      /\ Fault({"damage"}) /\ hist' = hist /\ clock' = clock /\ ticks' = ticks
  BY DEF Damage
<1>3. g' = [g EXCEPT !.file = file, !.unsaved = TRUE]
  BY <1>1, <1>2 DEF States
<1>4. file \in [readable : BOOLEAN, store : Stores] /\ file.store = g.file.store
  BY <1>1 DEF States
<1> HIDE DEF file
<1>5. PICK s : s = g'
  OBVIOUS
<1>6. /\ s \in States /\ s.file = file /\ s.unsaved /\ ~s.up
      /\ s.on = g.on /\ s.context = g.context /\ s.session = g.session
      /\ s.ctl = g.ctl /\ s.snap = g.snap /\ s.latched = g.latched
      /\ s.store = g.store /\ s.cpu = g.cpu
  BY <1>1, <1>2, <1>3, <1>4, <1>5 DEF States
<1>7. SessionOf(s, hist) /\ KnobOf(s, hist.found) /\ StoreOf(s, hist) /\ OffenceOf(s, hist)
  BY <1>1, <1>4, <1>6 DEF LInv, SessionOf, KnobOf, StoreOf, OffenceOf
<1>8. LInv(s, hist, ticks)
  BY <1>1, <1>6, <1>7 DEF LInv
<1>9. LInv(g', hist', ticks')
  BY <1>2, <1>5, <1>8
<1>10. faults' \in 0 .. MaxFaults
  BY <1>2, FaultTyped DEF IInv
<1>11. QED
  BY <1>2, <1>5, <1>6, <1>9, <1>10 DEF IInv

(* The store is loaded; what was not saved is forgotten.                    *)
LEMMA StartKeeps ==
  ASSUME IInv, Start
  PROVE  IInv' /\ g'.ctl = g.ctl /\ g'.context = g.context
<1> DEFINE store == Load(g.file)
<1>1. /\ g \in States /\ hist \in Histories /\ LInv(g, hist, ticks)
      /\ StoreOf(g, hist) /\ OffenceOf(g, hist)
  BY DEF IInv, LInv
<1>2. /\ g' = [g EXCEPT !.up = TRUE, !.store = store, !.unsaved = FALSE]
      /\ hist' = IF g.unsaved THEN [hist EXCEPT !.offences = NoHistory.offences] ELSE hist
      /\ clock' = clock /\ ticks' = ticks /\ faults' = faults
  BY DEF Start
<1>3. store \in Stores /\ Backed(store, hist.clean)
  BY <1>1, LoadBacked
<1>4. PICK s : s = g'
  OBVIOUS
<1>5. PICK q : q = hist'
  OBVIOUS
<1> HIDE DEF store
<1>6. /\ s \in States /\ s.store = store /\ ~s.unsaved /\ s.file = g.file
      /\ s.on = g.on /\ s.context = g.context /\ s.session = g.session
      /\ s.ctl = g.ctl /\ s.snap = g.snap /\ s.latched = g.latched /\ s.cpu = g.cpu
  BY <1>1, <1>2, <1>3, <1>4 DEF States
<1>7. NoHistory.offences \in [Keys -> Nat] /\ \A k \in Keys : NoHistory.offences[k] = 0
  BY DEF NoHistory
<1>8. /\ q \in Histories /\ q.log = hist.log /\ q.found = hist.found
      /\ q.clean = hist.clean
      /\ q.offences = IF g.unsaved THEN NoHistory.offences ELSE hist.offences
  BY <1>1, <1>2, <1>5, <1>7 DEF Histories
<1>9. Counted(store, q.offences)
  <2>1. CASE g.unsaved
    <3>1. \A k \in Keys : q.offences[k] = 0
      BY <1>7, <1>8, <2>1
    <3>2. \A k \in Keys : store.entries[k].contradicted \in Nat
      BY <1>3, StoreTyped DEF Entries
    <3>3. \A k \in Keys : q.offences[k] <= store.entries[k].contradicted
      BY <3>1, <3>2
    <3>4. QED
      BY <3>3 DEF Counted
  <2>2. CASE ~g.unsaved
    BY <1>1, <1>8, <2>2 DEF OffenceOf, store
  <2>3. QED
    BY <2>1, <2>2
<1>10. StoreOf(s, q) /\ OffenceOf(s, q)
  BY <1>1, <1>3, <1>6, <1>8, <1>9 DEF StoreOf, OffenceOf, store
<1>11. SessionOf(s, q) /\ KnobOf(s, q.found) /\ ToldOf(s.ctl, q)
       /\ (s.session.open => RunOf(s.ctl, q.log)) /\ CountOf(s.ctl, ticks)
  BY <1>1, <1>6, <1>8 DEF LInv, SessionOf, KnobOf, ToldOf
<1>12. HintOf(s.ctl, s.context, q)
  <2>1. Limit \in Nat /\ Limit # 0
    BY Numbers
  <2>2. \A k \in Keys : q.offences[k] = 0 \/ q.offences[k] = hist.offences[k]
    BY <1>7, <1>8
  <2>3. HintOf(g.ctl, g.context, hist)
    BY <1>1 DEF LInv
  <2>4. 0 < Limit
    BY <2>1
  <2>5. QED
    BY <1>6, <1>8, <2>2, <2>3, <2>4 DEF HintOf
<1>13. LInv(s, q, ticks)
  BY <1>6, <1>8, <1>10, <1>11, <1>12 DEF LInv
<1>14. LInv(g', hist', ticks')
  BY <1>2, <1>4, <1>5, <1>13
<1>15. QED
  BY <1>2, <1>4, <1>6, <1>14 DEF IInv

(* Every step keeps the invariant and starts to tune only on evidence.      *)
LEMMA NextLearning ==
  ASSUME IInv, [Next]_vars
  PROVE  /\ IInv'
         /\ g'.ctl.active /\ (~g.ctl.active \/ g'.context # g.context)
              => Evidence(g'.ctl, hist'.log)
<1>1. CASE \E F \in FailureSets, context \in Contexts \union {NoContext}, k \in Kinds :
             Tick(context, k, F)
  BY <1>1, TickKeeps
<1>2. CASE \E F \in FailureSets : SwitchMode(F) \/ Stop(F)
  BY <1>2, EndKeeps
<1>3. CASE Crash
  BY <1>3, CrashKeeps
<1>4. CASE Damage
  BY <1>4, DamageKeeps
<1>5. CASE Start
  BY <1>5, StartKeeps
<1>6. CASE Age
  <2>1. clock' \in 0 .. MaxClock
    BY <1>6, Numbers DEF IInv, Age
  <2>2. QED
    BY <1>6, <2>1 DEF IInv, Age
<1>7. CASE UNCHANGED vars
  BY <1>7 DEF IInv, vars
<1>8. QED
  BY <1>1, <1>2, <1>3, <1>4, <1>5, <1>6, <1>7 DEF Next

(* The governor stays in step with what its sessions showed.                *)
THEOREM LearningInvariant == Spec => []IInv
<1>1. IInv /\ [Next]_vars => IInv'
  BY NextLearning
<1>2. QED
  BY InitLearning, <1>1, PTL DEF Spec

(* The types of TypeOK, and that no counter runs ahead of the ticks.        *)
THEOREM LearningTyped == Spec => []TypeOK
<1>1. IInv => TypeOK
  <2> SUFFICES ASSUME IInv PROVE TypeOK
    OBVIOUS
  <2>1. g \in States /\ SessionOf(g, hist) /\ CountOf(g.ctl, ticks)
    BY DEF IInv, LInv
  <2>2. g.ctl \in Controllers
    BY <2>1 DEF States
  <2>3. {g.ctl.positive, g.ctl.negative, g.ctl.streak, g.ctl.total} \subseteq 0 .. MaxTicks
    <3>1. {g.ctl.positive, g.ctl.negative, g.ctl.streak, g.ctl.total} \subseteq Nat
      BY <2>2 DEF Controllers
    <3>2. /\ g.ctl.positive <= ticks /\ g.ctl.negative <= ticks
          /\ g.ctl.streak <= ticks /\ g.ctl.total <= ticks
      BY <2>1 DEF CountOf
    <3>3. MaxTicks \in Nat
      BY Numbers
    <3>4. ticks \in 0 .. MaxTicks
      BY DEF IInv
    <3>5. QED
      BY <3>1, <3>2, <3>3, <3>4
  <2>4. {g.up, g.on, g.latched, g.unsaved} \subseteq BOOLEAN
        /\ g.context \in Contexts \union {NoContext}
        /\ g.store \in Stores /\ g.file \in [readable : BOOLEAN, store : Stores]
        /\ g.cpu \in CpuStates /\ g.snap \in CpuStates \union {NoSnapshot}
    BY <2>1 DEF States
  <2>5. QED
    BY <2>1, <2>3, <2>4 DEF TypeOK, SessionOf, CountOf, IInv
<1>2. QED
  BY LearningInvariant, <1>1, PTL

(* A hint in use rests on sessions that were clean, was earned by them, and *)
(* fewer than Limit sessions have contradicted it since: get_hint hands out *)
(* nothing else, across restarts, failed saves and damaged files.           *)
THEOREM HintsHaveEvidence == Spec => []HintHasEvidence
<1>1. IInv => HintHasEvidence
  <2> SUFFICES ASSUME IInv, g.ctl.hint # NoEntry PROVE HintHasEvidence
    BY DEF HintHasEvidence
  <2>1. HintOf(g.ctl, g.context, hist)
    BY DEF IInv, LInv
  <2>2. QED
    BY <2>1 DEF HintOf, Within, Earned, HintHasEvidence
<1>2. QED
  BY LearningInvariant, <1>1, PTL

(* The controller starts to tune only on what the session at hand showed:   *)
(* no count survives a change of context, and a hint the session has        *)
(* contradicted no longer shortens the wait.                                *)
THEOREM TuningHasEvidence == Spec => ActivationHasEvidence
<1>1. IInv /\ [Next]_vars =>
        [g'.ctl.active /\ (~g.ctl.active \/ g'.context # g.context)
           => EnoughEvidence']_vars
  <2> SUFFICES ASSUME IInv, [Next]_vars, g'.ctl.active,
                      ~g.ctl.active \/ g'.context # g.context
               PROVE  EnoughEvidence'
    OBVIOUS
  <2>1. Evidence(g'.ctl, hist'.log)
    BY NextLearning
  <2>2. QED
    BY <2>1 DEF Evidence, EnoughEvidence, Refuted
<1>2. QED
  BY LearningInvariant, <1>1, PTL DEF Spec, ActivationHasEvidence

=============================================================================
