---------------------------- MODULE GatewayProofs -----------------------------
(***************************************************************************)
(* Proofs about Gateway, for any sources, capacities, batches and bounds:  *)
(* the raw log and the Parquet rows are beginnings of what was accepted,   *)
(* and a shutdown that reports no error has lost nothing.                  *)
(*                                                                         *)
(* An event accepted goes down two lines, and a tick a third one.  Each    *)
(* has an invariant of its own that says where on the line the event is    *)
(* (StateLine, LogLine, RowLine); a fourth says which parts of the lines   *)
(* the shutdown has found empty, and that nothing enters them any more     *)
(* (Drained).                                                              *)
(***************************************************************************)
EXTENDS Gateway, SequenceTheorems, TLAPS

\* q is what comes after the first n events, in order.
From(q, n) == \A i \in 1..Len(q) : q[i] = n + i

\* The state line: what is accepted is reduced or still queued.
StateLine ==
    /\ From(reduced, 0) /\ From(stateQ, Len(reduced))
    /\ Len(accepted) = Len(reduced) + Len(stateQ)

\* The storage line.  A raw writer that has failed leaves the line.
Handed == Len(written) + Len(batch)

LogLine ==
    /\ From(written, 0) /\ Len(written) <= Len(accepted)
    /\ writer \in {"get", "exited"} => batch = <<>>
    /\ writer # "exited" \/ ~fatal =>
         /\ From(batch, Len(written)) /\ From(storageQ, Handed)
         /\ Len(accepted) = Handed + Len(storageQ)

\* The snapshot line: a tick that has been reduced is in the reducer's hand, in
\* the queue, in the Parquet writer's hand or in a file, and further the older it is.
InReducer == IF reducer = "put" THEN {tick} ELSE {}
InWriter == IF parquet = "write" THEN {row} ELSE {}
Line == ToSet(rows) \cup InWriter \cup ToSet(snapshotQ) \cup InReducer

Before(S, T) == \A m \in S, n \in T : m < n

Ordered ==
    /\ Increasing(rows) /\ Increasing(snapshotQ)
    /\ Before(ToSet(rows), InWriter \cup ToSet(snapshotQ) \cup InReducer)
    /\ Before(InWriter, ToSet(snapshotQ) \cup InReducer)
    /\ Before(ToSet(snapshotQ), InReducer)

\* S holds the first of the ticks T, none of them after event r.
Begins(S, T, r) ==
    /\ S \subseteq T
    /\ \A m \in S : m <= r
    /\ \A n \in T, m \in S : n < m => n \in S

Complete(S, T, r) == \A n \in T : n <= r => n \in S

\* A task of the line that has failed ends the line behind it.
RowLine ==
    /\ Increasing(rows) /\ Begins(ToSet(rows), Ticks, Len(reduced))
    /\ parquet # "exited" \/ ~fatal => Ordered /\ Begins(Line, Ticks, Len(reduced))
    /\ (parquet # "exited" /\ reducer # "exited") \/ ~fatal => Complete(Line, Ticks, Len(reduced))

\* What the shutdown has waited for stays so.
After(stages) ==
    \/ shutdown \in stages
    \/ shutdown \in {"closing", "closed", "failed"} /\ ~timedOut

PastProducers == After({"market", "state", "storage", "snapshot", "tasks"})
PastMarket == After({"state", "storage", "snapshot", "tasks"})
PastState == After({"storage", "snapshot", "tasks"})
PastStorage == After({"snapshot", "tasks"})
PastSnapshot == After({"tasks"})

ProducersDone == \A p \in Producers : producers[p] = "done"

Drained ==
    /\ PastProducers => ProducersDone
    /\ PastMarket => MarketDone
    /\ PastState => StateDone
    /\ PastStorage => StorageDone
    /\ PastSnapshot => SnapshotDone

IInv == TypeOK /\ StateLine /\ LogLine /\ RowLine /\ Drained

-----------------------------------------------------------------------------
(* Sequences of numbers of events.                                         *)

LEMMA AppendSeq ==
    ASSUME NEW S, NEW s \in Seq(S), NEW x \in S
    PROVE  /\ Append(s, x) \in Seq(S) /\ Len(Append(s, x)) = Len(s) + 1
           /\ \A i \in 1..Len(s) : Append(s, x)[i] = s[i]
           /\ Append(s, x)[Len(s) + 1] = x
           /\ ToSet(Append(s, x)) = ToSet(s) \cup {x}
<1>1. /\ Append(s, x) \in Seq(S) /\ Len(Append(s, x)) = Len(s) + 1
      /\ \A i \in 1..Len(s) : Append(s, x)[i] = s[i]
      /\ Append(s, x)[Len(s) + 1] = x
      /\ DOMAIN Append(s, x) = 1..Len(s) + 1 /\ DOMAIN s = 1..Len(s) /\ Len(s) \in Nat
  OBVIOUS
<1>2. \A i \in 1..Len(s) + 1 : i \in 1..Len(s) \/ i = Len(s) + 1
  BY <1>1
<1>3. ToSet(Append(s, x)) \subseteq ToSet(s) \cup {x}
  BY <1>1, <1>2 DEF ToSet
<1>4. \A i \in 1..Len(s) : i \in 1..Len(s) + 1 /\ Len(s) + 1 \in 1..Len(s) + 1
  BY <1>1
<1>5. ToSet(s) \subseteq ToSet(Append(s, x))
  BY <1>1, <1>4 DEF ToSet
<1>6. x \in ToSet(Append(s, x))
  <2>1. Len(s) + 1 \in DOMAIN Append(s, x)
    BY <1>1
  <2> QED
    BY <1>1, <2>1 DEF ToSet
<1> QED
  BY <1>1, <1>3, <1>5, <1>6

LEMMA TailSeq ==
    ASSUME NEW S, NEW s \in Seq(S), s # <<>>
    PROVE  /\ Head(s) \in S /\ Head(s) = s[1] /\ Len(s) > 0
           /\ Tail(s) \in Seq(S) /\ Len(Tail(s)) = Len(s) - 1
           /\ \A i \in 1..Len(s) - 1 : Tail(s)[i] = s[i + 1]
           /\ ToSet(s) = {Head(s)} \cup ToSet(Tail(s))
<1>1. /\ Head(s) \in S /\ Head(s) = s[1] /\ Len(s) \in Nat /\ Len(s) > 0
      /\ Tail(s) \in Seq(S) /\ Len(Tail(s)) = Len(s) - 1
      /\ \A i \in 1..Len(s) - 1 : Tail(s)[i] = s[i + 1]
      /\ DOMAIN Tail(s) = 1..Len(s) - 1 /\ DOMAIN s = 1..Len(s)
  OBVIOUS
<1>2. \A i \in 1..Len(s) : i = 1 \/ (i - 1 \in 1..Len(s) - 1 /\ s[i] = Tail(s)[i - 1])
  BY <1>1
<1>3. ToSet(s) \subseteq {Head(s)} \cup ToSet(Tail(s))
  <2>1. ASSUME NEW i \in 1..Len(s), i # 1 PROVE s[i] \in ToSet(Tail(s))
    <3>1. i - 1 \in DOMAIN Tail(s) /\ s[i] = Tail(s)[i - 1]
      BY <1>1, <1>2, <2>1
    <3> QED
      BY <3>1 DEF ToSet
  <2> QED
    BY <1>1, <2>1 DEF ToSet
<1>4. \A i \in 1..Len(s) - 1 : i + 1 \in 1..Len(s)
  BY <1>1
<1>5. ToSet(Tail(s)) \subseteq ToSet(s)
  BY <1>1, <1>4 DEF ToSet
<1>6. 1 \in DOMAIN s
  BY <1>1
<1> QED
  BY <1>1, <1>3, <1>5, <1>6 DEF ToSet

LEMMA Joined ==
    ASSUME NEW S, NEW r \in Seq(S), NEW s \in Seq(S)
    PROVE  /\ r \o s \in Seq(S) /\ Len(r \o s) = Len(r) + Len(s)
           /\ \A i \in 1..Len(r) : (r \o s)[i] = r[i]
           /\ \A i \in 1..Len(s) : (r \o s)[Len(r) + i] = s[i]
<1> DEFINE q == r \o s
<1>1. /\ q \in Seq(S) /\ Len(q) = Len(r) + Len(s) /\ Len(r) \in Nat /\ Len(s) \in Nat
      /\ \A i \in 1..Len(r) + Len(s) : q[i] = IF i <= Len(r) THEN r[i] ELSE s[i - Len(r)]
  BY ConcatProperties
<1> HIDE DEF q
<1>2. ASSUME NEW i \in 1..Len(s) PROVE q[Len(r) + i] = s[i]
  <2>1. /\ Len(r) + i \in 1..Len(r) + Len(s) /\ ~(Len(r) + i <= Len(r))
        /\ Len(r) + i - Len(r) = i
    BY <1>1
  <2>2. q[Len(r) + i] = s[Len(r) + i - Len(r)]
    BY <1>1, <2>1
  <2> QED
    BY <2>1, <2>2
<1>3. \A i \in 1..Len(r) : i \in 1..Len(r) + Len(s) /\ i <= Len(r)
  BY <1>1
<1>4. \A i \in 1..Len(r) : q[i] = r[i]
  BY <1>1, <1>3
<1> QED
  BY <1>1, <1>2, <1>4 DEF q

-----------------------------------------------------------------------------
(* Types.                                                                  *)

\* The raw writer fills its batch with the first events of the queue.
LEMMA Collected ==
    ASSUME TypeOK, WriterCollects
    PROVE  \E n \in 0..Len(storageQ) :
             /\ batch' \in Seq(Nat) /\ Len(batch') = Len(batch) + n
             /\ \A i \in 1..Len(batch) : batch'[i] = batch[i]
             /\ \A i \in 1..n : batch'[Len(batch) + i] = storageQ[i]
             /\ storageQ' \in Seq(Nat) /\ Len(storageQ') = Len(storageQ) - n
             /\ \A i \in 1..Len(storageQ) - n : storageQ'[i] = storageQ[n + i]
<1> DEFINE limit == IF stop THEN Len(storageQ) + 1 ELSE BatchSize
           n == IF Len(storageQ) < limit - 1 THEN Len(storageQ) ELSE limit - 1
<1>1. batch \in Seq(Nat) /\ storageQ \in Seq(Nat) /\ Len(storageQ) \in Nat
      /\ BatchSize \in Nat \ {0}
  BY GatewayAssumption DEF TypeOK, GatewayAssumption
<1>2. n \in 0..Len(storageQ)
  BY <1>1
<1>3. /\ batch' = batch \o SubSeq(storageQ, 1, n)
      /\ storageQ' = SubSeq(storageQ, n + 1, Len(storageQ))
  BY DEF WriterCollects
<1> HIDE DEF n
<1> DEFINE part == SubSeq(storageQ, 1, n)
           new == batch \o part
           left == SubSeq(storageQ, n + 1, Len(storageQ))
<1>p. part \in Seq(Nat) /\ Len(part) = n /\ \A i \in 1..n : part[i] = storageQ[i]
  BY <1>1, <1>2
<1> HIDE DEF part
<1>4. /\ new \in Seq(Nat) /\ Len(new) = Len(batch) + n
      /\ \A i \in 1..Len(batch) : new[i] = batch[i]
      /\ \A i \in 1..n : new[Len(batch) + i] = storageQ[i]
  <2>0. batch \in Seq(Nat) /\ part \in Seq(Nat)
    BY <1>1, <1>p
  <2>1. /\ new \in Seq(Nat) /\ Len(new) = Len(batch) + Len(part)
        /\ \A i \in 1..Len(batch) : new[i] = batch[i]
        /\ \A i \in 1..Len(part) : new[Len(batch) + i] = part[i]
    BY <2>0, Joined
  <2> HIDE DEF new
  <2> QED
    BY <1>p, <2>1
<1>l. /\ left \in Seq(Nat) /\ Len(left) = Len(storageQ) - n
      /\ \A i \in 1..Len(storageQ) - n : left[i] = storageQ[n + i]
  <2>1. /\ n + 1 \in Int /\ Len(storageQ) \in Int /\ n \in Nat /\ n <= Len(storageQ)
        /\ \A i \in n + 1..Len(storageQ) : storageQ[i] \in Nat
    BY <1>1, <1>2
  <2>2. /\ left \in Seq(Nat)
        /\ Len(left) = IF n + 1 <= Len(storageQ) THEN Len(storageQ) - (n + 1) + 1 ELSE 0
        /\ \A i \in 1..Len(storageQ) - (n + 1) + 1 : left[i] = storageQ[n + 1 + i - 1]
    BY <2>1, SubSeqProperties
  <2> HIDE DEF left
  <2>3. Len(storageQ) - (n + 1) + 1 = Len(storageQ) - n
    BY <1>1, <2>1
  <2>4. ASSUME NEW i \in 1..Len(storageQ) - n PROVE left[i] = storageQ[n + i]
    <3>1. n + 1 + i - 1 = n + i
      BY <1>1, <2>1
    <3> QED
      BY <2>2, <2>3, <3>1
  <2>5. Len(left) = Len(storageQ) - n
    BY <1>1, <2>1, <2>2
  <2> QED
    BY <2>2, <2>4, <2>5
<1>5. batch' = new /\ storageQ' = left
  BY <1>3 DEF part
<1> HIDE DEF new, left
<1> QED
  BY <1>2, <1>4, <1>5, <1>l

\* An error of the disk leaves the first events of the batch in the raw log.
LEMMA PartWritten ==
    ASSUME TypeOK, WriterFails
    PROVE  \E n \in 0..Len(batch) :
             /\ written' \in Seq(Nat) /\ Len(written') = Len(written) + n
             /\ \A i \in 1..Len(written) : written'[i] = written[i]
             /\ \A i \in 1..n : written'[Len(written) + i] = batch[i]
<1>1. /\ written \in Seq(Nat) /\ batch \in Seq(Nat)
      /\ Len(batch) \in Nat /\ Len(written) \in Nat
  BY DEF TypeOK
<1>2. PICK n \in 0..Len(batch) : written' = written \o SubSeq(batch, 1, n)
  BY DEF WriterFails
<1>3. n \in 0..Len(batch)
  BY <1>1
<1> DEFINE part == SubSeq(batch, 1, n)
           new == written \o part
<1>p. part \in Seq(Nat) /\ Len(part) = n /\ \A i \in 1..n : part[i] = batch[i]
  BY <1>1, <1>3
<1> HIDE DEF part
<1>4. /\ new \in Seq(Nat) /\ Len(new) = Len(written) + n
      /\ \A i \in 1..Len(written) : new[i] = written[i]
      /\ \A i \in 1..n : new[Len(written) + i] = batch[i]
  <2>0. written \in Seq(Nat) /\ part \in Seq(Nat)
    BY <1>1, <1>p
  <2>1. /\ new \in Seq(Nat) /\ Len(new) = Len(written) + Len(part)
        /\ \A i \in 1..Len(written) : new[i] = written[i]
        /\ \A i \in 1..Len(part) : new[Len(written) + i] = part[i]
    BY <2>0, Joined
  <2> HIDE DEF new
  <2> QED
    BY <1>p, <2>1
<1>5. written' = new
  BY <1>2 DEF part
<1> HIDE DEF new
<1> QED
  BY <1>3, <1>4, <1>5

\* What the actions have in common: they accept an event, or leave the queues
\* of the bus alone.
LEMMA AcceptType ==
    ASSUME TypeOK, NEW kind \in {"data", "tick"}, Accept(kind)
    PROVE  /\ accepted' \in Seq({"data", "tick"}) /\ Len(accepted') = Len(accepted) + 1
           /\ \A i \in 1..Len(accepted) : accepted'[i] = accepted[i]
           /\ accepted'[Len(accepted) + 1] = kind
           /\ stateQ' \in Seq(Nat) /\ Len(stateQ') <= StateCap
           /\ storageQ' \in Seq(Nat) /\ Len(storageQ') <= StorageCap
<1>1. /\ accepted \in Seq({"data", "tick"}) /\ accepted' = Append(accepted, kind)
      /\ stateQ \in Seq(Nat) /\ Len(stateQ) < StateCap
      /\ storageQ \in Seq(Nat) /\ Len(storageQ) < StorageCap
  BY DEF TypeOK, Accept, Room
<1>2. /\ accepted' \in Seq({"data", "tick"}) /\ Len(accepted') = Len(accepted) + 1
      /\ \A i \in 1..Len(accepted) : accepted'[i] = accepted[i]
      /\ accepted'[Len(accepted) + 1] = kind
      /\ Len(accepted') \in Nat
  BY <1>1, AppendSeq
<1>3. /\ stateQ' \in Seq(Nat) /\ Len(stateQ') = Len(stateQ) + 1
      /\ storageQ' \in Seq(Nat) /\ Len(storageQ') = Len(storageQ) + 1
  BY <1>1, <1>2, AppendSeq DEF Accept
<1>4. /\ Len(stateQ) \in Nat /\ Len(storageQ) \in Nat /\ StateCap \in Nat /\ StorageCap \in Nat
  BY <1>1, GatewayAssumption DEF GatewayAssumption
<1> QED
  BY <1>1, <1>2, <1>3, <1>4

LEMMA StageType ==
    /\ ToSet(Stages) = {"producers", "market", "state", "storage", "snapshot", "tasks"}
    /\ DOMAIN Stages = 1..6 /\ Len(Stages) = 6
<1>1. /\ DOMAIN Stages = 1..6 /\ Len(Stages) = 6
      /\ Stages[1] = "producers" /\ Stages[2] = "market" /\ Stages[3] = "state"
      /\ Stages[4] = "storage" /\ Stages[5] = "snapshot" /\ Stages[6] = "tasks"
  BY DEF Stages
<1>2. 1..6 = {1, 2, 3, 4, 5, 6}
  OBVIOUS
<1>3. ToSet(Stages) = {Stages[i] : i \in {1, 2, 3, 4, 5, 6}}
  BY <1>1, <1>2 DEF ToSet
<1>4. ToSet(Stages) = {Stages[1], Stages[2], Stages[3], Stages[4], Stages[5], Stages[6]}
  BY <1>3
<1> QED
  BY <1>1, <1>4

\* The steps of shutdown(), one for each stage.
LEMMA ProceedCases ==
    ASSUME Proceed
    PROVE  \/ /\ shutdown = "producers" /\ shutdown' = "market"
              /\ \A p \in Producers : producers[p] = "done"
           \/ shutdown = "market" /\ shutdown' = "state" /\ MarketDone
           \/ shutdown = "state" /\ shutdown' = "storage" /\ StateDone
           \/ shutdown = "storage" /\ shutdown' = "snapshot" /\ StorageDone
           \/ shutdown = "snapshot" /\ shutdown' = "tasks" /\ SnapshotDone
           \/ shutdown = "tasks" /\ shutdown' = "closing" /\ Exited
<1>1. PICK i \in DOMAIN Stages :
        /\ shutdown = Stages[i] /\ Waited(Stages[i])
        /\ shutdown' = IF i = Len(Stages) THEN "closing" ELSE Stages[i + 1]
  BY DEF Proceed
<1>2. /\ Stages[1] = "producers" /\ Stages[2] = "market" /\ Stages[3] = "state"
      /\ Stages[4] = "storage" /\ Stages[5] = "snapshot" /\ Stages[6] = "tasks"
  BY DEF Stages
<1>3. i \in 1..6 /\ Len(Stages) = 6
  BY <1>1, StageType
<1>4. i = 1 \/ i = 2 \/ i = 3 \/ i = 4 \/ i = 5 \/ i = 6
  BY <1>3
<1> HIDE DEF Stages
<1>5. CASE i = 1
  <2>1. shutdown = "producers" /\ Waited("producers")
    BY <1>1, <1>2, <1>5
  <2>2. shutdown' = "market"
    BY <1>1, <1>2, <1>3, <1>5
  <2> QED
    BY <2>1, <2>2 DEF Waited
<1>6. CASE i = 2
  <2>1. shutdown = "market" /\ Waited("market")
    BY <1>1, <1>2, <1>6
  <2>2. shutdown' = "state"
    BY <1>1, <1>2, <1>3, <1>6
  <2> QED
    BY <2>1, <2>2 DEF Waited
<1>7. CASE i = 3
  <2>1. shutdown = "state" /\ Waited("state")
    BY <1>1, <1>2, <1>7
  <2>2. shutdown' = "storage"
    BY <1>1, <1>2, <1>3, <1>7
  <2> QED
    BY <2>1, <2>2 DEF Waited
<1>8. CASE i = 4
  <2>1. shutdown = "storage" /\ Waited("storage")
    BY <1>1, <1>2, <1>8
  <2>2. shutdown' = "snapshot"
    BY <1>1, <1>2, <1>3, <1>8
  <2> QED
    BY <2>1, <2>2 DEF Waited
<1>9. CASE i = 5
  <2>1. shutdown = "snapshot" /\ Waited("snapshot")
    BY <1>1, <1>2, <1>9
  <2>2. shutdown' = "tasks"
    BY <1>1, <1>2, <1>3, <1>9
  <2> QED
    BY <2>1, <2>2 DEF Waited
<1>10. CASE i = 6
  <2>1. shutdown = "tasks" /\ Waited("tasks")
    BY <1>1, <1>2, <1>10
  <2>2. shutdown' = "closing"
    BY <1>1, <1>2, <1>3, <1>10
  <2> QED
    BY <2>1, <2>2 DEF Waited
<1> QED
  BY <1>4, <1>5, <1>6, <1>7, <1>8, <1>9, <1>10

LEMMA TypeInit == Init => TypeOK
<1> SUFFICES ASSUME Init PROVE TypeOK
  OBVIOUS
<1>1. /\ StateCap \in Nat /\ StorageCap \in Nat /\ SnapshotCap \in Nat
      /\ MarketCap \in Nat /\ MaxWindows \in Nat
  BY GatewayAssumption DEF GatewayAssumption
<1>2. /\ accepted \in Seq({"data", "tick"})
      /\ stateQ \in Seq(Nat) /\ Len(stateQ) <= StateCap
      /\ storageQ \in Seq(Nat) /\ Len(storageQ) <= StorageCap
      /\ snapshotQ \in Seq(Nat) /\ Len(snapshotQ) <= SnapshotCap
      /\ {batch, reduced, written, rows} \subseteq Seq(Nat)
  BY <1>1 DEF Init
<1>3. marketQ \in 0..MarketCap /\ windows \in 0..MaxWindows
  BY <1>1 DEF Init
<1>4. producers \in [Producers -> {"running", "cancelled", "surviving", "done"}]
  BY DEF Init
<1>5. /\ {reducer, manager} \subseteq {"get", "put", "exited"}
      /\ writer \in {"get", "collect", "write", "exited"}
      /\ parquet \in {"get", "write", "exited"}
      /\ shutdown \in {"running", "closing", "closed", "failed"} \cup ToSet(Stages)
  BY DEF Init
<1>6. /\ tick \in Nat /\ row \in Nat
      /\ stop \in BOOLEAN /\ fatal \in BOOLEAN /\ timedOut \in BOOLEAN
  BY DEF Init
<1> QED
  BY <1>2, <1>3, <1>4, <1>5, <1>6 DEF TypeOK

\* What the steps that take from a queue, or that count a window, leave in it.
LEMMA DiscoverType ==
    ASSUME TypeOK, Discover
    PROVE  windows' \in 0..MaxWindows /\ marketQ' \in 0..MarketCap
<1>1. windows \in 0..MaxWindows /\ marketQ \in 0..MarketCap
  BY DEF TypeOK
<1>2. MarketCap \in Nat /\ MaxWindows \in Nat
  BY GatewayAssumption DEF GatewayAssumption
<1>3. windows < MaxWindows /\ windows' = windows + 1
  BY DEF Discover
<1>4. \/ marketQ < MarketCap /\ marketQ' = marketQ + 1
      \/ marketQ' = marketQ
  BY DEF Discover
<1>5. windows' \in 0..MaxWindows
  BY <1>1, <1>2, <1>3
<1>6. marketQ' \in 0..MarketCap
  BY <1>1, <1>2, <1>4
<1> QED
  BY <1>5, <1>6

LEMMA ShorterQueue ==
    ASSUME NEW q \in Seq(Nat), NEW r, NEW Cap \in Nat, Len(q) <= Cap, q # <<>>, r = Tail(q)
    PROVE  Head(q) \in Nat /\ r \in Seq(Nat) /\ Len(r) <= Cap
<1>1. Head(q) \in Nat /\ Tail(q) \in Seq(Nat) /\ Len(Tail(q)) = Len(q) - 1
  BY TailSeq
<1>2. Len(q) \in Nat
  OBVIOUS
<1> QED
  BY <1>1, <1>2

LEMMA WriterTakesType ==
    ASSUME TypeOK, WriterTakes
    PROVE  /\ Head(storageQ) \in Nat /\ storageQ' \in Seq(Nat) /\ Len(storageQ') <= StorageCap
           /\ batch' \in Seq(Nat)
<1>1. storageQ \in Seq(Nat) /\ Len(storageQ) <= StorageCap
  BY DEF TypeOK
<1>2. StorageCap \in Nat
  BY GatewayAssumption DEF GatewayAssumption
<1>3. storageQ # <<>> /\ storageQ' = Tail(storageQ) /\ batch' = <<Head(storageQ)>>
  BY DEF WriterTakes
<1>4. Head(storageQ) \in Nat /\ storageQ' \in Seq(Nat) /\ Len(storageQ') <= StorageCap
  BY <1>1, <1>2, <1>3, ShorterQueue
<1>5. batch' \in Seq(Nat)
  BY <1>3, <1>4
<1> QED
  BY <1>4, <1>5

LEMMA ParquetTakesType ==
    ASSUME TypeOK, ParquetTakes
    PROVE  row' \in Nat /\ snapshotQ' \in Seq(Nat) /\ Len(snapshotQ') <= SnapshotCap
<1>1. snapshotQ \in Seq(Nat) /\ Len(snapshotQ) <= SnapshotCap
  BY DEF TypeOK
<1>2. SnapshotCap \in Nat
  BY GatewayAssumption DEF GatewayAssumption
<1>3. snapshotQ # <<>> /\ snapshotQ' = Tail(snapshotQ) /\ row' = Head(snapshotQ)
  BY DEF ParquetTakes
<1> QED
  BY <1>1, <1>2, <1>3, ShorterQueue

LEMMA CollectsType ==
    ASSUME TypeOK, WriterCollects
    PROVE  batch' \in Seq(Nat) /\ storageQ' \in Seq(Nat) /\ Len(storageQ') <= StorageCap
<1>1. /\ storageQ \in Seq(Nat) /\ batch \in Seq(Nat)
      /\ Len(storageQ) <= StorageCap
  BY DEF TypeOK
<1>2. StorageCap \in Nat
  BY GatewayAssumption DEF GatewayAssumption
<1>3. PICK n \in 0..Len(storageQ) :
        /\ batch' \in Seq(Nat) /\ storageQ' \in Seq(Nat)
        /\ Len(storageQ') = Len(storageQ) - n
  BY Collected
<1>4. Len(storageQ) \in Nat /\ n \in 0..Len(storageQ)
  BY <1>1, <1>3
<1>5. Len(storageQ') <= StorageCap
  BY <1>1, <1>2, <1>3, <1>4
<1> QED
  BY <1>3, <1>5

LEMMA TypeStep == TypeOK /\ [Next]_vars => TypeOK'
<1> SUFFICES ASSUME TypeOK, [Next]_vars PROVE TypeOK'
  OBVIOUS
<1> USE DEF TypeOK
<1>a. /\ StateCap \in Nat \ {0} /\ StorageCap \in Nat \ {0} /\ MarketCap \in Nat \ {0}
      /\ SnapshotCap \in Nat \ {0} /\ BatchSize \in Nat \ {0} /\ MaxWindows \in Nat
  BY GatewayAssumption DEF GatewayAssumption
<1>1. ASSUME NEW kind \in {"data", "tick"}, Accept(kind),
             UNCHANGED <<taskVars, managerVars, writerVars, parquetVars, producers, stop, fatal,
                         shutdownVars>>
      PROVE  TypeOK'
  BY <1>1, AcceptType DEF taskVars, managerVars, writerVars, parquetVars, shutdownVars
<1>2. ASSUME NEW p \in Sources, Produce(p) PROVE TypeOK'
  BY <1>1, <1>2 DEF Produce
<1>3. ASSUME Schedule PROVE TypeOK'
  BY <1>1, <1>3 DEF Schedule
<1>4. ASSUME ScheduleFails \/ ScheduleStops PROVE TypeOK'
  BY <1>4 DEF ScheduleFails, ScheduleStops, Refused, Fatal, queueVars, taskVars, managerVars,
              writerVars, parquetVars, shutdownVars
<1>5. ASSUME Discover PROVE TypeOK'
  <2>1. windows' \in 0..MaxWindows /\ marketQ' \in 0..MarketCap
    BY <1>5, DiscoverType
  <2>2. /\ producers' \in [Producers -> {"running", "cancelled", "surviving", "done"}]
        /\ stop' \in BOOLEAN /\ fatal' \in BOOLEAN
    BY <1>5 DEF Discover, Fatal, NotFatal
  <2> QED
    BY <1>5, <2>1, <2>2 DEF Discover, queueVars, taskVars, writerVars, parquetVars, shutdownVars
<1>6. ASSUME NEW p \in Producers, ProducerEnds(p) PROVE TypeOK'
  <2>1. /\ producers' \in [Producers -> {"running", "cancelled", "surviving", "done"}]
        /\ UNCHANGED <<taskVars, managerVars, writerVars, parquetVars, shutdownVars>>
        /\ stop' \in BOOLEAN /\ fatal' \in BOOLEAN
    BY <1>6 DEF ProducerEnds, Fatal, NotFatal
  <2>2. CASE Accept("data")
    BY <2>1, <2>2, AcceptType DEF taskVars, managerVars, writerVars, parquetVars, shutdownVars
  <2>3. CASE UNCHANGED queueVars
    BY <2>1, <2>3 DEF queueVars, taskVars, managerVars, writerVars, parquetVars, shutdownVars
  <2> QED
    BY <1>6, <2>2, <2>3 DEF ProducerEnds, Refused
<1>7. ASSUME ManagerTakes \/ ManagerFails \/ ManagerExits PROVE TypeOK'
  <2>1. marketQ' \in 0..MarketCap /\ manager' \in {"get", "put", "exited"}
    <3>1. CASE ManagerTakes
      BY <1>a, <3>1 DEF ManagerTakes
    <3>2. CASE ManagerFails \/ ManagerExits
      BY <3>2 DEF ManagerFails, ManagerExits
    <3> QED
      BY <1>7, <3>1, <3>2
  <2>2. stop' \in BOOLEAN /\ fatal' \in BOOLEAN
    BY <1>7 DEF ManagerTakes, ManagerFails, ManagerExits, Fatal, NotFatal
  <2>3. UNCHANGED <<queueVars, taskVars, windows, writerVars, parquetVars, producers, shutdownVars>>
    BY <1>7 DEF ManagerTakes, ManagerFails, ManagerExits
  <2> QED
    BY <2>1, <2>2, <2>3 DEF queueVars, taskVars, writerVars, parquetVars, shutdownVars
<1>8. ASSUME ManagerPublishes PROVE TypeOK'
  BY <1>8, AcceptType DEF ManagerPublishes, taskVars, writerVars, parquetVars, shutdownVars
<1>9. ASSUME ReducerTakes PROVE TypeOK'
  <2>1. /\ Head(stateQ) \in Nat /\ stateQ' \in Seq(Nat) /\ Len(stateQ') <= StateCap
        /\ reduced' \in Seq(Nat)
    <3>1. stateQ \in Seq(Nat) /\ stateQ # <<>> /\ reduced \in Seq(Nat)
          /\ stateQ' = Tail(stateQ) /\ reduced' = Append(reduced, Head(stateQ))
      BY <1>9 DEF ReducerTakes
    <3>2. Head(stateQ) \in Nat /\ Tail(stateQ) \in Seq(Nat) /\ Len(Tail(stateQ)) = Len(stateQ) - 1
      BY <3>1, TailSeq
    <3> QED
      BY <1>a, <3>1, <3>2, AppendSeq
  <2>2. reducer' \in {"get", "put", "exited"} /\ tick' \in Nat
    BY <1>9, <2>1 DEF ReducerTakes
  <2> QED
    BY <1>9, <2>1, <2>2 DEF ReducerTakes, managerVars, writerVars, parquetVars, shutdownVars
<1>10. ASSUME ReducerStores PROVE TypeOK'
  <2>1. snapshotQ' \in Seq(Nat) /\ Len(snapshotQ') <= SnapshotCap
    BY <1>10, <1>a, AppendSeq DEF ReducerStores
  <2> QED
    BY <1>10, <2>1 DEF ReducerStores, queueVars, managerVars, writerVars, parquetVars, shutdownVars
<1>11. ASSUME ReducerFails \/ ReducerExits PROVE TypeOK'
  <2>1. reducer' = "exited" /\ tick' \in Nat
    BY <1>11 DEF ReducerFails, ReducerExits
  <2>2. stop' \in BOOLEAN /\ fatal' \in BOOLEAN
    BY <1>11 DEF ReducerFails, ReducerExits, Fatal
  <2>3. UNCHANGED <<queueVars, snapshotQ, reduced, managerVars, writerVars, parquetVars,
                    producers, shutdownVars>>
    BY <1>11 DEF ReducerFails, ReducerExits
  <2> QED
    BY <2>1, <2>2, <2>3 DEF queueVars, managerVars, writerVars, parquetVars, shutdownVars
<1>12. ASSUME WriterTakes PROVE TypeOK'
  <2>1. /\ Head(storageQ) \in Nat /\ storageQ' \in Seq(Nat) /\ Len(storageQ') <= StorageCap
        /\ batch' \in Seq(Nat)
    BY <1>12, WriterTakesType
  <2> QED
    BY <1>12, <2>1 DEF WriterTakes, taskVars, managerVars, parquetVars, shutdownVars
<1>13. ASSUME WriterCollects PROVE TypeOK'
  <2>1. /\ batch' \in Seq(Nat) /\ storageQ' \in Seq(Nat) /\ Len(storageQ') <= StorageCap
    BY <1>13, CollectsType
  <2> QED
    BY <1>13, <2>1 DEF WriterCollects, taskVars, managerVars, parquetVars, shutdownVars
<1>14. ASSUME WriterWrites PROVE TypeOK'
  BY <1>14 DEF WriterWrites, queueVars, taskVars, managerVars, parquetVars, shutdownVars
<1>15. ASSUME WriterFails PROVE TypeOK'
  <2>1. written' \in Seq(Nat)
    BY <1>15, PartWritten
  <2>2. batch' = <<>> /\ writer' = "exited" /\ stop' \in BOOLEAN /\ fatal' \in BOOLEAN
    BY <1>15 DEF WriterFails, Fatal
  <2>3. UNCHANGED <<queueVars, taskVars, managerVars, parquetVars, producers, shutdownVars>>
    BY <1>15 DEF WriterFails
  <2> QED
    BY <2>1, <2>2, <2>3 DEF queueVars, taskVars, managerVars, parquetVars, shutdownVars
<1>16. ASSUME WriterExits PROVE TypeOK'
  BY <1>16 DEF WriterExits, queueVars, taskVars, managerVars, parquetVars, shutdownVars
<1>17. ASSUME ParquetTakes PROVE TypeOK'
  <2>1. row' \in Nat /\ snapshotQ' \in Seq(Nat) /\ Len(snapshotQ') <= SnapshotCap
    BY <1>17, ParquetTakesType
  <2> QED
    BY <1>17, <2>1 DEF ParquetTakes, queueVars, managerVars, writerVars, shutdownVars
<1>18. ASSUME ParquetWrites \/ ParquetFails \/ ParquetExits PROVE TypeOK'
  <2>1. parquet' \in {"get", "exited"} /\ row' \in Nat
    <3>1. CASE ParquetWrites \/ ParquetFails
      BY <3>1 DEF ParquetWrites, ParquetFails
    <3>2. CASE ParquetExits
      BY <3>2 DEF ParquetExits
    <3> QED
      BY <1>18, <3>1, <3>2
  <2>a. stop' \in BOOLEAN /\ fatal' \in BOOLEAN
    BY <1>18 DEF ParquetWrites, ParquetFails, ParquetExits, Fatal
  <2>2. rows' \in Seq(Nat)
    <3>1. CASE ParquetWrites
      BY <3>1, AppendSeq DEF ParquetWrites
    <3>2. CASE ParquetFails \/ ParquetExits
      BY <3>2 DEF ParquetFails, ParquetExits
    <3> QED
      BY <1>18, <3>1, <3>2
  <2>3. UNCHANGED <<queueVars, taskVars, managerVars, writerVars, producers, shutdownVars>>
    BY <1>18 DEF ParquetWrites, ParquetFails, ParquetExits
  <2> QED
    BY <2>1, <2>a, <2>2, <2>3 DEF queueVars, taskVars, managerVars, writerVars, shutdownVars
<1>19. ASSUME Shutdown PROVE TypeOK'
  BY <1>19, StageType DEF Shutdown, queueVars, taskVars, managerVars, writerVars, parquetVars
<1>20. ASSUME Proceed PROVE TypeOK'
  <2>1. shutdown' \in {"closing"} \cup ToSet(Stages)
    BY <1>20, ProceedCases, StageType
  <2>2. stop' \in BOOLEAN
    BY <1>20 DEF Proceed
  <2> QED
    BY <1>20, <2>1, <2>2 DEF Proceed, queueVars, taskVars, managerVars, writerVars, parquetVars
<1>21. ASSUME TimesOut \/ Close \/ CloseFails \/ DiscoverySurvives PROVE TypeOK'
  BY <1>21 DEF TimesOut, DiscoverySurvives, Close, CloseFails, queueVars, taskVars, managerVars, writerVars,
               parquetVars, shutdownVars
<1>22. ASSUME UNCHANGED vars PROVE TypeOK'
  BY <1>22 DEF vars, queueVars, taskVars, managerVars, writerVars, parquetVars, shutdownVars
<1> QED
  BY <1>2, <1>3, <1>4, <1>5, <1>6, <1>7, <1>8, <1>9, <1>10, <1>11, <1>12, <1>13, <1>14, <1>15,
     <1>16, <1>17, <1>18, <1>19, <1>20, <1>21, <1>22
  DEF Next, ProducerStep, WorkerStep

\* The queues never exceed their capacities, and every task is where the code
\* lets it be.
THEOREM TypeCorrect == Spec => []TypeOK
BY TypeInit, TypeStep, PTL DEF Spec

-----------------------------------------------------------------------------
(* The lines.                                                              *)

\* What a step may do to the lines: the producers, the market manager and
\* shutdown() only add an event to the two queues of the bus, or do nothing.
Accepts ==
    /\ \E kind \in {"data", "tick"} : Accept(kind)
    /\ manager = "put" \/ ~ProducersDone
    /\ UNCHANGED <<taskVars, writerVars, parquetVars>>
    /\ fatal => fatal'

Nothing ==
    /\ UNCHANGED <<queueVars, taskVars, writerVars, parquetVars>>
    /\ fatal => fatal'

LEMMA Effects ==
    ASSUME [Next]_vars
    PROVE  \/ Accepts \/ Nothing
           \/ ReducerTakes \/ ReducerStores \/ ReducerFails \/ ReducerExits
           \/ WriterTakes \/ WriterCollects \/ WriterWrites \/ WriterFails \/ WriterExits
           \/ ParquetTakes \/ ParquetWrites \/ ParquetFails \/ ParquetExits
<1>1. ASSUME NEW p \in Sources, Produce(p) PROVE Accepts
  BY <1>1 DEF Produce, Accepts, ProducersDone, Producers
<1>2. ASSUME Schedule PROVE Accepts
  BY <1>2 DEF Schedule, Accepts, ProducersDone, Producers
<1>3. ASSUME ManagerPublishes PROVE Accepts
  BY <1>3 DEF ManagerPublishes, Accepts
<1>4. ASSUME NEW p \in Producers, ProducerEnds(p) PROVE Accepts \/ Nothing
  <2>1. UNCHANGED <<taskVars, writerVars, parquetVars>> /\ (fatal => fatal')
    BY <1>4 DEF ProducerEnds, Fatal, NotFatal
  <2>2. UNCHANGED queueVars \/ Accept("data")
    BY <1>4 DEF ProducerEnds, Refused
  <2> QED
    BY <1>4, <2>1, <2>2 DEF Accepts, Nothing, ProducersDone, ProducerEnds
<1>5. ASSUME ScheduleFails \/ ScheduleStops PROVE Nothing
  BY <1>5 DEF ScheduleFails, ScheduleStops, Refused, Fatal, Nothing
<1>6. ASSUME Discover PROVE Nothing
  BY <1>6 DEF Discover, Fatal, NotFatal, taskVars, Nothing
<1>7. ASSUME ManagerTakes \/ ManagerFails \/ ManagerExits PROVE Nothing
  BY <1>7 DEF ManagerTakes, ManagerFails, ManagerExits, Fatal, NotFatal, Nothing
<1>8. ASSUME DiscoverySurvives \/ Shutdown \/ Proceed \/ TimesOut \/ Close \/ CloseFails
      PROVE  Nothing
  BY <1>8 DEF DiscoverySurvives, Shutdown, Proceed, TimesOut, Close, CloseFails, Nothing
<1>9. ASSUME UNCHANGED vars PROVE Nothing
  BY <1>9 DEF vars, Nothing
<1> QED
  BY <1>1, <1>2, <1>3, <1>4, <1>5, <1>6, <1>7, <1>8, <1>9 DEF Next, ProducerStep, WorkerStep

LEMMA FromAppend ==
    ASSUME NEW q \in Seq(Nat), NEW n \in Nat, From(q, n)
    PROVE  From(Append(q, n + Len(q) + 1), n)
<1>1. n + Len(q) + 1 \in Nat /\ Len(q) \in Nat
  OBVIOUS
<1>2. /\ Len(Append(q, n + Len(q) + 1)) = Len(q) + 1
      /\ \A i \in 1..Len(q) : Append(q, n + Len(q) + 1)[i] = q[i]
      /\ Append(q, n + Len(q) + 1)[Len(q) + 1] = n + Len(q) + 1
  BY <1>1, AppendSeq
<1>3. \A i \in 1..Len(q) + 1 : i \in 1..Len(q) \/ i = Len(q) + 1
  BY <1>1
<1> QED
  BY <1>1, <1>2, <1>3 DEF From

LEMMA FromTail ==
    ASSUME NEW q \in Seq(Nat), q # <<>>, NEW n \in Nat, From(q, n)
    PROVE  Head(q) = n + 1 /\ From(Tail(q), n + 1)
<1>1. /\ Head(q) = q[1] /\ Len(q) \in Nat /\ Len(q) > 0 /\ Len(Tail(q)) = Len(q) - 1
      /\ \A i \in 1..Len(q) - 1 : Tail(q)[i] = q[i + 1]
  BY TailSeq
<1>2. 1 \in 1..Len(q) /\ \A i \in 1..Len(q) - 1 : i + 1 \in 1..Len(q)
  BY <1>1
<1> QED
  BY <1>1, <1>2 DEF From

\* w goes on with the first n events of b.
LEMMA Lengthened ==
    ASSUME NEW w \in Seq(Nat), NEW b \in Seq(Nat), NEW v, NEW n \in 0..Len(b),
           From(w, 0), From(b, Len(w)),
           Len(v) = Len(w) + n,
           \A i \in 1..Len(w) : v[i] = w[i],
           \A i \in 1..n : v[Len(w) + i] = b[i]
    PROVE  From(v, 0)
<1>1. Len(w) \in Nat /\ Len(b) \in Nat
  OBVIOUS
<1>2. ASSUME NEW i \in 1..Len(w) + n PROVE v[i] = 0 + i
  <2>1. CASE i \in 1..Len(w)
    BY <2>1 DEF From
  <2>2. CASE i \notin 1..Len(w)
    <3>1. i - Len(w) \in 1..n /\ i - Len(w) \in 1..Len(b) /\ Len(w) + (i - Len(w)) = i
      BY <1>1, <2>2
    <3>2. v[i] = b[i - Len(w)] /\ b[i - Len(w)] = Len(w) + (i - Len(w))
      BY <3>1 DEF From
    <3> QED
      BY <1>1, <3>1, <3>2
  <2> QED
    BY <2>1, <2>2
<1> QED
  BY <1>2 DEF From

LEMMA StateLineStep == TypeOK /\ StateLine /\ [Next]_vars => StateLine'
<1> SUFFICES ASSUME TypeOK, StateLine, [Next]_vars PROVE StateLine'
  OBVIOUS
<1>0. /\ stateQ \in Seq(Nat) /\ reduced \in Seq(Nat) /\ accepted \in Seq({"data", "tick"})
      /\ Len(stateQ) \in Nat /\ Len(reduced) \in Nat /\ Len(accepted) \in Nat
      /\ From(reduced, 0) /\ From(stateQ, Len(reduced))
      /\ Len(accepted) = Len(reduced) + Len(stateQ)
  BY DEF TypeOK, StateLine
<1>1. ASSUME Accepts PROVE StateLine'
  <2>1. PICK kind \in {"data", "tick"} : Accept(kind)
    BY <1>1 DEF Accepts
  <2>2. Len(accepted') = Len(accepted) + 1 /\ reduced' = reduced
    BY <1>1, <2>1, AcceptType DEF Accepts, taskVars
  <2>3. stateQ' = Append(stateQ, Len(reduced) + Len(stateQ) + 1)
    BY <1>0, <2>1, <2>2 DEF Accept
  <2>4. From(stateQ', Len(reduced))
    BY <1>0, <2>3, FromAppend
  <2>5. Len(stateQ') = Len(stateQ) + 1
    BY <1>0, <2>3, AppendSeq
  <2> QED
    BY <1>0, <2>2, <2>4, <2>5 DEF StateLine
<1>2. ASSUME ReducerTakes PROVE StateLine'
  <2>1. /\ stateQ # <<>> /\ stateQ' = Tail(stateQ) /\ accepted' = accepted
        /\ reduced' = Append(reduced, Head(stateQ))
    BY <1>2 DEF ReducerTakes
  <2>2. Head(stateQ) = Len(reduced) + 1 /\ From(stateQ', Len(reduced) + 1)
    BY <1>0, <2>1, FromTail
  <2>3. reduced' = Append(reduced, 0 + Len(reduced) + 1)
    BY <1>0, <2>1, <2>2
  <2>4. From(reduced', 0)
    BY <1>0, <2>3, FromAppend
  <2>5. Len(reduced') = Len(reduced) + 1 /\ Len(stateQ') = Len(stateQ) - 1
    BY <1>0, <2>1, <2>2, TailSeq, AppendSeq
  <2> QED
    BY <1>0, <2>1, <2>2, <2>4, <2>5 DEF StateLine
<1>3. ASSUME UNCHANGED <<accepted, stateQ, reduced>> PROVE StateLine'
  BY <1>3, <1>0 DEF StateLine, From
<1> QED
  BY <1>1, <1>2, <1>3, Effects
  DEF Nothing, queueVars, taskVars, ReducerStores, ReducerFails, ReducerExits,
      WriterTakes, WriterCollects, WriterWrites, WriterFails, WriterExits,
      ParquetTakes, ParquetWrites, ParquetFails, ParquetExits

LEMMA LogLineStep == TypeOK /\ LogLine /\ [Next]_vars => LogLine'
<1> SUFFICES ASSUME TypeOK, LogLine, [Next]_vars PROVE LogLine'
  OBVIOUS
<1>0. /\ storageQ \in Seq(Nat) /\ batch \in Seq(Nat) /\ written \in Seq(Nat)
      /\ Len(storageQ) \in Nat /\ Len(batch) \in Nat /\ Len(written) \in Nat
      /\ accepted \in Seq({"data", "tick"}) /\ Len(accepted) \in Nat
      /\ Handed \in Nat
      /\ From(written, 0) /\ Len(written) <= Len(accepted)
  BY DEF TypeOK, LogLine, Handed
<1> DEFINE InLine == writer # "exited" \/ ~fatal
<1>l. InLine => /\ From(batch, Len(written)) /\ From(storageQ, Handed)
                /\ Len(accepted) = Handed + Len(storageQ)
  BY DEF LogLine
<1>1. ASSUME Accepts PROVE LogLine'
  <2>1. PICK kind \in {"data", "tick"} : Accept(kind)
    BY <1>1 DEF Accepts
  <2>2. /\ Len(accepted') = Len(accepted) + 1 /\ UNCHANGED <<writer, batch, written>>
        /\ InLine' => InLine
    BY <1>1, <2>1, AcceptType DEF Accepts, writerVars
  <2>3. /\ storageQ' = Append(storageQ, Len(accepted) + 1)
        /\ Len(storageQ') = Len(storageQ) + 1
    BY <1>0, <2>1, <2>2, AppendSeq DEF Accept
  <2>4. ASSUME InLine' PROVE From(storageQ', Handed)
    <3>1. storageQ' = Append(storageQ, Handed + Len(storageQ) + 1)
      BY <1>0, <1>l, <2>2, <2>3, <2>4
    <3> QED
      BY <1>0, <1>l, <2>2, <2>4, <3>1, FromAppend
  <2>5. Handed' = Handed
    BY <2>2 DEF Handed
  <2>6. /\ From(written', 0) /\ Len(written') <= Len(accepted')
        /\ writer' \in {"get", "exited"} => batch' = <<>>
    BY <1>0, <2>2 DEF LogLine
  <2>7. ASSUME InLine'
        PROVE  /\ From(batch', Len(written')) /\ From(storageQ', Handed')
               /\ Len(accepted') = Handed' + Len(storageQ')
    BY <1>0, <1>l, <2>2, <2>3, <2>4, <2>5, <2>7
  <2> QED
    BY <2>6, <2>7 DEF LogLine
<1>2. ASSUME WriterTakes PROVE LogLine'
  <2>1. /\ writer = "get" /\ batch = <<>> /\ storageQ # <<>> /\ writer' = "collect"
        /\ batch' = <<Head(storageQ)>> /\ storageQ' = Tail(storageQ)
        /\ UNCHANGED <<accepted, written>>
    BY <1>2 DEF WriterTakes, LogLine
  <2>2. Handed = Len(written)
    BY <1>0, <2>1 DEF Handed
  <2>3. Head(storageQ) = Len(written) + 1 /\ From(Tail(storageQ), Len(written) + 1)
    BY <1>0, <1>l, <2>1, <2>2, FromTail
  <2>4. /\ Len(batch') = 1 /\ batch'[1] = Len(written) + 1
        /\ Len(storageQ') = Len(storageQ) - 1
    BY <1>0, <2>1, <2>3, TailSeq
  <2>5. From(batch', Len(written)) /\ Handed' = Len(written) + 1
    BY <1>0, <2>1, <2>4 DEF From, Handed
  <2>6. From(storageQ', Handed') /\ Len(accepted') = Handed' + Len(storageQ')
    <3>1. Len(accepted) = Handed + Len(storageQ) /\ accepted' = accepted
      BY <1>l, <2>1
    <3>2. From(storageQ', Handed')
      BY <2>1, <2>3, <2>5
    <3>3. /\ Handed' = Handed + 1 /\ Len(storageQ') = Len(storageQ) - 1
          /\ Handed \in Nat /\ Len(storageQ) \in Nat
      BY <1>0, <2>2, <2>4, <2>5
    <3> QED
      BY <3>1, <3>2, <3>3
  <2>7. From(written', 0) /\ From(batch', Len(written')) /\ Len(written') <= Len(accepted')
    BY <1>0, <2>1, <2>5
  <2> QED
    BY <2>1, <2>6, <2>7 DEF LogLine
<1>3. ASSUME WriterCollects PROVE LogLine'
  <2>1. PICK n \in 0..Len(storageQ) :
          /\ batch' \in Seq(Nat) /\ Len(batch') = Len(batch) + n
          /\ \A i \in 1..Len(batch) : batch'[i] = batch[i]
          /\ \A i \in 1..n : batch'[Len(batch) + i] = storageQ[i]
          /\ storageQ' \in Seq(Nat) /\ Len(storageQ') = Len(storageQ) - n
          /\ \A i \in 1..Len(storageQ) - n : storageQ'[i] = storageQ[n + i]
    BY <1>3, Collected
  <2>2. writer = "collect" /\ writer' = "write" /\ UNCHANGED <<accepted, written>>
    BY <1>3 DEF WriterCollects
  <2>3. Handed' = Handed + n
    BY <1>0, <2>1, <2>2 DEF Handed
  <2>4. ASSUME NEW i \in 1..Len(batch) + n PROVE batch'[i] = Len(written) + i
    <3>1. CASE i \in 1..Len(batch)
      BY <1>l, <2>1, <2>2, <3>1 DEF From
    <3>2. CASE i \notin 1..Len(batch)
      <4>1. i - Len(batch) \in 1..n /\ i - Len(batch) \in 1..Len(storageQ)
            /\ Len(batch) + (i - Len(batch)) = i
        BY <1>0, <3>2
      <4>2. batch'[i] = storageQ[i - Len(batch)]
        BY <2>1, <4>1
      <4>3. storageQ[i - Len(batch)] = Handed + (i - Len(batch))
        BY <1>l, <2>2, <4>1 DEF From
      <4> QED
        BY <1>0, <4>2, <4>3 DEF Handed
    <3> QED
      BY <3>1, <3>2
  <2>5. ASSUME NEW i \in 1..Len(storageQ) - n PROVE storageQ'[i] = Handed + n + i
    <3>1. n + i \in 1..Len(storageQ)
      BY <1>0
    <3>2. storageQ'[i] = Handed + (n + i)
      BY <1>l, <2>1, <2>2, <3>1 DEF From
    <3> QED
      BY <1>0, <3>2
  <2>6. From(batch', Len(written'))
    BY <2>1, <2>2, <2>4 DEF From
  <2>7. From(storageQ', Handed')
    BY <2>1, <2>3, <2>5 DEF From
  <2>8. Len(accepted') = Handed' + Len(storageQ')
    <3>1. Len(accepted) = Handed + Len(storageQ) /\ accepted' = accepted
      BY <1>l, <2>2
    <3>2. /\ Len(storageQ') = Len(storageQ) - n /\ Handed' = Handed + n
          /\ n \in Nat /\ Handed \in Nat /\ Len(storageQ) \in Nat
      BY <1>0, <2>1, <2>3
    <3> QED
      BY <3>1, <3>2
  <2> QED
    BY <1>0, <2>2, <2>6, <2>7, <2>8 DEF LogLine
<1>4. ASSUME WriterWrites PROVE LogLine'
  <2>1. /\ writer = "write" /\ writer' = "get" /\ batch' = <<>> /\ written' = written \o batch
        /\ UNCHANGED <<accepted, storageQ>>
    BY <1>4 DEF WriterWrites, queueVars
  <2>2. /\ Len(written') = Len(written) + Len(batch)
        /\ \A i \in 1..Len(written) : written'[i] = written[i]
        /\ \A i \in 1..Len(batch) : written'[Len(written) + i] = batch[i]
    <3> DEFINE new == written \o batch
    <3>1. written \in Seq(Nat) /\ batch \in Seq(Nat)
      BY <1>0
    <3>2. /\ Len(new) = Len(written) + Len(batch)
          /\ \A i \in 1..Len(written) : new[i] = written[i]
          /\ \A i \in 1..Len(batch) : new[Len(written) + i] = batch[i]
      BY <3>1, Joined
    <3>3. written' = new
      BY <2>1
    <3> HIDE DEF new
    <3> QED
      BY <3>2, <3>3
  <2>3. From(written', 0)
    <3>1. From(batch, Len(written)) /\ Len(batch) \in 0..Len(batch)
      BY <1>0, <1>l, <2>1
    <3> QED
      BY <1>0, <2>2, <3>1, Lengthened
  <2>4. Handed' = Handed /\ From(batch', Len(written'))
    BY <1>0, <2>1, <2>2 DEF Handed, From
  <2> QED
    BY <1>0, <1>l, <2>1, <2>2, <2>3, <2>4 DEF LogLine, Handed
<1>5. ASSUME WriterFails PROVE LogLine'
  <2>1. PICK n \in 0..Len(batch) :
          /\ written' \in Seq(Nat) /\ Len(written') = Len(written) + n
          /\ \A i \in 1..Len(written) : written'[i] = written[i]
          /\ \A i \in 1..n : written'[Len(written) + i] = batch[i]
    BY <1>5, PartWritten
  <2>2. /\ writer = "write" /\ writer' = "exited" /\ fatal' = TRUE /\ batch' = <<>>
        /\ accepted' = accepted
    BY <1>5 DEF WriterFails, Fatal, queueVars
  <2>3. From(written', 0)
    BY <1>0, <1>l, <2>1, <2>2, Lengthened
  <2> QED
    BY <1>0, <1>l, <2>1, <2>2, <2>3 DEF LogLine, Handed
<1>6. ASSUME WriterExits PROVE LogLine'
  BY <1>6, <1>0, <1>l DEF WriterExits, LogLine, queueVars, From, Handed
<1>7. ASSUME UNCHANGED <<accepted, storageQ, writer, batch, written>>, fatal => fatal'
      PROVE  LogLine'
  BY <1>7, <1>0, <1>l DEF LogLine, From, Handed
<1> QED
  BY <1>1, <1>2, <1>3, <1>4, <1>5, <1>6, <1>7, Effects
  DEF Nothing, Fatal, queueVars, writerVars, ReducerTakes, ReducerStores, ReducerFails,
      ReducerExits, ParquetTakes, ParquetWrites, ParquetFails, ParquetExits

-----------------------------------------------------------------------------
(* The shutdown.                                                           *)

\* It gets past a stage only in the step that has waited for it.
LEMMA Entering ==
    ASSUME [Next]_vars
    PROVE  /\ PastProducers' => PastProducers \/ (Proceed /\ ProducersDone)
           /\ PastMarket' => PastMarket \/ (Proceed /\ MarketDone)
           /\ PastState' => PastState \/ (Proceed /\ StateDone)
           /\ PastStorage' => PastStorage \/ (Proceed /\ StorageDone)
           /\ PastSnapshot' => PastSnapshot \/ (Proceed /\ SnapshotDone)
<1> USE DEF PastProducers, PastMarket, PastState, PastStorage, PastSnapshot, After
<1>1. CASE UNCHANGED shutdownVars
  BY <1>1 DEF shutdownVars
<1>2. CASE Shutdown \/ TimesOut
  BY <1>2 DEF Shutdown, TimesOut
<1>3. CASE Proceed
  <2>1. timedOut' = timedOut
    BY <1>3 DEF Proceed
  <2> QED
    BY <1>3, <2>1, ProceedCases DEF ProducersDone
<1>4. CASE Close \/ CloseFails
  BY <1>4 DEF Close, CloseFails
<1> QED
  BY <1>1, <1>2, <1>3, <1>4
  DEF Next, ProducerStep, WorkerStep, Produce, Schedule, ScheduleFails, ScheduleStops, Discover,
      ProducerEnds, DiscoverySurvives, ManagerTakes, ManagerPublishes, ManagerFails, ManagerExits,
      ReducerTakes, ReducerStores, ReducerFails, ReducerExits,
      WriterTakes, WriterCollects, WriterWrites, WriterFails, WriterExits,
      ParquetTakes, ParquetWrites, ParquetFails, ParquetExits, vars

\* What is past a stage is past those before it.
LEMMA Passed ==
    /\ (PastMarket => PastProducers) /\ (PastState => PastMarket)
    /\ (PastStorage => PastState) /\ (PastSnapshot => PastStorage)
BY DEF PastProducers, PastMarket, PastState, PastStorage, PastSnapshot, After

\* Producers that are done stay so, and discover nothing any more.
LEMMA ProducersStay ==
    ASSUME [Next]_vars, ProducersDone
    PROVE  /\ ProducersDone'
           /\ MarketDone => MarketDone'
<1> USE DEF ProducersDone, MarketDone
<1>1. /\ "scheduler" \in Producers /\ "discovery" \in Producers
      /\ \A p \in Sources : p \in Producers
  BY DEF Producers
<1>2. ~(\E p \in Sources : Produce(p)) /\ ~Schedule /\ ~ScheduleFails /\ ~ScheduleStops
      /\ ~Discover /\ ~(\E p \in Producers : ProducerEnds(p)) /\ ~DiscoverySurvives
  BY <1>1 DEF Produce, Schedule, ScheduleFails, ScheduleStops, Discover, ProducerEnds,
              DiscoverySurvives
<1>3. CASE Shutdown \/ TimesOut
  BY <1>3 DEF Shutdown, TimesOut, managerVars
<1>4. CASE ManagerTakes \/ ManagerPublishes \/ ManagerFails \/ ManagerExits
  BY <1>4 DEF ManagerTakes, ManagerPublishes, ManagerFails, ManagerExits
<1>5. CASE UNCHANGED <<producers, managerVars>>
  BY <1>5 DEF managerVars
<1> QED
  BY <1>2, <1>3, <1>4, <1>5
  DEF Next, ProducerStep, WorkerStep,
      ReducerTakes, ReducerStores, ReducerFails, ReducerExits,
      WriterTakes, WriterCollects, WriterWrites, WriterFails, WriterExits,
      ParquetTakes, ParquetWrites, ParquetFails, ParquetExits,
      Proceed, Close, CloseFails, vars

\* Nor is anything added to the queues of the bus, once they are done.
LEMMA QueuesStay ==
    ASSUME TypeOK, [Next]_vars, ProducersDone, MarketDone
    PROVE  /\ StateDone => StateDone'
           /\ StorageDone => StorageDone'
           /\ StateDone /\ SnapshotDone => SnapshotDone'
<1> USE DEF StateDone, StorageDone, SnapshotDone
<1>1. ~Accepts
  BY DEF Accepts, MarketDone
<1>2. CASE Nothing
  BY <1>2 DEF Nothing, queueVars, taskVars, writerVars, parquetVars
<1>3. CASE ReducerTakes \/ ReducerStores \/ ReducerFails \/ ReducerExits
  BY <1>3 DEF ReducerTakes, ReducerStores, ReducerFails, ReducerExits, queueVars, writerVars,
              parquetVars
<1>4. CASE WriterCollects
  <2>1. UNCHANGED <<stateQ, taskVars, parquetVars>>
    BY <1>4 DEF WriterCollects
  <2>2. ASSUME storageQ = <<>>, batch = <<>> PROVE storageQ' = <<>> /\ batch' = <<>>
    <3>1. PICK n \in 0..Len(storageQ) :
            /\ batch' \in Seq(Nat) /\ Len(batch') = Len(batch) + n
            /\ storageQ' \in Seq(Nat) /\ Len(storageQ') = Len(storageQ) - n
      BY <1>4, Collected
    <3>2. n = 0 /\ Len(batch') = 0 /\ Len(storageQ') = 0
      BY <2>2, <3>1
    <3> QED
      BY <3>1, <3>2
  <2> QED
    BY <2>1, <2>2 DEF taskVars, parquetVars
<1>5. CASE WriterTakes \/ WriterWrites \/ WriterFails \/ WriterExits
  BY <1>5 DEF WriterTakes, WriterWrites, WriterFails, WriterExits, queueVars, taskVars,
              parquetVars
<1>6. CASE ParquetTakes \/ ParquetWrites \/ ParquetFails \/ ParquetExits
  BY <1>6 DEF ParquetTakes, ParquetWrites, ParquetFails, ParquetExits, queueVars, taskVars,
              writerVars
<1> QED
  BY <1>1, <1>2, <1>3, <1>4, <1>5, <1>6, Effects

LEMMA DrainedStep == TypeOK /\ Drained /\ [Next]_vars => Drained'
<1> SUFFICES ASSUME TypeOK, Drained, [Next]_vars PROVE Drained'
  OBVIOUS
<1>1. ASSUME Proceed
      PROVE  /\ (ProducersDone => ProducersDone') /\ (MarketDone => MarketDone')
             /\ (StateDone => StateDone') /\ (StorageDone => StorageDone')
             /\ (SnapshotDone => SnapshotDone')
  BY <1>1 DEF Proceed, ProducersDone, MarketDone, StateDone, StorageDone, SnapshotDone,
              queueVars, taskVars, managerVars, writerVars, parquetVars
<1>2. PastProducers' => ProducersDone'
  BY <1>1, Entering, ProducersStay DEF Drained
<1>3. PastMarket' => MarketDone'
  BY <1>1, Entering, Passed, ProducersStay DEF Drained
<1>4. PastState' => StateDone'
  BY <1>1, Entering, Passed, QueuesStay DEF Drained
<1>5. PastStorage' => StorageDone'
  BY <1>1, Entering, Passed, QueuesStay DEF Drained
<1>6. PastSnapshot' => SnapshotDone'
  BY <1>1, Entering, Passed, QueuesStay DEF Drained
<1> QED
  BY <1>2, <1>3, <1>4, <1>5, <1>6 DEF Drained

-----------------------------------------------------------------------------
(* The snapshot line.                                                      *)

LEMMA IncreasingAppend ==
    ASSUME NEW s \in Seq(Nat), NEW x \in Nat, Increasing(s), Before(ToSet(s), {x})
    PROVE  Increasing(Append(s, x))
<1>1. /\ DOMAIN s = 1..Len(s) /\ DOMAIN Append(s, x) = 1..Len(s) + 1 /\ Len(s) \in Nat
      /\ \A i \in 1..Len(s) : Append(s, x)[i] = s[i]
      /\ Append(s, x)[Len(s) + 1] = x
  OBVIOUS
<1>2. \A i \in 1..Len(s) : s[i] < x
  BY <1>1 DEF Before, ToSet
<1> DEFINE t == Append(s, x)
<1> HIDE DEF t
<1>3. ASSUME NEW i \in 1..Len(s) + 1, NEW j \in 1..Len(s) + 1, i < j PROVE t[i] < t[j]
  <2>1. i \in 1..Len(s) /\ (j \in 1..Len(s) \/ j = Len(s) + 1)
    BY <1>1, <1>3
  <2> QED
    BY <1>1, <1>2, <1>3, <2>1 DEF Increasing, t
<1> QED
  BY <1>1, <1>3 DEF Increasing, t

LEMMA IncreasingTail ==
    ASSUME NEW s \in Seq(Nat), s # <<>>, Increasing(s)
    PROVE  Increasing(Tail(s)) /\ Before({Head(s)}, ToSet(Tail(s)))
<1>1. /\ DOMAIN s = 1..Len(s) /\ DOMAIN Tail(s) = 1..Len(s) - 1
      /\ Len(s) \in Nat /\ Len(s) > 0 /\ Head(s) = s[1]
      /\ \A i \in 1..Len(s) - 1 : Tail(s)[i] = s[i + 1]
  BY TailSeq
<1>2. \A i \in 1..Len(s) - 1 : i + 1 \in 1..Len(s) /\ 1 < i + 1
  BY <1>1
<1>3. ASSUME NEW i \in 1..Len(s) - 1, NEW j \in 1..Len(s) - 1, i < j PROVE Tail(s)[i] < Tail(s)[j]
  <2>1. i + 1 < j + 1 /\ i + 1 \in DOMAIN s /\ j + 1 \in DOMAIN s
    BY <1>1, <1>2, <1>3
  <2>2. s[i + 1] < s[j + 1]
    BY <2>1 DEF Increasing
  <2> QED
    BY <1>1, <2>2
<1>4. \A i \in 1..Len(s) - 1 : s[1] < s[i + 1]
  BY <1>1, <1>2 DEF Increasing
<1> QED
  BY <1>1, <1>3, <1>4 DEF Increasing, Before, ToSet

\* A new event leaves the ticks before it alone.
LEMMA SameTicks ==
    ASSUME TypeOK, Accepts, NEW S, NEW r \in 0..Len(accepted)
    PROVE  /\ Begins(S, Ticks, r) => Begins(S, Ticks', r)
           /\ Complete(S, Ticks, r) => Complete(S, Ticks', r)
<1>1. PICK kind \in {"data", "tick"} : Accept(kind)
  BY DEF Accepts
<1>a. accepted \in Seq({"data", "tick"}) /\ Len(accepted) \in Nat
  BY DEF TypeOK
<1>b. /\ accepted' \in Seq({"data", "tick"}) /\ Len(accepted') = Len(accepted) + 1
      /\ \A i \in 1..Len(accepted) : accepted'[i] = accepted[i]
  BY <1>1, AcceptType
<1>2. /\ accepted \in Seq({"data", "tick"}) /\ Len(accepted) \in Nat
      /\ accepted' \in Seq({"data", "tick"}) /\ Len(accepted') = Len(accepted) + 1
      /\ \A i \in 1..Len(accepted) : accepted'[i] = accepted[i]
  BY <1>a, <1>b
<1>3. DOMAIN accepted = 1..Len(accepted) /\ DOMAIN accepted' = 1..Len(accepted) + 1
  BY <1>2
<1>4. \A n \in Nat : n <= r => (n \in Ticks <=> n \in Ticks')
  BY <1>2, <1>3 DEF Ticks
<1>5. Ticks \subseteq Nat /\ Ticks' \subseteq Nat
  BY <1>2, <1>3 DEF Ticks
<1>6. ASSUME Begins(S, Ticks, r) PROVE Begins(S, Ticks', r)
  <2>1. S \subseteq Nat /\ \A m \in S : m <= r
    BY <1>5, <1>6 DEF Begins
  <2>2. \A n \in Nat, m \in S : n < m => n <= r
    BY <2>1
  <2> QED
    BY <1>4, <1>5, <1>6, <2>1, <2>2 DEF Begins
<1>7. ASSUME Complete(S, Ticks, r) PROVE Complete(S, Ticks', r)
  BY <1>4, <1>5, <1>7 DEF Complete
<1> QED
  BY <1>6, <1>7

\* What is on the line are numbers.
LEMMA LineType ==
    ASSUME TypeOK
    PROVE  /\ ToSet(rows) \subseteq Nat /\ InWriter \subseteq Nat
           /\ ToSet(snapshotQ) \subseteq Nat /\ InReducer \subseteq Nat
           /\ Line \subseteq Nat /\ Ticks \subseteq Nat
<1>1. ToSet(rows) \subseteq Nat /\ ToSet(snapshotQ) \subseteq Nat
  <2>1. rows \in Seq(Nat) /\ snapshotQ \in Seq(Nat)
    BY DEF TypeOK
  <2>2. /\ \A i \in DOMAIN rows : rows[i] \in Nat
        /\ \A i \in DOMAIN snapshotQ : snapshotQ[i] \in Nat
    BY <2>1
  <2> QED
    BY <2>2 DEF ToSet
<1>2. InWriter \subseteq Nat /\ InReducer \subseteq Nat
  BY DEF TypeOK, InWriter, InReducer
<1>3. Ticks \subseteq Nat
  BY DEF TypeOK, Ticks
<1> QED
  BY <1>1, <1>2, <1>3 DEF Line

LEMMA RowLineStep == TypeOK /\ StateLine /\ RowLine /\ [Next]_vars => RowLine'
<1> SUFFICES ASSUME TypeOK, StateLine, RowLine, [Next]_vars PROVE RowLine'
  OBVIOUS
<1> DEFINE r == Len(reduced)
           Flows == parquet # "exited" \/ ~fatal
           Whole == (parquet # "exited" /\ reducer # "exited") \/ ~fatal
<1>0. /\ rows \in Seq(Nat) /\ snapshotQ \in Seq(Nat) /\ tick \in Nat /\ row \in Nat
      /\ reduced \in Seq(Nat) /\ r \in 0..Len(accepted)
      /\ Increasing(rows) /\ Begins(ToSet(rows), Ticks, r)
      /\ (Flows => Ordered /\ Begins(Line, Ticks, r)) /\ (Whole => Complete(Line, Ticks, r))
  BY DEF TypeOK, StateLine, RowLine
<1>1. ASSUME Accepts PROVE RowLine'
  <2>1. /\ UNCHANGED <<rows, snapshotQ, reducer, parquet, tick, row, reduced>>
        /\ fatal => fatal'
    BY <1>1 DEF Accepts, taskVars, parquetVars
  <2>2. Line' = Line /\ (Ordered' <=> Ordered) /\ (Flows' => Flows) /\ (Whole' => Whole)
    BY <2>1 DEF Line, Ordered, InWriter, InReducer
  <2>3. /\ Begins(ToSet(rows), Ticks', r)
        /\ Flows' => Begins(Line, Ticks', r)
        /\ Whole' => Complete(Line, Ticks', r)
    BY <1>0, <1>1, <2>2, SameTicks
  <2> QED
    BY <1>0, <2>1, <2>2, <2>3 DEF RowLine
<1>2. ASSUME ReducerTakes PROVE RowLine'
  <2>1. /\ reducer = "get" /\ stateQ # <<>> /\ reduced' = Append(reduced, Head(stateQ))
        /\ UNCHANGED <<accepted, rows, snapshotQ, parquet, row, fatal>>
    BY <1>2 DEF ReducerTakes, parquetVars
  <2>2. Head(stateQ) = r + 1 /\ Len(reduced') = r + 1 /\ r \in Nat
    <3>1. stateQ \in Seq(Nat) /\ From(stateQ, r) /\ r \in Nat /\ Head(stateQ) \in Nat
      BY <1>0, <2>1, TailSeq DEF TypeOK, StateLine
    <3> QED
      BY <1>0, <2>1, <3>1, FromTail, AppendSeq
  <2>3. Ticks' = Ticks /\ InReducer = {}
    BY <2>1 DEF Ticks, InReducer
  <2>4. Begins(ToSet(rows), Ticks, r + 1)
    BY <1>0, <2>2, LineType DEF Begins
  <2>5. CASE accepted[r + 1] # "tick"
    <3>1. r + 1 \notin Ticks
      BY <2>5 DEF Ticks
    <3>2. UNCHANGED <<reducer, tick>>
      BY <1>2, <2>2, <2>5 DEF ReducerTakes
    <3>3. Line' = Line /\ (Ordered' <=> Ordered) /\ (Flows' => Flows) /\ (Whole' => Whole)
      BY <2>1, <3>2 DEF Line, Ordered, InWriter, InReducer
    <3>4. Flows => Begins(Line, Ticks, r + 1)
      BY <1>0, <2>2, LineType DEF Begins
    <3>5. Whole => Complete(Line, Ticks, r + 1)
      BY <1>0, <2>2, <3>1, LineType DEF Complete
    <3> QED
      BY <1>0, <2>1, <2>2, <2>3, <2>4, <3>3, <3>4, <3>5 DEF RowLine
  <2>6. CASE accepted[r + 1] = "tick"
    <3>1. reducer' = "put" /\ tick' = r + 1
      BY <1>2, <2>2, <2>6 DEF ReducerTakes
    <3>2. r + 1 \in Ticks
      <4>1. r + 1 \in DOMAIN accepted
        <5>1. Len(accepted) = r + Len(stateQ) /\ Len(stateQ) \in Nat /\ Len(stateQ) > 0
          BY <2>1, TailSeq DEF StateLine, TypeOK
        <5> QED
          BY <2>2, <5>1 DEF TypeOK
      <4> QED
        BY <2>6, <4>1 DEF Ticks
    <3>3. Line' = Line \cup {r + 1} /\ InReducer' = {r + 1} /\ InWriter' = InWriter
      BY <2>1, <2>3, <3>1 DEF Line, InReducer, InWriter
    <3>4. Flows' => Flows /\ Complete(Line, Ticks, r)
      BY <1>0, <2>1
    <3>5. ASSUME Flows' PROVE Ordered'
      <4>1. \A m \in Line : m < r + 1
        BY <1>0, <2>2, <3>4, <3>5, LineType DEF Begins
      <4>2. /\ Before(ToSet(rows), {r + 1}) /\ Before(InWriter, {r + 1})
            /\ Before(ToSet(snapshotQ), {r + 1})
        BY <4>1 DEF Before, Line
      <4>3. Before(ToSet(rows), InWriter \cup ToSet(snapshotQ) \cup InReducer')
            /\ Before(InWriter, ToSet(snapshotQ) \cup InReducer')
            /\ Before(ToSet(snapshotQ), InReducer')
        BY <1>0, <2>3, <3>3, <3>4, <3>5, <4>2 DEF Ordered, Before
      <4> QED
        BY <1>0, <2>1, <3>3, <3>4, <3>5, <4>3 DEF Ordered
    <3>6. ASSUME Flows' PROVE Begins(Line', Ticks, r + 1)
      <4>1. Begins(Line, Ticks, r) /\ Complete(Line, Ticks, r)
        BY <1>0, <3>4, <3>6
      <4>2. \A m \in Line' : m <= r + 1
        BY <2>2, <3>3, <4>1, LineType DEF Begins
      <4>3. ASSUME NEW n \in Ticks, NEW m \in Line', n < m PROVE n \in Line'
        <5>1. n \in Nat /\ m \in Nat /\ m <= r + 1
          BY <2>2, <3>3, <4>2, LineType
        <5>2. n <= r
          BY <2>2, <4>3, <5>1
        <5> QED
          BY <3>3, <4>1, <5>2 DEF Complete
      <4> QED
        BY <3>2, <3>3, <4>1, <4>2, <4>3 DEF Begins
    <3>7. Whole' => Complete(Line', Ticks, r + 1)
      <4>1. Whole' => Complete(Line, Ticks, r)
        BY <1>0, <2>1
      <4>2. \A n \in Nat : n <= r + 1 => n <= r \/ n = r + 1
        BY <2>2
      <4> QED
        BY <3>3, <4>1, <4>2, LineType DEF Complete
    <3> QED
      BY <1>0, <2>1, <2>2, <2>3, <2>4, <3>5, <3>6, <3>7 DEF RowLine
  <2> QED
    BY <2>5, <2>6
<1>3. ASSUME ReducerStores PROVE RowLine'
  <2>1. /\ reducer = "put" /\ reducer' = "get" /\ snapshotQ' = Append(snapshotQ, tick)
        /\ UNCHANGED <<accepted, reduced, rows, parquet, row, fatal>>
    BY <1>3 DEF ReducerStores, queueVars, parquetVars
  <2>s. snapshotQ \in Seq(Nat) /\ tick \in Nat
    BY <1>0
  <2>2. /\ Ticks' = Ticks /\ InReducer = {tick} /\ InReducer' = {} /\ InWriter' = InWriter
        /\ ToSet(snapshotQ') = ToSet(snapshotQ) \cup {tick}
    <3>1. ToSet(snapshotQ') = ToSet(snapshotQ) \cup {tick}
      BY <2>s, <2>1, AppendSeq
    <3> QED
      BY <2>1, <3>1 DEF Ticks, InReducer, InWriter
  <2>3. Line' = Line /\ (Flows' => Flows) /\ (Whole' => Whole)
    BY <2>1, <2>2 DEF Line
  <2>4. ASSUME Ordered PROVE Ordered'
    <3>1. Increasing(snapshotQ')
      BY <1>0, <2>1, <2>2, <2>4, IncreasingAppend DEF Ordered
    <3> QED
      BY <2>1, <2>2, <2>4, <3>1 DEF Ordered, Before
  <2> QED
    BY <1>0, <2>1, <2>2, <2>3, <2>4 DEF RowLine
<1>4. ASSUME ReducerFails PROVE RowLine'
  <2>1. /\ reducer = "put" /\ reducer' = "exited" /\ fatal' = TRUE
        /\ UNCHANGED <<accepted, reduced, rows, snapshotQ, parquet, row>>
    BY <1>4 DEF ReducerFails, Fatal, queueVars, parquetVars
  <2>2. /\ Ticks' = Ticks /\ InReducer = {tick} /\ InReducer' = {} /\ InWriter' = InWriter
    BY <2>1 DEF Ticks, InReducer, InWriter
  <2>3. /\ Line' = ToSet(rows) \cup InWriter \cup ToSet(snapshotQ)
        /\ Line = Line' \cup {tick} /\ (Flows' => Flows)
    BY <2>1, <2>2 DEF Line
  <2>4. ASSUME Flows' PROVE Ordered' /\ Begins(Line', Ticks, r)
    <3>1. Ordered /\ Begins(Line, Ticks, r)
      BY <1>0, <2>3, <2>4
    <3>2. Ordered'
      BY <2>1, <2>2, <3>1 DEF Ordered, Before
    <3>3. \A m \in Line' : m < tick
      BY <2>2, <2>3, <3>1 DEF Ordered, Before
    <3>4. ASSUME NEW n \in Ticks, NEW m \in Line', n < m PROVE n \in Line'
      <4>1. n \in Line
        BY <2>3, <3>1, <3>4 DEF Begins
      <4>2. n # tick
        BY <1>0, <2>3, <3>3, <3>4, LineType
      <4> QED
        BY <2>3, <4>1, <4>2
    <3> QED
      BY <2>3, <3>1, <3>2, <3>4 DEF Begins
  <2> QED
    BY <1>0, <2>1, <2>2, <2>4 DEF RowLine
<1>5. ASSUME ParquetTakes PROVE RowLine'
  <2>1. /\ parquet = "get" /\ parquet' = "write" /\ snapshotQ # <<>>
        /\ row' = Head(snapshotQ) /\ snapshotQ' = Tail(snapshotQ)
        /\ UNCHANGED <<accepted, reduced, rows, reducer, tick, fatal>>
    BY <1>5 DEF ParquetTakes, queueVars
  <2>2. /\ Ticks' = Ticks /\ InWriter = {} /\ InWriter' = {Head(snapshotQ)}
        /\ InReducer' = InReducer
        /\ ToSet(snapshotQ) = {Head(snapshotQ)} \cup ToSet(snapshotQ')
    BY <1>0, <2>1, TailSeq DEF Ticks, InReducer, InWriter
  <2>3. Line' = Line /\ Flows /\ (Whole' => Whole)
    BY <2>1, <2>2 DEF Line
  <2>4. Ordered'
    <3>1. Increasing(snapshotQ') /\ Before({Head(snapshotQ)}, ToSet(snapshotQ'))
      BY <1>0, <2>1, <2>3, IncreasingTail DEF Ordered
    <3>2. Ordered
      BY <1>0, <2>3
    <3> QED
      BY <2>1, <2>2, <3>1, <3>2 DEF Ordered, Before
  <2> QED
    BY <1>0, <2>1, <2>2, <2>3, <2>4 DEF RowLine
<1>6. ASSUME ParquetWrites PROVE RowLine'
  <2>1. /\ parquet = "write" /\ parquet' = "get" /\ rows' = Append(rows, row)
        /\ UNCHANGED <<accepted, reduced, snapshotQ, reducer, tick, fatal>>
    BY <1>6 DEF ParquetWrites, queueVars, taskVars
  <2>2. /\ Ticks' = Ticks /\ InWriter = {row} /\ InWriter' = {} /\ InReducer' = InReducer
        /\ ToSet(rows') = ToSet(rows) \cup {row}
    BY <1>0, <2>1, AppendSeq DEF Ticks, InReducer, InWriter
  <2>3. Line' = Line /\ Flows /\ (Whole' => Whole)
    BY <2>1, <2>2 DEF Line
  <2>4. Ordered /\ Begins(Line, Ticks, r)
    BY <1>0, <2>3
  <2>5. Increasing(rows')
    <3>1. Before(ToSet(rows), {row})
      BY <2>2, <2>4 DEF Ordered, Before
    <3> QED
      BY <1>0, <2>1, <3>1, IncreasingAppend
  <2>6. Ordered'
    BY <2>1, <2>2, <2>4, <2>5 DEF Ordered, Before
  <2>7. Begins(ToSet(rows'), Ticks, r)
    <3>1. ToSet(rows') \subseteq Line
      BY <2>2 DEF Line
    <3>2. \A m \in ToSet(rows'), k \in ToSet(snapshotQ) \cup InReducer : m < k
      BY <2>2, <2>4 DEF Ordered, Before
    <3>3. ASSUME NEW n \in Ticks, NEW m \in ToSet(rows'), n < m PROVE n \in ToSet(rows')
      <4>1. n \in Line
        BY <2>4, <3>1, <3>3 DEF Begins
      <4>2. n \notin ToSet(snapshotQ) \cup InReducer
        BY <3>1, <3>2, <3>3, LineType
      <4> QED
        BY <2>2, <4>1, <4>2 DEF Line
    <3> QED
      BY <2>4, <3>1, <3>3 DEF Begins
  <2> QED
    BY <1>0, <2>1, <2>2, <2>3, <2>4, <2>5, <2>6, <2>7 DEF RowLine
<1>7. ASSUME ParquetFails PROVE RowLine'
  <2>1. /\ parquet' = "exited" /\ fatal' = TRUE
        /\ UNCHANGED <<accepted, reduced, rows>>
    BY <1>7 DEF ParquetFails, Fatal, queueVars, taskVars
  <2>2. Ticks' = Ticks
    BY <2>1 DEF Ticks
  <2> QED
    BY <1>0, <2>1, <2>2 DEF RowLine
<1>8. ASSUME ReducerExits \/ ParquetExits PROVE RowLine'
  <2>1. /\ UNCHANGED <<accepted, reduced, rows, snapshotQ, tick, row, fatal>>
        /\ (reducer = "get" /\ reducer' = "exited" /\ parquet' = parquet)
           \/ (parquet = "get" /\ parquet' = "exited" /\ reducer' = reducer)
    BY <1>8 DEF ReducerExits, ParquetExits, queueVars, taskVars, parquetVars
  <2>2. Line' = Line /\ (Ordered' <=> Ordered) /\ (Flows' => Flows) /\ (Whole' => Whole)
        /\ Ticks' = Ticks
    BY <2>1 DEF Line, Ordered, InWriter, InReducer, Ticks
  <2> QED
    BY <1>0, <2>1, <2>2 DEF RowLine
<1>9. ASSUME UNCHANGED <<accepted, reduced, rows, snapshotQ, tick, row, reducer, parquet>>,
             fatal => fatal'
      PROVE  RowLine'
  <2>1. Line' = Line /\ (Ordered' <=> Ordered) /\ (Flows' => Flows) /\ (Whole' => Whole)
        /\ Ticks' = Ticks
    BY <1>9 DEF Line, Ordered, InWriter, InReducer, Ticks
  <2> QED
    BY <1>0, <1>9, <2>1 DEF RowLine
<1> QED
  BY <1>1, <1>2, <1>3, <1>4, <1>5, <1>6, <1>7, <1>8, <1>9, Effects
  DEF Nothing, Fatal, queueVars, taskVars, parquetVars,
      WriterTakes, WriterCollects, WriterWrites, WriterFails, WriterExits

-----------------------------------------------------------------------------
(* The invariants.                                                         *)

LEMMA IInvInit == Init => IInv
<1> SUFFICES ASSUME Init PROVE IInv
  OBVIOUS
<1>1. StateLine /\ LogLine
  BY DEF Init, StateLine, LogLine, From, Handed
<1>2. RowLine
  <2>1. /\ ToSet(rows) = {} /\ ToSet(snapshotQ) = {} /\ InWriter = {} /\ InReducer = {}
    BY DEF Init, ToSet, InWriter, InReducer
  <2>2. Ticks = {}
    BY DEF Init, Ticks
  <2>3. Increasing(rows) /\ Increasing(snapshotQ)
    BY DEF Init, Increasing
  <2> QED
    BY <2>1, <2>2, <2>3 DEF RowLine, Ordered, Before, Line, Begins, Complete
<1>3. Drained
  BY DEF Init, Drained, PastProducers, PastMarket, PastState, PastStorage, PastSnapshot, After
<1> QED
  BY <1>1, <1>2, <1>3, TypeInit DEF IInv

THEOREM Invariance == Spec => []IInv
<1>1. IInv /\ [Next]_vars => IInv'
  BY TypeStep, StateLineStep, LogLineStep, RowLineStep, DrainedStep DEF IInv
<1> QED
  BY <1>1, IInvInit, PTL DEF Spec

LEMMA EventsNumbered ==
    ASSUME TypeOK, NEW s \in Seq(Nat), From(s, 0), Len(s) <= Len(accepted)
    PROVE  /\ IsPrefix(s, Events)
           /\ Len(s) = Len(accepted) => s = Events
<1>1. /\ Events \in Seq(Nat) /\ Len(Events) = Len(accepted) /\ Len(s) \in Nat
      /\ Len(accepted) \in Nat /\ DOMAIN s = 1..Len(s)
      /\ Events = [i \in 1..Len(accepted) |-> i]
  BY DEF TypeOK, Events
<1>2. \A i \in 1..Len(s) : s[i] = i /\ Events[i] = i
  BY <1>1 DEF From
<1>3. SubSeq(s, 1, Len(s)) = SubSeq(Events, 1, Len(s))
  <2> DEFINE a == SubSeq(s, 1, Len(s))
             b == SubSeq(Events, 1, Len(s))
  <2>1. a \in Seq(Nat) /\ Len(a) = Len(s) /\ \A i \in 1..Len(s) : a[i] = s[i]
    BY <1>1
  <2>2. b \in Seq(Nat) /\ Len(b) = Len(s) /\ \A i \in 1..Len(s) : b[i] = Events[i]
    BY <1>1
  <2> HIDE DEF a, b
  <2>3. a = b
    BY <1>2, <2>1, <2>2, SeqEqual
  <2> QED
    BY <2>3 DEF a, b
<1>4. ASSUME Len(s) = Len(accepted) PROVE s = Events
  BY <1>1, <1>2, <1>4, SeqEqual
<1> QED
  BY <1>1, <1>3, <1>4 DEF IsPrefix

\* The raw log is a beginning of what the bus accepted, whatever fails and
\* whenever the shutdown is asked for or interrupted.
THEOREM LogPrefixHolds == Spec => []LogIsPrefix
<1>1. IInv => LogIsPrefix
  BY EventsNumbered DEF IInv, TypeOK, LogLine, LogIsPrefix
<1> QED
  BY <1>1, Invariance, PTL

\* No tick before the last row of the Parquet files is without its row.
THEOREM RowPrefixHolds == Spec => []RowsArePrefix
<1>1. IInv => RowsArePrefix
  BY DEF IInv, RowLine, Begins, RowsArePrefix
<1> QED
  BY <1>1, Invariance, PTL

\* A shutdown that reports no error leaves no event behind on any of the three
\* lines: what it has waited for in one stage is not undone in a later one.
THEOREM CleanShutdownHolds == Spec => []CleanShutdown
<1>1. ASSUME IInv, shutdown = "closed", ~timedOut, ~fatal
      PROVE  written = Events /\ reduced = Events /\ ToSet(rows) = Ticks
  <2>1. StateDone /\ StorageDone /\ SnapshotDone
    BY <1>1 DEF IInv, Drained, PastState, PastStorage, PastSnapshot, After
  <2>2. /\ reduced \in Seq(Nat) /\ From(reduced, 0) /\ Len(reduced) = Len(accepted)
        /\ Len(reduced) \in Nat
    BY <1>1, <2>1 DEF IInv, TypeOK, StateLine, StateDone
  <2>3. written \in Seq(Nat) /\ From(written, 0) /\ Len(written) = Len(accepted)
    BY <1>1, <2>1 DEF IInv, TypeOK, LogLine, StorageDone, Handed
  <2>4. ToSet(rows) = Line
    BY <2>1 DEF Line, InWriter, InReducer, StateDone, SnapshotDone, ToSet
  <2>5. Line \subseteq Ticks /\ \A n \in Ticks : n <= Len(reduced) => n \in Line
    BY <1>1 DEF IInv, RowLine, Begins, Complete
  <2>6. \A n \in Ticks : n <= Len(reduced)
    BY <1>1, <2>2 DEF IInv, TypeOK, Ticks
  <2> QED
    BY <1>1, <2>2, <2>3, <2>4, <2>5, <2>6, EventsNumbered DEF IInv
<1>2. IInv => CleanShutdown
  BY <1>1 DEF CleanShutdown
<1> QED
  BY <1>2, Invariance, PTL

=============================================================================
