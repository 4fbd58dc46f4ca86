------------------------- MODULE SegmentStorageProofs -------------------------
(***************************************************************************)
(* Proofs about SegmentStorage, for any streams, segments, events and      *)
(* number of crashes: what has been flushed is never lost, a recovery that *)
(* is over has left nothing half done, a segment with a manifest is never  *)
(* written again, and replay gives back what the segments with a manifest  *)
(* hold.                                                                   *)
(***************************************************************************)
EXTENDS SegmentStorage, ReplayProofs

Event == 1..MaxSequence
AFile == [events : Seq(Event), torn : BOOLEAN]

Types ==
    /\ streams \in StreamSets /\ streamOf \in [Segments -> streams \cup {NoStream}]
    /\ disk \in [Segments -> [FileKinds -> AFile \cup {Absent}]]
    /\ quarantine \in [Segments -> SUBSET [suffix : FileKinds, file : AFile]]
    /\ open \in [streams -> [number : Segments, events : Seq(Event)] \cup {NoSegment}]
    /\ sequence \in 0..MaxSequence /\ used \in 0..MaxSegments /\ crashes \in 0..MaxCrashes
    /\ pc \in {"down", "running", "closing"} \cup ToSet(Names)
    /\ todo \subseteq 1..used
    /\ job \in [segment : 1..used, events : Seq(Event), step : Steps] \cup {NoJob}
    /\ kept \in [Segments -> Seq(Event)]

\* The loop of the recovery in which, or after which, the process is.
PhaseOf(p) ==
    CASE p = "down" -> 0 [] p = "1" -> 1 [] p = "2" -> 2 [] p = "3" -> 3 [] p = "4" -> 4
      [] p = "5" -> 5 [] p = "6" -> 6 [] p = "7" -> 7 [] p = "8" -> 8 [] p = "9" -> 9
      [] p = "10" -> 10 [] OTHER -> 11

Busy(s) == job # NoJob /\ job.segment = s

Holds(s, x, events) == disk[s][x] = File(events, FALSE)

\* Which files d there may be of a segment, together.
RawLayout(d) ==
    /\ d["parquet.partial"] = Absent /\ d["parquet"] = Absent
    /\ d["jsonl"] # Absent => ~d["jsonl"].torn
    /\ d["zst"] # Absent => ~d["zst"].torn
    /\ d["jsonl.partial"] = Absent \/ d["jsonl"] = Absent
    /\ d["manifest"] # Absent =>
         /\ d["manifest"] = d["zst"]
         /\ d["jsonl.partial"] = Absent /\ d["zst.partial"] = Absent /\ d["manifest.partial"] = Absent

PartLayout(d) ==
    /\ d["jsonl.partial"] = Absent /\ d["jsonl"] = Absent
    /\ d["zst.partial"] = Absent /\ d["zst"] = Absent
    /\ d["parquet"] # Absent => ~d["parquet"].torn
    /\ d["parquet.partial"] = Absent \/ d["parquet"] = Absent
    /\ d["manifest"] # Absent =>
         d["manifest"] = d["parquet"] /\ d["parquet.partial"] = Absent /\ d["manifest.partial"] = Absent

LayoutOf(s) ==
    /\ s > used => streamOf[s] = NoStream /\ kept[s] = <<>> /\ \A x \in FileKinds : ~Has(s, x)
    /\ s <= used => streamOf[s] \in streams
    /\ IF Root(s) = "raw" THEN RawLayout(disk[s]) ELSE PartLayout(disk[s])

\* The flushed events k of a raw segment are in the file that is written, until
\* it is moved to quarantine or the segment is complete.
RawSafe(d, q, k) ==
    /\ d["jsonl.partial"] # Absent => IsPrefix(k, d["jsonl.partial"].events)
    /\ d["jsonl"] # Absent => IsPrefix(k, d["jsonl"].events)
    /\ k # <<>> =>
         \/ d["jsonl.partial"] # Absent \/ d["jsonl"] # Absent
         \/ \E moved \in q : moved.suffix = "jsonl" /\ IsPrefix(k, moved.file.events)
         \/ (d["manifest"] # Absent /\ IsPrefix(k, d["zst"].events))

PartSafe(d, k) ==
    k # <<>> => d["parquet.partial"] = File(k, FALSE) \/ d["parquet"] = File(k, FALSE)

SafeOf(s) == IF Root(s) = "raw" THEN RawSafe(disk[s], quarantine[s], kept[s])
                                ELSE PartSafe(disk[s], kept[s])

\* A segment that is open has no other file than the one that is written.
OpenOf(st) ==
    LET n == open[st].number IN
    /\ pc \in {"running", "closing"}
    /\ n <= used /\ streamOf[n] = st /\ ~Busy(n)
    /\ \A x \in FileKinds \ {"jsonl.partial"} : ~Has(n, x)
    /\ IF st = Snapshots THEN ~Has(n, "jsonl.partial") /\ kept[n] = <<>>
       ELSE Holds(n, "jsonl.partial", kept[n]) /\ IsPrefix(kept[n], open[st].events)

\* Where the events of the segment that is finalized are, before each step.
RawWriting == pc \in {"1", "2", "running", "closing"}

RawJob(d, events, step) ==
    /\ pc \in {"1", "2", "3", "4", "running", "closing"}
    /\ step \in {"truncate", "rename", "create", "compress", "publish", "describe", "commit",
                 "unlink", "done"}
    /\ step \notin {"unlink", "done"} => d["manifest"] = Absent
    /\ step \in {"truncate", "rename", "create", "compress", "publish", "unlink"} => RawWriting
    /\ step = "truncate" => pc \in {"1", "2"} /\ d["jsonl.partial"] # Absent
    /\ step = "rename" => d["jsonl.partial"] = File(events, FALSE)
    /\ step \in {"create", "compress", "publish", "unlink"} => d["jsonl"] = File(events, FALSE)
    /\ step = "publish" => d["zst.partial"] = File(events, FALSE)
    /\ step \in {"describe", "commit"} =>
          /\ d["zst"] = File(events, FALSE)
          /\ d["jsonl.partial"] = Absent /\ d["zst.partial"] = Absent
          /\ RawWriting => d["jsonl"] = File(events, FALSE)
    /\ step = "commit" => d["manifest.partial"] = File(events, FALSE)
    /\ step = "unlink" => d["manifest"] # Absent /\ d["zst"] = File(events, FALSE)
    /\ step = "done" => d["manifest"] # Absent \/ (pc \in {"1", "2"} /\ d["jsonl.partial"] = Absent)

PartJob(d, k, events, step) ==
    /\ pc \in {"7", "8", "running", "closing"}
    /\ step \in {"table", "publish", "describe", "commit", "done"}
    /\ step # "done" => d["manifest"] = Absent
    /\ step = "table" => d["parquet"] = Absent /\ k = <<>>
    /\ step = "publish" => d["parquet.partial"] = File(events, FALSE)
    /\ step \in {"describe", "commit"} =>
          d["parquet"] = File(events, FALSE) /\ d["parquet.partial"] = Absent
    /\ step = "commit" => d["manifest.partial"] = File(events, FALSE)
    /\ step = "done" => d["manifest"] # Absent

JobStep(s, events, step) == IF Root(s) = "raw" THEN RawJob(disk[s], events, step)
                                               ELSE PartJob(disk[s], kept[s], events, step)

JobOK == job # NoJob => JobStep(job.segment, job.events, job.step)

\* A loop of the recovery that has not begun, or that has yet to see segment s
Pending(s, i) == PhaseOf(pc) < i \/ (PhaseOf(pc) = i /\ s \in todo)

\* What loops that are over have left of a segment
SweptOf(s) ==
    /\ Has(s, "jsonl.partial") => Pending(s, 1)
    /\ Has(s, "zst.partial") => Pending(s, 3)
    /\ Has(s, "zst") /\ ~Has(s, "manifest") => Pending(s, 4)
    /\ Has(s, "parquet.partial") => Pending(s, 7)
    /\ Has(s, "parquet") /\ ~Has(s, "manifest") => Pending(s, 8)
    /\ Has(s, "manifest.partial") => Pending(s, IF Root(s) = "raw" THEN 5 ELSE 9)

\* What the loop that runs has yet to see is there.
TodoOf(s) ==
    /\ PhaseOf(pc) \in 1..10
    /\ Root(s) = IF PhaseOf(pc) <= 6 THEN "raw" ELSE "snapshots"
    /\ Has(s, Loops[PhaseOf(pc)])

IInv ==
    /\ Types
    /\ \A s \in Segments : LayoutOf(s)
    /\ \A s \in Segments : SafeOf(s)
    /\ \A st \in streams : IsOpen(st) => OpenOf(st)
    /\ JobOK
    /\ \A s \in Segments \ OpenSegments : Busy(s) \/ SweptOf(s)
    /\ \A s \in todo : Busy(s) \/ TodoOf(s)

-----------------------------------------------------------------------------
(* Sequences, and values that stand for nothing.                           *)

LEMMA PrefixFacts ==
    ASSUME NEW k \in Seq(Event), NEW e \in Seq(Event)
    PROVE  /\ IsPrefix(<<>>, e) /\ IsPrefix(k, k)
           /\ IsPrefix(k, <<>>) => k = <<>>
           /\ IsPrefix(k, e) => \A x \in Event : IsPrefix(k, Append(e, x))
           /\ IsPrefix(k, e) => \A i \in Len(k)..Len(e) : IsPrefix(k, SubSeq(e, 1, i))
<1>1. Len(k) \in Nat /\ Len(e) \in Nat
  OBVIOUS
<1>2. IsPrefix(<<>>, e) /\ IsPrefix(k, k)
  BY <1>1 DEF IsPrefix
<1>3. IsPrefix(k, <<>>) => k = <<>>
  BY <1>1 DEF IsPrefix
<1>4. IsPrefix(k, e) => Len(k) <= Len(e) /\ \A j \in 1..Len(k) : k[j] = e[j]
  BY <1>1 DEF IsPrefix
<1>5. ASSUME IsPrefix(k, e), NEW x \in Event PROVE IsPrefix(k, Append(e, x))
  <2>1. /\ Append(e, x) \in Seq(Event) /\ Len(Append(e, x)) = Len(e) + 1
        /\ \A j \in 1..Len(e) : Append(e, x)[j] = e[j]
    OBVIOUS
  <2> QED
    BY <1>1, <1>4, <1>5, <2>1 DEF IsPrefix
<1>6. ASSUME IsPrefix(k, e), NEW i \in Len(k)..Len(e) PROVE IsPrefix(k, SubSeq(e, 1, i))
  <2>1. /\ SubSeq(e, 1, i) \in Seq(Event) /\ Len(SubSeq(e, 1, i)) = i
        /\ \A j \in 1..i : SubSeq(e, 1, i)[j] = e[j]
    BY <1>1
  <2> QED
    BY <1>1, <1>4, <1>6, <2>1 DEF IsPrefix
<1>7. IsPrefix(k, e) => \A x \in Event : IsPrefix(k, Append(e, x))
  BY <1>5
<1>8. IsPrefix(k, e) => \A i \in Len(k)..Len(e) : IsPrefix(k, SubSeq(e, 1, i))
  BY <1>6
<1> QED
  BY <1>2, <1>3, <1>7, <1>8

LEMMA Values ==
    /\ Absent \notin AFile
    /\ \A e \in Seq(Event), t \in BOOLEAN :
          File(e, t) \in AFile /\ File(e, t) # Absent /\ File(e, t).events = e /\ File(e, t).torn = t
    /\ \A f \in AFile : f = File(f.events, f.torn) /\ f.events \in Seq(Event) /\ f.torn \in BOOLEAN
    /\ \A n \in Segments, e \in Seq(Event) : [number |-> n, events |-> e] # NoSegment
    /\ \A s \in Segments, e \in Seq(Event), step \in Steps : Job(s, e, step) # NoJob
    /\ MaxSegments \in Nat /\ MaxSequence \in Nat /\ MaxCrashes \in Nat
<1>1. /\ MaxSegments \in Nat /\ MaxSequence \in Nat /\ MaxCrashes \in Nat
      /\ Absent \notin [events : Seq(Nat), torn : BOOLEAN]
      /\ NoSegment \notin [number : Nat, events : Seq(Nat)]
      /\ NoJob \notin [segment : Nat, events : Seq(Nat), step : Steps]
  BY StorageAssumption DEF StorageAssumption
<1>2. \A e \in Seq(Event) : e \in Seq(Nat)
  BY <1>1 DEF Event
<1>3. \A n \in Segments : n \in Nat
  BY <1>1 DEF Segments
<1>4. Absent \notin AFile
  BY <1>1, <1>2 DEF AFile
<1>6. ASSUME NEW s \in Segments, NEW e \in Seq(Event), NEW step \in Steps
      PROVE  Job(s, e, step) # NoJob
  <2>1. s \in Nat /\ e \in Seq(Nat)
    BY <1>2, <1>3
  <2>2. Job(s, e, step) \in [segment : Nat, events : Seq(Nat), step : Steps]
    BY <1>6, <2>1 DEF Job
  <2> QED
    BY <1>1, <2>2
<1>7. \A n \in Segments, e \in Seq(Event) : [number |-> n, events |-> e] # NoSegment
  BY <1>1, <1>2, <1>3
<1>8. /\ \A e \in Seq(Event), t \in BOOLEAN :
            File(e, t) \in AFile /\ File(e, t).events = e /\ File(e, t).torn = t
      /\ \A f \in AFile : f = File(f.events, f.torn) /\ f.events \in Seq(Event) /\ f.torn \in BOOLEAN
  BY DEF AFile, File
<1>9. \A e \in Seq(Event), t \in BOOLEAN : File(e, t) # Absent
  BY <1>4, <1>8
<1>10. \A s \in Segments, e \in Seq(Event), step \in Steps : Job(s, e, step) # NoJob
  BY <1>6
<1> QED
  BY <1>1, <1>4, <1>7, <1>8, <1>9, <1>10

LEMMA EmptyFile == File(<<>>, FALSE) \in AFile /\ File(<<>>, FALSE) # Absent
<1>1. <<>> \in Seq(Event) /\ FALSE \in BOOLEAN
  OBVIOUS
<1> QED
  BY <1>1, Values

LEMMA TornFile == File(<<>>, TRUE) \in AFile /\ File(<<>>, TRUE) # Absent
<1>1. <<>> \in Seq(Event) /\ TRUE \in BOOLEAN
  OBVIOUS
<1> QED
  BY <1>1, Values

LEMMA Phases ==
    /\ \A p \in {"down", "running", "closing"} \cup ToSet(Names) : PhaseOf(p) \in 0..11
    /\ \A i \in 1..10 : Names[i] \in ToSet(Names) /\ PhaseOf(Names[i]) = i
    /\ DOMAIN Names = 1..10 /\ ToSet(Names) = {"1", "2", "3", "4", "5", "6", "7", "8", "9", "10"}
    /\ PhaseOf("down") = 0 /\ PhaseOf("running") = 11 /\ PhaseOf("closing") = 11
<1>1. DOMAIN Names = 1..10
  BY DEF Names
<1>2. ToSet(Names) = {"1", "2", "3", "4", "5", "6", "7", "8", "9", "10"}
  BY <1>1 DEF ToSet, Names
<1>3. \A i \in 1..10 : PhaseOf(Names[i]) = i
  BY DEF Names, PhaseOf
<1>4. \A p \in {"down", "running", "closing"} \cup ToSet(Names) : PhaseOf(p) \in 0..11
  BY <1>2 DEF PhaseOf
<1> QED
  BY <1>1, <1>2, <1>3, <1>4 DEF ToSet, PhaseOf

-----------------------------------------------------------------------------
(* Files.                                                                  *)

LEMMA FileOf ==
    ASSUME Types, NEW s \in Segments, NEW x \in FileKinds
    PROVE  /\ disk[s][x] \in AFile \cup {Absent}
           /\ Has(s, x) => /\ disk[s][x] \in AFile
                           /\ disk[s][x].events \in Seq(Event) /\ disk[s][x].torn \in BOOLEAN
                           /\ disk[s][x] = File(disk[s][x].events, disk[s][x].torn)
BY Values DEF Types, Has

\* Of the files of segment s at most these kinds change, and no others.
Changed(s, kinds) ==
    /\ disk' \in [Segments -> [FileKinds -> AFile \cup {Absent}]]
    /\ \A y \in FileKinds \ kinds : disk'[s][y] = disk[s][y]
    /\ \A t \in Segments \ {s} : disk'[t] = disk[t]

LEMMA PutFile ==
    ASSUME Types, NEW s \in Segments, NEW x \in FileKinds, NEW f \in AFile \cup {Absent},
           Put(s, x, f)
    PROVE  Changed(s, {x}) /\ disk'[s][x] = f
BY DEF Types, Put, Changed

LEMMA RenameFile ==
    ASSUME Types, NEW s \in Segments, NEW from \in FileKinds, NEW to \in FileKinds, from # to,
           Renamed(s, from, to)
    PROVE  Changed(s, {from, to}) /\ disk'[s][to] = disk[s][from] /\ disk'[s][from] = Absent
BY DEF Types, Renamed, Changed

LEMMA QuarantineFile ==
    ASSUME Types, NEW s \in Segments, NEW x \in FileKinds, Has(s, x), Quarantined(s, x)
    PROVE  /\ Changed(s, {x}) /\ disk'[s][x] = Absent
           /\ \A t \in Segments \ {s} : quarantine'[t] = quarantine[t]
           /\ quarantine' \in [Segments -> SUBSET [suffix : FileKinds, file : AFile]]
           /\ [suffix |-> x, file |-> disk[s][x]] \in quarantine'[s]
           /\ quarantine[s] \subseteq quarantine'[s]
<1>1. disk[s][x] \in AFile
  BY FileOf
<1>2. [suffix |-> x, file |-> disk[s][x]] \in [suffix : FileKinds, file : AFile]
  BY <1>1
<1>3. quarantine[s] \cup {[suffix |-> x, file |-> disk[s][x]]} \in SUBSET [suffix : FileKinds, file : AFile]
  BY <1>2 DEF Types
<1>4. /\ quarantine' = [quarantine EXCEPT ![s] = @ \cup {[suffix |-> x, file |-> disk[s][x]]}]
      /\ disk' = [disk EXCEPT ![s][x] = Absent]
  BY DEF Quarantined
<1>5. /\ quarantine' \in [Segments -> SUBSET [suffix : FileKinds, file : AFile]]
      /\ quarantine'[s] = quarantine[s] \cup {[suffix |-> x, file |-> disk[s][x]]}
      /\ \A t \in Segments \ {s} : quarantine'[t] = quarantine[t]
  BY <1>3, <1>4 DEF Types
<1>6. Changed(s, {x}) /\ disk'[s][x] = Absent
  BY <1>4 DEF Types, Changed
<1> QED
  BY <1>5, <1>6

-----------------------------------------------------------------------------
(* Segments that a step leaves alone.                                      *)

\* Nothing that is of segment t changes.
Left(t) ==
    /\ disk'[t] = disk[t] /\ quarantine'[t] = quarantine[t]
    /\ kept'[t] = kept[t] /\ streamOf'[t] = streamOf[t]

LEMMA LeftAlone ==
    ASSUME NEW t \in Segments, Left(t)
    PROVE  /\ Root(t)' = Root(t) /\ \A x : Has(t, x)' = Has(t, x)
           /\ \A x, e : Holds(t, x, e)' = Holds(t, x, e)
           /\ SafeOf(t)' = SafeOf(t)
BY DEF Left, Root, Has, Holds, SafeOf

LEMMA LayoutLeft ==
    ASSUME NEW t \in Segments, Left(t), LayoutOf(t), streams' = streams, t > used' => t > used,
           t <= used' => t <= used
    PROVE  LayoutOf(t)'
BY DEF LayoutOf, Left, Root, Has

LEMMA SweptLeft ==
    ASSUME NEW t \in Segments, Left(t), SweptOf(t), PhaseOf(pc)' = PhaseOf(pc), t \in todo => t \in todo'
    PROVE  SweptOf(t)'
<1>1. Root(t)' = Root(t) /\ \A x : Has(t, x)' = Has(t, x)
  BY LeftAlone
<1>2. \A i : Pending(t, i) => Pending(t, i)'
  BY DEF Pending
<1> QED
  BY <1>1, <1>2 DEF SweptOf

LEMMA TodoLeft ==
    ASSUME NEW t \in Segments, Left(t), TodoOf(t), PhaseOf(pc)' = PhaseOf(pc)
    PROVE  TodoOf(t)'
<1>1. Root(t)' = Root(t) /\ \A x : Has(t, x)' = Has(t, x)
  BY LeftAlone
<1>2. Has(t, Loops[PhaseOf(pc)])' = Has(t, Loops[PhaseOf(pc)])
  BY <1>1
<1> QED
  BY <1>1, <1>2 DEF TodoOf

LEMMA OpenLeft ==
    ASSUME NEW st, open'[st] = open[st], IsOpen(st), OpenOf(st), Left(open[st].number),
           open[st].number \in Segments, pc' \in {"running", "closing"}, used <= used', used' \in Nat,
           used \in Nat,
           ~Busy(open[st].number)'
    PROVE  OpenOf(st)'
<1> DEFINE n == open[st].number
<1>1. /\ \A x : Has(n, x)' = Has(n, x)
      /\ \A x, e : Holds(n, x, e)' = Holds(n, x, e)
  BY LeftAlone
<1>2. kept'[n] = kept[n] /\ streamOf'[n] = streamOf[n]
  BY DEF Left
<1>3. /\ n <= used /\ streamOf[n] = st
      /\ \A x \in FileKinds \ {"jsonl.partial"} : ~Has(n, x)
      /\ IF st = Snapshots THEN ~Has(n, "jsonl.partial") /\ kept[n] = <<>>
         ELSE Holds(n, "jsonl.partial", kept[n]) /\ IsPrefix(kept[n], open[st].events)
  BY DEF OpenOf
<1>4. n \in Nat
  BY Values DEF Segments
<1>5. n <= used'
  BY <1>3, <1>4
<1> QED
  BY <1>1, <1>2, <1>3, <1>5 DEF OpenOf

\* A step of the recovery, or of finalizing, that is about segment s only.
LEMMA OneSegment ==
    ASSUME IInv, NEW s \in Segments, s \notin OpenSegments, UNCHANGED <<names, open, used, pc>>,
           \A t \in Segments \ {s} : Left(t),
           job = NoJob \/ job.segment = s, job' = NoJob \/ job'.segment = s,
           todo' \subseteq todo, todo \ {s} \subseteq todo',
           Types', LayoutOf(s)', SafeOf(s)', JobOK', Busy(s)' \/ SweptOf(s)',
           s \in todo' => Busy(s)' \/ TodoOf(s)'
    PROVE  IInv'
<1>1. ASSUME NEW t \in Segments \ {s}
      PROVE  LayoutOf(t)' /\ SafeOf(t)' /\ ~Busy(t) /\ ~Busy(t)'
  <2>1. LayoutOf(t) /\ SafeOf(t) /\ Left(t)
    BY <1>1 DEF IInv
  <2>2. streams' = streams /\ used' = used
    BY DEF names
  <2> QED
    BY <1>1, <2>1, <2>2, LayoutLeft, LeftAlone DEF Busy
<1>2. ASSUME NEW st \in streams', IsOpen(st)' PROVE OpenOf(st)'
  <2>1. st \in streams /\ IsOpen(st) /\ OpenOf(st) /\ open[st].number \in OpenSegments
    BY <1>2 DEF names, IsOpen, IInv, OpenSegments
  <2>2. open[st].number \in Segments
    BY <2>1 DEF IInv, Types, IsOpen
  <2>3. pc' \in {"running", "closing"} /\ used \in Nat /\ used' \in Nat /\ used <= used'
    BY <2>1, Values DEF OpenOf, IInv, Types
  <2>4. Left(open[st].number) /\ ~Busy(open[st].number)'
    BY <1>1, <2>1, <2>2
  <2> QED
    BY <2>1, <2>2, <2>3, <2>4, OpenLeft
<1>3. OpenSegments' = OpenSegments
  BY DEF OpenSegments, IsOpen, names
<1>4. ASSUME NEW t \in Segments \ OpenSegments' PROVE Busy(t)' \/ SweptOf(t)'
  <2>1. CASE t # s
    BY <1>1, <1>3, <1>4, <2>1, SweptLeft DEF IInv
  <2> QED
    BY <2>1
<1>5. ASSUME NEW t \in todo' PROVE Busy(t)' \/ TodoOf(t)'
  <2>1. CASE t # s
    <3>1. t \in Segments /\ t \in todo
      <4>1. todo \subseteq 1..used /\ used \in 0..MaxSegments /\ t \in todo
        BY <1>5 DEF IInv, Types
      <4> QED
        BY <4>1, Values DEF Segments
    <3> QED
      BY <1>1, <2>1, <3>1, TodoLeft DEF IInv
  <2> QED
    BY <1>5, <2>1
<1> QED
  BY <1>1, <1>2, <1>4, <1>5 DEF IInv

-----------------------------------------------------------------------------
(* Finalizing a segment, step by step.                                     *)

LEMMA Typed ==
    ASSUME Types, UNCHANGED <<names, open, sequence, used, pc, crashes>>,
           disk' \in [Segments -> [FileKinds -> AFile \cup {Absent}]],
           quarantine' \in [Segments -> SUBSET [suffix : FileKinds, file : AFile]],
           kept' \in [Segments -> Seq(Event)], todo' \subseteq todo,
           job' \in [segment : 1..used, events : Seq(Event), step : Steps] \cup {NoJob}
    PROVE  Types'
BY DEF Types, names

LEMMA JobFacts ==
    ASSUME IInv, job # NoJob
    PROVE  LET s == job.segment IN
           /\ s \in Segments /\ s \in 1..used
           /\ s \notin OpenSegments
           /\ job.events \in Seq(Event)
           /\ JobStep(s, job.events, job.step) /\ LayoutOf(s) /\ SafeOf(s)
           /\ \A t \in Segments : Busy(t) <=> t = s
<1>1. job \in [segment : 1..used, events : Seq(Event), step : Steps] /\ used \in 0..MaxSegments
  BY DEF IInv, Types
<1>2. job.segment \in 1..used /\ job.segment \in Segments /\ job.events \in Seq(Event)
  BY <1>1, Values DEF Segments
<1>3. job.segment \notin OpenSegments
  BY DEF IInv, OpenSegments, OpenOf, Busy
<1>4. JobStep(job.segment, job.events, job.step)
  BY DEF IInv, JobOK
<1> QED
  BY <1>2, <1>3, <1>4 DEF IInv, Busy

LEMMA NextStep ==
    ASSUME Types, job # NoJob, NEW step \in Steps, Step(step)
    PROVE  /\ job' # NoJob /\ job'.segment = job.segment /\ job'.events = job.events
           /\ job'.step = step
           /\ job' \in [segment : 1..used, events : Seq(Event), step : Steps]
<1>1. job \in [segment : 1..used, events : Seq(Event), step : Steps] /\ used \in 0..MaxSegments
  BY DEF Types
<1>2. job' = Job(job.segment, job.events, step)
  BY <1>1 DEF Step, Job
<1>3. job.segment \in Segments /\ job.events \in Seq(Event)
  BY <1>1, Values DEF Segments
<1> QED
  BY <1>1, <1>2, <1>3, Values DEF Job

\* A step of finalizing segment s is right if it leaves s so.
LEMMA Stepped ==
    ASSUME IInv, job # NoJob, NEW s, s = job.segment,
           NEW events, events = job.events, NEW step \in Steps, Step(step),
           UNCHANGED notOnDisk,
           UNCHANGED <<quarantine, todo>>,
           disk' \in [Segments -> [FileKinds -> AFile \cup {Absent}]],
           kept' \in [Segments -> Seq(Event)],
           \A t \in Segments \ {s} : disk'[t] = disk[t] /\ kept'[t] = kept[t],
           LayoutOf(s)', SafeOf(s)',
           JobStep(s, events, step)'
    PROVE  IInv'
<1>1. /\ s \in Segments /\ s \in 1..used /\ s \notin OpenSegments
  BY JobFacts
<1>2. /\ job' # NoJob /\ job'.segment = s /\ job'.events = events /\ job'.step = step
      /\ job' \in [segment : 1..used, events : Seq(Event), step : Steps]
  BY NextStep DEF IInv
<1>3. UNCHANGED <<names, open, sequence, used, pc, crashes, quarantine, todo>>
  BY DEF notOnDisk
<1>4. Types'
  <2>1. quarantine' \in [Segments -> SUBSET [suffix : FileKinds, file : AFile]]
    BY <1>3 DEF IInv, Types
  <2> QED
    BY <1>2, <1>3, <2>1, Typed DEF IInv
<1>5. \A t \in Segments \ {s} : Left(t)
  BY <1>3 DEF Left, names
<1>6. JobOK'
  BY <1>2 DEF JobOK, JobStep, Root
<1>7. Busy(s)'
  BY <1>2 DEF Busy
<1>8. LayoutOf(s)' /\ SafeOf(s)'
  OBVIOUS
<1> QED
  BY <1>1, <1>2, <1>3, <1>4, <1>5, <1>6, <1>7, <1>8, OneSegment

LEMMA SteppedIn ==
    ASSUME IInv, job # NoJob, NEW s, s = job.segment, UNCHANGED notOnDisk
    PROVE  /\ Root(s)' = Root(s) /\ pc' = pc
           /\ streams' = streams /\ streamOf' = streamOf
           /\ LayoutOf(s)' <=> IF Root(s) = "raw" THEN RawLayout(disk'[s]) ELSE PartLayout(disk'[s])
<1>1. s \in 1..used /\ LayoutOf(s) /\ used \in Nat
  BY JobFacts, Values DEF IInv, Types
<1>2. UNCHANGED <<streams, streamOf, used, pc>>
  BY DEF notOnDisk, names
<1>3. Root(s)' = Root(s)
  BY <1>2 DEF Root
<1>4. ~(s > used) /\ s <= used
  BY <1>1
<1> QED
  BY <1>1, <1>2, <1>3, <1>4 DEF LayoutOf

LEMMA RawStepped ==
    ASSUME IInv, job # NoJob, NEW s, s = job.segment, NEW events, events = job.events,
           Root(s) = "raw",
           NEW step \in Steps, Step(step), UNCHANGED notOnDisk, UNCHANGED <<quarantine, todo, kept>>,
           NEW kinds, Changed(s, kinds),
           RawLayout(disk'[s]), RawSafe(disk'[s], quarantine[s], kept[s]),
           RawJob(disk[s], events, step)'
    PROVE  IInv'
<1>1. Root(s)' = "raw" /\ LayoutOf(s)'
  BY SteppedIn
<1>2. SafeOf(s)'
  BY <1>1 DEF SafeOf
<1>3. JobStep(s, events, step)'
  BY <1>1 DEF JobStep
<1>4. kept' \in [Segments -> Seq(Event)]
  BY DEF IInv, Types
<1> QED
  BY <1>1, <1>2, <1>3, <1>4, Stepped DEF Changed

LEMMA PartStepped ==
    ASSUME IInv, job # NoJob, NEW s, s = job.segment, NEW events, events = job.events,
           Root(s) # "raw",
           NEW step \in Steps, Step(step), UNCHANGED notOnDisk, UNCHANGED <<quarantine, todo>>,
           NEW kinds, Changed(s, kinds), kept' \in [Segments -> Seq(Event)],
           \A t \in Segments \ {s} : kept'[t] = kept[t],
           PartLayout(disk'[s]), PartSafe(disk'[s], kept'[s]),
           PartJob(disk[s], kept[s], events, step)'
    PROVE  IInv'
<1>1. Root(s)' # "raw" /\ LayoutOf(s)'
  BY SteppedIn
<1>2. SafeOf(s)'
  BY <1>1 DEF SafeOf
<1>3. JobStep(s, events, step)'
  BY <1>1 DEF JobStep
<1> QED
  BY <1>1, <1>2, <1>3, Stepped DEF Changed

\* What is known before a step.
LEMMA Before ==
    ASSUME IInv, job # NoJob, NEW s, s = job.segment, NEW events, events = job.events
    PROVE  /\ Types /\ s \in Segments /\ events \in Seq(Event)
           /\ File(events, FALSE) \in AFile /\ File(events, FALSE) # Absent
           /\ File(events, FALSE).events = events /\ ~File(events, FALSE).torn
           /\ Root(s) = "raw" => /\ RawJob(disk[s], events, job.step) /\ RawLayout(disk[s])
                                 /\ RawSafe(disk[s], quarantine[s], kept[s])
           /\ Root(s) # "raw" => /\ PartJob(disk[s], kept[s], events, job.step)
                                 /\ PartLayout(disk[s]) /\ PartSafe(disk[s], kept[s])
<1>1. s \in Segments /\ events \in Seq(Event) /\ JobStep(s, events, job.step)
      /\ LayoutOf(s) /\ SafeOf(s) /\ Types
  BY JobFacts DEF IInv
<1>2. /\ Root(s) = "raw" => RawJob(disk[s], events, job.step)
      /\ Root(s) # "raw" => PartJob(disk[s], kept[s], events, job.step)
  BY <1>1 DEF JobStep
<1>3. /\ Root(s) = "raw" => RawLayout(disk[s]) /\ RawSafe(disk[s], quarantine[s], kept[s])
      /\ Root(s) # "raw" => PartLayout(disk[s]) /\ PartSafe(disk[s], kept[s])
  BY <1>1 DEF LayoutOf, SafeOf
<1> QED
  BY <1>1, <1>2, <1>3, Values

LEMMA TableStep ==
    ASSUME IInv, Table, NEW s, s = job.segment, NEW events, events = job.events
    PROVE  IInv'
<1>1. job # NoJob /\ job.step = "table" /\ "publish" \in Steps /\ Step("publish")
      /\ UNCHANGED notOnDisk
      /\ UNCHANGED <<quarantine, todo>> /\ Put(s, "parquet.partial", File(events, FALSE))
      /\ kept' = [kept EXCEPT ![s] = events]
  BY DEF Table, At, Steps
<1>2. /\ Types /\ s \in Segments /\ events \in Seq(Event) /\ File(events, FALSE) \in AFile
      /\ File(events, FALSE) # Absent
      /\ Root(s) = "raw" => RawJob(disk[s], events, "table")
      /\ Root(s) # "raw" => PartJob(disk[s], kept[s], events, "table") /\ PartLayout(disk[s])
  BY <1>1, Before
<1>3. Root(s) # "raw"
  BY <1>2 DEF RawJob
<1>4. Changed(s, {"parquet.partial"}) /\ disk'[s]["parquet.partial"] = File(events, FALSE)
  BY <1>1, <1>2, PutFile DEF FileKinds
<1>5. kept' \in [Segments -> Seq(Event)] /\ kept'[s] = events
      /\ \A t \in Segments \ {s} : kept'[t] = kept[t]
  BY <1>1, <1>2 DEF Types
<1>6. PartLayout(disk'[s]) /\ PartSafe(disk'[s], kept'[s])
  BY <1>2, <1>3, <1>4, <1>5 DEF PartJob, PartLayout, PartSafe, FileKinds, Changed
<1>7. PartJob(disk[s], kept[s], events, "publish")'
  BY <1>1, <1>2, <1>3, <1>4, SteppedIn DEF PartJob, FileKinds, Changed
<1> QED
  BY <1>1, <1>3, <1>4, <1>5, <1>6, <1>7, PartStepped

LEMMA RenameStep ==
    ASSUME IInv, Rename, NEW s, s = job.segment, NEW events, events = job.events
    PROVE  IInv'
<1>1. /\ job # NoJob /\ job.step = "rename" /\ "create" \in Steps /\ Step("create")
      /\ UNCHANGED notOnDisk /\ UNCHANGED <<quarantine, todo, kept>>
      /\ Renamed(s, "jsonl.partial", "jsonl")
  BY DEF Rename, At, unchangedByStep, Steps
<1>2. /\ Types /\ s \in Segments /\ File(events, FALSE) \in AFile /\ File(events, FALSE) # Absent
      /\ File(events, FALSE).events = events /\ ~File(events, FALSE).torn
      /\ Root(s) = "raw" => /\ RawJob(disk[s], events, "rename") /\ RawLayout(disk[s])
                            /\ RawSafe(disk[s], quarantine[s], kept[s])
      /\ Root(s) # "raw" => /\ PartJob(disk[s], kept[s], events, "rename") /\ PartLayout(disk[s])
                            /\ PartSafe(disk[s], kept[s])
  BY <1>1, Before
<1>3. Root(s) = "raw"
  BY <1>2 DEF PartJob
<1>4. /\ Changed(s, {"jsonl.partial", "jsonl"})
      /\ disk'[s]["jsonl"] = disk[s]["jsonl.partial"] /\ disk'[s]["jsonl.partial"] = Absent
  BY <1>1, <1>2, RenameFile DEF FileKinds
<1>a. /\ disk'[s]["zst.partial"] = disk[s]["zst.partial"]
      /\ disk'[s]["zst"] = disk[s]["zst"]
      /\ disk'[s]["parquet.partial"] = disk[s]["parquet.partial"]
      /\ disk'[s]["parquet"] = disk[s]["parquet"]
      /\ disk'[s]["manifest.partial"] = disk[s]["manifest.partial"]
      /\ disk'[s]["manifest"] = disk[s]["manifest"]
  BY <1>4 DEF Changed, FileKinds
<1>b. /\ RawLayout(disk[s]) /\ RawJob(disk[s], events, "rename")
      /\ RawSafe(disk[s], quarantine[s], kept[s])
  BY <1>2, <1>3
<1>5. RawLayout(disk'[s])
  BY <1>2, <1>4, <1>a, <1>b DEF RawJob, RawLayout
<1>c. RawSafe(disk'[s], quarantine[s], kept[s])
  BY <1>1, <1>2, <1>4, <1>a, <1>b DEF RawJob, RawLayout, RawSafe
<1>6. RawJob(disk[s], events, "create")'
  <2>1. pc' = pc
    BY <1>1 DEF notOnDisk
  <2> QED
    BY <1>2, <1>4, <1>a, <1>b, <2>1 DEF RawJob, RawLayout, RawWriting
<1> QED
  BY <1>1, <1>2, <1>3, <1>4, <1>c, <1>5, <1>6, RawStepped

LEMMA CreateStep ==
    ASSUME IInv, Create, NEW s, s = job.segment, NEW events, events = job.events
    PROVE  IInv'
<1>1. /\ job # NoJob /\ job.step = "create" /\ "compress" \in Steps /\ Step("compress")
      /\ UNCHANGED notOnDisk /\ UNCHANGED <<quarantine, todo, kept>>
      /\ Put(s, "zst.partial", File(<<>>, FALSE))
  BY DEF Create, At, unchangedByStep, Steps
<1>2. /\ Types /\ s \in Segments /\ File(events, FALSE) \in AFile /\ File(events, FALSE) # Absent
      /\ File(events, FALSE).events = events /\ ~File(events, FALSE).torn
      /\ Root(s) = "raw" => /\ RawJob(disk[s], events, "create") /\ RawLayout(disk[s])
                            /\ RawSafe(disk[s], quarantine[s], kept[s])
      /\ Root(s) # "raw" => /\ PartJob(disk[s], kept[s], events, "create") /\ PartLayout(disk[s])
                            /\ PartSafe(disk[s], kept[s])
  BY <1>1, Before
<1>3. Root(s) = "raw"
  BY <1>2 DEF PartJob
<1>4. Changed(s, {"zst.partial"}) /\ disk'[s]["zst.partial"] = File(<<>>, FALSE)
  <2>1. File(<<>>, FALSE) \in AFile
    BY EmptyFile
  <2> QED
    BY <1>1, <1>2, <2>1, PutFile DEF FileKinds
<1>a. /\ disk'[s]["jsonl.partial"] = disk[s]["jsonl.partial"]
      /\ disk'[s]["jsonl"] = disk[s]["jsonl"]
      /\ disk'[s]["zst"] = disk[s]["zst"]
      /\ disk'[s]["parquet.partial"] = disk[s]["parquet.partial"]
      /\ disk'[s]["parquet"] = disk[s]["parquet"]
      /\ disk'[s]["manifest.partial"] = disk[s]["manifest.partial"]
      /\ disk'[s]["manifest"] = disk[s]["manifest"]
  BY <1>4 DEF Changed, FileKinds
<1>b. /\ RawLayout(disk[s]) /\ RawJob(disk[s], events, "create")
      /\ RawSafe(disk[s], quarantine[s], kept[s])
  BY <1>2, <1>3
<1>5. RawLayout(disk'[s])
  BY <1>2, <1>4, <1>a, <1>b DEF RawJob, RawLayout
<1>c. RawSafe(disk'[s], quarantine[s], kept[s])
  BY <1>1, <1>2, <1>4, <1>a, <1>b DEF RawJob, RawLayout, RawSafe
<1>6. RawJob(disk[s], events, "compress")'
  <2>1. pc' = pc
    BY <1>1 DEF notOnDisk
  <2> QED
    BY <1>2, <1>4, <1>a, <1>b, <2>1 DEF RawJob, RawLayout, RawWriting
<1> QED
  BY <1>1, <1>2, <1>3, <1>4, <1>c, <1>5, <1>6, RawStepped

LEMMA CompressStep ==
    ASSUME IInv, Compress, NEW s, s = job.segment, NEW events, events = job.events
    PROVE  IInv'
<1>1. /\ job # NoJob /\ job.step = "compress" /\ "publish" \in Steps /\ Step("publish")
      /\ UNCHANGED notOnDisk /\ UNCHANGED <<quarantine, todo, kept>>
      /\ Put(s, "zst.partial", File(events, FALSE))
  BY DEF Compress, At, unchangedByStep, Steps
<1>2. /\ Types /\ s \in Segments /\ File(events, FALSE) \in AFile /\ File(events, FALSE) # Absent
      /\ File(events, FALSE).events = events /\ ~File(events, FALSE).torn
      /\ Root(s) = "raw" => /\ RawJob(disk[s], events, "compress") /\ RawLayout(disk[s])
                            /\ RawSafe(disk[s], quarantine[s], kept[s])
      /\ Root(s) # "raw" => /\ PartJob(disk[s], kept[s], events, "compress") /\ PartLayout(disk[s])
                            /\ PartSafe(disk[s], kept[s])
  BY <1>1, Before
<1>3. Root(s) = "raw"
  BY <1>2 DEF PartJob
<1>4. Changed(s, {"zst.partial"}) /\ disk'[s]["zst.partial"] = File(events, FALSE)
  BY <1>1, <1>2, PutFile DEF FileKinds
<1>a. /\ disk'[s]["jsonl.partial"] = disk[s]["jsonl.partial"]
      /\ disk'[s]["jsonl"] = disk[s]["jsonl"]
      /\ disk'[s]["zst"] = disk[s]["zst"]
      /\ disk'[s]["parquet.partial"] = disk[s]["parquet.partial"]
      /\ disk'[s]["parquet"] = disk[s]["parquet"]
      /\ disk'[s]["manifest.partial"] = disk[s]["manifest.partial"]
      /\ disk'[s]["manifest"] = disk[s]["manifest"]
  BY <1>4 DEF Changed, FileKinds
<1>b. /\ RawLayout(disk[s]) /\ RawJob(disk[s], events, "compress")
      /\ RawSafe(disk[s], quarantine[s], kept[s])
  BY <1>2, <1>3
<1>5. RawLayout(disk'[s])
  BY <1>2, <1>4, <1>a, <1>b DEF RawJob, RawLayout
<1>c. RawSafe(disk'[s], quarantine[s], kept[s])
  BY <1>1, <1>2, <1>4, <1>a, <1>b DEF RawJob, RawLayout, RawSafe
<1>6. RawJob(disk[s], events, "publish")'
  <2>1. pc' = pc
    BY <1>1 DEF notOnDisk
  <2> QED
    BY <1>2, <1>4, <1>a, <1>b, <2>1 DEF RawJob, RawLayout, RawWriting
<1> QED
  BY <1>1, <1>2, <1>3, <1>4, <1>c, <1>5, <1>6, RawStepped

LEMMA PublishRaw ==
    ASSUME IInv, PublishSegment, NEW s, s = job.segment, NEW events, events = job.events, Root(s) = "raw"
    PROVE  IInv'
<1>1. /\ job # NoJob /\ job.step = "publish" /\ "describe" \in Steps /\ Step("describe")
      /\ UNCHANGED notOnDisk /\ UNCHANGED <<quarantine, todo, kept>>
      /\ Renamed(s, "zst.partial", "zst")
  BY DEF PublishSegment, At, unchangedByStep, Steps, Root
<1>2. /\ Types /\ s \in Segments /\ File(events, FALSE) \in AFile /\ File(events, FALSE) # Absent
      /\ File(events, FALSE).events = events /\ ~File(events, FALSE).torn
      /\ Root(s) = "raw" => /\ RawJob(disk[s], events, "publish") /\ RawLayout(disk[s])
                            /\ RawSafe(disk[s], quarantine[s], kept[s])
      /\ Root(s) # "raw" => /\ PartJob(disk[s], kept[s], events, "publish") /\ PartLayout(disk[s])
                            /\ PartSafe(disk[s], kept[s])
  BY <1>1, Before
<1>3. Root(s) = "raw"
  BY <1>2 DEF PartJob
<1>4. /\ Changed(s, {"zst.partial", "zst"})
      /\ disk'[s]["zst"] = disk[s]["zst.partial"] /\ disk'[s]["zst.partial"] = Absent
  BY <1>1, <1>2, RenameFile DEF FileKinds
<1>a. /\ disk'[s]["jsonl.partial"] = disk[s]["jsonl.partial"]
      /\ disk'[s]["jsonl"] = disk[s]["jsonl"]
      /\ disk'[s]["parquet.partial"] = disk[s]["parquet.partial"]
      /\ disk'[s]["parquet"] = disk[s]["parquet"]
      /\ disk'[s]["manifest.partial"] = disk[s]["manifest.partial"]
      /\ disk'[s]["manifest"] = disk[s]["manifest"]
  BY <1>4 DEF Changed, FileKinds
<1>b. /\ RawLayout(disk[s]) /\ RawJob(disk[s], events, "publish")
      /\ RawSafe(disk[s], quarantine[s], kept[s])
  BY <1>2, <1>3
<1>5. RawLayout(disk'[s])
  BY <1>2, <1>4, <1>a, <1>b DEF RawJob, RawLayout
<1>c. RawSafe(disk'[s], quarantine[s], kept[s])
  BY <1>1, <1>2, <1>4, <1>a, <1>b DEF RawJob, RawLayout, RawSafe
<1>6. RawJob(disk[s], events, "describe")'
  <2>1. pc' = pc
    BY <1>1 DEF notOnDisk
  <2> QED
    BY <1>2, <1>4, <1>a, <1>b, <2>1 DEF RawJob, RawLayout, RawWriting
<1> QED
  BY <1>1, <1>2, <1>3, <1>4, <1>c, <1>5, <1>6, RawStepped

LEMMA PublishPart ==
    ASSUME IInv, PublishSegment, NEW s, s = job.segment, NEW events, events = job.events, Root(s) # "raw"
    PROVE  IInv'
<1>1. /\ job # NoJob /\ job.step = "publish" /\ "describe" \in Steps /\ Step("describe")
      /\ UNCHANGED notOnDisk /\ UNCHANGED <<quarantine, todo, kept>>
      /\ Renamed(s, "parquet.partial", "parquet")
  BY DEF PublishSegment, At, unchangedByStep, Steps, Root
<1>2. /\ Types /\ s \in Segments /\ File(events, FALSE) \in AFile /\ File(events, FALSE) # Absent
      /\ File(events, FALSE).events = events /\ ~File(events, FALSE).torn
      /\ Root(s) = "raw" => /\ RawJob(disk[s], events, "publish") /\ RawLayout(disk[s])
                            /\ RawSafe(disk[s], quarantine[s], kept[s])
      /\ Root(s) # "raw" => /\ PartJob(disk[s], kept[s], events, "publish") /\ PartLayout(disk[s])
                            /\ PartSafe(disk[s], kept[s])
  BY <1>1, Before
<1>3. Root(s) # "raw"
  BY <1>2 DEF PartJob
<1>4. /\ Changed(s, {"parquet.partial", "parquet"})
      /\ disk'[s]["parquet"] = disk[s]["parquet.partial"] /\ disk'[s]["parquet.partial"] = Absent
  BY <1>1, <1>2, RenameFile DEF FileKinds
<1>a. /\ disk'[s]["jsonl.partial"] = disk[s]["jsonl.partial"]
      /\ disk'[s]["jsonl"] = disk[s]["jsonl"]
      /\ disk'[s]["zst.partial"] = disk[s]["zst.partial"]
      /\ disk'[s]["zst"] = disk[s]["zst"]
      /\ disk'[s]["manifest.partial"] = disk[s]["manifest.partial"]
      /\ disk'[s]["manifest"] = disk[s]["manifest"]
  BY <1>4 DEF Changed, FileKinds
<1>b. /\ PartLayout(disk[s]) /\ PartJob(disk[s], kept[s], events, "publish")
      /\ PartSafe(disk[s], kept[s])
  BY <1>2, <1>3
<1>5. PartLayout(disk'[s])
  BY <1>2, <1>4, <1>a, <1>b DEF PartJob, PartLayout
<1>c. PartSafe(disk'[s], kept'[s])
  BY <1>1, <1>2, <1>4, <1>a, <1>b DEF PartJob, PartLayout, PartSafe
<1>6. PartJob(disk[s], kept[s], events, "describe")'
  <2>1. pc' = pc
    BY <1>1 DEF notOnDisk
  <2> QED
    BY <1>2, <1>4, <1>a, <1>b, <2>1 DEF PartJob, PartLayout, RawWriting
<1> QED
  BY <1>1, <1>2, <1>3, <1>4, <1>c, <1>5, <1>6, PartStepped DEF Types

LEMMA DescribeRaw ==
    ASSUME IInv, Describe, NEW s, s = job.segment, NEW events, events = job.events, Root(s) = "raw"
    PROVE  IInv'
<1>1. /\ job # NoJob /\ job.step = "describe" /\ "commit" \in Steps /\ Step("commit")
      /\ UNCHANGED notOnDisk /\ UNCHANGED <<quarantine, todo, kept>>
      /\ Put(s, "manifest.partial", File(events, FALSE))
  BY DEF Describe, At, unchangedByStep, Steps, Root
<1>2. /\ Types /\ s \in Segments /\ File(events, FALSE) \in AFile /\ File(events, FALSE) # Absent
      /\ File(events, FALSE).events = events /\ ~File(events, FALSE).torn
      /\ Root(s) = "raw" => /\ RawJob(disk[s], events, "describe") /\ RawLayout(disk[s])
                            /\ RawSafe(disk[s], quarantine[s], kept[s])
      /\ Root(s) # "raw" => /\ PartJob(disk[s], kept[s], events, "describe") /\ PartLayout(disk[s])
                            /\ PartSafe(disk[s], kept[s])
  BY <1>1, Before
<1>3. Root(s) = "raw"
  BY <1>2 DEF PartJob
<1>4. Changed(s, {"manifest.partial"}) /\ disk'[s]["manifest.partial"] = File(events, FALSE)
  BY <1>1, <1>2, PutFile DEF FileKinds
<1>a. /\ disk'[s]["jsonl.partial"] = disk[s]["jsonl.partial"]
      /\ disk'[s]["jsonl"] = disk[s]["jsonl"]
      /\ disk'[s]["zst.partial"] = disk[s]["zst.partial"]
      /\ disk'[s]["zst"] = disk[s]["zst"]
      /\ disk'[s]["parquet.partial"] = disk[s]["parquet.partial"]
      /\ disk'[s]["parquet"] = disk[s]["parquet"]
      /\ disk'[s]["manifest"] = disk[s]["manifest"]
  BY <1>4 DEF Changed, FileKinds
<1>b. /\ RawLayout(disk[s]) /\ RawJob(disk[s], events, "describe")
      /\ RawSafe(disk[s], quarantine[s], kept[s])
  BY <1>2, <1>3
<1>5. RawLayout(disk'[s])
  BY <1>2, <1>4, <1>a, <1>b DEF RawJob, RawLayout
<1>c. RawSafe(disk'[s], quarantine[s], kept[s])
  BY <1>1, <1>2, <1>4, <1>a, <1>b DEF RawJob, RawLayout, RawSafe
<1>6. RawJob(disk[s], events, "commit")'
  <2>1. pc' = pc
    BY <1>1 DEF notOnDisk
  <2> QED
    BY <1>2, <1>4, <1>a, <1>b, <2>1 DEF RawJob, RawLayout, RawWriting
<1> QED
  BY <1>1, <1>2, <1>3, <1>4, <1>c, <1>5, <1>6, RawStepped

LEMMA DescribePart ==
    ASSUME IInv, Describe, NEW s, s = job.segment, NEW events, events = job.events, Root(s) # "raw"
    PROVE  IInv'
<1>1. /\ job # NoJob /\ job.step = "describe" /\ "commit" \in Steps /\ Step("commit")
      /\ UNCHANGED notOnDisk /\ UNCHANGED <<quarantine, todo, kept>>
      /\ Put(s, "manifest.partial", File(events, FALSE))
  BY DEF Describe, At, unchangedByStep, Steps, Root
<1>2. /\ Types /\ s \in Segments /\ File(events, FALSE) \in AFile /\ File(events, FALSE) # Absent
      /\ File(events, FALSE).events = events /\ ~File(events, FALSE).torn
      /\ Root(s) = "raw" => /\ RawJob(disk[s], events, "describe") /\ RawLayout(disk[s])
                            /\ RawSafe(disk[s], quarantine[s], kept[s])
      /\ Root(s) # "raw" => /\ PartJob(disk[s], kept[s], events, "describe") /\ PartLayout(disk[s])
                            /\ PartSafe(disk[s], kept[s])
  BY <1>1, Before
<1>3. Root(s) # "raw"
  BY <1>2 DEF PartJob
<1>4. Changed(s, {"manifest.partial"}) /\ disk'[s]["manifest.partial"] = File(events, FALSE)
  BY <1>1, <1>2, PutFile DEF FileKinds
<1>a. /\ disk'[s]["jsonl.partial"] = disk[s]["jsonl.partial"]
      /\ disk'[s]["jsonl"] = disk[s]["jsonl"]
      /\ disk'[s]["zst.partial"] = disk[s]["zst.partial"]
      /\ disk'[s]["zst"] = disk[s]["zst"]
      /\ disk'[s]["parquet.partial"] = disk[s]["parquet.partial"]
      /\ disk'[s]["parquet"] = disk[s]["parquet"]
      /\ disk'[s]["manifest"] = disk[s]["manifest"]
  BY <1>4 DEF Changed, FileKinds
<1>b. /\ PartLayout(disk[s]) /\ PartJob(disk[s], kept[s], events, "describe")
      /\ PartSafe(disk[s], kept[s])
  BY <1>2, <1>3
<1>5. PartLayout(disk'[s])
  BY <1>2, <1>4, <1>a, <1>b DEF PartJob, PartLayout
<1>c. PartSafe(disk'[s], kept'[s])
  BY <1>1, <1>2, <1>4, <1>a, <1>b DEF PartJob, PartLayout, PartSafe
<1>6. PartJob(disk[s], kept[s], events, "commit")'
  <2>1. pc' = pc
    BY <1>1 DEF notOnDisk
  <2> QED
    BY <1>2, <1>4, <1>a, <1>b, <2>1 DEF PartJob, PartLayout, RawWriting
<1> QED
  BY <1>1, <1>2, <1>3, <1>4, <1>c, <1>5, <1>6, PartStepped DEF Types

LEMMA UnlinkStep ==
    ASSUME IInv, Unlink, NEW s, s = job.segment, NEW events, events = job.events
    PROVE  IInv'
<1>1. /\ job # NoJob /\ job.step = "unlink" /\ "done" \in Steps /\ Step("done")
      /\ UNCHANGED notOnDisk /\ UNCHANGED <<quarantine, todo, kept>>
      /\ Put(s, "jsonl", Absent)
  BY DEF Unlink, At, unchangedByStep, Steps
<1>2. /\ Types /\ s \in Segments /\ File(events, FALSE) \in AFile /\ File(events, FALSE) # Absent
      /\ File(events, FALSE).events = events /\ ~File(events, FALSE).torn
      /\ Root(s) = "raw" => /\ RawJob(disk[s], events, "unlink") /\ RawLayout(disk[s])
                            /\ RawSafe(disk[s], quarantine[s], kept[s])
      /\ Root(s) # "raw" => /\ PartJob(disk[s], kept[s], events, "unlink") /\ PartLayout(disk[s])
                            /\ PartSafe(disk[s], kept[s])
  BY <1>1, Before
<1>3. Root(s) = "raw"
  BY <1>2 DEF PartJob
<1>4. Changed(s, {"jsonl"}) /\ disk'[s]["jsonl"] = Absent
  BY <1>1, <1>2, PutFile DEF FileKinds
<1>a. /\ disk'[s]["jsonl.partial"] = disk[s]["jsonl.partial"]
      /\ disk'[s]["zst.partial"] = disk[s]["zst.partial"]
      /\ disk'[s]["zst"] = disk[s]["zst"]
      /\ disk'[s]["parquet.partial"] = disk[s]["parquet.partial"]
      /\ disk'[s]["parquet"] = disk[s]["parquet"]
      /\ disk'[s]["manifest.partial"] = disk[s]["manifest.partial"]
      /\ disk'[s]["manifest"] = disk[s]["manifest"]
  BY <1>4 DEF Changed, FileKinds
<1>b. /\ RawLayout(disk[s]) /\ RawJob(disk[s], events, "unlink")
      /\ RawSafe(disk[s], quarantine[s], kept[s])
  BY <1>2, <1>3
<1>5. RawLayout(disk'[s])
  BY <1>2, <1>4, <1>a, <1>b DEF RawJob, RawLayout
<1>c. RawSafe(disk'[s], quarantine[s], kept[s])
  BY <1>1, <1>2, <1>4, <1>a, <1>b DEF RawJob, RawLayout, RawSafe
<1>6. RawJob(disk[s], events, "done")'
  <2>1. pc' = pc
    BY <1>1 DEF notOnDisk
  <2> QED
    BY <1>2, <1>4, <1>a, <1>b, <2>1 DEF RawJob, RawLayout, RawWriting
<1> QED
  BY <1>1, <1>2, <1>3, <1>4, <1>c, <1>5, <1>6, RawStepped

LEMMA CommitStep ==
    ASSUME IInv, Commit, NEW s, s = job.segment, NEW events, events = job.events
    PROVE  IInv'
<1> DEFINE next == IF Root(s) = "snapshots" \/ pc \in {"3", "4"} THEN "done" ELSE "unlink"
<1>1. /\ job # NoJob /\ job.step = "commit" /\ Step(next)
      /\ UNCHANGED notOnDisk /\ UNCHANGED <<quarantine, todo, kept>>
      /\ Renamed(s, "manifest.partial", "manifest")
  BY DEF Commit, At, unchangedByStep
<1>2. next \in Steps /\ next \in {"done", "unlink"}
  BY DEF Steps
<1>3. /\ Types /\ s \in Segments /\ File(events, FALSE) # Absent
      /\ File(events, FALSE).events = events
      /\ Root(s) = "raw" => /\ RawJob(disk[s], events, "commit") /\ RawLayout(disk[s])
                            /\ RawSafe(disk[s], quarantine[s], kept[s])
      /\ Root(s) # "raw" => /\ PartJob(disk[s], kept[s], events, "commit") /\ PartLayout(disk[s])
                            /\ PartSafe(disk[s], kept[s])
  BY <1>1, Before
<1>4. /\ Changed(s, {"manifest.partial", "manifest"}) /\ disk'[s]["manifest.partial"] = Absent
      /\ disk'[s]["manifest"] = disk[s]["manifest.partial"]
  BY <1>1, <1>3, RenameFile DEF FileKinds
<1>5. /\ disk'[s]["jsonl.partial"] = disk[s]["jsonl.partial"]
      /\ disk'[s]["jsonl"] = disk[s]["jsonl"]
      /\ disk'[s]["zst.partial"] = disk[s]["zst.partial"]
      /\ disk'[s]["zst"] = disk[s]["zst"]
      /\ disk'[s]["parquet.partial"] = disk[s]["parquet.partial"]
      /\ disk'[s]["parquet"] = disk[s]["parquet"]
  BY <1>4 DEF Changed, FileKinds
<1>6. pc' = pc
  BY <1>1 DEF notOnDisk
<1>7. CASE Root(s) = "raw"
  <2>1. RawLayout(disk'[s])
    BY <1>3, <1>4, <1>5, <1>7 DEF RawJob, RawLayout
  <2>2. RawSafe(disk'[s], quarantine[s], kept[s])
    BY <1>3, <1>4, <1>5, <1>7 DEF RawJob, RawLayout, RawSafe
  <2>3. next = "done" \/ RawWriting
    BY <1>3, <1>7 DEF RawJob, RawWriting
  <2>4. RawJob(disk[s], events, "done")'
    BY <1>3, <1>4, <1>5, <1>6, <1>7 DEF RawJob, RawLayout, RawWriting
  <2>5. RawWriting => RawJob(disk[s], events, "unlink")'
    BY <1>3, <1>4, <1>5, <1>6, <1>7 DEF RawJob, RawLayout, RawWriting
  <2>6. CASE next = "done"
    BY <1>1, <1>2, <1>4, <1>7, <2>1, <2>2, <2>4, <2>6, RawStepped
  <2>7. CASE next = "unlink"
    BY <1>1, <1>2, <1>4, <1>7, <2>1, <2>2, <2>3, <2>5, <2>7, RawStepped
  <2> QED
    BY <1>2, <2>6, <2>7
<1>8. CASE Root(s) # "raw"
  <2>1. PartLayout(disk'[s])
    BY <1>3, <1>4, <1>5, <1>8 DEF PartJob, PartLayout
  <2>2. PartSafe(disk'[s], kept'[s])
    BY <1>1, <1>3, <1>4, <1>5, <1>8 DEF PartSafe
  <2>3. PartJob(disk[s], kept[s], events, "done")'
    BY <1>3, <1>4, <1>5, <1>6, <1>8 DEF PartJob, PartLayout
  <2>4. next = "done"
    BY <1>8 DEF Root
  <2> QED
    BY <1>1, <1>2, <1>3, <1>4, <1>8, <2>1, <2>2, <2>3, <2>4, PartStepped DEF Types
<1> QED
  BY <1>7, <1>8

\* A step that begins to finalize segment s, or begins anew, from these events.
LEMMA Resumed ==
    ASSUME IInv, NEW s \in Segments, s <= used, s \notin OpenSegments,
           job = NoJob \/ job.segment = s, UNCHANGED <<notOnDisk, quarantine, todo, kept>>,
           NEW kinds, Changed(s, kinds),
           NEW events \in Seq(Event), NEW step \in Steps, job' = Job(s, events, step),
           LayoutOf(s)', SafeOf(s)', JobStep(s, events, step)'
    PROVE  IInv'
<1>1. used \in Nat /\ s \in 1..used
  BY Values DEF IInv, Types, Segments
<1>2. /\ job' # NoJob /\ job'.segment = s /\ job'.events = events /\ job'.step = step
      /\ job' \in [segment : 1..used, events : Seq(Event), step : Steps]
  BY <1>1, Values DEF Job
<1>3. UNCHANGED <<names, open, sequence, used, pc, crashes, quarantine, todo>>
  BY DEF notOnDisk
<1>4. Types'
  <2>1. /\ quarantine' \in [Segments -> SUBSET [suffix : FileKinds, file : AFile]]
        /\ kept' \in [Segments -> Seq(Event)]
    BY DEF IInv, Types
  <2> QED
    BY <1>2, <1>3, <2>1, Typed DEF IInv, Changed
<1>5. \A t \in Segments \ {s} : Left(t)
  BY <1>3 DEF Left, names, Changed
<1>6. JobOK'
  BY <1>2 DEF JobOK, JobStep, Root
<1>7. Busy(s)'
  BY <1>2 DEF Busy
<1>8. LayoutOf(s)' /\ SafeOf(s)'
  OBVIOUS
<1> QED
  BY <1>2, <1>3, <1>4, <1>5, <1>6, <1>7, <1>8, OneSegment

\* A step after which nothing is being finalized, and segment s has been seen.
LEMMA Passed ==
    ASSUME IInv, NEW s \in Segments, s \notin OpenSegments,
           job = NoJob \/ job.segment = s, job' = NoJob, todo' = todo \ {s},
           UNCHANGED <<notOnDisk, kept>>,
           NEW kinds, Changed(s, kinds),
           quarantine' \in [Segments -> SUBSET [suffix : FileKinds, file : AFile]],
           \A t \in Segments \ {s} : quarantine'[t] = quarantine[t],
           LayoutOf(s)', SafeOf(s)', SweptOf(s)'
    PROVE  IInv'
<1>1. UNCHANGED <<names, open, sequence, used, pc, crashes>>
  BY DEF notOnDisk
<1>2. Types'
  <2>1. kept' \in [Segments -> Seq(Event)]
    BY DEF IInv, Types
  <2> QED
    BY <1>1, <2>1, Typed DEF IInv, Changed
<1>3. \A t \in Segments \ {s} : Left(t)
  BY <1>1 DEF Left, names, Changed
<1>4. JobOK'
  BY DEF JobOK
<1>5. LayoutOf(s)' /\ SafeOf(s)' /\ SweptOf(s)' /\ s \notin todo'
  OBVIOUS
<1> QED
  BY <1>1, <1>2, <1>3, <1>4, <1>5, OneSegment

LEMMA SegmentIn ==
    ASSUME NEW s \in Segments, s <= used, used \in Nat, UNCHANGED notOnDisk, LayoutOf(s)
    PROVE  /\ Root(s)' = Root(s) /\ pc' = pc /\ Root(s) \in {"raw", "snapshots"}
           /\ LayoutOf(s)' <=> IF Root(s) = "raw" THEN RawLayout(disk'[s]) ELSE PartLayout(disk'[s])
<1>1. UNCHANGED <<streams, streamOf, used, pc>>
  BY DEF notOnDisk, names
<1>2. Root(s)' = Root(s) /\ Root(s) \in {"raw", "snapshots"}
  BY <1>1 DEF Root
<1>3. s \in Nat
  BY Values DEF Segments
<1>4. streamOf'[s] = streamOf[s] /\ streams' = streams /\ used' = used
  BY <1>1
<1>5. streamOf[s] \in streams /\ ~(s > used)
  BY <1>3 DEF LayoutOf
<1> QED
  BY <1>1, <1>2, <1>3, <1>4, <1>5 DEF LayoutOf

\* The same, of a raw segment and of a part.
LEMMA RawResumed ==
    ASSUME IInv, NEW s \in Segments, s <= used, s \notin OpenSegments, Root(s) = "raw",
           job = NoJob \/ job.segment = s, UNCHANGED <<notOnDisk, quarantine, todo, kept>>,
           NEW kinds, Changed(s, kinds),
           NEW events \in Seq(Event), NEW step \in Steps, job' = Job(s, events, step),
           RawLayout(disk'[s]), RawSafe(disk'[s], quarantine[s], kept[s]),
           RawJob(disk[s], events, step)'
    PROVE  IInv'
<1>1. used \in Nat /\ LayoutOf(s) /\ UNCHANGED notOnDisk
  BY Values DEF IInv, Types
<1>2. Root(s)' = "raw" /\ LayoutOf(s)'
  BY <1>1, SegmentIn
<1>3. SafeOf(s)'
  BY <1>2 DEF SafeOf
<1>4. JobStep(s, events, step)'
  BY <1>2 DEF JobStep
<1> QED
  BY <1>2, <1>3, <1>4, Resumed

LEMMA PartResumed ==
    ASSUME IInv, NEW s \in Segments, s <= used, s \notin OpenSegments, Root(s) # "raw",
           job = NoJob \/ job.segment = s, UNCHANGED <<notOnDisk, quarantine, todo, kept>>,
           NEW kinds, Changed(s, kinds),
           NEW events \in Seq(Event), NEW step \in Steps, job' = Job(s, events, step),
           PartLayout(disk'[s]), PartSafe(disk'[s], kept[s]),
           PartJob(disk[s], kept[s], events, step)'
    PROVE  IInv'
<1>1. used \in Nat /\ LayoutOf(s) /\ UNCHANGED notOnDisk
  BY Values DEF IInv, Types
<1>2. Root(s)' # "raw" /\ LayoutOf(s)'
  BY <1>1, SegmentIn
<1>3. SafeOf(s)'
  BY <1>2 DEF SafeOf
<1>4. JobStep(s, events, step)'
  BY <1>2 DEF JobStep
<1> QED
  BY <1>2, <1>3, <1>4, Resumed

LEMMA RawPassed ==
    ASSUME IInv, NEW s \in Segments, s <= used, s \notin OpenSegments, Root(s) = "raw",
           job = NoJob \/ job.segment = s, job' = NoJob, todo' = todo \ {s},
           UNCHANGED <<notOnDisk, kept>>,
           NEW kinds, Changed(s, kinds),
           quarantine' \in [Segments -> SUBSET [suffix : FileKinds, file : AFile]],
           \A t \in Segments \ {s} : quarantine'[t] = quarantine[t],
           RawLayout(disk'[s]), RawSafe(disk'[s], quarantine'[s], kept[s]),
           disk'[s]["jsonl.partial"] = Absent,
           disk'[s]["zst.partial"] = Absent \/ PhaseOf(pc) < 3,
           disk'[s]["zst"] = Absent \/ disk'[s]["manifest"] # Absent \/ PhaseOf(pc) < 4,
           disk'[s]["manifest.partial"] = Absent \/ PhaseOf(pc) < 5
    PROVE  IInv'
<1>1. used \in Nat /\ LayoutOf(s) /\ UNCHANGED notOnDisk
  BY Values DEF IInv, Types
<1>2. Root(s)' = "raw" /\ LayoutOf(s)' /\ pc' = pc
  BY <1>1, SegmentIn
<1>3. SafeOf(s)'
  BY <1>2 DEF SafeOf
<1>4. \A i : PhaseOf(pc) < i => Pending(s, i)'
  BY <1>2 DEF Pending
<1>5. disk'[s]["parquet.partial"] = Absent /\ disk'[s]["parquet"] = Absent
  BY DEF RawLayout
<1>6. SweptOf(s)'
  BY <1>2, <1>4, <1>5 DEF SweptOf, Has
<1> QED
  BY <1>2, <1>3, <1>6, Passed

LEMMA PartPassed ==
    ASSUME IInv, NEW s \in Segments, s <= used, s \notin OpenSegments, Root(s) # "raw",
           job = NoJob \/ job.segment = s, job' = NoJob, todo' = todo \ {s},
           UNCHANGED <<notOnDisk, kept>>,
           NEW kinds, Changed(s, kinds),
           quarantine' \in [Segments -> SUBSET [suffix : FileKinds, file : AFile]],
           \A t \in Segments \ {s} : quarantine'[t] = quarantine[t],
           PartLayout(disk'[s]), PartSafe(disk'[s], kept[s]),
           disk'[s]["parquet.partial"] = Absent \/ PhaseOf(pc) < 7,
           disk'[s]["parquet"] = Absent \/ disk'[s]["manifest"] # Absent \/ PhaseOf(pc) < 8,
           disk'[s]["manifest.partial"] = Absent \/ PhaseOf(pc) < 9
    PROVE  IInv'
<1>1. used \in Nat /\ LayoutOf(s) /\ UNCHANGED notOnDisk
  BY Values DEF IInv, Types
<1>2. Root(s)' # "raw" /\ LayoutOf(s)' /\ pc' = pc
  BY <1>1, SegmentIn
<1>3. SafeOf(s)'
  BY <1>2 DEF SafeOf
<1>4. \A i : PhaseOf(pc) < i => Pending(s, i)'
  BY <1>2 DEF Pending
<1>5. /\ disk'[s]["jsonl.partial"] = Absent /\ disk'[s]["zst.partial"] = Absent
      /\ disk'[s]["zst"] = Absent
  BY DEF PartLayout
<1>6. SweptOf(s)'
  BY <1>2, <1>4, <1>5 DEF SweptOf, Has
<1> QED
  BY <1>2, <1>3, <1>6, Passed

LEMMA DoneStep ==
    ASSUME IInv, Done, NEW s, s = job.segment, NEW events, events = job.events
    PROVE  IInv'
<1>1. /\ job # NoJob /\ job.step = "done" /\ job' = NoJob /\ todo' = todo \ {s}
      /\ UNCHANGED <<notOnDisk, kept>> /\ disk' = disk /\ quarantine' = quarantine
  BY DEF Done, At
<1>2. s \in Segments /\ s <= used /\ s \notin OpenSegments
  <2>1. s \in Segments /\ s \in 1..used /\ s \notin OpenSegments
    BY <1>1, JobFacts
  <2>2. used \in Nat
    BY Values DEF IInv, Types
  <2> QED
    BY <2>1, <2>2
<1>3. /\ Changed(s, {}) /\ quarantine' \in [Segments -> SUBSET [suffix : FileKinds, file : AFile]]
      /\ \A t \in Segments \ {s} : quarantine'[t] = quarantine[t]
  BY <1>1 DEF Changed, IInv, Types
<1>4. /\ Root(s) = "raw" => /\ RawJob(disk[s], events, "done") /\ RawLayout(disk[s])
                            /\ RawSafe(disk[s], quarantine[s], kept[s])
      /\ Root(s) # "raw" => /\ PartJob(disk[s], kept[s], events, "done") /\ PartLayout(disk[s])
                            /\ PartSafe(disk[s], kept[s])
  BY <1>1, Before
<1>5. CASE Root(s) = "raw"
  <2>1. disk[s]["manifest"] # Absent \/ (PhaseOf(pc) < 3 /\ disk[s]["jsonl.partial"] = Absent)
    BY <1>4, <1>5 DEF RawJob, PhaseOf
  <2>2. /\ disk[s]["jsonl.partial"] = Absent
        /\ disk[s]["zst.partial"] = Absent \/ PhaseOf(pc) < 3
        /\ disk[s]["manifest"] # Absent \/ PhaseOf(pc) < 3
        /\ disk[s]["manifest.partial"] = Absent \/ PhaseOf(pc) < 3
    BY <1>4, <1>5, <2>1 DEF RawLayout
  <2>3. PhaseOf(pc) \in Nat
    <3>1. pc \in {"down", "running", "closing"} \cup ToSet(Names)
      BY DEF IInv, Types
    <3>2. PhaseOf(pc) \in 0..11
      BY <3>1, Phases
    <3> QED
      BY <3>2
  <2> QED
    BY <1>1, <1>2, <1>3, <1>4, <1>5, <2>2, <2>3, RawPassed
<1>6. CASE Root(s) # "raw"
  <2>1. disk[s]["manifest"] # Absent
    BY <1>4, <1>6 DEF PartJob
  <2>2. disk[s]["parquet.partial"] = Absent /\ disk[s]["manifest.partial"] = Absent
    BY <1>4, <1>6, <2>1 DEF PartLayout
  <2> QED
    BY <1>1, <1>2, <1>3, <1>4, <1>6, <2>1, <2>2, PartPassed
<1> QED
  BY <1>5, <1>6

LEMMA TruncateStep ==
    ASSUME IInv, Truncate, NEW s, s = job.segment
    PROVE  IInv'
<1> DEFINE events == disk[s]["jsonl.partial"].events
<1>1. /\ job # NoJob /\ job.step = "truncate" /\ UNCHANGED notOnDisk
      /\ UNCHANGED <<quarantine, todo, kept>>
  BY DEF Truncate, At, unchangedByStep
<1>2. /\ IF events = <<>> THEN Put(s, "jsonl.partial", Absent) /\ Step("done")
         ELSE Put(s, "jsonl.partial", File(events, FALSE)) /\ job' = Job(s, events, "rename")
  BY DEF Truncate
<1>3. s \in Segments /\ s <= used /\ s \notin OpenSegments
  <2>1. s \in Segments /\ s \in 1..used /\ s \notin OpenSegments
    BY <1>1, JobFacts
  <2>2. used \in Nat
    BY Values DEF IInv, Types
  <2> QED
    BY <2>1, <2>2
<1>4. /\ Types
      /\ Root(s) = "raw" => /\ RawJob(disk[s], job.events, "truncate") /\ RawLayout(disk[s])
                            /\ RawSafe(disk[s], quarantine[s], kept[s])
      /\ Root(s) # "raw" => PartJob(disk[s], kept[s], job.events, "truncate")
  BY <1>1, Before
<1>5. Root(s) = "raw"
  BY <1>4 DEF PartJob
<1>6. /\ pc \in {"1", "2"} /\ disk[s]["jsonl.partial"] # Absent /\ disk[s]["manifest"] = Absent
      /\ disk[s]["jsonl"] = Absent /\ IsPrefix(kept[s], events) /\ RawLayout(disk[s])
      /\ RawSafe(disk[s], quarantine[s], kept[s])
  BY <1>4, <1>5 DEF RawJob, RawLayout, RawSafe
<1>7. events \in Seq(Event) /\ kept[s] \in Seq(Event)
  BY <1>3, <1>4, <1>6, FileOf DEF Has, FileKinds, Types
<1>8. pc' = pc
  BY <1>1 DEF notOnDisk
<1>9. CASE events = <<>>
  <2>1. Put(s, "jsonl.partial", Absent) /\ Step("done")
    BY <1>2, <1>9
  <2>2. Changed(s, {"jsonl.partial"}) /\ disk'[s]["jsonl.partial"] = Absent
    BY <1>3, <1>4, <2>1, PutFile DEF FileKinds
  <2>3. /\ disk'[s]["jsonl"] = disk[s]["jsonl"]
        /\ disk'[s]["zst.partial"] = disk[s]["zst.partial"]
        /\ disk'[s]["zst"] = disk[s]["zst"]
        /\ disk'[s]["parquet.partial"] = disk[s]["parquet.partial"]
        /\ disk'[s]["parquet"] = disk[s]["parquet"]
        /\ disk'[s]["manifest.partial"] = disk[s]["manifest.partial"]
        /\ disk'[s]["manifest"] = disk[s]["manifest"]
    BY <2>2 DEF Changed, FileKinds
  <2>4. kept[s] = <<>>
    BY <1>6, <1>7, <1>9, PrefixFacts
  <2>5. RawLayout(disk'[s])
    BY <1>6, <2>2, <2>3 DEF RawLayout
  <2>6. RawSafe(disk'[s], quarantine[s], kept[s])
    BY <1>6, <2>2, <2>3, <2>4 DEF RawSafe
  <2>7. PICK e : e = job.events
    OBVIOUS
  <2>8. RawJob(disk[s], e, "done")'
    BY <1>6, <1>8, <2>2, <2>3 DEF RawJob
  <2>9. "done" \in Steps
    BY DEF Steps
  <2> QED
    BY <1>1, <1>5, <2>1, <2>2, <2>5, <2>6, <2>7, <2>8, <2>9, RawStepped
<1>10. CASE events # <<>>
  <2>1. PICK e \in Seq(Event) : e = events
    BY <1>7
  <2>2. Put(s, "jsonl.partial", File(e, FALSE)) /\ job' = Job(s, e, "rename")
    BY <1>2, <1>10, <2>1
  <2>3. File(e, FALSE) \in AFile /\ File(e, FALSE) # Absent /\ File(e, FALSE).events = e
    BY <2>1, Values
  <2>4. Changed(s, {"jsonl.partial"}) /\ disk'[s]["jsonl.partial"] = File(e, FALSE)
    BY <1>3, <1>4, <2>2, <2>3, PutFile DEF FileKinds
  <2>5. /\ disk'[s]["jsonl"] = disk[s]["jsonl"]
        /\ disk'[s]["zst.partial"] = disk[s]["zst.partial"]
        /\ disk'[s]["zst"] = disk[s]["zst"]
        /\ disk'[s]["parquet.partial"] = disk[s]["parquet.partial"]
        /\ disk'[s]["parquet"] = disk[s]["parquet"]
        /\ disk'[s]["manifest.partial"] = disk[s]["manifest.partial"]
        /\ disk'[s]["manifest"] = disk[s]["manifest"]
    BY <2>4 DEF Changed, FileKinds
  <2>6. RawLayout(disk'[s])
    BY <1>6, <2>4, <2>5 DEF RawLayout
  <2>7. RawSafe(disk'[s], quarantine[s], kept[s])
    BY <1>6, <2>1, <2>3, <2>4, <2>5 DEF RawSafe
  <2>8. RawJob(disk[s], e, "rename")'
    BY <1>6, <1>8, <2>4, <2>5 DEF RawJob, RawWriting
  <2>9. "rename" \in Steps
    BY DEF Steps
  <2> QED
    BY <1>1, <1>3, <1>5, <2>1, <2>2, <2>4, <2>6, <2>7, <2>8, <2>9, RawResumed
<1> QED
  BY <1>9, <1>10

LEMMA OrphanFailsStep ==
    ASSUME IInv, OrphanFails, NEW s, s = job.segment, NEW events, events = job.events
    PROVE  IInv'
<1>1. /\ job # NoJob /\ job.step = "create" /\ pc = "2" /\ Has(s, "zst.partial")
      /\ Quarantined(s, "jsonl") /\ job' = NoJob /\ todo' = todo \ {s}
      /\ UNCHANGED <<notOnDisk, kept>>
  BY DEF OrphanFails, At, unchangedByRecovery
<1>2. s \in Segments /\ s <= used /\ s \notin OpenSegments
  <2>1. s \in Segments /\ s \in 1..used /\ s \notin OpenSegments
    BY <1>1, JobFacts
  <2>2. used \in Nat
    BY Values DEF IInv, Types
  <2> QED
    BY <2>1, <2>2
<1>3. /\ Types /\ File(events, FALSE) # Absent
      /\ Root(s) = "raw" => /\ RawJob(disk[s], events, "create") /\ RawLayout(disk[s])
                            /\ RawSafe(disk[s], quarantine[s], kept[s])
      /\ Root(s) # "raw" => PartJob(disk[s], kept[s], events, "create")
  BY <1>1, Before
<1>4. Root(s) = "raw"
  BY <1>3 DEF PartJob
<1>5. /\ disk[s]["jsonl"] # Absent /\ disk[s]["manifest"] = Absent /\ disk[s]["jsonl.partial"] = Absent
      /\ IsPrefix(kept[s], disk[s]["jsonl"].events)
  BY <1>3, <1>4 DEF RawJob, RawLayout, RawSafe
<1>6. /\ Changed(s, {"jsonl"}) /\ disk'[s]["jsonl"] = Absent
      /\ \A t \in Segments \ {s} : quarantine'[t] = quarantine[t]
      /\ quarantine' \in [Segments -> SUBSET [suffix : FileKinds, file : AFile]]
      /\ [suffix |-> "jsonl", file |-> disk[s]["jsonl"]] \in quarantine'[s]
  BY <1>1, <1>2, <1>3, <1>5, QuarantineFile DEF FileKinds, Has
<1>7. /\ disk'[s]["jsonl.partial"] = disk[s]["jsonl.partial"]
      /\ disk'[s]["zst.partial"] = disk[s]["zst.partial"]
      /\ disk'[s]["zst"] = disk[s]["zst"]
      /\ disk'[s]["parquet.partial"] = disk[s]["parquet.partial"]
      /\ disk'[s]["parquet"] = disk[s]["parquet"]
      /\ disk'[s]["manifest.partial"] = disk[s]["manifest.partial"]
      /\ disk'[s]["manifest"] = disk[s]["manifest"]
  BY <1>6 DEF Changed, FileKinds
<1>8. RawLayout(disk'[s])
  BY <1>3, <1>4, <1>5, <1>6, <1>7 DEF RawLayout
<1>9. RawSafe(disk'[s], quarantine'[s], kept[s])
  <2>1. \E moved \in quarantine'[s] : moved.suffix = "jsonl" /\ IsPrefix(kept[s], moved.file.events)
    BY <1>5, <1>6
  <2> QED
    BY <1>5, <1>6, <1>7, <2>1 DEF RawSafe
<1>10. PhaseOf(pc) = 2
  BY <1>1 DEF PhaseOf
<1> QED
  BY <1>1, <1>2, <1>4, <1>5, <1>6, <1>7, <1>8, <1>9, <1>10, RawPassed

-----------------------------------------------------------------------------
(* The loops of the recovery.                                              *)

\* What is known of the file that a loop takes next.
LEMMA TakenFacts ==
    ASSUME IInv, NEW loops, NEW s \in Segments, Taken(loops, s)
    PROVE  /\ Types /\ job = NoJob /\ pc \in loops /\ s <= used /\ s \notin OpenSegments
           /\ PhaseOf(pc) \in 1..10 /\ Has(s, Loops[PhaseOf(pc)])
           /\ Root(s) = IF PhaseOf(pc) <= 6 THEN "raw" ELSE "snapshots"
           /\ Has(s, "jsonl.partial") => PhaseOf(pc) <= 1
           /\ Has(s, "zst.partial") => PhaseOf(pc) <= 3
           /\ Has(s, "parquet.partial") => PhaseOf(pc) <= 7
           /\ Has(s, "zst") /\ ~Has(s, "manifest") => PhaseOf(pc) <= 4
           /\ Has(s, "parquet") /\ ~Has(s, "manifest") => PhaseOf(pc) <= 8
           /\ Has(s, "manifest.partial") => PhaseOf(pc) <= IF Root(s) = "raw" THEN 5 ELSE 9
           /\ Root(s) = "raw" => RawLayout(disk[s]) /\ RawSafe(disk[s], quarantine[s], kept[s])
           /\ Root(s) # "raw" => PartLayout(disk[s]) /\ PartSafe(disk[s], kept[s])
<1>1. Types /\ job = NoJob /\ pc \in loops /\ s \in todo /\ ~Busy(s)
  BY DEF Taken, IInv, Busy
<1>2. TodoOf(s) /\ LayoutOf(s) /\ SafeOf(s)
  BY <1>1 DEF IInv
<1>3. s \in 1..used /\ used \in Nat
  BY <1>1, Values DEF Types
<1>4. PhaseOf(pc) \in 1..10
  BY <1>2 DEF TodoOf
<1>5. pc \notin {"running", "closing"}
  BY <1>4, Phases
<1>6. s \notin OpenSegments
  BY <1>5 DEF OpenSegments, IInv, OpenOf
<1>7. SweptOf(s)
  BY <1>1, <1>6 DEF IInv
<1>8. \A i \in 1..10 : Pending(s, i) => PhaseOf(pc) <= i
  BY <1>4 DEF Pending
<1>9. /\ Has(s, "jsonl.partial") => PhaseOf(pc) <= 1
      /\ Has(s, "zst.partial") => PhaseOf(pc) <= 3
      /\ Has(s, "parquet.partial") => PhaseOf(pc) <= 7
      /\ Has(s, "zst") /\ ~Has(s, "manifest") => PhaseOf(pc) <= 4
      /\ Has(s, "parquet") /\ ~Has(s, "manifest") => PhaseOf(pc) <= 8
      /\ Has(s, "manifest.partial") => PhaseOf(pc) <= IF Root(s) = "raw" THEN 5 ELSE 9
  BY <1>7, <1>8 DEF SweptOf
<1>10. /\ Root(s) = "raw" => RawLayout(disk[s]) /\ RawSafe(disk[s], quarantine[s], kept[s])
       /\ Root(s) # "raw" => PartLayout(disk[s]) /\ PartSafe(disk[s], kept[s])
  BY <1>2, <1>3 DEF LayoutOf, SafeOf
<1>11. /\ Root(s) = IF PhaseOf(pc) <= 6 THEN "raw" ELSE "snapshots"
       /\ Has(s, Loops[PhaseOf(pc)]) /\ s <= used
  BY <1>2, <1>3 DEF TodoOf
<1> QED
  BY <1>1, <1>4, <1>6, <1>9, <1>10, <1>11

LEMMA LoopOf ==
    /\ PhaseOf("1") = 1 /\ PhaseOf("2") = 2 /\ PhaseOf("3") = 3 /\ PhaseOf("4") = 4
    /\ PhaseOf("5") = 5 /\ PhaseOf("6") = 6 /\ PhaseOf("7") = 7 /\ PhaseOf("8") = 8
    /\ PhaseOf("9") = 9 /\ PhaseOf("10") = 10
    /\ Loops[1] = "jsonl.partial" /\ Loops[2] = "jsonl" /\ Loops[3] = "zst.partial" /\ Loops[4] = "zst"
    /\ Loops[5] = "manifest.partial" /\ Loops[6] = "manifest" /\ Loops[7] = "parquet.partial"
    /\ Loops[8] = "parquet" /\ Loops[9] = "manifest.partial" /\ Loops[10] = "manifest"
BY DEF PhaseOf, Loops

LEMMA Unchanged ==
    ASSUME Types, NEW s \in Segments
    PROVE  /\ disk' = disk => Changed(s, {})
           /\ quarantine' = quarantine =>
                 /\ quarantine' \in [Segments -> SUBSET [suffix : FileKinds, file : AFile]]
                 /\ \A t \in Segments \ {s} : quarantine'[t] = quarantine[t]
BY DEF Types, Changed

LEMMA RecoverPartialStep ==
    ASSUME IInv, NEW s \in Segments, RecoverPartial(s)
    PROVE  IInv'
<1>1. /\ Taken({"1"}, s) /\ job' = Job(s, <<>>, "truncate")
      /\ UNCHANGED <<notOnDisk, quarantine, todo, kept>> /\ disk' = disk
  BY DEF RecoverPartial, unchangedByRecovery
<1>2. /\ pc = "1" /\ job = NoJob /\ Types /\ s <= used /\ s \notin OpenSegments
      /\ disk[s]["jsonl.partial"] # Absent /\ Root(s) = "raw"
      /\ RawLayout(disk[s]) /\ RawSafe(disk[s], quarantine[s], kept[s])
  BY <1>1, TakenFacts, LoopOf DEF Has
<1>3. pc' = pc /\ Changed(s, {})
  BY <1>1, <1>2, Unchanged DEF notOnDisk
<1>4. RawJob(disk[s], <<>>, "truncate")'
  BY <1>1, <1>2, <1>3 DEF RawJob, RawLayout, RawWriting
<1>5. "truncate" \in Steps /\ <<>> \in Seq(Event)
  BY DEF Steps
<1> QED
  BY <1>1, <1>2, <1>3, <1>4, <1>5, RawResumed

LEMMA RecoverOrphanStep ==
    ASSUME IInv, NEW s \in Segments, RecoverOrphan(s)
    PROVE  IInv'
<1>1. Taken({"2"}, s) /\ UNCHANGED <<notOnDisk, quarantine, kept>>
  BY DEF RecoverOrphan, unchangedByRecovery, Skip
<1>2. /\ pc = "2" /\ PhaseOf(pc) = 2 /\ job = NoJob /\ Types /\ s <= used /\ s \notin OpenSegments
      /\ disk[s]["jsonl"] # Absent /\ disk[s]["jsonl.partial"] = Absent /\ Root(s) = "raw"
      /\ RawLayout(disk[s]) /\ RawSafe(disk[s], quarantine[s], kept[s])
  BY <1>1, TakenFacts, LoopOf DEF Has
<1>3. pc' = pc
  BY <1>1 DEF notOnDisk
<1>4. CASE disk[s]["manifest"] # Absent
  <2>1. todo' = todo \ {s} /\ disk' = disk /\ job' = NoJob
    BY <1>2, <1>4 DEF RecoverOrphan, Skip, Has
  <2>2. /\ Changed(s, {}) /\ quarantine' = quarantine
        /\ quarantine' \in [Segments -> SUBSET [suffix : FileKinds, file : AFile]]
        /\ \A t \in Segments \ {s} : quarantine'[t] = quarantine[t]
    BY <1>1, <1>2, <2>1, Unchanged
  <2> QED
    BY <1>1, <1>2, <1>4, <2>1, <2>2, RawPassed
<1>5. CASE disk[s]["manifest"] = Absent
  <2>1. Renamed(s, "jsonl", "jsonl.partial") /\ job' = Job(s, <<>>, "truncate") /\ todo' = todo
    BY <1>5 DEF RecoverOrphan, Has
  <2>2. /\ Changed(s, {"jsonl", "jsonl.partial"})
        /\ disk'[s]["jsonl.partial"] = disk[s]["jsonl"] /\ disk'[s]["jsonl"] = Absent
    BY <1>2, <2>1, RenameFile DEF FileKinds
  <2>3. /\ disk'[s]["zst.partial"] = disk[s]["zst.partial"]
        /\ disk'[s]["zst"] = disk[s]["zst"]
        /\ disk'[s]["parquet.partial"] = disk[s]["parquet.partial"]
        /\ disk'[s]["parquet"] = disk[s]["parquet"]
        /\ disk'[s]["manifest.partial"] = disk[s]["manifest.partial"]
        /\ disk'[s]["manifest"] = disk[s]["manifest"]
    BY <2>2 DEF Changed, FileKinds
  <2>4. RawLayout(disk'[s])
    BY <1>2, <1>5, <2>2, <2>3 DEF RawLayout
  <2>5. RawSafe(disk'[s], quarantine[s], kept[s])
    BY <1>2, <1>5, <2>2, <2>3 DEF RawSafe
  <2>6. RawJob(disk[s], <<>>, "truncate")'
    BY <1>2, <1>3, <1>5, <2>2, <2>3 DEF RawJob, RawWriting
  <2>7. "truncate" \in Steps /\ <<>> \in Seq(Event)
    BY DEF Steps
  <2> QED
    BY <1>1, <1>2, <2>1, <2>2, <2>4, <2>5, <2>6, <2>7, RawResumed
<1> QED
  BY <1>4, <1>5

LEMMA RecoverCompressedPartialStep ==
    ASSUME IInv, NEW s \in Segments, RecoverCompressedPartial(s)
    PROVE  IInv'
<1>1. Taken({"3"}, s) /\ UNCHANGED <<notOnDisk, kept>>
  BY DEF RecoverCompressedPartial, unchangedByRecovery
<1>2. /\ pc = "3" /\ PhaseOf(pc) = 3 /\ job = NoJob /\ Types /\ s <= used /\ s \notin OpenSegments
      /\ Has(s, "zst.partial") /\ disk[s]["zst.partial"] # Absent /\ disk[s]["jsonl.partial"] = Absent
      /\ Root(s) = "raw" /\ RawLayout(disk[s]) /\ RawSafe(disk[s], quarantine[s], kept[s])
  BY <1>1, TakenFacts, LoopOf DEF Has
<1>3. disk[s]["manifest"] = Absent
  BY <1>2 DEF RawLayout
<1>4. pc' = pc
  BY <1>1 DEF notOnDisk
<1>5. CASE disk[s]["zst.partial"].torn
  <2>1. Quarantined(s, "zst.partial") /\ todo' = todo \ {s} /\ job' = NoJob
    BY <1>2, <1>5 DEF RecoverCompressedPartial, Drop
  <2>2. /\ Changed(s, {"zst.partial"}) /\ disk'[s]["zst.partial"] = Absent
        /\ \A t \in Segments \ {s} : quarantine'[t] = quarantine[t]
        /\ quarantine' \in [Segments -> SUBSET [suffix : FileKinds, file : AFile]]
        /\ quarantine[s] \subseteq quarantine'[s]
    BY <1>2, <2>1, QuarantineFile DEF FileKinds
  <2>3. /\ disk'[s]["jsonl.partial"] = disk[s]["jsonl.partial"]
        /\ disk'[s]["jsonl"] = disk[s]["jsonl"]
        /\ disk'[s]["zst"] = disk[s]["zst"]
        /\ disk'[s]["parquet.partial"] = disk[s]["parquet.partial"]
        /\ disk'[s]["parquet"] = disk[s]["parquet"]
        /\ disk'[s]["manifest.partial"] = disk[s]["manifest.partial"]
        /\ disk'[s]["manifest"] = disk[s]["manifest"]
    BY <2>2 DEF Changed, FileKinds
  <2>4. RawLayout(disk'[s])
    BY <1>2, <1>3, <2>2, <2>3 DEF RawLayout
  <2>5. RawSafe(disk'[s], quarantine'[s], kept[s])
    BY <1>2, <1>3, <2>2, <2>3 DEF RawSafe
  <2> QED
    BY <1>1, <1>2, <2>1, <2>2, <2>3, <2>4, <2>5, RawPassed
<1>6. CASE ~disk[s]["zst.partial"].torn
  <2>1. Renamed(s, "zst.partial", "zst") /\ quarantine' = quarantine
    BY <1>6 DEF RecoverCompressedPartial
  <2>2. /\ Changed(s, {"zst.partial", "zst"})
        /\ disk'[s]["zst"] = disk[s]["zst.partial"] /\ disk'[s]["zst.partial"] = Absent
    BY <1>2, <2>1, RenameFile DEF FileKinds
  <2>3. /\ disk'[s]["jsonl.partial"] = disk[s]["jsonl.partial"]
        /\ disk'[s]["jsonl"] = disk[s]["jsonl"]
        /\ disk'[s]["parquet.partial"] = disk[s]["parquet.partial"]
        /\ disk'[s]["parquet"] = disk[s]["parquet"]
        /\ disk'[s]["manifest.partial"] = disk[s]["manifest.partial"]
        /\ disk'[s]["manifest"] = disk[s]["manifest"]
    BY <2>2 DEF Changed, FileKinds
  <2>4. RawLayout(disk'[s])
    BY <1>2, <1>3, <1>6, <2>2, <2>3 DEF RawLayout
  <2>5. RawSafe(disk'[s], quarantine[s], kept[s])
    BY <1>2, <1>3, <2>2, <2>3 DEF RawSafe
  <2>6. CASE disk[s]["zst.partial"].events = <<>>
    <3>1. todo' = todo \ {s} /\ job' = NoJob
      BY <1>2, <1>6, <2>6 DEF RecoverCompressedPartial
    <3>2. /\ quarantine' \in [Segments -> SUBSET [suffix : FileKinds, file : AFile]]
          /\ \A t \in Segments \ {s} : quarantine'[t] = quarantine[t]
      BY <1>2, <2>1, Unchanged
    <3> QED
      BY <1>1, <1>2, <2>1, <2>2, <2>3, <2>4, <2>5, <3>1, <3>2, RawPassed
  <2>7. CASE disk[s]["zst.partial"].events # <<>>
    <3>1. PICK e \in Seq(Event) : e = disk[s]["zst.partial"].events /\ disk[s]["zst.partial"] = File(e, FALSE)
      BY <1>2, <1>6, FileOf DEF FileKinds
    <3>2. job' = Job(s, e, "describe") /\ todo' = todo
      BY <1>3, <1>6, <2>7, <3>1 DEF RecoverCompressedPartial, Has
    <3>3. RawJob(disk[s], e, "describe")'
      BY <1>2, <1>3, <1>4, <2>2, <2>3, <3>1 DEF RawJob, RawWriting
    <3>4. "describe" \in Steps
      BY DEF Steps
    <3> QED
      BY <1>1, <1>2, <2>1, <2>2, <2>4, <2>5, <3>1, <3>2, <3>3, <3>4, RawResumed
  <2> QED
    BY <2>6, <2>7
<1> QED
  BY <1>5, <1>6

LEMMA RecoverCompressedStep ==
    ASSUME IInv, NEW s \in Segments, RecoverCompressed(s)
    PROVE  IInv'
<1>1. Taken({"4"}, s) /\ UNCHANGED <<notOnDisk, kept>>
  BY DEF RecoverCompressed, unchangedByRecovery
<1>2. /\ pc = "4" /\ PhaseOf(pc) = 4 /\ job = NoJob /\ Types /\ s <= used /\ s \notin OpenSegments
      /\ Has(s, "zst") /\ disk[s]["zst"] # Absent /\ disk[s]["jsonl.partial"] = Absent
      /\ disk[s]["zst.partial"] = Absent
      /\ Root(s) = "raw" /\ RawLayout(disk[s]) /\ RawSafe(disk[s], quarantine[s], kept[s])
  BY <1>1, TakenFacts, LoopOf DEF Has
<1>3. pc' = pc
  BY <1>1 DEF notOnDisk
<1>4. CASE disk[s]["manifest"] # Absent
  <2>1. todo' = todo \ {s} /\ disk' = disk /\ job' = NoJob /\ quarantine' = quarantine
    BY <1>2, <1>4 DEF RecoverCompressed, Skip, Has
  <2>2. /\ Changed(s, {})
        /\ quarantine' \in [Segments -> SUBSET [suffix : FileKinds, file : AFile]]
        /\ \A t \in Segments \ {s} : quarantine'[t] = quarantine[t]
    BY <1>1, <1>2, <2>1, Unchanged
  <2> QED
    BY <1>1, <1>2, <1>4, <2>1, <2>2, RawPassed
<1>5. CASE disk[s]["manifest"] = Absent /\ disk[s]["zst"].events = <<>>
  <2>1. Quarantined(s, "zst") /\ todo' = todo \ {s} /\ job' = NoJob
    BY <1>2, <1>5 DEF RecoverCompressed, Drop, Has
  <2>2. /\ Changed(s, {"zst"}) /\ disk'[s]["zst"] = Absent
        /\ \A t \in Segments \ {s} : quarantine'[t] = quarantine[t]
        /\ quarantine' \in [Segments -> SUBSET [suffix : FileKinds, file : AFile]]
        /\ quarantine[s] \subseteq quarantine'[s]
    BY <1>2, <2>1, QuarantineFile DEF FileKinds
  <2>3. /\ disk'[s]["jsonl.partial"] = disk[s]["jsonl.partial"]
        /\ disk'[s]["jsonl"] = disk[s]["jsonl"]
        /\ disk'[s]["zst.partial"] = disk[s]["zst.partial"]
        /\ disk'[s]["parquet.partial"] = disk[s]["parquet.partial"]
        /\ disk'[s]["parquet"] = disk[s]["parquet"]
        /\ disk'[s]["manifest.partial"] = disk[s]["manifest.partial"]
        /\ disk'[s]["manifest"] = disk[s]["manifest"]
    BY <2>2 DEF Changed, FileKinds
  <2>4. RawLayout(disk'[s])
    BY <1>2, <1>5, <2>2, <2>3 DEF RawLayout
  <2>5. RawSafe(disk'[s], quarantine'[s], kept[s])
    BY <1>2, <1>5, <2>2, <2>3 DEF RawSafe
  <2> QED
    BY <1>1, <1>2, <2>1, <2>2, <2>3, <2>4, <2>5, RawPassed
<1>6. CASE disk[s]["manifest"] = Absent /\ disk[s]["zst"].events # <<>>
  <2>1. ~disk[s]["zst"].torn
    BY <1>2 DEF RawLayout
  <2>2. PICK e \in Seq(Event) : e = disk[s]["zst"].events /\ disk[s]["zst"] = File(e, FALSE)
    BY <1>2, <2>1, FileOf DEF FileKinds
  <2>3. job' = Job(s, e, "describe") /\ disk' = disk /\ UNCHANGED <<quarantine, todo>>
    BY <1>6, <2>2 DEF RecoverCompressed, Has
  <2>4. Changed(s, {})
    BY <1>2, <2>3, Unchanged
  <2>5. RawJob(disk[s], e, "describe")'
    BY <1>2, <1>3, <1>6, <2>2, <2>3 DEF RawJob, RawWriting
  <2>6. "describe" \in Steps
    BY DEF Steps
  <2> QED
    BY <1>1, <1>2, <2>3, <2>4, <2>5, <2>6, RawResumed
<1> QED
  BY <1>4, <1>5, <1>6

LEMMA RecoverPartStep ==
    ASSUME IInv, NEW s \in Segments, RecoverPart(s)
    PROVE  IInv'
<1>1. Taken({"7"}, s) /\ UNCHANGED <<notOnDisk, kept>>
  BY DEF RecoverPart, unchangedByRecovery
<1>2. /\ pc = "7" /\ PhaseOf(pc) = 7 /\ job = NoJob /\ Types /\ s <= used /\ s \notin OpenSegments
      /\ Has(s, "parquet.partial") /\ disk[s]["parquet.partial"] # Absent
      /\ Root(s) # "raw" /\ PartLayout(disk[s]) /\ PartSafe(disk[s], kept[s])
  BY <1>1, TakenFacts, LoopOf DEF Has
<1>3. disk[s]["manifest"] = Absent /\ disk[s]["parquet"] = Absent
  BY <1>2 DEF PartLayout
<1>4. pc' = pc
  BY <1>1 DEF notOnDisk
<1>5. CASE disk[s]["parquet.partial"].torn
  <2>1. Quarantined(s, "parquet.partial") /\ todo' = todo \ {s} /\ job' = NoJob
    BY <1>2, <1>5 DEF RecoverPart, Drop
  <2>2. /\ Changed(s, {"parquet.partial"}) /\ disk'[s]["parquet.partial"] = Absent
        /\ \A t \in Segments \ {s} : quarantine'[t] = quarantine[t]
        /\ quarantine' \in [Segments -> SUBSET [suffix : FileKinds, file : AFile]]
    BY <1>2, <2>1, QuarantineFile DEF FileKinds
  <2>3. /\ disk'[s]["jsonl.partial"] = disk[s]["jsonl.partial"]
        /\ disk'[s]["jsonl"] = disk[s]["jsonl"]
        /\ disk'[s]["zst.partial"] = disk[s]["zst.partial"]
        /\ disk'[s]["zst"] = disk[s]["zst"]
        /\ disk'[s]["parquet"] = disk[s]["parquet"]
        /\ disk'[s]["manifest.partial"] = disk[s]["manifest.partial"]
        /\ disk'[s]["manifest"] = disk[s]["manifest"]
    BY <2>2 DEF Changed, FileKinds
  <2>4. PartLayout(disk'[s])
    BY <1>2, <1>3, <2>2, <2>3 DEF PartLayout
  <2>5. kept[s] = <<>>
    <3>1. kept[s] \in Seq(Event)
      BY <1>2 DEF Types
    <3>2. File(kept[s], FALSE) # Absent /\ ~File(kept[s], FALSE).torn
      BY <3>1, Values
    <3> QED
      BY <1>2, <1>3, <1>5, <3>2 DEF PartSafe
  <2>6. PartSafe(disk'[s], kept[s])
    BY <2>5 DEF PartSafe
  <2> QED
    BY <1>1, <1>2, <1>3, <2>1, <2>2, <2>3, <2>4, <2>6, PartPassed
<1>6. CASE ~disk[s]["parquet.partial"].torn
  <2>1. PICK e \in Seq(Event) : e = disk[s]["parquet.partial"].events
                                  /\ disk[s]["parquet.partial"] = File(e, FALSE)
    BY <1>2, <1>6, FileOf DEF FileKinds
  <2>2. /\ Renamed(s, "parquet.partial", "parquet") /\ job' = Job(s, e, "describe")
        /\ UNCHANGED <<quarantine, todo>>
    BY <1>6, <2>1 DEF RecoverPart
  <2>3. /\ Changed(s, {"parquet.partial", "parquet"})
        /\ disk'[s]["parquet"] = disk[s]["parquet.partial"] /\ disk'[s]["parquet.partial"] = Absent
    BY <1>2, <2>2, RenameFile DEF FileKinds
  <2>4. /\ disk'[s]["jsonl.partial"] = disk[s]["jsonl.partial"]
        /\ disk'[s]["jsonl"] = disk[s]["jsonl"]
        /\ disk'[s]["zst.partial"] = disk[s]["zst.partial"]
        /\ disk'[s]["zst"] = disk[s]["zst"]
        /\ disk'[s]["manifest.partial"] = disk[s]["manifest.partial"]
        /\ disk'[s]["manifest"] = disk[s]["manifest"]
    BY <2>3 DEF Changed, FileKinds
  <2>5. PartLayout(disk'[s])
    BY <1>2, <1>3, <1>6, <2>3, <2>4 DEF PartLayout
  <2>6. PartSafe(disk'[s], kept[s])
    <3>1. kept[s] \in Seq(Event)
      BY <1>2 DEF Types
    <3>2. File(kept[s], FALSE) # Absent
      BY <3>1, Values
    <3> QED
      BY <1>2, <1>3, <2>3, <3>2 DEF PartSafe
  <2>7. PartJob(disk[s], kept[s], e, "describe")'
    BY <1>2, <1>3, <1>4, <2>1, <2>3, <2>4 DEF PartJob
  <2>8. "describe" \in Steps
    BY DEF Steps
  <2> QED
    BY <1>1, <1>2, <2>1, <2>2, <2>3, <2>5, <2>6, <2>7, <2>8, PartResumed
<1> QED
  BY <1>5, <1>6

LEMMA RecoverParquetStep ==
    ASSUME IInv, NEW s \in Segments, RecoverParquet(s)
    PROVE  IInv'
<1>1. Taken({"8"}, s) /\ UNCHANGED <<notOnDisk, kept, quarantine>> /\ disk' = disk
  BY DEF RecoverParquet, unchangedByRecovery, Skip
<1>2. /\ pc = "8" /\ PhaseOf(pc) = 8 /\ job = NoJob /\ Types /\ s <= used /\ s \notin OpenSegments
      /\ Has(s, "parquet") /\ disk[s]["parquet"] # Absent /\ disk[s]["parquet.partial"] = Absent
      /\ Root(s) # "raw" /\ PartLayout(disk[s]) /\ PartSafe(disk[s], kept[s])
  BY <1>1, TakenFacts, LoopOf DEF Has
<1>3. pc' = pc /\ quarantine' = quarantine
  BY <1>1 DEF notOnDisk
<1>4. /\ Changed(s, {})
      /\ quarantine' \in [Segments -> SUBSET [suffix : FileKinds, file : AFile]]
      /\ \A t \in Segments \ {s} : quarantine'[t] = quarantine[t]
  BY <1>1, <1>2, <1>3, Unchanged
<1>5. CASE disk[s]["manifest"] # Absent
  <2>1. todo' = todo \ {s} /\ job' = NoJob
    BY <1>2, <1>5 DEF RecoverParquet, Skip, Has
  <2>2. disk[s]["manifest.partial"] = Absent
    BY <1>2, <1>5 DEF PartLayout
  <2> QED
    BY <1>1, <1>2, <1>4, <1>5, <2>1, <2>2, PartPassed
<1>6. CASE disk[s]["manifest"] = Absent
  <2>1. ~disk[s]["parquet"].torn
    BY <1>2 DEF PartLayout
  <2>2. PICK e \in Seq(Event) : e = disk[s]["parquet"].events /\ disk[s]["parquet"] = File(e, FALSE)
    BY <1>2, <2>1, FileOf DEF FileKinds
  <2>3. job' = Job(s, e, "describe") /\ todo' = todo
    BY <1>6, <2>2 DEF RecoverParquet, Has
  <2>4. PartJob(disk[s], kept[s], e, "describe")'
    BY <1>1, <1>2, <1>3, <1>6, <2>2 DEF PartJob
  <2>5. "describe" \in Steps
    BY DEF Steps
  <2> QED
    BY <1>1, <1>2, <1>3, <1>4, <2>3, <2>4, <2>5, PartResumed
<1> QED
  BY <1>5, <1>6

\* A segment without a manifest has no data file any more: what its partial
\* manifest describes is gone.
LEMMA RecoverManifestPartialStep ==
    ASSUME IInv, NEW s \in Segments, RecoverManifestPartial(s)
    PROVE  IInv'
<1>1. Taken({"5", "9"}, s) /\ UNCHANGED <<notOnDisk, kept>>
  BY DEF RecoverManifestPartial, unchangedByRecovery
<1>2. /\ Types /\ job = NoJob /\ s <= used /\ s \notin OpenSegments
      /\ Has(s, "manifest.partial")
      /\ \/ pc = "5" /\ PhaseOf(pc) = 5 /\ Root(s) = "raw"
         \/ pc = "9" /\ PhaseOf(pc) = 9 /\ Root(s) = "snapshots"
      /\ Has(s, "jsonl.partial") => PhaseOf(pc) <= 1
      /\ Has(s, "zst.partial") => PhaseOf(pc) <= 3
      /\ Has(s, "parquet.partial") => PhaseOf(pc) <= 7
      /\ Has(s, "zst") /\ ~Has(s, "manifest") => PhaseOf(pc) <= 4
      /\ Has(s, "parquet") /\ ~Has(s, "manifest") => PhaseOf(pc) <= 8
      /\ Root(s) = "raw" => RawLayout(disk[s]) /\ RawSafe(disk[s], quarantine[s], kept[s])
      /\ Root(s) # "raw" => PartLayout(disk[s]) /\ PartSafe(disk[s], kept[s])
  BY <1>1, TakenFacts, LoopOf
<1>3. ~Has(s, "manifest")
  BY <1>2 DEF RawLayout, PartLayout, Has
<1>4. ~Has(s, DataKind(s))
  BY <1>2, <1>3 DEF DataKind
<1>5. Quarantined(s, "manifest.partial") /\ todo' = todo \ {s} /\ job' = NoJob
  BY <1>2, <1>4 DEF RecoverManifestPartial, Describes, Drop
<1>6. /\ Changed(s, {"manifest.partial"}) /\ disk'[s]["manifest.partial"] = Absent
      /\ \A t \in Segments \ {s} : quarantine'[t] = quarantine[t]
      /\ quarantine' \in [Segments -> SUBSET [suffix : FileKinds, file : AFile]]
      /\ quarantine[s] \subseteq quarantine'[s]
  BY <1>2, <1>5, QuarantineFile DEF FileKinds
<1>7. /\ disk'[s]["jsonl.partial"] = disk[s]["jsonl.partial"]
      /\ disk'[s]["jsonl"] = disk[s]["jsonl"]
      /\ disk'[s]["zst.partial"] = disk[s]["zst.partial"]
      /\ disk'[s]["zst"] = disk[s]["zst"]
      /\ disk'[s]["parquet.partial"] = disk[s]["parquet.partial"]
      /\ disk'[s]["parquet"] = disk[s]["parquet"]
      /\ disk'[s]["manifest"] = disk[s]["manifest"]
  BY <1>6 DEF Changed, FileKinds
<1>8. CASE pc = "5"
  <2>1. PhaseOf(pc) = 5 /\ Root(s) = "raw"
    BY <1>2, <1>8
  <2>2. /\ RawLayout(disk[s]) /\ RawSafe(disk[s], quarantine[s], kept[s])
        /\ disk[s]["jsonl.partial"] = Absent /\ disk[s]["zst.partial"] = Absent
        /\ disk[s]["zst"] = Absent
    BY <1>2, <1>3, <2>1 DEF Has
  <2>3. RawLayout(disk'[s])
    BY <1>3, <1>7, <2>2 DEF RawLayout, Has
  <2>4. RawSafe(disk'[s], quarantine'[s], kept[s])
    BY <1>6, <1>7, <2>2 DEF RawSafe
  <2> QED
    BY <1>1, <1>2, <1>5, <1>6, <1>7, <2>1, <2>2, <2>3, <2>4, RawPassed
<1>9. CASE pc = "9"
  <2>1. PhaseOf(pc) = 9 /\ Root(s) # "raw"
    BY <1>2, <1>9
  <2>2. /\ PartLayout(disk[s]) /\ PartSafe(disk[s], kept[s])
        /\ disk[s]["parquet.partial"] = Absent /\ disk[s]["parquet"] = Absent
    BY <1>2, <1>3, <2>1 DEF Has
  <2>3. PartLayout(disk'[s])
    BY <1>3, <1>7, <2>2 DEF PartLayout, Has
  <2>4. PartSafe(disk'[s], kept[s])
    BY <1>7, <2>2 DEF PartSafe
  <2> QED
    BY <1>1, <1>2, <1>5, <1>6, <1>7, <2>1, <2>2, <2>3, <2>4, PartPassed
<1> QED
  BY <1>2, <1>8, <1>9

LEMMA VerifyManifestStep ==
    ASSUME IInv, NEW s \in Segments, VerifyManifest(s)
    PROVE  IInv'
<1>1. Taken({"6", "10"}, s) /\ UNCHANGED <<notOnDisk, kept>>
  BY DEF VerifyManifest, unchangedByRecovery
<1>2. /\ Types /\ job = NoJob /\ s <= used /\ s \notin OpenSegments /\ disk[s]["manifest"] # Absent
      /\ Root(s) \in {"raw", "snapshots"}
      /\ Root(s) = "raw" => RawLayout(disk[s]) /\ RawSafe(disk[s], quarantine[s], kept[s])
      /\ Root(s) # "raw" => PartLayout(disk[s]) /\ PartSafe(disk[s], kept[s])
  BY <1>1, TakenFacts, LoopOf DEF Has, Root
<1>3. Describes(s, "manifest")
  BY <1>2 DEF Describes, DataKind, Has, RawLayout, PartLayout
<1>4. todo' = todo \ {s} /\ disk' = disk /\ job' = NoJob /\ quarantine' = quarantine
  BY <1>2, <1>3 DEF VerifyManifest, Skip
<1>5. /\ Changed(s, {})
      /\ quarantine' \in [Segments -> SUBSET [suffix : FileKinds, file : AFile]]
      /\ \A t \in Segments \ {s} : quarantine'[t] = quarantine[t]
  BY <1>2, <1>4, Unchanged
<1>6. CASE Root(s) = "raw"
  <2>1. /\ disk[s]["jsonl.partial"] = Absent /\ disk[s]["zst.partial"] = Absent
        /\ disk[s]["manifest.partial"] = Absent
    BY <1>2, <1>6 DEF RawLayout
  <2> QED
    BY <1>1, <1>2, <1>4, <1>5, <1>6, <2>1, RawPassed
<1>7. CASE Root(s) # "raw"
  <2>1. disk[s]["parquet.partial"] = Absent /\ disk[s]["manifest.partial"] = Absent
    BY <1>2, <1>7 DEF PartLayout
  <2> QED
    BY <1>1, <1>2, <1>4, <1>5, <1>7, <2>1, PartPassed
<1> QED
  BY <1>6, <1>7

-----------------------------------------------------------------------------
(* The process begins, goes through the loops of its recovery, and ends.   *)

\* A process that is down: no file changes but those that were written.
LEMMA Down ==
    ASSUME Types', \A s \in Segments : LayoutOf(s)', \A s \in Segments : SafeOf(s)',
           pc' = "down", todo' = {}, job' = NoJob, \A st \in streams' : ~IsOpen(st)'
    PROVE  IInv'
<1>1. \A s, i : i \in 1..10 => Pending(s, i)'
  BY Phases DEF Pending
<1>2. \A s : SweptOf(s)'
  BY <1>1 DEF SweptOf
<1>3. JobOK'
  BY DEF JobOK
<1> QED
  BY <1>2, <1>3 DEF IInv

LEMMA SameFiles ==
    ASSUME IInv, UNCHANGED <<names, disk, quarantine, used, kept>>
    PROVE  /\ \A s \in Segments : Left(s)
           /\ \A s \in Segments : LayoutOf(s)'
           /\ \A s \in Segments : SafeOf(s)'
<1>1. \A s \in Segments : Left(s)
  BY DEF Left, names
<1>2. \A s \in Segments : LayoutOf(s)'
  BY <1>1, LayoutLeft DEF IInv, names
<1>3. \A s \in Segments : SafeOf(s)'
  BY <1>1, LeftAlone DEF IInv
<1> QED
  BY <1>1, <1>2, <1>3

LEMMA StartFailsStep ==
    ASSUME IInv, StartFails
    PROVE  IInv'
<1>1. /\ pc = "1" /\ pc' = "down" /\ todo' = {} /\ job' = NoJob
      /\ UNCHANGED <<names, disk, quarantine, open, sequence, used, crashes, restarted, kept>>
  BY DEF StartFails
<1>2. \A st \in streams' : ~IsOpen(st)'
  BY <1>1 DEF IInv, OpenOf, IsOpen, names
<1>3. Types'
  BY <1>1 DEF IInv, Types, names
<1> QED
  BY <1>1, <1>2, <1>3, SameFiles, Down

LEMMA ExitStep ==
    ASSUME IInv, Exit
    PROVE  IInv'
<1>1. /\ pc \in {"running", "closing"} /\ job = NoJob /\ \A st \in streams : ~IsOpen(st)
      /\ pc' = "down"
      /\ UNCHANGED <<names, disk, quarantine, open, sequence, used, todo, job, crashes, restarted, kept>>
  BY DEF Exit
<1>2. \A st \in streams' : ~IsOpen(st)'
  BY <1>1 DEF IsOpen, names
<1>3. todo' = {}
  BY <1>1, Phases DEF IInv, TodoOf, Busy
<1>4. Types'
  BY <1>1 DEF IInv, Types, names
<1> QED
  BY <1>1, <1>2, <1>3, <1>4, SameFiles, Down

LEMMA FirstOf ==
    ASSUME NEW S \in SUBSET (1..10), S # {}
    PROVE  Min(S) \in S /\ \A y \in S : Min(S) <= y
<1>1. \E x \in S : \A y \in S : x <= y
  <2>1. \A y \in S : y \in 1..10
    OBVIOUS
  <2>2. \E y : y \in S
    OBVIOUS
  <2> QED
    BY <2>1, <2>2
<1> QED
  BY <1>1 DEF Min

\* The files a loop finds are there, and of its kind.
LEMMA FoundFacts ==
    ASSUME IInv, NEW i \in 1..10, NEW s \in Segments
    PROVE  s \in Found(i) <=> /\ Root(s) = (IF i <= 6 THEN "raw" ELSE "snapshots")
                              /\ Has(s, Loops[i])
<1>1. LayoutOf(s) /\ used \in Nat /\ s \in Nat /\ s >= 1
  BY Values DEF IInv, Types, Segments
<1>2. Loops[i] \in FileKinds
  BY DEF Loops, FileKinds
<1>3. Has(s, Loops[i]) => s <= used
  BY <1>1, <1>2 DEF LayoutOf
<1> QED
  BY <1>1, <1>3 DEF Found

LEMMA KindOf ==
    ASSUME IInv, NEW s \in Segments
    PROVE  /\ Root(s) \in {"raw", "snapshots"}
           /\ Has(s, "jsonl.partial") \/ Has(s, "zst.partial") \/ Has(s, "zst") => Root(s) = "raw"
           /\ Has(s, "parquet.partial") \/ Has(s, "parquet") => Root(s) = "snapshots"
<1>1. LayoutOf(s) /\ used \in Nat /\ s \in Nat
  BY Values DEF IInv, Types, Segments
<1>2. /\ Root(s) = "raw" => RawLayout(disk[s])
      /\ Root(s) # "raw" => PartLayout(disk[s])
  BY <1>1 DEF LayoutOf
<1> QED
  BY <1>2 DEF RawLayout, PartLayout, Has, Root

\* A loop that begins has yet to see what it finds; after the last one nothing
\* is left to see.
LEMMA LoopBegins ==
    ASSUME IInv, UNCHANGED <<names, disk, quarantine, open, used, kept>>, job = NoJob, job' = NoJob,
           Types', \A st \in streams : ~IsOpen(st),
           NEW i \in 1..11, PhaseOf(pc)' = i, todo' = IF i = 11 THEN {} ELSE Found(i),
           todo = {}, PhaseOf(pc) < i,
           \A j \in 1..10 : PhaseOf(pc) < j /\ j < i => Found(j) = {}
    PROVE  IInv'
<1>1. /\ \A s \in Segments : Left(s)
      /\ \A s \in Segments : LayoutOf(s)'
      /\ \A s \in Segments : SafeOf(s)'
  BY SameFiles
<1>2. PhaseOf(pc) \in 0..11
  BY Phases DEF IInv, Types
<1>3. \A st \in streams' : ~IsOpen(st)'
  BY DEF IsOpen, names
<1>4. JobOK'
  BY DEF JobOK
<1>5. ASSUME NEW s \in Segments PROVE SweptOf(s)'
  <2>1. SweptOf(s)
    BY DEF IInv, OpenSegments, Busy
  <2>2. ASSUME NEW j \in 1..10, Root(s) = (IF j <= 6 THEN "raw" ELSE "snapshots"), Has(s, Loops[j]),
               Pending(s, j)
        PROVE  Pending(s, j)'
    <3>1. s \in Found(j) /\ PhaseOf(pc) < j
      BY <1>2, <2>2, FoundFacts DEF Pending
    <3>2. i <= j
      BY <1>2, <3>1
    <3> QED
      BY <3>1, <3>2 DEF Pending
  <2>3. /\ Root(s) = "raw" /\ Has(s, "jsonl.partial") => Pending(s, 1)'
        /\ Root(s) = "raw" /\ Has(s, "zst.partial") => Pending(s, 3)'
        /\ Root(s) = "raw" /\ Has(s, "zst") /\ ~Has(s, "manifest") => Pending(s, 4)'
        /\ Root(s) = "snapshots" /\ Has(s, "parquet.partial") => Pending(s, 7)'
        /\ Root(s) = "snapshots" /\ Has(s, "parquet") /\ ~Has(s, "manifest") => Pending(s, 8)'
        /\ Root(s) = "raw" /\ Has(s, "manifest.partial") => Pending(s, 5)'
        /\ Root(s) = "snapshots" /\ Has(s, "manifest.partial") => Pending(s, 9)'
    BY <2>1, <2>2, LoopOf DEF SweptOf
  <2>4. /\ Root(s)' = Root(s) /\ \A x : Has(s, x)' = Has(s, x)
    BY <1>1, LeftAlone
  <2> QED
    BY <2>3, <2>4, KindOf DEF SweptOf
<1>6. ASSUME NEW s \in todo' PROVE TodoOf(s)'
  <2>a. i \in 1..10 /\ s \in Found(i)
    BY <1>6
  <2>1. s \in Segments
    BY <2>a, Values DEF Found, IInv, Types, Segments
  <2>2. Root(s) = (IF i <= 6 THEN "raw" ELSE "snapshots") /\ Has(s, Loops[i])
    BY <2>a, <2>1, FoundFacts
  <2>3. Root(s)' = Root(s) /\ \A x : Has(s, x)' = Has(s, x)
    BY <1>1, <2>1, LeftAlone
  <2>4. PhaseOf(pc)' \in 1..10
    BY <2>a
  <2> QED
    BY <2>2, <2>3, <2>4 DEF TodoOf
<1> QED
  BY <1>1, <1>3, <1>4, <1>5, <1>6 DEF IInv

LEMMA StartStep ==
    ASSUME IInv, Start
    PROVE  IInv'
<1>1. /\ pc = "down" /\ pc' = "1" /\ todo' = Found(1) /\ sequence' = 0
      /\ UNCHANGED <<names, disk, quarantine, open, used, job, crashes, kept>>
  BY DEF Start
<1>2. /\ PhaseOf(pc) = 0 /\ PhaseOf(pc)' = 1
  BY <1>1, Phases, LoopOf
<1>3. job = NoJob /\ \A st \in streams : ~IsOpen(st)
  BY <1>1 DEF IInv, JobOK, JobStep, RawJob, PartJob, OpenOf
<1>4. todo = {}
  BY <1>2, <1>3 DEF IInv, TodoOf, Busy
<1>5. Types'
  <2>1. pc' \in ToSet(Names)
    BY <1>1, Phases
  <2>2. todo' \subseteq 1..used' /\ sequence' \in 0..MaxSequence
    BY <1>1, Values DEF Found
  <2> QED
    BY <1>1, <2>1, <2>2 DEF IInv, Types, names
<1> QED
  BY <1>1, <1>2, <1>3, <1>4, <1>5, LoopBegins

LEMMA NextLoopStep ==
    ASSUME IInv, NextLoop
    PROVE  IInv'
<1> DEFINE later(i) == {j \in DOMAIN Names : j > i /\ Found(j) # {}}
<1>1. /\ todo = {} /\ job = NoJob
      /\ UNCHANGED <<names, disk, quarantine, open, sequence, used, job, crashes, restarted, kept>>
  BY DEF NextLoop
<1>2. PICK i \in 1..10 :
        /\ pc = Names[i]
        /\ IF later(i) = {} THEN pc' = "running" /\ UNCHANGED todo
           ELSE pc' = Names[Min(later(i))] /\ todo' = Found(Min(later(i)))
  BY Phases DEF NextLoop
<1>3. PhaseOf(pc) = i /\ pc \notin {"running", "closing"}
  BY <1>2, Phases
<1>4. \A st \in streams : ~IsOpen(st)
  BY <1>3 DEF IInv, OpenOf
<1>5. later(i) \in SUBSET (1..10)
  BY Phases
<1>6. CASE later(i) = {}
  <2>1. pc' = "running" /\ todo' = {} /\ PhaseOf(pc)' = 11
    BY <1>1, <1>2, <1>6, Phases
  <2>2. \A j \in 1..10 : PhaseOf(pc) < j => Found(j) = {}
    BY <1>3, <1>6, Phases
  <2>3. Types'
    BY <1>1, <2>1 DEF IInv, Types, names
  <2> QED
    BY <1>1, <1>3, <1>4, <2>1, <2>2, <2>3, LoopBegins
<1>7. CASE later(i) # {}
  <2>1. PICK k \in 1..10 : k = Min(later(i)) /\ k \in later(i) /\ \A j \in later(i) : k <= j
    BY <1>5, <1>7, FirstOf
  <2>2. pc' = Names[k] /\ todo' = Found(k) /\ PhaseOf(pc)' = k /\ pc' \in ToSet(Names)
    BY <1>2, <1>7, <2>1, Phases
  <2>3. i < k /\ \A j \in 1..10 : PhaseOf(pc) < j /\ j < k => Found(j) = {}
    <3>1. i < k
      BY <2>1
    <3>2. ASSUME NEW j \in 1..10, PhaseOf(pc) < j, j < k PROVE Found(j) = {}
      <4>1. j \notin later(i)
        BY <2>1, <3>2
      <4> QED
        BY <1>3, <3>2, <4>1, Phases
    <3> QED
      BY <3>1, <3>2
  <2>4. Types'
    BY <1>1, <2>2 DEF IInv, Types, names, Found
  <2> QED
    BY <1>1, <1>3, <1>4, <2>2, <2>3, <2>4, LoopBegins
<1> QED
  BY <1>6, <1>7

-----------------------------------------------------------------------------
(* The process that runs.                                                  *)

LEMMA RunningFacts ==
    ASSUME IInv, pc \in {"running", "closing"}, job = NoJob
    PROVE  /\ PhaseOf(pc) = 11 /\ todo = {}
           /\ \A s \in Segments \ OpenSegments :
                 /\ ~Has(s, "jsonl.partial") /\ ~Has(s, "zst.partial") /\ ~Has(s, "parquet.partial")
                 /\ ~Has(s, "manifest.partial")
                 /\ Has(s, "zst") \/ Has(s, "parquet") => Has(s, "manifest")
<1>1. PhaseOf(pc) = 11
  BY Phases
<1>2. todo = {}
  BY <1>1 DEF IInv, TodoOf, Busy
<1>3. \A s, i : i \in 1..10 => ~Pending(s, i)
  BY <1>1, <1>2 DEF Pending
<1>4. \A s \in Segments \ OpenSegments : SweptOf(s)
  BY DEF IInv, Busy
<1> QED
  BY <1>1, <1>2, <1>3, <1>4 DEF SweptOf

\* The number of an open segment is that of its stream only.
LEMMA OpenFacts ==
    ASSUME IInv, NEW st \in streams, IsOpen(st)
    PROVE  /\ open[st].number \in Segments /\ open[st].number <= used
           /\ open[st].number \in OpenSegments
           /\ open[st].events \in Seq(Event) /\ streamOf[open[st].number] = st
           /\ open[st] = [number |-> open[st].number, events |-> open[st].events]
           /\ \A t \in streams : IsOpen(t) /\ open[t].number = open[st].number => t = st
           /\ Root(open[st].number) = IF st = Snapshots THEN "snapshots" ELSE "raw"
<1>1. open[st] \in [number : Segments, events : Seq(Event)]
  BY DEF IInv, Types, IsOpen
<1>2. OpenOf(st)
  BY DEF IInv
<1>3. \A t \in streams : IsOpen(t) => streamOf[open[t].number] = t
  BY DEF IInv, OpenOf
<1>4. open[st].number \in OpenSegments
  BY DEF OpenSegments
<1> QED
  BY <1>1, <1>2, <1>3, <1>4 DEF OpenOf, Root

\* A step of a process that runs, which changes the segments of a set only.
LEMMA RunStep ==
    ASSUME IInv, pc \in {"running", "closing"}, pc' \in {"running", "closing"}, job = NoJob,
           todo' = todo, streams' = streams, Types', JobOK',
           NEW changed \in SUBSET Segments, used <= used',
           \A s \in Segments \ changed :
              /\ Left(s) /\ (s <= used' => s <= used)
              /\ s \in OpenSegments => s \in OpenSegments',
           \A s \in changed :
              /\ LayoutOf(s)' /\ SafeOf(s)'
              /\ s \in OpenSegments' \/ Busy(s)',
           \A st \in streams : IsOpen(st)' =>
              \/ OpenOf(st)'
              \/ /\ IsOpen(st) /\ open'[st] = open[st] /\ open[st].number \notin changed
                 /\ ~Busy(open[st].number)'
    PROVE  IInv'
<1>1. used \in Nat /\ used' \in Nat /\ \A s \in Segments : s \in Nat
  BY Values DEF IInv, Types, Segments
<1>2. PhaseOf(pc)' = PhaseOf(pc) /\ todo' = {} /\ \A s : ~Busy(s)
  BY Phases, RunningFacts DEF Busy
<1>3. ASSUME NEW s \in Segments PROVE LayoutOf(s)' /\ SafeOf(s)'
  <2>1. CASE s \notin changed
    <3>1. Left(s) /\ (s > used' => s > used) /\ (s <= used' => s <= used)
      BY <1>1, <2>1
    <3>2. LayoutOf(s) /\ SafeOf(s)
      BY DEF IInv
    <3> QED
      BY <3>1, <3>2, LayoutLeft, LeftAlone
  <2> QED
    BY <2>1
<1>4. ASSUME NEW st \in streams', IsOpen(st)' PROVE OpenOf(st)'
  <2>1. CASE ~OpenOf(st)'
    <3>1. /\ IsOpen(st) /\ open'[st] = open[st] /\ open[st].number \notin changed
          /\ ~Busy(open[st].number)'
      BY <1>4, <2>1
    <3>2. open[st].number \in Segments /\ OpenOf(st)
      BY <1>4, <3>1, OpenFacts DEF IInv
    <3>3. Left(open[st].number)
      BY <3>1, <3>2
    <3> QED
      BY <1>1, <3>1, <3>2, <3>3, OpenLeft
  <2> QED
    BY <2>1
<1>5. ASSUME NEW s \in Segments \ OpenSegments' PROVE Busy(s)' \/ SweptOf(s)'
  <2>1. CASE s \notin changed
    <3>1. Left(s) /\ s \notin OpenSegments
      BY <1>5, <2>1
    <3>2. SweptOf(s)
      BY <1>2, <1>5, <3>1 DEF IInv
    <3> QED
      BY <1>2, <3>1, <3>2, SweptLeft
  <2> QED
    BY <1>5, <2>1
<1> QED
  BY <1>2, <1>3, <1>4, <1>5 DEF IInv

LEMMA WriteStep ==
    ASSUME IInv, NEW st \in streams, Write(st)
    PROVE  IInv'
<1>1. /\ pc = "running" /\ job = NoJob /\ IsOpen(st) /\ sequence < MaxSequence
      /\ sequence' = sequence + 1
      /\ open' = [open EXCEPT ![st].events = Append(@, sequence')]
      /\ UNCHANGED <<names, disk, quarantine, used, pc, todo, job, crashes, restarted, kept>>
  BY DEF Write, Running
<1> DEFINE n == open[st].number
           events == open[st].events
<1>2. /\ n \in Segments /\ n \in OpenSegments /\ events \in Seq(Event)
      /\ open[st] = [number |-> n, events |-> events] /\ OpenOf(st)
  BY <1>1, OpenFacts DEF IInv
<1>3. /\ sequence' \in Event /\ sequence' \in 0..MaxSequence
      /\ Append(events, sequence') \in Seq(Event)
  <2>1. sequence' \in Event /\ sequence' \in 0..MaxSequence
    BY <1>1, Values DEF IInv, Types, Event
  <2> QED
    BY <1>2, <2>1
<1>4. /\ open' \in [streams -> [number : Segments, events : Seq(Event)] \cup {NoSegment}]
      /\ open'[st] = [number |-> n, events |-> Append(events, sequence')]
      /\ \A t \in streams \ {st} : open'[t] = open[t]
  <2>1. open'[st] = [number |-> n, events |-> Append(events, sequence')]
    BY <1>1, <1>2 DEF IInv, Types
  <2>2. open'[st] \in [number : Segments, events : Seq(Event)]
    BY <1>2, <1>3, <2>1
  <2>3. \A t \in streams \ {st} : open'[t] = open[t]
    BY <1>1 DEF IInv, Types
  <2>4. open' = [t \in streams |-> open'[t]]
    BY <1>1 DEF IInv, Types
  <2>5. \A t \in streams : open'[t] \in [number : Segments, events : Seq(Event)] \cup {NoSegment}
    BY <2>2, <2>3 DEF IInv, Types
  <2> QED
    BY <2>1, <2>3, <2>4, <2>5
<1>5. Types'
  BY <1>1, <1>3, <1>4 DEF IInv, Types, names
<1>6. IsOpen(st)' /\ \A t \in streams : IsOpen(t) => IsOpen(t)' /\ open'[t].number = open[t].number
  <2>1. open'[st] # NoSegment /\ open'[st].number = n
    <3>1. PICK e \in Seq(Event) : e = Append(events, sequence')
      BY <1>3
    <3>2. open'[st] = [number |-> n, events |-> e]
      BY <1>4, <3>1
    <3>3. [number |-> n, events |-> e] # NoSegment
      BY <1>2, Values
    <3> QED
      BY <3>2, <3>3
  <2> QED
    BY <1>4, <2>1 DEF IsOpen
<1>7. \A s \in OpenSegments : s \in OpenSegments'
  <2>1. ASSUME NEW t \in streams, IsOpen(t) PROVE open[t].number \in OpenSegments'
    BY <1>1, <1>6, <2>1 DEF OpenSegments, names
  <2> QED
    BY <2>1 DEF OpenSegments
<1>8. \A s \in Segments : Left(s)
  BY <1>1 DEF Left, names
<1>9. OpenOf(st)'
  <2>1. kept[n] \in Seq(Event)
    BY <1>2 DEF IInv, Types
  <2>2. /\ open'[st].number = n /\ open'[st].events = Append(events, sequence')
    BY <1>4
  <2>3. st # Snapshots => IsPrefix(kept[n], Append(events, sequence'))
    BY <1>2, <1>3, <2>1, PrefixFacts DEF OpenOf
  <2>4. pc' = pc /\ used' = used /\ streamOf' = streamOf /\ job' = job /\ disk' = disk /\ kept' = kept
    BY <1>1 DEF names
  <2>5. /\ n <= used /\ streamOf[n] = st /\ ~Busy(n) /\ \A x \in FileKinds \ {"jsonl.partial"} : ~Has(n, x)
        /\ IF st = Snapshots THEN ~Has(n, "jsonl.partial") /\ kept[n] = <<>>
           ELSE Holds(n, "jsonl.partial", kept[n])
    BY <1>2 DEF OpenOf
  <2> QED
    BY <1>1, <2>2, <2>3, <2>4, <2>5 DEF OpenOf, Has, Holds, Busy
<1>10. \A t \in streams : IsOpen(t)' =>
          OpenOf(t)' \/ (IsOpen(t) /\ open'[t] = open[t] /\ ~Busy(open[t].number)')
  BY <1>1, <1>4, <1>9 DEF IsOpen, Busy
<1>11. used <= used' /\ used' = used
  BY <1>1, Values DEF IInv, Types
<1>12. JobOK'
  BY <1>1 DEF JobOK
<1> QED
  <2>1. {} \in SUBSET Segments
    OBVIOUS
  <2> QED
    BY <1>1, <1>5, <1>7, <1>8, <1>10, <1>11, <1>12, <2>1, RunStep DEF names

LEMMA OpenStep ==
    ASSUME IInv, NEW st \in streams, Open(st), NEW n, n = used + 1
    PROVE  IInv'
<1>1. /\ pc = "running" /\ job = NoJob /\ ~IsOpen(st) /\ used < MaxSegments /\ sequence < MaxSequence
      /\ used' = n /\ sequence' = sequence + 1
      /\ open' = [open EXCEPT ![st] = [number |-> n, events |-> <<sequence'>>]]
      /\ streamOf' = [streamOf EXCEPT ![n] = st]
      /\ IF st = Snapshots THEN disk' = disk ELSE Put(n, "jsonl.partial", File(<<>>, FALSE))
      /\ UNCHANGED <<streams, quarantine, pc, todo, job, crashes, restarted, kept>>
  BY DEF Open, Running
<1>2. /\ n \in Segments /\ n > used /\ used \in Nat /\ n <= MaxSegments /\ sequence' \in Event
      /\ sequence' \in 0..MaxSequence
      /\ used' \in 0..MaxSegments /\ used <= used' /\ \A s \in Segments : s \in Nat
  BY <1>1, Values DEF IInv, Types, Segments, Event
<1>3. /\ kept[n] = <<>> /\ \A x \in FileKinds : ~Has(n, x)
      /\ streamOf[n] = NoStream
  BY <1>2 DEF IInv, LayoutOf
<1>4. <<sequence'>> \in Seq(Event) /\ <<>> \in Seq(Event)
  BY <1>2
<1>5. /\ open' \in [streams -> [number : Segments, events : Seq(Event)] \cup {NoSegment}]
      /\ open'[st] = [number |-> n, events |-> <<sequence'>>] /\ open'[st] # NoSegment
      /\ \A t \in streams \ {st} : open'[t] = open[t]
  <2>1. \A e \in Seq(Event) : /\ [number |-> n, events |-> e] # NoSegment
                              /\ [number |-> n, events |-> e] \in [number : Segments, events : Seq(Event)]
    BY <1>2, Values
  <2>2. open \in [streams -> [number : Segments, events : Seq(Event)] \cup {NoSegment}]
    BY DEF IInv, Types
  <2> QED
    BY <1>1, <1>4, <2>1, <2>2
<1>6. /\ streamOf' \in [Segments -> streams \cup {NoStream}] /\ streamOf'[n] = st
      /\ \A s \in Segments \ {n} : streamOf'[s] = streamOf[s]
  BY <1>1, <1>2 DEF IInv, Types
<1>7. /\ Changed(n, {"jsonl.partial"})
      /\ st = Snapshots => disk'[n]["jsonl.partial"] = Absent
      /\ st # Snapshots => disk'[n]["jsonl.partial"] = File(<<>>, FALSE)
  <2>1. CASE st = Snapshots
    BY <1>1, <1>2, <1>3, <2>1 DEF IInv, Types, Changed, Has, FileKinds
  <2>2. CASE st # Snapshots
    BY <1>1, <1>2, <2>2, EmptyFile, PutFile DEF IInv, FileKinds
  <2> QED
    BY <2>1, <2>2
<1>8. /\ disk'[n]["jsonl"] = Absent
      /\ disk'[n]["zst.partial"] = Absent
      /\ disk'[n]["zst"] = Absent
      /\ disk'[n]["parquet.partial"] = Absent
      /\ disk'[n]["parquet"] = Absent
      /\ disk'[n]["manifest.partial"] = Absent
      /\ disk'[n]["manifest"] = Absent
  BY <1>3, <1>7 DEF Changed, FileKinds, Has
<1>9. Types'
  BY <1>1, <1>2, <1>5, <1>6, <1>7, RunningFacts DEF IInv, Types, Changed
<1>10. Root(n)' = IF st = Snapshots THEN "snapshots" ELSE "raw"
  BY <1>6 DEF Root
<1>11. kept'[n] = <<>>
  BY <1>1, <1>3
<1>12. LayoutOf(n)'
  <2>1. streamOf'[n] \in streams' /\ ~(n > used')
    BY <1>1, <1>2, <1>6
  <2>2. st = Snapshots => PartLayout(disk'[n])
    BY <1>7, <1>8 DEF PartLayout
  <2>3. st # Snapshots => RawLayout(disk'[n])
    BY <1>7, <1>8 DEF RawLayout
  <2> QED
    BY <1>10, <2>1, <2>2, <2>3 DEF LayoutOf
<1>13. SafeOf(n)'
  <2>1. PartSafe(disk'[n], kept'[n])
    BY <1>11 DEF PartSafe
  <2>2. File(<<>>, FALSE).events = <<>> /\ IsPrefix(<<>>, <<>>)
    BY <1>4, Values, PrefixFacts
  <2>3. st # Snapshots => RawSafe(disk'[n], quarantine'[n], kept'[n])
    BY <1>7, <1>8, <1>11, <2>2 DEF RawSafe
  <2> QED
    BY <1>10, <2>1, <2>3 DEF SafeOf
<1>14. /\ n \in OpenSegments' /\ \A s \in OpenSegments : s \in OpenSegments'
  <2>1. n \in OpenSegments'
    BY <1>1, <1>5 DEF OpenSegments, IsOpen
  <2>2. ASSUME NEW t \in streams, IsOpen(t) PROVE open[t].number \in OpenSegments'
    BY <1>1, <1>5, <2>2 DEF OpenSegments, IsOpen
  <2> QED
    BY <2>1, <2>2 DEF OpenSegments
<1>15. \A s \in Segments \ {n} : Left(s) /\ (s <= used' => s <= used)
  BY <1>1, <1>2, <1>6, <1>7 DEF Left, Changed
<1>16. OpenOf(st)'
  <2>1. /\ n <= used' /\ streamOf'[n] = st /\ job' = NoJob /\ pc' = "running"
    BY <1>1, <1>2, <1>6
  <2>2. \A x \in FileKinds \ {"jsonl.partial"} : disk'[n][x] = Absent
    BY <1>3, <1>7 DEF Changed, Has
  <2>3. IsPrefix(<<>>, <<sequence'>>)
    BY <1>4, PrefixFacts
  <2>4. open'[st].number = n /\ open'[st].events = <<sequence'>>
    BY <1>5
  <2> QED
    BY <1>7, <1>11, <2>1, <2>2, <2>3, <2>4 DEF OpenOf, Has, Holds, Busy
<1>17. ASSUME NEW t \in streams, IsOpen(t)', t # st
       PROVE  /\ IsOpen(t) /\ open'[t] = open[t] /\ open[t].number \notin {n}
              /\ ~Busy(open[t].number)'
  <2>1. open'[t] = open[t] /\ IsOpen(t)
    BY <1>5, <1>17 DEF IsOpen
  <2>2. open[t].number \in Nat /\ open[t].number <= used
    BY <1>2, <2>1, OpenFacts
  <2> QED
    BY <1>1, <1>2, <2>1, <2>2 DEF Busy
<1>18. JobOK'
  BY <1>1 DEF JobOK
<1> QED
  <2>1. {n} \in SUBSET Segments
    BY <1>2
  <2> QED
    BY <1>1, <1>2, <1>9, <1>12, <1>13, <1>14, <1>15, <1>16, <1>17, <1>18, <2>1, RunStep

\* What the flush of the open segment n of a raw stream makes of it.
Flushed(st, n, events) ==
    /\ n \in Segments /\ n <= used /\ streamOf[n] = st
    /\ events \in Seq(Event) /\ OpenOf(st) /\ Root(n) = "raw"
    /\ disk'[n] \in [FileKinds -> AFile \cup {Absent}]
    /\ disk'[n]["jsonl.partial"] = File(events, FALSE)
    /\ \A x \in FileKinds \ {"jsonl.partial"} : disk'[n][x] = Absent
    /\ kept'[n] = events

LEMMA FlushStep ==
    ASSUME IInv, Flush
    PROVE  IInv'
<1> DEFINE Written(s) == \E st \in RawOpen : open[st].number = s
           written == {s \in Segments : Written(s)}
<1>1. /\ pc = "running" /\ job = NoJob
      /\ disk' = [s \in Segments |->
                    IF Written(s)
                      THEN [disk[s] EXCEPT !["jsonl.partial"] = File(open[streamOf[s]].events, FALSE)]
                      ELSE disk[s]]
      /\ kept' = [s \in Segments |-> IF Written(s) THEN open[streamOf[s]].events ELSE kept[s]]
      /\ UNCHANGED <<names, quarantine, open, sequence, used, pc, todo, job, crashes, restarted>>
  BY DEF Flush, Running
<1>2. ASSUME NEW st \in streams, IsOpen(st), st # Snapshots, NEW n, n = open[st].number,
             NEW events, events = open[st].events
      PROVE  Flushed(st, n, events)
  <2>1. /\ n \in Segments /\ n <= used /\ Written(n) /\ streamOf[n] = st
        /\ events \in Seq(Event) /\ OpenOf(st) /\ Root(n) = "raw"
    BY <1>2, OpenFacts DEF RawOpen, IInv
  <2>2. disk'[n] = [disk[n] EXCEPT !["jsonl.partial"] = File(events, FALSE)] /\ kept'[n] = events
    BY <1>1, <1>2, <2>1
  <2>3. File(events, FALSE) \in AFile
    BY <2>1, Values
  <2>4. \A x \in FileKinds \ {"jsonl.partial"} : disk[n][x] = Absent
    BY <1>2, <2>1 DEF OpenOf, Has
  <2>5. disk[n] \in [FileKinds -> AFile \cup {Absent}]
    BY <2>1 DEF IInv, Types
  <2> QED
    BY <2>1, <2>2, <2>3, <2>4, <2>5 DEF FileKinds, Flushed
<1>3. ASSUME NEW s \in written
      PROVE  \E st \in streams : IsOpen(st) /\ st # Snapshots /\ s = open[st].number
  BY DEF RawOpen
<1>4. \A s \in Segments \ written : disk'[s] = disk[s] /\ kept'[s] = kept[s]
  BY <1>1
<1>5. /\ disk' \in [Segments -> [FileKinds -> AFile \cup {Absent}]]
      /\ kept' \in [Segments -> Seq(Event)]
  <2>1. ASSUME NEW s \in written
        PROVE  disk'[s] \in [FileKinds -> AFile \cup {Absent}] /\ kept'[s] \in Seq(Event)
    <3>1. PICK st \in streams : IsOpen(st) /\ st # Snapshots /\ s = open[st].number
      BY <1>3
    <3>2. PICK e : e = open[st].events
      OBVIOUS
    <3>3. Flushed(st, s, e)
      BY <1>2, <3>1, <3>2
    <3> QED
      BY <3>3 DEF Flushed
  <2>2. \A s \in Segments : disk'[s] \in [FileKinds -> AFile \cup {Absent}] /\ kept'[s] \in Seq(Event)
    BY <1>4, <2>1 DEF IInv, Types
  <2>3. disk' = [s \in Segments |-> disk'[s]] /\ kept' = [s \in Segments |-> kept'[s]]
    BY <1>1
  <2> QED
    BY <2>2, <2>3
<1>6. Types'
  BY <1>1, <1>5 DEF IInv, Types, names
<1>7. OpenSegments' = OpenSegments
  BY <1>1 DEF OpenSegments, IsOpen, names
<1>8. ASSUME NEW st \in streams, IsOpen(st), st # Snapshots, NEW n, n = open[st].number,
             NEW events, events = open[st].events
      PROVE  LayoutOf(n)' /\ SafeOf(n)' /\ OpenOf(st)'
  <2>1. /\ n \in Segments /\ n <= used /\ streamOf[n] = st /\ events \in Seq(Event)
        /\ OpenOf(st) /\ Root(n) = "raw"
        /\ disk'[n]["jsonl.partial"] = File(events, FALSE)
        /\ \A x \in FileKinds \ {"jsonl.partial"} : disk'[n][x] = Absent
        /\ kept'[n] = events
    <3>1. Flushed(st, n, events)
      BY <1>2, <1>8
    <3> QED
      BY <3>1 DEF Flushed
  <2>2. /\ disk'[n]["jsonl"] = Absent
        /\ disk'[n]["zst.partial"] = Absent
        /\ disk'[n]["zst"] = Absent
        /\ disk'[n]["parquet.partial"] = Absent
        /\ disk'[n]["parquet"] = Absent
        /\ disk'[n]["manifest.partial"] = Absent
        /\ disk'[n]["manifest"] = Absent
    BY <2>1 DEF FileKinds
  <2>3. /\ File(events, FALSE).events = events /\ File(events, FALSE) # Absent
        /\ IsPrefix(events, events)
    BY <2>1, Values, PrefixFacts
  <2>4. Root(n)' = "raw" /\ streamOf' = streamOf /\ streams' = streams /\ used' = used
    BY <1>1, <2>1 DEF Root, names
  <2>5. RawLayout(disk'[n])
    BY <2>1, <2>2 DEF RawLayout
  <2>6. LayoutOf(n)'
    <3>1. ~(n > used') /\ streamOf'[n] \in streams'
      BY <2>1, <2>4, Values DEF IInv, Types, Segments
    <3> QED
      BY <2>4, <2>5, <3>1 DEF LayoutOf
  <2>7. SafeOf(n)'
    <3>1. RawSafe(disk'[n], quarantine'[n], kept'[n])
      BY <2>1, <2>2, <2>3 DEF RawSafe
    <3> QED
      BY <2>4, <3>1 DEF SafeOf
  <2>8. OpenOf(st)'
    <3>1. open'[st].number = n /\ open'[st].events = events /\ pc' = "running" /\ job' = NoJob
      BY <1>1, <1>8
    <3> QED
      BY <1>8, <2>1, <2>3, <2>4, <3>1 DEF OpenOf, Has, Holds, Busy
  <2> QED
    BY <2>6, <2>7, <2>8
<1>9. \A s \in written : LayoutOf(s)' /\ SafeOf(s)' /\ s \in OpenSegments'
  <2>1. ASSUME NEW s \in written PROVE LayoutOf(s)' /\ SafeOf(s)' /\ s \in OpenSegments'
    <3>1. PICK st \in streams : IsOpen(st) /\ st # Snapshots /\ s = open[st].number
      BY <1>3
    <3>2. PICK e : e = open[st].events
      OBVIOUS
    <3>3. s \in OpenSegments
      BY <3>1, OpenFacts
    <3> QED
      BY <1>7, <1>8, <3>1, <3>2, <3>3
  <2> QED
    BY <2>1
<1>10. ASSUME NEW st \in streams, IsOpen(st)'
       PROVE  \/ OpenOf(st)'
              \/ /\ IsOpen(st) /\ open'[st] = open[st] /\ open[st].number \notin written
                 /\ ~Busy(open[st].number)'
  <2>1. IsOpen(st) /\ open'[st] = open[st]
    BY <1>1, <1>10 DEF IsOpen
  <2>2. CASE st # Snapshots
    BY <1>8, <2>1, <2>2
  <2>3. CASE st = Snapshots
    <3>1. open[st].number \notin written
      BY <2>1, <2>3, OpenFacts DEF RawOpen
    <3> QED
      BY <1>1, <2>1, <3>1 DEF Busy
  <2> QED
    BY <2>2, <2>3
<1>11. used \in Nat /\ used' = used /\ used <= used'
  BY <1>1, Values DEF IInv, Types
<1>12. JobOK'
  BY <1>1 DEF JobOK
<1>13. \A s \in Segments \ written : Left(s)
  BY <1>1, <1>4 DEF Left, names
<1> QED
  <2>1. written \in SUBSET Segments
    OBVIOUS
  <2>2. todo' = todo /\ streams' = streams /\ pc' = pc
    BY <1>1 DEF names
  <2> HIDE DEF written
  <2> QED
    BY <1>1, <1>6, <1>7, <1>9, <1>10, <1>11, <1>12, <1>13, <2>1, <2>2, RunStep

LEMMA FinalizesStep ==
    ASSUME IInv, NEW st \in streams, Finalizes(st), pc \in {"running", "closing"}, job = NoJob,
           pc' \in {"running", "closing"},
           NEW s, s = open[st].number, NEW events, events = open[st].events
    PROVE  IInv'
<1>1. /\ IsOpen(st) /\ open' = [open EXCEPT ![st] = NoSegment]
      /\ st = Snapshots => job' = Job(s, events, "table") /\ UNCHANGED <<disk, kept>>
      /\ st # Snapshots => /\ job' = Job(s, events, "rename")
                           /\ kept' = [kept EXCEPT ![s] = events]
                           /\ Put(s, "jsonl.partial", File(events, FALSE))
      /\ UNCHANGED <<names, quarantine, sequence, used, todo, crashes, restarted>>
  BY DEF Finalizes
<1>2. /\ s \in Segments /\ s <= used /\ s \in OpenSegments /\ events \in Seq(Event)
      /\ streamOf[s] = st
      /\ \A t \in streams : IsOpen(t) /\ open[t].number = s => t = st
      /\ Root(s) = IF st = Snapshots THEN "snapshots" ELSE "raw"
      /\ OpenOf(st)
  BY <1>1, OpenFacts DEF IInv
<1>3. used \in Nat /\ used' = used /\ used <= used' /\ s \in 1..used
  BY <1>1, <1>2, Values DEF IInv, Types, Segments
<1>4. /\ \A x \in FileKinds \ {"jsonl.partial"} : disk[s][x] = Absent
      /\ st = Snapshots => disk[s]["jsonl.partial"] = Absent /\ kept[s] = <<>>
  BY <1>2 DEF OpenOf, Has
<1>5. /\ Changed(s, {"jsonl.partial"})
      /\ kept' \in [Segments -> Seq(Event)] /\ \A t \in Segments \ {s} : kept'[t] = kept[t]
      /\ st = Snapshots => disk'[s]["jsonl.partial"] = Absent /\ kept'[s] = <<>>
      /\ st # Snapshots => disk'[s]["jsonl.partial"] = File(events, FALSE) /\ kept'[s] = events
  <2>1. CASE st = Snapshots
    <3>1. disk' = disk /\ kept' = kept
      BY <1>1, <2>1
    <3> QED
      BY <1>2, <1>4, <2>1, <3>1 DEF IInv, Types, Changed
  <2>2. CASE st # Snapshots
    <3>1. kept' = [kept EXCEPT ![s] = events] /\ Put(s, "jsonl.partial", File(events, FALSE))
      BY <1>1, <2>2
    <3>2. File(events, FALSE) \in AFile
      BY <1>2, Values
    <3>3. Changed(s, {"jsonl.partial"}) /\ disk'[s]["jsonl.partial"] = File(events, FALSE)
      BY <1>2, <3>1, <3>2, PutFile DEF IInv, FileKinds
    <3>4. /\ kept' \in [Segments -> Seq(Event)] /\ kept'[s] = events
          /\ \A t \in Segments \ {s} : kept'[t] = kept[t]
      BY <1>2, <3>1 DEF IInv, Types
    <3> QED
      BY <2>2, <3>3, <3>4
  <2> QED
    BY <2>1, <2>2
<1>6. /\ disk'[s]["jsonl"] = Absent
      /\ disk'[s]["zst.partial"] = Absent
      /\ disk'[s]["zst"] = Absent
      /\ disk'[s]["parquet.partial"] = Absent
      /\ disk'[s]["parquet"] = Absent
      /\ disk'[s]["manifest.partial"] = Absent
      /\ disk'[s]["manifest"] = Absent
  BY <1>4, <1>5 DEF Changed, FileKinds
<1>7. /\ File(events, FALSE).events = events /\ File(events, FALSE) # Absent
      /\ IsPrefix(events, events)
  BY <1>2, Values, PrefixFacts
<1>8. /\ Root(s)' = Root(s) /\ streamOf' = streamOf /\ streams' = streams
      /\ quarantine' = quarantine /\ todo' = todo
  BY <1>1 DEF Root, names
<1>9. LayoutOf(s)'
  <2>1. ~(s > used') /\ streamOf'[s] \in streams'
    BY <1>2, <1>3, <1>8
  <2>2. st = Snapshots => PartLayout(disk'[s])
    BY <1>5, <1>6 DEF PartLayout
  <2>3. st # Snapshots => RawLayout(disk'[s])
    BY <1>5, <1>6 DEF RawLayout
  <2> QED
    BY <1>2, <1>8, <2>1, <2>2, <2>3 DEF LayoutOf
<1>10. SafeOf(s)'
  <2>1. st = Snapshots => PartSafe(disk'[s], kept'[s])
    BY <1>5 DEF PartSafe
  <2>2. st # Snapshots => RawSafe(disk'[s], quarantine'[s], kept'[s])
    BY <1>5, <1>6, <1>7 DEF RawSafe
  <2> QED
    BY <1>2, <1>8, <2>1, <2>2 DEF SafeOf
<1>11. /\ job' # NoJob /\ job'.segment = s /\ job'.events = events
       /\ job' \in [segment : 1..used, events : Seq(Event), step : Steps]
       /\ st = Snapshots => job'.step = "table"
       /\ st # Snapshots => job'.step = "rename"
  <2>1. ASSUME NEW step \in Steps, job' = Job(s, events, step)
        PROVE  /\ job' # NoJob /\ job'.segment = s /\ job'.events = events /\ job'.step = step
               /\ job' \in [segment : 1..used, events : Seq(Event), step : Steps]
    BY <1>2, <1>3, <2>1, Values DEF Job
  <2>2. "table" \in Steps /\ "rename" \in Steps
    BY DEF Steps
  <2>3. CASE st = Snapshots
    BY <1>1, <2>1, <2>2, <2>3
  <2>4. CASE st # Snapshots
    BY <1>1, <2>1, <2>2, <2>4
  <2> QED
    BY <2>3, <2>4
<1>12. JobOK'
  <2>1. st = Snapshots => PartJob(disk[s], kept[s], events, "table")'
    BY <1>5, <1>6 DEF PartJob
  <2>2. st # Snapshots => RawJob(disk[s], events, "rename")'
    BY <1>5, <1>6 DEF RawJob, RawWriting
  <2>3. /\ st = Snapshots => JobStep(s, events, "table")'
        /\ st # Snapshots => JobStep(s, events, "rename")'
    BY <1>2, <1>8, <2>1, <2>2 DEF JobStep
  <2>4. CASE st = Snapshots
    BY <1>11, <2>3, <2>4 DEF JobOK, JobStep, Root
  <2>5. CASE st # Snapshots
    BY <1>11, <2>3, <2>5 DEF JobOK, JobStep, Root
  <2> QED
    BY <2>4, <2>5
<1>13. /\ open' \in [streams -> [number : Segments, events : Seq(Event)] \cup {NoSegment}]
       /\ open'[st] = NoSegment /\ \A t \in streams \ {st} : open'[t] = open[t]
  BY <1>1 DEF IInv, Types
<1>14. Types'
  <2>1. disk' \in [Segments -> [FileKinds -> AFile \cup {Absent}]]
    BY <1>5 DEF Changed
  <2> QED
    BY <1>1, <1>3, <1>5, <1>11, <1>13, <2>1 DEF IInv, Types, names
<1>15. Busy(s)' /\ \A t : t # s => ~Busy(t)'
  BY <1>11 DEF Busy
<1>16. \A t \in Segments \ {s} :
          Left(t) /\ (t <= used' => t <= used) /\ (t \in OpenSegments => t \in OpenSegments')
  <2>1. ASSUME NEW t \in streams, IsOpen(t), open[t].number # s PROVE open[t].number \in OpenSegments'
    BY <1>8, <1>13, <2>1 DEF OpenSegments, IsOpen
  <2>2. \A t \in OpenSegments \ {s} : t \in OpenSegments'
    BY <2>1 DEF OpenSegments
  <2>3. \A t \in Segments \ {s} : Left(t)
    BY <1>5, <1>8 DEF Left, Changed
  <2> QED
    BY <1>3, <2>2, <2>3
<1>17. ASSUME NEW t \in streams, IsOpen(t)'
       PROVE  /\ IsOpen(t) /\ open'[t] = open[t] /\ open[t].number \notin {s}
              /\ ~Busy(open[t].number)'
  <2>1. t # st
    BY <1>13, <1>17 DEF IsOpen
  <2>2. open'[t] = open[t] /\ IsOpen(t)
    BY <1>13, <1>17, <2>1 DEF IsOpen
  <2>3. open[t].number # s
    BY <1>2, <2>1, <2>2
  <2> QED
    BY <1>15, <2>2, <2>3
<1> QED
  <2>1. {s} \in SUBSET Segments
    BY <1>2
  <2>2. \A t \in {s} : LayoutOf(t)' /\ SafeOf(t)' /\ (t \in OpenSegments' \/ Busy(t)')
    BY <1>9, <1>10, <1>15
  <2>3. \A t \in streams : IsOpen(t)' =>
          \/ OpenOf(t)'
          \/ /\ IsOpen(t) /\ open'[t] = open[t] /\ open[t].number \notin {s}
             /\ ~Busy(open[t].number)'
    BY <1>17
  <2> QED
    BY <1>3, <1>8, <1>12, <1>14, <1>16, <2>1, <2>2, <2>3, RunStep

-----------------------------------------------------------------------------
(* The process ends.                                                       *)

\* What may be found of a file that was written holds what has been flushed.
LEMMA RemainsFacts ==
    ASSUME NEW k \in Seq(Event), NEW e \in Seq(Event), IsPrefix(k, e), NEW f \in Remains(e, Len(k))
    PROVE  f \in AFile /\ IsPrefix(k, f.events)
<1>1. CASE f = File(e, FALSE)
  BY <1>1, Values
<1>2. ASSUME NEW i \in Len(k)..(Len(e) - 1), NEW t \in BOOLEAN, f = [events |-> SubSeq(e, 1, i), torn |-> t]
      PROVE  f \in AFile /\ IsPrefix(k, f.events)
  <2>1. i \in Len(k)..Len(e) /\ i \in 0..Len(e)
    BY <1>2
  <2>2. SubSeq(e, 1, i) \in Seq(Event)
    BY <2>1
  <2>3. IsPrefix(k, SubSeq(e, 1, i))
    BY <2>1, PrefixFacts
  <2> QED
    BY <1>2, <2>2, <2>3 DEF AFile
<1>3. CASE f # File(e, FALSE)
  <2>1. f \in [events : {SubSeq(e, 1, i) : i \in Len(k)..(Len(e) - 1)}, torn : BOOLEAN]
    BY <1>3 DEF Remains
  <2>2. PICK i \in Len(k)..(Len(e) - 1) : f.events = SubSeq(e, 1, i)
    BY <2>1
  <2>3. f = [events |-> f.events, torn |-> f.torn] /\ f.torn \in BOOLEAN
    BY <2>1
  <2> QED
    BY <1>2, <2>2, <2>3
<1> QED
  BY <1>1, <1>3

\* What a crash leaves of a segment, in whatever state it comes.
LEMMA RemainingFacts ==
    ASSUME IInv, NEW s \in Segments, NEW d \in Remaining(s)
    PROVE  /\ d \in [FileKinds -> AFile \cup {Absent}]
           /\ Root(s) = "raw" => RawLayout(d) /\ RawSafe(d, quarantine[s], kept[s])
           /\ Root(s) # "raw" => PartLayout(d) /\ PartSafe(d, kept[s])
           /\ s > used => d = disk[s]
           /\ \A x \in {"jsonl", "zst", "parquet", "manifest"} : d[x] = disk[s][x]
<1>1. /\ LayoutOf(s) /\ SafeOf(s) /\ used \in Nat /\ s \in Nat
      /\ disk[s] \in [FileKinds -> AFile \cup {Absent}] /\ kept[s] \in Seq(Event)
  BY Values DEF IInv, Types, Segments
<1>2. /\ Root(s) = "raw" => RawLayout(disk[s]) /\ RawSafe(disk[s], quarantine[s], kept[s])
      /\ Root(s) # "raw" => PartLayout(disk[s]) /\ PartSafe(disk[s], kept[s])
  BY <1>1 DEF LayoutOf, SafeOf
<1>3. CASE d = disk[s]
  BY <1>1, <1>2, <1>3
<1>4. ASSUME NEW x \in FileKinds, NEW f \in AFile \cup {Absent}, d = [disk[s] EXCEPT ![x] = f]
      PROVE  /\ d \in [FileKinds -> AFile \cup {Absent}] /\ d[x] = f
             /\ \A y \in FileKinds \ {x} : d[y] = disk[s][y]
  BY <1>1, <1>4
<1> DEFINE InStep(step) == At(step) /\ job.segment = s
           Opened == s \in {open[st].number : st \in RawOpen}
<1>5. CASE Opened
  <2>1. PICK st \in streams : IsOpen(st) /\ st # Snapshots /\ s = open[st].number
    BY <1>5 DEF RawOpen
  <2>2. PICK e \in Seq(Event) : e = open[st].events
    BY <2>1, OpenFacts
  <2>3. streamOf[s] = st /\ s <= used /\ Root(s) = "raw" /\ OpenOf(st)
    BY <2>1, OpenFacts DEF IInv
  <2>4. PICK f \in Remains(e, Len(kept[s])) : d = [disk[s] EXCEPT !["jsonl.partial"] = f]
    <3>1. Remaining(s) = WithOneOf(s, "jsonl.partial", Remains(open[streamOf[s]].events, Len(kept[s])))
      <4>1. ~InStep("compress") /\ ~InStep("table") /\ ~InStep("describe")
        BY <2>1, <2>3 DEF OpenOf, Busy, At
      <4> QED
        BY <1>5, <4>1 DEF Remaining
    <3>2. open[streamOf[s]].events = e
      BY <2>1, <2>2, <2>3
    <3>3. d \in WithOneOf(s, "jsonl.partial", Remains(e, Len(kept[s])))
      BY <3>1, <3>2
    <3> QED
      BY <3>3 DEF WithOneOf
  <2>5. f \in AFile /\ IsPrefix(kept[s], f.events)
    <3>1. IsPrefix(kept[s], e)
      BY <2>1, <2>2, <2>3 DEF OpenOf
    <3> QED
      BY <1>1, <2>2, <3>1, RemainsFacts
  <2>6. \A y \in FileKinds \ {"jsonl.partial"} : disk[s][y] = Absent
    BY <2>1, <2>3 DEF OpenOf, Has
  <2>7. /\ d \in [FileKinds -> AFile \cup {Absent}] /\ d["jsonl.partial"] = f
        /\ \A y \in FileKinds \ {"jsonl.partial"} : d[y] = Absent
    BY <1>4, <2>4, <2>5, <2>6 DEF FileKinds
  <2>8. /\ d["jsonl"] = Absent /\ d["zst"] = Absent /\ d["zst.partial"] = Absent
        /\ d["parquet"] = Absent /\ d["parquet.partial"] = Absent
        /\ d["manifest"] = Absent /\ d["manifest.partial"] = Absent
    BY <2>7 DEF FileKinds
  <2>9. RawLayout(d)
    BY <2>8 DEF RawLayout
  <2>10. RawSafe(d, quarantine[s], kept[s])
    <3>1. f # Absent
      BY <2>5, Values
    <3> QED
      BY <2>5, <2>7, <2>8, <3>1 DEF RawSafe
  <2>11. \A x \in {"jsonl", "zst", "parquet", "manifest"} : d[x] = disk[s][x]
    BY <2>6, <2>8 DEF FileKinds
  <2> QED
    BY <1>1, <2>3, <2>7, <2>9, <2>10, <2>11
<1>6. ASSUME ~Opened, NEW step, InStep(step)
      PROVE  /\ s <= used /\ job.events \in Seq(Event) /\ job # NoJob /\ job.step = step
             /\ Root(s) = "raw" => RawJob(disk[s], job.events, step)
             /\ Root(s) # "raw" => PartJob(disk[s], kept[s], job.events, step)
  <2>1. job # NoJob /\ job.segment = s /\ job.step = step
    BY <1>6 DEF At
  <2>2. s \in 1..used /\ job.events \in Seq(Event) /\ JobStep(s, job.events, step)
    BY <2>1, JobFacts
  <2> QED
    BY <1>1, <2>1, <2>2 DEF JobStep
<1>7. CASE ~Opened /\ InStep("compress")
  <2>1. PICK e \in Seq(Event) : e = job.events
    BY <1>6, <1>7
  <2>2. Root(s) = "raw" /\ RawJob(disk[s], e, "compress")
    <3>1. /\ Root(s) = "raw" => RawJob(disk[s], job.events, "compress")
          /\ Root(s) # "raw" => PartJob(disk[s], kept[s], job.events, "compress")
      BY <1>6, <1>7
    <3> QED
      BY <2>1, <3>1 DEF PartJob
  <2>3. PICK f \in Remains(e, 0) : d = [disk[s] EXCEPT !["zst.partial"] = f]
    <3>1. Remaining(s) = WithOneOf(s, "zst.partial", Remains(e, 0))
      BY <1>7, <2>1 DEF Remaining, At
    <3> QED
      BY <3>1 DEF WithOneOf
  <2>4. f \in AFile
    <3>1. <<>> \in Seq(Event) /\ Len(<<>>) = 0 /\ IsPrefix(<<>>, e)
      BY <2>1, PrefixFacts
    <3>2. f \in Remains(e, Len(<<>>))
      BY <3>1
    <3> QED
      BY <2>1, <3>1, <3>2, RemainsFacts
  <2>5. /\ d \in [FileKinds -> AFile \cup {Absent}]
        /\ d["jsonl.partial"] = disk[s]["jsonl.partial"] /\ d["jsonl"] = disk[s]["jsonl"]
        /\ d["zst"] = disk[s]["zst"] /\ d["parquet.partial"] = disk[s]["parquet.partial"]
        /\ d["parquet"] = disk[s]["parquet"] /\ d["manifest"] = disk[s]["manifest"]
    BY <1>4, <2>3, <2>4 DEF FileKinds
  <2>6. RawLayout(d)
    BY <1>2, <2>2, <2>5 DEF RawLayout, RawJob
  <2>7. RawSafe(d, quarantine[s], kept[s])
    BY <1>2, <2>2, <2>5 DEF RawSafe
  <2> QED
    BY <1>1, <1>6, <1>7, <2>2, <2>5, <2>6, <2>7
<1>8. CASE ~Opened /\ InStep("table")
  <2>1. Root(s) # "raw" /\ PartJob(disk[s], kept[s], job.events, "table")
    BY <1>6, <1>8 DEF RawJob
  <2>2. PICK f \in {Absent, File(<<>>, TRUE)} : d = [disk[s] EXCEPT !["parquet.partial"] = f]
    <3>1. Remaining(s) = WithOneOf(s, "parquet.partial", {Absent, File(<<>>, TRUE)})
      BY <1>8 DEF Remaining, At
    <3> QED
      BY <3>1 DEF WithOneOf
  <2>3. f \in AFile \cup {Absent}
    BY <2>2, TornFile
  <2>4. /\ d \in [FileKinds -> AFile \cup {Absent}]
        /\ d["jsonl.partial"] = disk[s]["jsonl.partial"] /\ d["jsonl"] = disk[s]["jsonl"]
        /\ d["zst"] = disk[s]["zst"] /\ d["zst.partial"] = disk[s]["zst.partial"]
        /\ d["parquet"] = disk[s]["parquet"] /\ d["manifest"] = disk[s]["manifest"]
    BY <1>4, <2>2, <2>3 DEF FileKinds
  <2>5. PartLayout(d)
    BY <1>2, <2>1, <2>4 DEF PartLayout, PartJob
  <2>6. PartSafe(d, kept[s])
    BY <2>1 DEF PartSafe, PartJob
  <2> QED
    BY <1>1, <1>6, <1>8, <2>1, <2>4, <2>5, <2>6
<1>9. CASE ~Opened /\ InStep("describe")
  <2>1. PICK e \in Seq(Event) : e = job.events
    BY <1>6, <1>9
  <2>2. PICK f \in {disk[s]["manifest.partial"], File(<<>>, TRUE)} :
          d = [disk[s] EXCEPT !["manifest.partial"] = f]
    <3>1. Remaining(s) = WithOneOf(s, "manifest.partial", {disk[s]["manifest.partial"], File(<<>>, TRUE)})
      BY <1>9 DEF Remaining, At
    <3> QED
      BY <3>1 DEF WithOneOf
  <2>3. f \in AFile \cup {Absent}
    BY <1>1, <2>2, TornFile DEF FileKinds
  <2>4. /\ d \in [FileKinds -> AFile \cup {Absent}]
        /\ d["jsonl.partial"] = disk[s]["jsonl.partial"] /\ d["jsonl"] = disk[s]["jsonl"]
        /\ d["zst"] = disk[s]["zst"] /\ d["zst.partial"] = disk[s]["zst.partial"]
        /\ d["parquet"] = disk[s]["parquet"] /\ d["parquet.partial"] = disk[s]["parquet.partial"]
        /\ d["manifest"] = disk[s]["manifest"]
    BY <1>4, <2>2, <2>3 DEF FileKinds
  <2>5. disk[s]["manifest"] = Absent
    BY <1>6, <1>9 DEF RawJob, PartJob
  <2>6. /\ Root(s) = "raw" => RawLayout(d)
        /\ Root(s) # "raw" => PartLayout(d)
    BY <1>2, <2>4, <2>5 DEF RawLayout, PartLayout
  <2>7. /\ Root(s) = "raw" => RawSafe(d, quarantine[s], kept[s])
        /\ Root(s) # "raw" => PartSafe(d, kept[s])
    BY <1>2, <2>4, <2>5 DEF RawSafe, PartSafe
  <2> QED
    BY <1>1, <1>6, <1>9, <2>4, <2>6, <2>7
<1>10. CASE ~Opened /\ ~InStep("compress") /\ ~InStep("table") /\ ~InStep("describe")
  <2>1. Remaining(s) = {disk[s]}
    BY <1>10 DEF Remaining
  <2> QED
    BY <1>3, <2>1
<1> QED
  BY <1>5, <1>7, <1>8, <1>9, <1>10

LEMMA CrashStep ==
    ASSUME IInv, Crash
    PROVE  IInv'
<1> DEFINE written == {s \in Segments : Remaining(s) # {disk[s]}}
<1>1. /\ crashes + Cardinality(streams) < MaxCrashes /\ crashes' = crashes + 1
      /\ open' = [st \in streams |-> NoSegment]
      /\ pc' = "down" /\ todo' = {} /\ job' = NoJob
      /\ UNCHANGED <<names, quarantine, sequence, used, restarted, kept>>
  BY DEF Crash
<1>2. PICK found \in [written -> UNION {Remaining(s) : s \in written}] :
         /\ \A s \in written : found[s] \in Remaining(s)
         /\ disk' = [s \in Segments |-> IF s \in written THEN found[s] ELSE disk[s]]
  BY DEF Crash
<1>3. ASSUME NEW s \in Segments PROVE disk'[s] \in Remaining(s)
  <2>1. CASE s \in written
    BY <1>2, <2>1
  <2>2. CASE s \notin written
    BY <1>2, <2>2
  <2> QED
    BY <2>1, <2>2
<1>4. ASSUME NEW s \in Segments
      PROVE  /\ disk'[s] \in [FileKinds -> AFile \cup {Absent}]
             /\ LayoutOf(s)' /\ SafeOf(s)'
  <2>1. PICK d \in Remaining(s) : d = disk'[s]
    BY <1>3
  <2>2. /\ d \in [FileKinds -> AFile \cup {Absent}]
        /\ Root(s) = "raw" => RawLayout(d) /\ RawSafe(d, quarantine[s], kept[s])
        /\ Root(s) # "raw" => PartLayout(d) /\ PartSafe(d, kept[s])
        /\ s > used => d = disk[s]
    BY <2>1, RemainingFacts
  <2>3. Root(s)' = Root(s) /\ quarantine' = quarantine /\ kept' = kept /\ used' = used
        /\ streamOf' = streamOf /\ streams' = streams
    BY <1>1 DEF Root, names
  <2>4. SafeOf(s)'
    BY <2>1, <2>2, <2>3 DEF SafeOf
  <2>5. LayoutOf(s)'
    <3>1. LayoutOf(s)
      BY DEF IInv
    <3> QED
      BY <2>1, <2>2, <2>3, <3>1 DEF LayoutOf, Has
  <2> QED
    BY <2>1, <2>2, <2>4, <2>5
<1>5. crashes' \in 0..MaxCrashes
  <2>1. IsFiniteSet(streams)
    BY StorageAssumption DEF StorageAssumption, IInv, Types
  <2>2. Cardinality(streams) \in Nat
    BY <2>1, FS_CardinalityType
  <2> QED
    BY <1>1, <2>2, Values DEF IInv, Types
<1>6. disk' \in [Segments -> [FileKinds -> AFile \cup {Absent}]]
  <2>1. disk' = [s \in Segments |-> disk'[s]]
    BY <1>2
  <2> QED
    BY <1>4, <2>1
<1>7. Types'
  BY <1>1, <1>5, <1>6 DEF IInv, Types, names
<1>8. \A st \in streams' : ~IsOpen(st)'
  BY <1>1 DEF IsOpen, names
<1> QED
  BY <1>1, <1>4, <1>7, <1>8, Down

-----------------------------------------------------------------------------
(* The invariant, and the theorems.                                        *)

LEMMA IInvInit ==
    ASSUME Init
    PROVE  IInv
<1>1. /\ streams \in StreamSets /\ streamOf = [s \in Segments |-> NoStream]
      /\ disk = [s \in Segments |-> [x \in FileKinds |-> Absent]]
      /\ quarantine = [s \in Segments |-> {}]
      /\ open = [st \in streams |-> NoSegment] /\ sequence = 0 /\ used = 0
      /\ pc = "down" /\ todo = {} /\ job = NoJob /\ crashes = 0
      /\ kept = [s \in Segments |-> <<>>]
  BY DEF Init
<1>2. Types
  <2>1. <<>> \in Seq(Event)
    OBVIOUS
  <2> QED
    BY <1>1, <2>1, Values DEF Types
<1>3. ASSUME NEW s \in Segments
      PROVE  /\ LayoutOf(s) /\ SafeOf(s) /\ SweptOf(s)
  <2>1. s > used /\ ~(s <= used)
    BY <1>1, Values DEF Segments
  <2>2. kept[s] = <<>> /\ streamOf[s] = NoStream /\ \A x \in FileKinds : disk[s][x] = Absent
    BY <1>1
  <2>3. /\ disk[s]["jsonl.partial"] = Absent /\ disk[s]["jsonl"] = Absent
        /\ disk[s]["zst"] = Absent /\ disk[s]["zst.partial"] = Absent
        /\ disk[s]["parquet"] = Absent /\ disk[s]["parquet.partial"] = Absent
        /\ disk[s]["manifest"] = Absent /\ disk[s]["manifest.partial"] = Absent
    BY <2>2 DEF FileKinds
  <2>4. LayoutOf(s)
    BY <2>1, <2>2, <2>3 DEF LayoutOf, RawLayout, PartLayout, Has
  <2>5. SafeOf(s)
    BY <2>2, <2>3 DEF SafeOf, RawSafe, PartSafe
  <2>6. SweptOf(s)
    BY <2>3 DEF SweptOf, Has
  <2> QED
    BY <2>4, <2>5, <2>6
<1>4. \A st \in streams : ~IsOpen(st)
  BY <1>1 DEF IsOpen
<1>5. JobOK
  BY <1>1 DEF JobOK
<1> QED
  BY <1>1, <1>2, <1>3, <1>4, <1>5 DEF IInv

LEMMA StutterStep ==
    ASSUME IInv, UNCHANGED vars
    PROVE  IInv'
<1>1. UNCHANGED <<streams, streamOf, disk, quarantine, open, sequence, used, pc, todo, job, crashes,
                  restarted, kept>>
  BY DEF vars, names
<1>2. Types' /\ OpenSegments' = OpenSegments
  BY <1>1 DEF IInv, Types, OpenSegments, IsOpen
<1>3. \A s \in Segments : Left(s)
  BY <1>1 DEF Left
<1>4. \A s \in Segments : LayoutOf(s)' /\ SafeOf(s)'
  BY <1>1, SameFiles DEF names
<1>5. /\ \A s : Busy(s)' = Busy(s)
      /\ \A s \in Segments : SweptOf(s) => SweptOf(s)'
      /\ \A s \in Segments : TodoOf(s) => TodoOf(s)'
  BY <1>1, <1>3, SweptLeft, TodoLeft DEF Busy
<1>6. JobOK'
  BY <1>1 DEF IInv, JobOK, JobStep, Root, RawJob, PartJob, RawWriting
<1>7. ASSUME NEW st \in streams', IsOpen(st)' PROVE OpenOf(st)'
  BY <1>1, <1>7 DEF IInv, IsOpen, OpenOf, Busy, Has, Holds
<1>8. \A s \in todo' : s \in Segments /\ s \in todo
  BY <1>1, Values DEF IInv, Types, Segments
<1> QED
  BY <1>2, <1>4, <1>5, <1>6, <1>7, <1>8 DEF IInv

LEMMA IInvStep ==
    ASSUME IInv, [Next]_vars
    PROVE  IInv'
<1>1. ASSUME NEW st \in streams, Open(st) PROVE IInv'
  <2>1. PICK n : n = used + 1
    OBVIOUS
  <2> QED
    BY <1>1, <2>1, OpenStep
<1>2. ASSUME NEW st \in streams, Write(st) PROVE IInv'
  BY <1>2, WriteStep
<1>3. ASSUME NEW st \in streams, Rotate(st) \/ Close(st) PROVE IInv'
  <2>1. /\ Finalizes(st) /\ pc \in {"running", "closing"} /\ job = NoJob
        /\ pc' \in {"running", "closing"}
    BY <1>3 DEF Rotate, Close, Running
  <2>2. PICK s : s = open[st].number
    OBVIOUS
  <2>3. PICK events : events = open[st].events
    OBVIOUS
  <2> QED
    BY <2>1, <2>2, <2>3, FinalizesStep
<1>4. ASSUME Finalize PROVE IInv'
  <2>1. PICK s : s = job.segment
    OBVIOUS
  <2>2. PICK events : events = job.events
    OBVIOUS
  <2>3. ASSUME PublishSegment PROVE IInv'
    BY <2>1, <2>2, <2>3, PublishRaw, PublishPart
  <2>4. ASSUME Describe PROVE IInv'
    BY <2>1, <2>2, <2>4, DescribeRaw, DescribePart
  <2> QED
    BY <1>4, <2>1, <2>2, <2>3, <2>4, TableStep, RenameStep, CreateStep, CompressStep, CommitStep,
       UnlinkStep, DoneStep DEF Finalize
<1>5. ASSUME Recover PROVE IInv'
  <2>1. PICK s : s = job.segment
    OBVIOUS
  <2>2. PICK events : events = job.events
    OBVIOUS
  <2>3. ASSUME Truncate \/ OrphanFails PROVE IInv'
    BY <2>1, <2>2, <2>3, TruncateStep, OrphanFailsStep
  <2> QED
    BY <1>5, <2>3, NextLoopStep, StartFailsStep, RecoverPartialStep, RecoverOrphanStep,
       RecoverCompressedPartialStep, RecoverCompressedStep, RecoverPartStep, RecoverParquetStep,
       RecoverManifestPartialStep, VerifyManifestStep DEF Recover
<1> QED
  BY <1>1, <1>2, <1>3, <1>4, <1>5, FlushStep, ExitStep, StartStep, CrashStep, StutterStep DEF Next

\* The inductive invariant holds of every behaviour.
THEOREM Invariant == Spec => []IInv
<1>1. Init => IInv
  BY IInvInit
<1>2. IInv /\ [Next]_vars => IInv'
  BY IInvStep
<1> QED
  BY <1>1, <1>2, PTL DEF Spec

\* Steps that no segment with a manifest takes part in.
SameData(s) ==
    /\ disk'[s]["manifest"] = disk[s]["manifest"]
    /\ disk'[s]["zst"] = disk[s]["zst"] /\ disk'[s]["parquet"] = disk[s]["parquet"]

LEMMA ChangedElsewhere ==
    ASSUME NEW t, NEW kinds, Changed(t, kinds), NEW s \in Segments,
           s # t \/ kinds \cap {"manifest", "zst", "parquet"} = {}
    PROVE  SameData(s)
BY DEF Changed, SameData, FileKinds

LEMMA CompletedFacts ==
    ASSUME IInv, NEW s \in Segments, Has(s, "manifest")
    PROVE  /\ Describes(s, "manifest") /\ s <= used /\ used \in Nat /\ s \in Nat /\ s \notin OpenSegments
           /\ ~Has(s, "jsonl.partial") /\ ~Has(s, "zst.partial") /\ ~Has(s, "parquet.partial")
           /\ ~Has(s, "manifest.partial")
           /\ job # NoJob /\ job.segment = s => job.step \in {"unlink", "done"}
<1>1. LayoutOf(s) /\ used \in Nat /\ s \in Nat
  BY Values DEF IInv, Types, Segments
<1>2. s <= used
  BY <1>1 DEF LayoutOf, FileKinds
<1>3. /\ ~Has(s, "jsonl.partial") /\ ~Has(s, "zst.partial") /\ ~Has(s, "parquet.partial")
      /\ ~Has(s, "manifest.partial") /\ Describes(s, "manifest")
  BY <1>1 DEF LayoutOf, RawLayout, PartLayout, Has, Describes, DataKind
<1>4. s \notin OpenSegments
  BY DEF OpenSegments, IInv, OpenOf, FileKinds
<1>5. ASSUME job # NoJob, job.segment = s PROVE job.step \in {"unlink", "done"}
  <2>1. JobStep(s, job.events, job.step)
    BY <1>5 DEF IInv, JobOK
  <2> QED
    BY <2>1 DEF JobStep, RawJob, PartJob, Has
<1> QED
  BY <1>1, <1>2, <1>3, <1>4, <1>5

LEMMA CompletedInJob ==
    ASSUME IInv, Finalize \/ Truncate \/ OrphanFails, NEW s \in Segments, Has(s, "manifest")
    PROVE  SameData(s)
<1>1. job # NoJob
  BY DEF Finalize, Table, Rename, Create, Compress, PublishSegment, Describe, Commit, Unlink, Done,
         Truncate, OrphanFails, At
<1>2. PICK t \in Segments : t = job.segment
  BY <1>1, JobFacts
<1>3. job.segment = s => job.step \in {"unlink", "done"}
  BY <1>1, CompletedFacts
<1>4. Types /\ job.events \in Seq(Event)
  BY <1>1, JobFacts DEF IInv
<1>5. File(job.events, FALSE) \in AFile /\ File(<<>>, FALSE) \in AFile
  BY <1>4, Values, EmptyFile
<1>6. ASSUME NEW x \in FileKinds, NEW f \in AFile \cup {Absent}, Put(t, x, f)
      PROVE  \E kinds : Changed(t, kinds)
  BY <1>4, <1>6, PutFile
<1>7. ASSUME NEW from \in FileKinds, NEW to \in FileKinds, from # to, Renamed(t, from, to)
      PROVE  \E kinds : Changed(t, kinds)
  BY <1>4, <1>7, RenameFile
<1>8. CASE Done
  BY <1>8 DEF Done, SameData
<1>9. CASE Unlink
  <2>1. Put(t, "jsonl", Absent)
    BY <1>2, <1>9 DEF Unlink
  <2>2. Changed(t, {"jsonl"})
    BY <1>4, <2>1, PutFile DEF FileKinds
  <2> QED
    BY <2>2, ChangedElsewhere
<1>10. CASE Table \/ Create \/ Compress \/ Describe
  <2>1. t # s
    BY <1>2, <1>3, <1>10 DEF Table, Create, Compress, Describe, At
  <2>2. \E x \in FileKinds, f \in AFile \cup {Absent} : Put(t, x, f)
    BY <1>2, <1>5, <1>10 DEF Table, Create, Compress, Describe, FileKinds
  <2> QED
    BY <1>6, <2>1, <2>2, ChangedElsewhere
<1>11. CASE Rename \/ PublishSegment \/ Commit
  <2>1. t # s
    BY <1>2, <1>3, <1>11 DEF Rename, PublishSegment, Commit, At
  <2>2. \E from \in FileKinds, to \in FileKinds : from # to /\ Renamed(t, from, to)
    BY <1>2, <1>11 DEF Rename, PublishSegment, Commit, FileKinds
  <2> QED
    BY <1>7, <2>1, <2>2, ChangedElsewhere
<1>12. CASE Truncate
  <2>1. t # s
    BY <1>2, <1>3, <1>12 DEF Truncate, At
  <2>2. \E f : Put(t, "jsonl.partial", f)
    BY <1>2, <1>12 DEF Truncate
  <2>3. disk'[s] = disk[s]
    BY <2>1, <2>2 DEF Put, IInv, Types
  <2> QED
    BY <2>3 DEF SameData
<1>13. CASE OrphanFails
  <2>1. t # s
    BY <1>2, <1>3, <1>13 DEF OrphanFails, At
  <2>2. disk' = [disk EXCEPT ![t]["jsonl"] = Absent]
    BY <1>2, <1>13 DEF OrphanFails, Quarantined
  <2>3. disk'[s] = disk[s]
    BY <2>1, <2>2 DEF IInv, Types
  <2> QED
    BY <2>3 DEF SameData
<1> QED
  BY <1>8, <1>9, <1>10, <1>11, <1>12, <1>13 DEF Finalize

LEMMA CompletedInLoop ==
    ASSUME IInv, NEW t \in Segments, NEW s \in Segments, Has(s, "manifest"),
           \/ RecoverPartial(t) \/ RecoverOrphan(t) \/ RecoverCompressedPartial(t)
           \/ RecoverCompressed(t) \/ RecoverPart(t) \/ RecoverParquet(t)
           \/ RecoverManifestPartial(t) \/ VerifyManifest(t)
    PROVE  SameData(s)
<1>1. CASE disk' = disk
  BY <1>1 DEF SameData
<1>2. CASE s # t /\ \E x : Quarantined(t, x)
  BY <1>2 DEF Quarantined, SameData, IInv, Types
<1>3. CASE s # t /\ \E x, y : Renamed(t, x, y)
  BY <1>3 DEF Renamed, SameData, IInv, Types
<1>4. CASE s = t
  <2>1. /\ Describes(t, "manifest") /\ ~Has(t, "zst.partial") /\ ~Has(t, "parquet.partial")
        /\ ~Has(t, "manifest.partial")
    BY <1>4, CompletedFacts
  <2>2. \A loops : Taken(loops, t) => pc \in loops /\ Has(t, Loops[PhaseOf(pc)])
    BY TakenFacts
  <2>3. ~RecoverCompressedPartial(t) /\ ~RecoverPart(t) /\ ~RecoverManifestPartial(t)
    BY <2>1, <2>2, LoopOf DEF RecoverCompressedPartial, RecoverPart, RecoverManifestPartial
  <2>4. disk' = disk
    BY <1>4, <2>1, <2>3 DEF RecoverPartial, RecoverOrphan, RecoverCompressed, RecoverParquet,
       VerifyManifest, Skip
  <2> QED
    BY <1>1, <2>4
<1>5. disk' = disk \/ (\E x : Quarantined(t, x)) \/ (\E x, y : Renamed(t, x, y))
  BY DEF RecoverPartial, RecoverOrphan, RecoverCompressedPartial, RecoverCompressed, RecoverPart,
     RecoverParquet, RecoverManifestPartial, VerifyManifest, Skip, Drop
<1> QED
  BY <1>1, <1>2, <1>3, <1>4, <1>5

LEMMA CompletedStep ==
    ASSUME IInv, [Next]_vars, NEW s \in Segments, Has(s, "manifest")
    PROVE  SameData(s)
<1>1. Types /\ s \notin OpenSegments /\ s # used + 1 /\ s <= used
  BY CompletedFacts DEF IInv
<1>2. ASSUME disk' = disk \/ disk'[s] = disk[s] PROVE SameData(s)
  BY <1>2 DEF SameData
<1>3. ASSUME NEW st \in streams, Open(st) PROVE SameData(s)
  <2>1. disk' = disk \/ Put(used + 1, "jsonl.partial", File(<<>>, FALSE))
    BY <1>3 DEF Open
  <2> QED
    BY <1>1, <1>2, <2>1 DEF Put, Types
<1>4. ASSUME NEW st \in streams, Rotate(st) \/ Close(st) PROVE SameData(s)
  <2>1. Finalizes(st)
    BY <1>4 DEF Rotate, Close
  <2>2. open[st].number # s
    BY <1>1, <2>1 DEF Finalizes, OpenSegments
  <2>3. disk' = disk \/ Put(open[st].number, "jsonl.partial", File(open[st].events, FALSE))
    BY <2>1 DEF Finalizes
  <2> QED
    BY <1>1, <1>2, <2>2, <2>3 DEF Put, Types
<1>5. ASSUME Flush PROVE SameData(s)
  <2>1. ~\E st \in RawOpen : open[st].number = s
    BY <1>1 DEF RawOpen, OpenSegments
  <2>2. disk'[s] = disk[s]
    BY <1>5, <2>1 DEF Flush
  <2> QED
    BY <1>2, <2>2
<1>6. ASSUME Crash PROVE SameData(s)
  <2>1. disk'[s] = disk[s] \/ disk'[s] \in Remaining(s)
    BY <1>6 DEF Crash
  <2>2. CASE disk'[s] \in Remaining(s)
    <3>1. PICK d \in Remaining(s) : d = disk'[s]
      BY <2>2
    <3>2. \A x \in {"jsonl", "zst", "parquet", "manifest"} : d[x] = disk[s][x]
      BY <3>1, RemainingFacts
    <3> QED
      BY <3>1, <3>2 DEF SameData
  <2> QED
    BY <1>2, <2>1, <2>2
<1>7. ASSUME Recover PROVE SameData(s)
  <2>1. ASSUME NextLoop \/ StartFails PROVE disk' = disk
    BY <2>1 DEF NextLoop, StartFails
  <2> QED
    BY <1>2, <1>7, <2>1, CompletedInJob, CompletedInLoop DEF Recover
<1>8. ASSUME NEW st \in streams, Write(st) PROVE disk' = disk
  BY <1>8 DEF Write
<1>9. ASSUME Exit \/ Start \/ UNCHANGED vars PROVE disk' = disk
  BY <1>9 DEF Exit, Start, vars
<1> QED
  BY <1>2, <1>3, <1>4, <1>5, <1>6, <1>7, <1>8, <1>9, CompletedInJob DEF Next

\* Types: only a partial file ends within an event, a file has the suffix of
\* its directory and holds events of the process, an open segment is in the
\* directory of its stream, and what is finalized or looked at is a segment
\* that was opened.
THEOREM TypesAreRight == Spec => []TypeOK
<1>1. IInv => TypeOK
  <2> SUFFICES ASSUME IInv PROVE TypeOK
    OBVIOUS
  <2>1. Types
    BY DEF IInv
  <2>2. ASSUME NEW s \in Segments, NEW x \in {"jsonl", "zst", "parquet", "manifest"}, Has(s, x)
        PROVE  ~disk[s][x].torn
    <3>1. RawLayout(disk[s]) \/ PartLayout(disk[s])
      BY DEF IInv, LayoutOf
    <3> QED
      BY <2>2, <3>1 DEF RawLayout, PartLayout, Has
  <2>3. ASSUME NEW s \in Segments, NEW x \in FileKinds, Has(s, x)
        PROVE  /\ Root(s) = "raw" \/ x \in {"parquet.partial", "parquet", "manifest.partial", "manifest"}
               /\ ToSet(disk[s][x].events) \subseteq 1..MaxSequence
    <3>1. disk[s][x].events \in Seq(Event)
      BY <2>1, <2>3, FileOf
    <3>2. Root(s) = "raw" \/ PartLayout(disk[s])
      BY DEF IInv, LayoutOf
    <3>3. \A e \in Seq(Event) : ToSet(e) \subseteq 1..MaxSequence
      <4>1. ASSUME NEW e \in Seq(Event) PROVE \A i \in DOMAIN e : e[i] \in Event
        OBVIOUS
      <4> QED
        BY <4>1 DEF ToSet, Event
    <3>4. Root(s) = "raw" \/ x \in {"parquet.partial", "parquet", "manifest.partial", "manifest"}
      BY <2>3, <3>2 DEF PartLayout, Has, FileKinds
    <3> QED
      BY <3>1, <3>3, <3>4
  <2>4. \A st \in streams : IsOpen(st) => streamOf[open[st].number] = st
    BY OpenFacts
  <2>5. job = NoJob \/ job.segment \in 1..used
    BY <2>1 DEF Types
  <2> QED
    BY <2>1, <2>2, <2>3, <2>4, <2>5 DEF TypeOK, Types
<1> QED
  BY <1>1, Invariant, PTL

\* Whatever the crashes, and whenever they come, the events that were flushed
\* to a segment are in one file of it; the rows of a part that was written are
\* in the directory of the snapshots.
THEOREM FlushedEventsStay == Spec => []NothingFlushedIsLost
<1>1. IInv => NothingFlushedIsLost
  <2> SUFFICES ASSUME IInv, NEW s \in Segments, kept[s] # <<>>
               PROVE  IF Root(s) = "raw" THEN \E f \in Copies(s) : IsPrefix(kept[s], f.events)
                      ELSE \E x \in {"parquet.partial", "parquet"} :
                              Has(s, x) /\ disk[s][x] = File(kept[s], FALSE)
    BY DEF NothingFlushedIsLost
  <2>1. SafeOf(s) /\ LayoutOf(s) /\ kept[s] \in Seq(Event)
    BY DEF IInv, Types
  <2>2. CASE Root(s) = "raw"
    <3>1. RawSafe(disk[s], quarantine[s], kept[s]) /\ RawLayout(disk[s])
      BY <2>1, <2>2 DEF SafeOf, LayoutOf
    <3>2. \A x \in {"jsonl.partial", "jsonl", "zst"} : Has(s, x) => disk[s][x] \in Copies(s)
      BY DEF Copies, DataKinds, FileKinds
    <3>3. \A moved \in quarantine[s] : moved.suffix = "jsonl" => moved.file \in Copies(s)
      BY DEF Copies, DataKinds, FileKinds
    <3>4. disk[s]["manifest"] # Absent => Has(s, "zst")
      BY <3>1 DEF RawLayout, Has
    <3>5. CASE Has(s, "jsonl.partial")
      BY <2>2, <3>1, <3>2, <3>5 DEF RawSafe, Has
    <3>6. CASE Has(s, "jsonl")
      BY <2>2, <3>1, <3>2, <3>6 DEF RawSafe, Has
    <3>7. CASE ~Has(s, "jsonl.partial") /\ ~Has(s, "jsonl")
      BY <2>2, <3>1, <3>2, <3>3, <3>4, <3>7 DEF RawSafe, Has
    <3> QED
      BY <3>5, <3>6, <3>7
  <2>3. CASE Root(s) # "raw"
    <3>1. File(kept[s], FALSE) # Absent
      BY <2>1, Values
    <3> QED
      BY <2>1, <2>3, <3>1 DEF SafeOf, PartSafe, Has
  <2> QED
    BY <2>2, <2>3
<1> QED
  BY <1>1, Invariant, PTL

\* A recovery that is over has left nothing half done: of every segment that is
\* not open there is a data file with a manifest or neither, and no partial file.
THEOREM RecoveryFinishes == Spec => []RecoveryIsComplete
<1>1. IInv => RecoveryIsComplete
  <2> SUFFICES ASSUME IInv, Running, NEW s \in Segments \ OpenSegments
               PROVE  /\ Has(s, DataKind(s)) <=> Has(s, "manifest")
                      /\ \A x \in {"jsonl.partial", "zst.partial", "parquet.partial",
                                   "manifest.partial"} : ~Has(s, x)
    BY DEF RecoveryIsComplete
  <2>1. /\ ~Has(s, "jsonl.partial") /\ ~Has(s, "zst.partial") /\ ~Has(s, "parquet.partial")
        /\ ~Has(s, "manifest.partial")
        /\ Has(s, "zst") \/ Has(s, "parquet") => Has(s, "manifest")
    BY RunningFacts DEF Running
  <2>2. Has(s, "manifest") => Has(s, DataKind(s))
    BY CompletedFacts DEF Describes
  <2> QED
    BY <2>1, <2>2 DEF DataKind
<1> QED
  BY <1>1, Invariant, PTL

\* The manifest of a segment describes its data file, and neither is written
\* again, by no step of any process.
THEOREM CompleteIsForGood == Spec => CompletedForGood
<1>1. IInv /\ [Next]_vars =>
        [\A s \in Segments : Has(s, "manifest") =>
            /\ Describes(s, "manifest")
            /\ disk'[s]["manifest"] = disk[s]["manifest"]
            /\ disk'[s][DataKind(s)] = disk[s][DataKind(s)]]_vars
  BY CompletedFacts, CompletedStep DEF SameData, DataKind
<1> QED
  BY <1>1, Invariant, PTL DEF Spec, CompletedForGood

-----------------------------------------------------------------------------
(* The events of a file are in order.                                      *)

\* A file of these kinds is never empty, unless it ends within an event.
NeverEmpty == {"parquet.partial", "parquet", "manifest.partial", "manifest"}

OrderedFile(x, f) == Increasing(f.events) /\ (x \in NeverEmpty /\ ~f.torn => f.events # <<>>)

OrderedEvents(e, n) == e # <<>> /\ Increasing(e) /\ ToSet(e) \subseteq 1..n

FilesOrdered == \A s \in Segments, x \in FileKinds : Has(s, x) => OrderedFile(x, disk[s][x])
OpenOrdered == \A st \in streams : IsOpen(st) => OrderedEvents(open[st].events, sequence)
JobOrdered ==
    job # NoJob => Increasing(job.events) /\ (job.step \notin {"truncate", "done"} => job.events # <<>>)

Ordered == FilesOrdered /\ OpenOrdered /\ JobOrdered

LEMMA EmptyOrdered == Increasing(<<>>) /\ \A x : OrderedFile(x, File(<<>>, TRUE))
BY DEF Increasing, OrderedFile, File

LEMMA OrderedIn ==
    ASSUME FilesOrdered, NEW s \in Segments, NEW kinds \in SUBSET FileKinds, Changed(s, kinds),
           \A x \in kinds : disk'[s][x] = Absent \/ OrderedFile(x, disk'[s][x])
    PROVE  FilesOrdered'
<1> SUFFICES ASSUME NEW t \in Segments, NEW x \in FileKinds, disk'[t][x] # Absent
             PROVE  OrderedFile(x, disk'[t][x])
  BY DEF FilesOrdered, Has
<1>1. CASE t = s /\ x \in kinds
  BY <1>1
<1>2. CASE t # s \/ x \notin kinds
  BY <1>2 DEF Changed, FilesOrdered, Has
<1> QED
  BY <1>1, <1>2

LEMMA OrderedPut ==
    ASSUME Types, FilesOrdered, NEW s \in Segments, NEW x \in FileKinds, NEW e \in Seq(Event),
           Put(s, x, File(e, FALSE)), Increasing(e), x \in NeverEmpty => e # <<>>
    PROVE  FilesOrdered'
<1>1. File(e, FALSE) \in AFile /\ OrderedFile(x, File(e, FALSE))
  BY Values DEF OrderedFile
<1>2. Changed(s, {x}) /\ disk'[s][x] = File(e, FALSE)
  BY <1>1, PutFile
<1>3. \A y \in {x} : disk'[s][y] = Absent \/ OrderedFile(y, disk'[s][y])
  BY <1>1, <1>2
<1>4. {x} \in SUBSET FileKinds
  OBVIOUS
<1> QED
  BY <1>2, <1>3, <1>4, OrderedIn

LEMMA OrderedRemoved ==
    ASSUME Types, FilesOrdered, NEW s \in Segments, NEW x \in FileKinds,
           Put(s, x, Absent) \/ Quarantined(s, x)
    PROVE  FilesOrdered'
<1>1. disk' = [disk EXCEPT ![s][x] = Absent]
  BY DEF Put, Quarantined
<1>2. Changed(s, {x}) /\ disk'[s][x] = Absent
  BY <1>1 DEF Types, Changed
<1> QED
  BY <1>2, OrderedIn

LEMMA OrderedRenamed ==
    ASSUME Types, FilesOrdered, NEW s \in Segments, NEW from \in FileKinds, NEW to \in FileKinds,
           from # to, Renamed(s, from, to), to \in NeverEmpty => from \in NeverEmpty
    PROVE  FilesOrdered'
<1>1. Changed(s, {from, to}) /\ disk'[s][to] = disk[s][from] /\ disk'[s][from] = Absent
  BY RenameFile
<1>2. disk[s][from] = Absent \/ OrderedFile(to, disk[s][from])
  BY DEF FilesOrdered, Has, OrderedFile
<1> QED
  BY <1>1, <1>2, OrderedIn

LEMMA OrderedSame ==
    ASSUME FilesOrdered, disk' = disk
    PROVE  FilesOrdered'
BY DEF FilesOrdered, Has

LEMMA OpenSame ==
    ASSUME OpenOrdered, UNCHANGED <<streams, open, sequence>>
    PROVE  OpenOrdered'
BY DEF OpenOrdered, IsOpen

LEMMA JobNext ==
    ASSUME Types, JobOrdered, job # NoJob, NEW step \in Steps, Step(step),
           job.step \notin {"truncate", "done"}
    PROVE  JobOrdered'
BY NextStep DEF JobOrdered

\* Steps of finalizing a segment
LEMMA OrderedFinalize ==
    ASSUME IInv, Ordered, Finalize
    PROVE  Ordered'
<1>1. job # NoJob /\ Types /\ FilesOrdered /\ OpenOrdered /\ JobOrdered
  BY DEF Finalize, Table, Rename, Create, Compress, PublishSegment, Describe, Commit, Unlink, Done,
         At, IInv, Ordered
<1>2. PICK s \in Segments : s = job.segment
  BY <1>1, JobFacts
<1>3. PICK e \in Seq(Event) : e = job.events
  BY <1>1, JobFacts
<1>4. Increasing(e) /\ (job.step \notin {"truncate", "done"} => e # <<>>)
  BY <1>1, <1>3 DEF JobOrdered
<1>5. OpenOrdered'
  <2>1. UNCHANGED <<streams, open, sequence>>
    BY DEF Finalize, Table, Rename, Create, Compress, PublishSegment, Describe, Commit, Unlink,
           Done, unchangedByStep, notOnDisk, names
  <2> QED
    BY <1>1, <2>1, OpenSame
<1>6. CASE Table
  <2>1. Put(s, "parquet.partial", File(e, FALSE)) /\ job.step = "table" /\ Step("publish")
    BY <1>2, <1>3, <1>6 DEF Table, At
  <2>2. FilesOrdered'
    BY <1>1, <1>4, <2>1, OrderedPut DEF FileKinds
  <2>3. JobOrdered'
    BY <1>1, <2>1, JobNext DEF Steps
  <2> QED
    BY <1>5, <2>2, <2>3 DEF Ordered
<1>7. CASE Rename
  <2>1. Renamed(s, "jsonl.partial", "jsonl") /\ job.step = "rename" /\ Step("create")
    BY <1>2, <1>7 DEF Rename, At
  <2>2. FilesOrdered'
    BY <1>1, <2>1, OrderedRenamed DEF FileKinds, NeverEmpty
  <2>3. JobOrdered'
    BY <1>1, <2>1, JobNext DEF Steps
  <2> QED
    BY <1>5, <2>2, <2>3 DEF Ordered
<1>8. CASE Create
  <2>1. Put(s, "zst.partial", File(<<>>, FALSE)) /\ job.step = "create" /\ Step("compress")
    BY <1>2, <1>8 DEF Create, At
  <2>2. <<>> \in Seq(Event)
    OBVIOUS
  <2>3. FilesOrdered'
    BY <1>1, <2>1, <2>2, OrderedPut, EmptyOrdered DEF FileKinds, NeverEmpty
  <2>4. JobOrdered'
    BY <1>1, <2>1, JobNext DEF Steps
  <2> QED
    BY <1>5, <2>3, <2>4 DEF Ordered
<1>9. CASE Compress
  <2>1. Put(s, "zst.partial", File(e, FALSE)) /\ job.step = "compress" /\ Step("publish")
    BY <1>2, <1>3, <1>9 DEF Compress, At
  <2>2. FilesOrdered'
    BY <1>1, <1>4, <2>1, OrderedPut DEF FileKinds
  <2>3. JobOrdered'
    BY <1>1, <2>1, JobNext DEF Steps
  <2> QED
    BY <1>5, <2>2, <2>3 DEF Ordered
<1>10. CASE PublishSegment
  <2>1. /\ job.step = "publish" /\ Step("describe")
        /\ Renamed(s, "zst.partial", "zst") \/ Renamed(s, "parquet.partial", "parquet")
    BY <1>2, <1>10 DEF PublishSegment, At
  <2>2. FilesOrdered'
    BY <1>1, <2>1, OrderedRenamed DEF FileKinds, NeverEmpty
  <2>3. JobOrdered'
    BY <1>1, <2>1, JobNext DEF Steps
  <2> QED
    BY <1>5, <2>2, <2>3 DEF Ordered
<1>11. CASE Describe
  <2>1. Put(s, "manifest.partial", File(e, FALSE)) /\ job.step = "describe" /\ Step("commit")
    BY <1>2, <1>3, <1>11 DEF Describe, At
  <2>2. FilesOrdered'
    BY <1>1, <1>4, <2>1, OrderedPut DEF FileKinds
  <2>3. JobOrdered'
    BY <1>1, <2>1, JobNext DEF Steps
  <2> QED
    BY <1>5, <2>2, <2>3 DEF Ordered
<1>12. CASE Commit
  <2>1. /\ job.step = "commit" /\ (Step("done") \/ Step("unlink"))
        /\ Renamed(s, "manifest.partial", "manifest")
    BY <1>2, <1>12 DEF Commit, At
  <2>2. FilesOrdered'
    BY <1>1, <2>1, OrderedRenamed DEF FileKinds, NeverEmpty
  <2>3. "done" \in Steps /\ "unlink" \in Steps
    BY DEF Steps
  <2>4. JobOrdered'
    BY <1>1, <2>1, <2>3, JobNext
  <2> QED
    BY <1>5, <2>2, <2>4 DEF Ordered
<1>13. CASE Unlink
  <2>1. Put(s, "jsonl", Absent) /\ job.step = "unlink" /\ Step("done")
    BY <1>2, <1>13 DEF Unlink, At
  <2>2. FilesOrdered'
    BY <1>1, <2>1, OrderedRemoved DEF FileKinds
  <2>3. JobOrdered'
    BY <1>1, <2>1, JobNext DEF Steps
  <2> QED
    BY <1>5, <2>2, <2>3 DEF Ordered
<1>14. CASE Done
  <2>1. disk' = disk /\ job' = NoJob
    BY <1>14 DEF Done
  <2>2. FilesOrdered' /\ JobOrdered'
    BY <1>1, <2>1, OrderedSame DEF JobOrdered
  <2> QED
    BY <1>5, <2>2 DEF Ordered
<1> QED
  BY <1>6, <1>7, <1>8, <1>9, <1>10, <1>11, <1>12, <1>13, <1>14 DEF Finalize

\* Steps of the recovery of a segment
LEMMA OrderedRecovery ==
    ASSUME IInv, Ordered, Truncate \/ OrphanFails \/ StartFails
    PROVE  Ordered'
<1>1. job # NoJob /\ Types /\ FilesOrdered /\ OpenOrdered /\ JobOrdered
  BY DEF Truncate, OrphanFails, StartFails, At, IInv, Ordered
<1>2. PICK s \in Segments : s = job.segment
  BY <1>1, JobFacts
<1>3. OpenOrdered'
  <2>1. UNCHANGED <<streams, open, sequence>>
    BY DEF Truncate, OrphanFails, StartFails, unchangedByStep, unchangedByRecovery, notOnDisk,
           names
  <2> QED
    BY <1>1, <2>1, OpenSame
<1>4. CASE Truncate
  <2> DEFINE f == disk[s]["jsonl.partial"]
  <2>1. job.step = "truncate" /\ Has(s, "jsonl.partial")
    <3>1. job.step = "truncate"
      BY <1>4 DEF Truncate, At
    <3>2. PICK e : e = job.events
      OBVIOUS
    <3>3. /\ Root(s) = "raw" => RawJob(disk[s], e, "truncate")
          /\ Root(s) # "raw" => PartJob(disk[s], kept[s], e, "truncate")
      BY <1>1, <1>2, <3>1, <3>2, Before
    <3> QED
      BY <3>1, <3>3 DEF RawJob, PartJob, Has
  <2>2. f.events \in Seq(Event) /\ Increasing(f.events)
    BY <1>1, <2>1, FileOf DEF FilesOrdered, OrderedFile, FileKinds
  <2>3. CASE f.events = <<>>
    <3>1. Put(s, "jsonl.partial", Absent) /\ Step("done")
      BY <1>2, <1>4, <2>3 DEF Truncate
    <3>2. FilesOrdered'
      BY <1>1, <3>1, OrderedRemoved DEF FileKinds
    <3>3. job' # NoJob /\ job'.events = job.events /\ job'.step = "done"
      BY <1>1, <3>1, NextStep DEF Steps
    <3>4. JobOrdered'
      BY <1>1, <3>3 DEF JobOrdered
    <3> QED
      BY <1>3, <3>2, <3>4 DEF Ordered
  <2>4. CASE f.events # <<>>
    <3>1. Put(s, "jsonl.partial", File(f.events, FALSE)) /\ job' = Job(s, f.events, "rename")
      BY <1>2, <1>4, <2>4 DEF Truncate
    <3>2. FilesOrdered'
      BY <1>1, <2>2, <2>4, <3>1, OrderedPut DEF FileKinds
    <3>3. JobOrdered'
      BY <2>2, <2>4, <3>1 DEF JobOrdered, Job
    <3> QED
      BY <1>3, <3>2, <3>3 DEF Ordered
  <2> QED
    BY <2>3, <2>4
<1>5. CASE OrphanFails
  <2>1. Quarantined(s, "jsonl") /\ job' = NoJob
    BY <1>2, <1>5 DEF OrphanFails
  <2>2. FilesOrdered' /\ JobOrdered'
    BY <1>1, <2>1, OrderedRemoved DEF FileKinds, JobOrdered
  <2> QED
    BY <1>3, <2>2 DEF Ordered
<1>6. CASE StartFails
  <2>1. disk' = disk /\ job' = NoJob
    BY <1>6 DEF StartFails
  <2>2. FilesOrdered' /\ JobOrdered'
    BY <1>1, <2>1, OrderedSame DEF JobOrdered
  <2> QED
    BY <1>3, <2>2 DEF Ordered
<1> QED
  BY <1>4, <1>5, <1>6

\* The job of a segment whose data file holds these events
LEMMA JobBegins ==
    ASSUME NEW s, NEW e, NEW step, job' = Job(s, e, step), Increasing(e),
           step \notin {"truncate", "done"} => e # <<>>
    PROVE  JobOrdered'
BY DEF JobOrdered, Job

LEMMA OrderedLoop ==
    ASSUME IInv, Ordered, NEW s \in Segments,
           \/ RecoverPartial(s) \/ RecoverOrphan(s) \/ RecoverCompressedPartial(s)
           \/ RecoverCompressed(s) \/ RecoverPart(s) \/ RecoverParquet(s)
           \/ RecoverManifestPartial(s) \/ VerifyManifest(s)
    PROVE  Ordered'
<1>1. Types /\ FilesOrdered /\ OpenOrdered /\ JobOrdered /\ LayoutOf(s)
  BY DEF IInv, Ordered
<1>2. OpenOrdered'
  <2>1. UNCHANGED <<streams, open, sequence>>
    BY DEF RecoverPartial, RecoverOrphan, RecoverCompressedPartial, RecoverCompressed, RecoverPart,
           RecoverParquet, RecoverManifestPartial, VerifyManifest, unchangedByRecovery, notOnDisk,
           names
  <2> QED
    BY <1>1, <2>1, OpenSame
<1>3. job = NoJob /\ \A loops : Taken(loops, s) => pc \in loops /\ Has(s, Loops[PhaseOf(pc)])
  <2>1. job = NoJob
    BY DEF RecoverPartial, RecoverOrphan, RecoverCompressedPartial, RecoverCompressed, RecoverPart,
           RecoverParquet, RecoverManifestPartial, VerifyManifest, Taken
  <2> QED
    BY <2>1, TakenFacts
<1>4. \A x \in FileKinds : Has(s, x) =>
         /\ disk[s][x].events \in Seq(Event) /\ Increasing(disk[s][x].events)
         /\ x \in NeverEmpty /\ ~disk[s][x].torn => disk[s][x].events # <<>>
  BY <1>1, FileOf DEF FilesOrdered, OrderedFile
<1>5. <<>> \in Seq(Event) /\ Increasing(<<>>)
  BY EmptyOrdered
<1>6. CASE RecoverPartial(s)
  <2>1. disk' = disk /\ job' = Job(s, <<>>, "truncate")
    BY <1>6 DEF RecoverPartial
  <2> QED
    BY <1>1, <1>2, <1>5, <2>1, OrderedSame, JobBegins DEF Ordered
<1>7. CASE RecoverOrphan(s)
  <2>1. CASE Has(s, "manifest")
    <3>1. disk' = disk /\ job' = job
      BY <1>7, <2>1 DEF RecoverOrphan, Skip
    <3> QED
      BY <1>1, <1>2, <3>1, OrderedSame DEF Ordered, JobOrdered
  <2>2. CASE ~Has(s, "manifest")
    <3>1. Renamed(s, "jsonl", "jsonl.partial") /\ job' = Job(s, <<>>, "truncate")
      BY <1>7, <2>2 DEF RecoverOrphan
    <3>2. FilesOrdered'
      BY <1>1, <3>1, OrderedRenamed DEF FileKinds, NeverEmpty
    <3> QED
      BY <1>2, <1>5, <3>1, <3>2, JobBegins DEF Ordered
  <2> QED
    BY <2>1, <2>2
<1>8. CASE RecoverCompressedPartial(s)
  <2> DEFINE f == disk[s]["zst.partial"]
  <2>1. CASE f.torn
    <3>1. Quarantined(s, "zst.partial") /\ job' = job
      BY <1>8, <2>1 DEF RecoverCompressedPartial, Drop
    <3>2. FilesOrdered' /\ JobOrdered'
      BY <1>1, <3>1, OrderedRemoved DEF FileKinds, JobOrdered
    <3> QED
      BY <1>2, <3>2 DEF Ordered
  <2>2. CASE ~f.torn
    <3>1. /\ Renamed(s, "zst.partial", "zst")
          /\ job' = job \/ (f.events # <<>> /\ job' = Job(s, f.events, "describe"))
      BY <1>8, <2>2 DEF RecoverCompressedPartial
    <3>2. FilesOrdered'
      BY <1>1, <3>1, OrderedRenamed DEF FileKinds, NeverEmpty
    <3>3. Increasing(f.events)
      <4>1. Has(s, "zst.partial")
        BY <1>3, <1>8, LoopOf DEF RecoverCompressedPartial
      <4> QED
        BY <1>4, <4>1 DEF FileKinds
    <3>4. JobOrdered'
      <4>1. CASE job' = job
        BY <1>1, <4>1 DEF JobOrdered
      <4>2. CASE job' # job
        BY <3>1, <3>3, <4>2, JobBegins
      <4> QED
        BY <4>1, <4>2
    <3> QED
      BY <1>2, <3>2, <3>4 DEF Ordered
  <2> QED
    BY <2>1, <2>2
<1>9. CASE RecoverCompressed(s)
  <2> DEFINE f == disk[s]["zst"]
  <2>1. CASE Has(s, "manifest")
    <3>1. disk' = disk /\ job' = job
      BY <1>9, <2>1 DEF RecoverCompressed, Skip
    <3> QED
      BY <1>1, <1>2, <3>1, OrderedSame DEF Ordered, JobOrdered
  <2>2. CASE ~Has(s, "manifest") /\ f.events = <<>>
    <3>1. Quarantined(s, "zst") /\ job' = job
      BY <1>9, <2>2 DEF RecoverCompressed, Drop
    <3>2. FilesOrdered' /\ JobOrdered'
      BY <1>1, <3>1, OrderedRemoved DEF FileKinds, JobOrdered
    <3> QED
      BY <1>2, <3>2 DEF Ordered
  <2>3. CASE ~Has(s, "manifest") /\ f.events # <<>>
    <3>1. disk' = disk /\ job' = Job(s, f.events, "describe")
      BY <1>9, <2>3 DEF RecoverCompressed
    <3>2. Increasing(f.events)
      <4>1. Has(s, "zst")
        BY <1>3, <1>9, LoopOf DEF RecoverCompressed
      <4> QED
        BY <1>4, <4>1 DEF FileKinds
    <3>3. JobOrdered'
      BY <2>3, <3>1, <3>2, JobBegins
    <3> QED
      BY <1>1, <1>2, <3>1, <3>3, OrderedSame DEF Ordered
  <2> QED
    BY <2>1, <2>2, <2>3
<1>10. CASE RecoverPart(s)
  <2> DEFINE f == disk[s]["parquet.partial"]
  <2>1. CASE f.torn
    <3>1. Quarantined(s, "parquet.partial") /\ job' = job
      BY <1>10, <2>1 DEF RecoverPart, Drop
    <3>2. FilesOrdered' /\ JobOrdered'
      BY <1>1, <3>1, OrderedRemoved DEF FileKinds, JobOrdered
    <3> QED
      BY <1>2, <3>2 DEF Ordered
  <2>2. CASE ~f.torn
    <3>1. Renamed(s, "parquet.partial", "parquet") /\ job' = Job(s, f.events, "describe")
      BY <1>10, <2>2 DEF RecoverPart
    <3>2. FilesOrdered'
      BY <1>1, <3>1, OrderedRenamed DEF FileKinds, NeverEmpty
    <3>3. Increasing(f.events) /\ f.events # <<>>
      <4>1. Has(s, "parquet.partial")
        BY <1>3, <1>10, LoopOf DEF RecoverPart
      <4> QED
        BY <1>4, <2>2, <4>1 DEF FileKinds, NeverEmpty
    <3>4. JobOrdered'
      BY <3>1, <3>3, JobBegins
    <3> QED
      BY <1>2, <3>2, <3>4 DEF Ordered
  <2> QED
    BY <2>1, <2>2
<1>11. CASE RecoverParquet(s)
  <2> DEFINE f == disk[s]["parquet"]
  <2>1. CASE Has(s, "manifest")
    <3>1. disk' = disk /\ job' = job
      BY <1>11, <2>1 DEF RecoverParquet, Skip
    <3> QED
      BY <1>1, <1>2, <3>1, OrderedSame DEF Ordered, JobOrdered
  <2>2. CASE ~Has(s, "manifest")
    <3>1. disk' = disk /\ job' = Job(s, f.events, "describe")
      BY <1>11, <2>2 DEF RecoverParquet
    <3>2. Has(s, "parquet")
      BY <1>3, <1>11, LoopOf DEF RecoverParquet
    <3>3. ~f.torn
      BY <1>1, <3>2 DEF LayoutOf, RawLayout, PartLayout, Has
    <3>4. Increasing(f.events) /\ f.events # <<>>
      BY <1>4, <3>2, <3>3 DEF FileKinds, NeverEmpty
    <3>5. JobOrdered'
      BY <3>1, <3>4, JobBegins
    <3> QED
      BY <1>1, <1>2, <3>1, <3>5, OrderedSame DEF Ordered
  <2> QED
    BY <2>1, <2>2
<1>12. CASE RecoverManifestPartial(s)
  <2>1. /\ job' = job
        /\ Quarantined(s, "manifest.partial") \/ Renamed(s, "manifest.partial", "manifest")
    BY <1>12 DEF RecoverManifestPartial, Drop
  <2>2. FilesOrdered'
    BY <1>1, <2>1, OrderedRemoved, OrderedRenamed DEF FileKinds, NeverEmpty
  <2> QED
    BY <1>1, <1>2, <2>1, <2>2 DEF Ordered, JobOrdered
<1>13. CASE VerifyManifest(s)
  <2>1. job' = job /\ (disk' = disk \/ Quarantined(s, "manifest"))
    BY <1>13 DEF VerifyManifest, Drop, Skip
  <2>2. FilesOrdered'
    BY <1>1, <2>1, OrderedSame, OrderedRemoved DEF FileKinds
  <2> QED
    BY <1>1, <1>2, <2>1, <2>2 DEF Ordered, JobOrdered
<1> QED
  BY <1>6, <1>7, <1>8, <1>9, <1>10, <1>11, <1>12, <1>13

\* The next event comes after the others.
LEMMA OrderedAppended ==
    ASSUME NEW n \in Nat, n < MaxSequence, NEW e \in Seq(Event), OrderedEvents(e, n) \/ e = <<>>
    PROVE  /\ OrderedEvents(Append(e, n + 1), n + 1) /\ Append(e, n + 1) \in Seq(Event)
           /\ ToSet(Append(e, n + 1)) = ToSet(e) \cup {n + 1}
<1> DEFINE a == Append(e, n + 1)
<1>1. n + 1 \in Event /\ n + 1 \in Nat /\ MaxSequence \in Nat
  BY Values DEF Event
<1>2. /\ a \in Seq(Event) /\ Len(a) = Len(e) + 1 /\ Len(e) \in Nat
      /\ DOMAIN e = 1..Len(e) /\ DOMAIN a = 1..(Len(e) + 1)
      /\ a[Len(e) + 1] = n + 1 /\ \A i \in 1..Len(e) : a[i] = e[i]
  BY <1>1
<1>3. \A i \in 1..Len(e) : e[i] \in 1..n
  <2>1. CASE e = <<>>
    BY <2>1
  <2>2. CASE OrderedEvents(e, n)
    BY <1>2, <2>2 DEF OrderedEvents, ToSet
  <2> QED
    BY <2>1, <2>2
<1>4. \A i, j \in 1..Len(e) : i < j => e[i] < e[j]
  <2>1. CASE e = <<>>
    BY <2>1
  <2>2. CASE OrderedEvents(e, n)
    BY <1>2, <2>2 DEF OrderedEvents, Increasing
  <2> QED
    BY <2>1, <2>2
<1> HIDE DEF a
<1>5. Increasing(a)
  <2> SUFFICES ASSUME NEW i \in 1..(Len(e) + 1), NEW j \in 1..(Len(e) + 1), i < j
               PROVE  a[i] < a[j]
    BY <1>2 DEF Increasing
  <2>1. i \in 1..Len(e)
    BY <1>2
  <2>2. CASE j = Len(e) + 1
    BY <1>1, <1>2, <1>3, <2>1, <2>2
  <2>3. CASE j # Len(e) + 1
    <3>1. j \in 1..Len(e)
      BY <1>2, <2>3
    <3> QED
      BY <1>2, <1>4, <2>1, <3>1
  <2> QED
    BY <2>2, <2>3
<1>6. ToSet(a) = ToSet(e) \cup {n + 1}
  <2>1. \A i \in 1..(Len(e) + 1) : i = Len(e) + 1 \/ i \in 1..Len(e)
    BY <1>2
  <2>2. ToSet(a) \subseteq ToSet(e) \cup {n + 1}
    BY <1>2, <2>1 DEF ToSet
  <2>3. Len(e) + 1 \in DOMAIN a /\ \A i \in 1..Len(e) : i \in DOMAIN a
    BY <1>2
  <2>4. ToSet(e) \cup {n + 1} \subseteq ToSet(a)
    BY <1>2, <2>3 DEF ToSet
  <2> QED
    BY <2>2, <2>4
<1>7. ToSet(a) \subseteq 1..(n + 1)
  <2>1. ToSet(e) \subseteq 1..n
    BY <1>2, <1>3 DEF ToSet
  <2>2. 1..n \subseteq 1..(n + 1) /\ n + 1 \in 1..(n + 1)
    BY <1>1
  <2> QED
    BY <1>6, <2>1, <2>2
<1>8. a # <<>>
  BY <1>2
<1> QED
  BY <1>2, <1>5, <1>6, <1>7, <1>8 DEF OrderedEvents, a

LEMMA OrderedMore ==
    ASSUME NEW n \in Nat, NEW e, OrderedEvents(e, n)
    PROVE  OrderedEvents(e, n + 1)
<1>1. 1..n \subseteq 1..(n + 1)
  OBVIOUS
<1> QED
  BY <1>1 DEF OrderedEvents

LEMMA OrderedOpen ==
    ASSUME IInv, Ordered, NEW st \in streams, Open(st)
    PROVE  Ordered'
<1>1. /\ ~IsOpen(st) /\ sequence < MaxSequence /\ used' = used + 1 /\ sequence' = sequence + 1
      /\ used < MaxSegments
      /\ open' = [open EXCEPT ![st] = [number |-> used + 1, events |-> <<sequence + 1>>]]
      /\ IF st = Snapshots THEN disk' = disk
         ELSE Put(used + 1, "jsonl.partial", File(<<>>, FALSE))
      /\ streams' = streams /\ job' = job
  BY DEF Open
<1>2. Types /\ FilesOrdered /\ OpenOrdered /\ JobOrdered /\ sequence \in Nat /\ used \in Nat
  BY Values DEF IInv, Ordered, Types
<1>3. used + 1 \in Segments
  BY <1>1, <1>2, Values DEF Segments
<1>4. FilesOrdered'
  <2>1. CASE st = Snapshots
    BY <1>1, <1>2, <2>1, OrderedSame
  <2>2. CASE st # Snapshots
    <3>1. Put(used + 1, "jsonl.partial", File(<<>>, FALSE))
      BY <1>1, <2>2
    <3>2. <<>> \in Seq(Event)
      OBVIOUS
    <3> QED
      BY <1>2, <1>3, <3>1, <3>2, OrderedPut, EmptyOrdered DEF FileKinds, NeverEmpty
  <2> QED
    BY <2>1, <2>2
<1>5. OpenOrdered'
  <2> SUFFICES ASSUME NEW t \in streams, open'[t] # NoSegment
               PROVE  OrderedEvents(open'[t].events, sequence + 1)
    BY <1>1 DEF OpenOrdered, IsOpen
  <2>1. CASE t = st
    <3>1. open'[t].events = <<sequence + 1>> /\ <<sequence + 1>> = Append(<<>>, sequence + 1)
      BY <1>1, <1>2, <2>1 DEF Types
    <3>2. <<>> \in Seq(Event)
      OBVIOUS
    <3> QED
      BY <1>1, <1>2, <3>1, <3>2, OrderedAppended
  <2>2. CASE t # st
    <3>1. open'[t] = open[t]
      BY <1>1, <1>2, <2>2 DEF Types
    <3>2. OrderedEvents(open[t].events, sequence)
      BY <1>2, <3>1 DEF OpenOrdered, IsOpen
    <3> QED
      BY <1>2, <3>1, <3>2, OrderedMore
  <2> QED
    BY <2>1, <2>2
<1>6. JobOrdered'
  BY <1>1, <1>2 DEF JobOrdered
<1> QED
  BY <1>4, <1>5, <1>6 DEF Ordered

LEMMA OrderedWrite ==
    ASSUME IInv, Ordered, NEW st \in streams, Write(st)
    PROVE  Ordered'
<1>1. /\ IsOpen(st) /\ sequence < MaxSequence /\ sequence' = sequence + 1
      /\ open' = [open EXCEPT ![st].events = Append(@, sequence + 1)]
      /\ streams' = streams /\ job' = job /\ disk' = disk
  BY DEF Write, names
<1>2. Types /\ FilesOrdered /\ OpenOrdered /\ JobOrdered /\ sequence \in Nat
  BY Values DEF IInv, Ordered, Types
<1>3. FilesOrdered' /\ JobOrdered'
  BY <1>1, <1>2, OrderedSame DEF JobOrdered
<1>4. OpenOrdered'
  <2> SUFFICES ASSUME NEW t \in streams, open'[t] # NoSegment
               PROVE  OrderedEvents(open'[t].events, sequence + 1)
    BY <1>1 DEF OpenOrdered, IsOpen
  <2>1. CASE t = st
    <3> DEFINE e == open[st].events
    <3>1. e \in Seq(Event) /\ open[st] = [number |-> open[st].number, events |-> e]
      BY <1>1, OpenFacts
    <3>2. open'[t].events = Append(e, sequence + 1)
      BY <1>1, <1>2, <2>1, <3>1 DEF Types
    <3>3. OrderedEvents(e, sequence)
      BY <1>1, <1>2 DEF OpenOrdered
    <3> QED
      BY <1>1, <1>2, <3>1, <3>2, <3>3, OrderedAppended
  <2>2. CASE t # st
    <3>1. open'[t] = open[t]
      BY <1>1, <1>2, <2>2 DEF Types
    <3>2. OrderedEvents(open[t].events, sequence)
      BY <1>2, <3>1 DEF OpenOrdered, IsOpen
    <3> QED
      BY <1>2, <3>1, <3>2, OrderedMore
  <2> QED
    BY <2>1, <2>2
<1> QED
  BY <1>3, <1>4 DEF Ordered

LEMMA OrderedFlush ==
    ASSUME IInv, Ordered, Flush
    PROVE  Ordered'
<1> DEFINE Written(s) == \E st \in RawOpen : open[st].number = s
<1>1. /\ disk' = [s \in Segments |->
                    IF Written(s)
                      THEN [disk[s] EXCEPT !["jsonl.partial"] = File(open[streamOf[s]].events, FALSE)]
                      ELSE disk[s]]
      /\ UNCHANGED <<streams, open, sequence>> /\ job' = job
  BY DEF Flush, names
<1>2. Types /\ FilesOrdered /\ OpenOrdered /\ JobOrdered
  BY DEF IInv, Ordered
<1>3. FilesOrdered'
  <2> SUFFICES ASSUME NEW s \in Segments, NEW x \in FileKinds, disk'[s][x] # Absent
               PROVE  OrderedFile(x, disk'[s][x])
    BY DEF FilesOrdered, Has
  <2>1. CASE Written(s) /\ x = "jsonl.partial"
    <3>1. PICK st \in streams : IsOpen(st) /\ open[st].number = s
      BY <2>1 DEF RawOpen
    <3>2. streamOf[s] = st
      BY <3>1, OpenFacts
    <3>3. disk'[s][x] = File(open[st].events, FALSE)
      BY <1>1, <1>2, <2>1, <3>2 DEF Types
    <3>4. Increasing(open[st].events)
      BY <1>2, <3>1 DEF OpenOrdered, OrderedEvents
    <3> QED
      BY <2>1, <3>3, <3>4 DEF OrderedFile, NeverEmpty, File
  <2>2. CASE ~(Written(s) /\ x = "jsonl.partial")
    <3>1. disk'[s][x] = disk[s][x]
      BY <1>1, <1>2, <2>2 DEF Types
    <3> QED
      BY <1>2, <3>1 DEF FilesOrdered, Has
  <2> QED
    BY <2>1, <2>2
<1>4. OpenOrdered' /\ JobOrdered'
  BY <1>1, <1>2, OpenSame DEF JobOrdered
<1> QED
  BY <1>3, <1>4 DEF Ordered

LEMMA OrderedFinalizes ==
    ASSUME IInv, Ordered, NEW st \in streams, Finalizes(st)
    PROVE  Ordered'
<1>1. PICK s \in Segments : s = open[st].number
  BY OpenFacts DEF Finalizes
<1>2. PICK e \in Seq(Event) : e = open[st].events
  BY OpenFacts DEF Finalizes
<1>3. /\ IsOpen(st) /\ open' = [open EXCEPT ![st] = NoSegment]
      /\ st = Snapshots => job' = Job(s, e, "table") /\ disk' = disk
      /\ st # Snapshots => /\ job' = Job(s, e, "rename")
                           /\ Put(s, "jsonl.partial", File(e, FALSE))
      /\ UNCHANGED <<streams, sequence>>
  BY <1>1, <1>2 DEF Finalizes, names
<1>4. Types /\ FilesOrdered /\ OpenOrdered
  BY DEF IInv, Ordered
<1>5. OrderedEvents(e, sequence)
  BY <1>2, <1>3, <1>4 DEF OpenOrdered
<1>6. FilesOrdered'
  <2>1. CASE st = Snapshots
    BY <1>3, <1>4, <2>1, OrderedSame
  <2>2. CASE st # Snapshots
    <3>1. Put(s, "jsonl.partial", File(e, FALSE))
      BY <1>3, <2>2
    <3> QED
      BY <1>4, <1>5, <3>1, OrderedPut DEF FileKinds, OrderedEvents
  <2> QED
    BY <2>1, <2>2
<1>7. OpenOrdered'
  <2> SUFFICES ASSUME NEW t \in streams, open'[t] # NoSegment
               PROVE  OrderedEvents(open'[t].events, sequence)
    BY <1>3 DEF OpenOrdered, IsOpen
  <2>1. open'[t] = open[t]
    BY <1>3, <1>4 DEF Types
  <2> QED
    BY <1>4, <2>1 DEF OpenOrdered, IsOpen
<1>8. JobOrdered'
  BY <1>3, <1>5, JobBegins DEF OrderedEvents
<1> QED
  BY <1>6, <1>7, <1>8 DEF Ordered

\* What is found of a file whose events were being written is in order.
LEMMA RemainsOrdered ==
    ASSUME NEW e \in Seq(Event), Increasing(e), NEW n \in Nat, NEW f \in Remains(e, n)
    PROVE  Increasing(f.events)
<1>1. CASE f = File(e, FALSE)
  BY <1>1 DEF File
<1>2. CASE f # File(e, FALSE)
  <2>1. f \in [events : {SubSeq(e, 1, i) : i \in n..(Len(e) - 1)}, torn : BOOLEAN]
    BY <1>2 DEF Remains
  <2>2. PICK i \in n..(Len(e) - 1) : f.events = SubSeq(e, 1, i)
    BY <2>1
  <2>3. i \in Nat /\ i <= Len(e)
    OBVIOUS
  <2>4. /\ DOMAIN SubSeq(e, 1, i) = 1..i /\ DOMAIN e = 1..Len(e)
        /\ \A j \in 1..i : SubSeq(e, 1, i)[j] = e[j]
    BY <2>3
  <2>5. \A j \in 1..i : j \in 1..Len(e)
    BY <2>3
  <2> QED
    BY <2>2, <2>4, <2>5 DEF Increasing
<1> QED
  BY <1>1, <1>2

LEMMA RemainingOrdered ==
    ASSUME IInv, Ordered, NEW s \in Segments, NEW d \in Remaining(s), NEW x \in FileKinds,
           d[x] # Absent
    PROVE  OrderedFile(x, d[x])
<1>1. /\ disk[s] \in [FileKinds -> AFile \cup {Absent}] /\ kept[s] \in Seq(Event)
      /\ disk[s][x] # Absent => OrderedFile(x, disk[s][x])
  BY DEF IInv, Types, Ordered, FilesOrdered, Has
<1> DEFINE InStep(step) == At(step) /\ job.segment = s
           Opened == s \in {open[st].number : st \in RawOpen}
<1>2. ASSUME NEW y \in FileKinds, NEW f, d = [disk[s] EXCEPT ![y] = f],
             f = Absent \/ OrderedFile(y, f)
      PROVE  OrderedFile(x, d[x])
  <2>1. CASE x = y
    <3>1. d[x] = f
      BY <1>1, <1>2, <2>1
    <3> QED
      BY <1>2, <2>1, <3>1
  <2>2. CASE x # y
    <3>1. d[x] = disk[s][x]
      BY <1>1, <1>2, <2>2
    <3> QED
      BY <1>1, <3>1
  <2> QED
    BY <2>1, <2>2
<1>3. CASE Opened
  <2>1. PICK st \in streams : IsOpen(st) /\ st # Snapshots /\ s = open[st].number
    BY <1>3 DEF RawOpen
  <2>2. PICK e \in Seq(Event) : e = open[st].events
    BY <2>1, OpenFacts
  <2>3. streamOf[s] = st
    BY <2>1, OpenFacts
  <2>4. PICK f \in Remains(e, Len(kept[s])) : d = [disk[s] EXCEPT !["jsonl.partial"] = f]
    <3>1. Remaining(s) = WithOneOf(s, "jsonl.partial", Remains(open[streamOf[s]].events, Len(kept[s])))
      <4>1. ~InStep("compress") /\ ~InStep("table") /\ ~InStep("describe")
        BY <2>1 DEF IInv, OpenOf, Busy, At
      <4> QED
        BY <1>3, <4>1 DEF Remaining
    <3>2. d \in WithOneOf(s, "jsonl.partial", Remains(e, Len(kept[s])))
      BY <2>1, <2>2, <2>3, <3>1
    <3> QED
      BY <3>2 DEF WithOneOf
  <2>5. Increasing(e)
    BY <2>1, <2>2 DEF Ordered, OpenOrdered, OrderedEvents
  <2>6. Increasing(f.events)
    BY <1>1, <2>2, <2>5, RemainsOrdered
  <2>7. OrderedFile("jsonl.partial", f)
    BY <2>6 DEF OrderedFile, NeverEmpty
  <2> QED
    BY <1>2, <2>4, <2>7 DEF FileKinds
<1>4. CASE ~Opened /\ InStep("compress")
  <2>1. PICK e \in Seq(Event) : e = job.events
    BY <1>4, JobFacts DEF At
  <2>2. PICK f \in Remains(e, 0) : d = [disk[s] EXCEPT !["zst.partial"] = f]
    <3>1. Remaining(s) = WithOneOf(s, "zst.partial", Remains(e, 0))
      BY <1>4, <2>1 DEF Remaining, At
    <3> QED
      BY <3>1 DEF WithOneOf
  <2>3. Increasing(e)
    BY <1>4, <2>1 DEF Ordered, JobOrdered, At
  <2>4. Increasing(f.events)
    BY <2>1, <2>3, RemainsOrdered
  <2>5. OrderedFile("zst.partial", f)
    BY <2>4 DEF OrderedFile, NeverEmpty
  <2> QED
    BY <1>2, <2>2, <2>5 DEF FileKinds
<1>5. CASE ~Opened /\ InStep("table")
  <2>1. PICK f \in {Absent, File(<<>>, TRUE)} : d = [disk[s] EXCEPT !["parquet.partial"] = f]
    <3>1. Remaining(s) = WithOneOf(s, "parquet.partial", {Absent, File(<<>>, TRUE)})
      BY <1>5 DEF Remaining, At
    <3> QED
      BY <3>1 DEF WithOneOf
  <2>2. f = Absent \/ OrderedFile("parquet.partial", f)
    BY <2>1, EmptyOrdered
  <2> QED
    BY <1>2, <2>1, <2>2 DEF FileKinds
<1>6. CASE ~Opened /\ InStep("describe")
  <2>1. PICK f \in {disk[s]["manifest.partial"], File(<<>>, TRUE)} :
          d = [disk[s] EXCEPT !["manifest.partial"] = f]
    <3>1. Remaining(s) = WithOneOf(s, "manifest.partial",
                                   {disk[s]["manifest.partial"], File(<<>>, TRUE)})
      BY <1>6 DEF Remaining, At
    <3> QED
      BY <3>1 DEF WithOneOf
  <2>2. f = Absent \/ OrderedFile("manifest.partial", f)
    BY <2>1, EmptyOrdered DEF Ordered, FilesOrdered, Has, FileKinds
  <2> QED
    BY <1>2, <2>1, <2>2 DEF FileKinds
<1>7. CASE ~Opened /\ ~InStep("compress") /\ ~InStep("table") /\ ~InStep("describe")
  <2>1. Remaining(s) = {disk[s]}
    BY <1>7 DEF Remaining
  <2> QED
    BY <1>1, <2>1
<1> QED
  BY <1>3, <1>4, <1>5, <1>6, <1>7

LEMMA OrderedCrash ==
    ASSUME IInv, Ordered, Crash
    PROVE  Ordered'
<1> DEFINE written == {s \in Segments : Remaining(s) # {disk[s]}}
<1>1. /\ open' = [st \in streams |-> NoSegment] /\ job' = NoJob /\ streams' = streams
  BY DEF Crash, names
<1>2. PICK found \in [written -> UNION {Remaining(s) : s \in written}] :
         /\ \A s \in written : found[s] \in Remaining(s)
         /\ disk' = [s \in Segments |-> IF s \in written THEN found[s] ELSE disk[s]]
  BY DEF Crash
<1>3. ASSUME NEW s \in Segments PROVE disk'[s] \in Remaining(s)
  <2>1. CASE s \in written
    BY <1>2, <2>1
  <2>2. CASE s \notin written
    BY <1>2, <2>2
  <2> QED
    BY <2>1, <2>2
<1>4. FilesOrdered'
  <2> SUFFICES ASSUME NEW s \in Segments, NEW x \in FileKinds, disk'[s][x] # Absent
               PROVE  OrderedFile(x, disk'[s][x])
    BY DEF FilesOrdered, Has
  <2>1. PICK d \in Remaining(s) : d = disk'[s]
    BY <1>3
  <2>2. OrderedFile(x, d[x])
    BY <2>1, RemainingOrdered
  <2> QED
    BY <2>1, <2>2
<1>5. OpenOrdered' /\ JobOrdered'
  BY <1>1 DEF OpenOrdered, JobOrdered, IsOpen
<1> QED
  BY <1>4, <1>5 DEF Ordered

LEMMA OrderedStart ==
    ASSUME IInv, Ordered, Start
    PROVE  Ordered'
<1>1. pc = "down" /\ UNCHANGED <<streams, disk, open, job>>
  BY DEF Start, names
<1>2. \A st \in streams : ~IsOpen(st)
  BY <1>1 DEF IInv, OpenOf
<1>3. OpenOrdered'
  BY <1>1, <1>2 DEF OpenOrdered, IsOpen
<1> QED
  BY <1>1, <1>3, OrderedSame DEF Ordered, JobOrdered

LEMMA OrderedInit ==
    ASSUME Init
    PROVE  Ordered
<1>1. /\ disk = [s \in Segments |-> [x \in FileKinds |-> Absent]]
      /\ open = [st \in streams |-> NoSegment] /\ job = NoJob
  BY DEF Init
<1> QED
  BY <1>1 DEF Ordered, FilesOrdered, OpenOrdered, JobOrdered, Has, IsOpen

LEMMA OrderedStep ==
    ASSUME IInv, Ordered, [Next]_vars
    PROVE  Ordered'
<1>1. ASSUME NEW st \in streams, Rotate(st) \/ Close(st) PROVE Ordered'
  BY <1>1, OrderedFinalizes DEF Rotate, Close
<1>2. CASE UNCHANGED <<streams, disk, open, sequence, job>>
  BY <1>2, OrderedSame, OpenSame DEF Ordered, JobOrdered
<1>3. CASE UNCHANGED vars
  BY <1>2, <1>3 DEF vars, names
<1>4. CASE Exit \/ NextLoop
  BY <1>2, <1>4 DEF Exit, NextLoop, names
<1>5. CASE Recover
  BY <1>4, <1>5, OrderedRecovery, OrderedLoop DEF Recover
<1>6. CASE \E st \in streams : Open(st) \/ Write(st) \/ Rotate(st) \/ Close(st)
  BY <1>1, <1>6, OrderedOpen, OrderedWrite
<1> QED
  BY <1>3, <1>4, <1>5, <1>6, OrderedFlush, OrderedFinalize, OrderedStart, OrderedCrash DEF Next

-----------------------------------------------------------------------------
(* A log that one process has written, and nothing has interrupted.        *)

\* The events written to segment s, the buffered ones included
Content(s) == IF s \in OpenSegments THEN open[streamOf[s]].events ELSE kept[s]

Contents == [s \in 1..used |-> Content(s)]

\* The sequences c of u segments hold each number from 1 to n in one of them.
Numbered(c, u, n) ==
    /\ \A s \in 1..u : OrderedEvents(c[s], n)
    /\ \A x \in 1..n : \E s \in 1..u : x \in ToSet(c[s])
    /\ \A s, t \in 1..u : s # t => ToSet(c[s]) \cap ToSet(c[t]) = {}

\* The segments of a stream follow each other.
InOrder(c, u, of) ==
    \A s, t \in 1..u : s < t /\ of[s] = of[t] => \A x \in ToSet(c[s]), y \in ToSet(c[t]) : x < y

Clean == crashes = 0 /\ ~restarted /\ Snapshots \notin streams

NotRecovering == pc \in ToSet(Names) => used = 0
LastIsOpen == \A s, t \in 1..used : s < t /\ streamOf[s] = streamOf[t] => s \notin OpenSegments
JobIsKept ==
    job # NoJob => /\ job.events = kept[job.segment]
                   /\ job.step = "done" => Holds(job.segment, "zst", job.events)
Closed(s) == Has(s, "manifest") /\ Holds(s, "zst", kept[s])
RestIsClosed == \A s \in 1..used : s \in OpenSegments \/ Busy(s) \/ Closed(s)

CleanLog ==
    /\ NotRecovering
    /\ Numbered(Contents, used, sequence) /\ InOrder(Contents, used, streamOf)
    /\ LastIsOpen /\ JobIsKept /\ RestIsClosed

LEMMA NumberedNew ==
    ASSUME NEW u \in Nat, NEW n \in Nat, NEW c, Numbered(c, u, n), n < MaxSequence,
           NEW d, \A s \in 1..u : d[s] = c[s], d[u + 1] = <<n + 1>>,
           NEW of, NEW as, InOrder(c, u, of), \A s \in 1..u : as[s] = of[s]
    PROVE  Numbered(d, u + 1, n + 1) /\ InOrder(d, u + 1, as)
<1>1. OrderedEvents(<<n + 1>>, n + 1) /\ ToSet(<<n + 1>>) = {n + 1}
  <2>1. <<>> \in Seq(Event) /\ Append(<<>>, n + 1) = <<n + 1>> /\ ToSet(<<>>) = {}
    BY DEF ToSet
  <2> QED
    BY <2>1, OrderedAppended
<1>2. \A s \in 1..u : OrderedEvents(d[s], n + 1) /\ ToSet(d[s]) \subseteq 1..n
  BY OrderedMore DEF Numbered, OrderedEvents
<1>3. \A s \in 1..(u + 1) : s \in 1..u \/ s = u + 1
  OBVIOUS
<1>4. \A s \in 1..(u + 1) : OrderedEvents(d[s], n + 1)
  BY <1>1, <1>2, <1>3
<1>5. \A x \in 1..(n + 1) : \E s \in 1..(u + 1) : x \in ToSet(d[s])
  <2> SUFFICES ASSUME NEW x \in 1..(n + 1) PROVE \E s \in 1..(u + 1) : x \in ToSet(d[s])
    OBVIOUS
  <2>1. CASE x = n + 1
    BY <1>1, <2>1
  <2>2. CASE x # n + 1
    <3>1. x \in 1..n
      BY <2>2
    <3>2. PICK s \in 1..u : x \in ToSet(c[s])
      BY <3>1 DEF Numbered
    <3> QED
      BY <3>2
  <2> QED
    BY <2>1, <2>2
<1>6. \A s \in 1..u : ToSet(d[s]) \cap {n + 1} = {}
  <2>1. n + 1 \notin 1..n
    OBVIOUS
  <2> QED
    BY <1>2, <2>1
<1>7. ASSUME NEW s \in 1..(u + 1), NEW t \in 1..(u + 1), s # t
      PROVE  ToSet(d[s]) \cap ToSet(d[t]) = {}
  <2>1. CASE s \in 1..u /\ t \in 1..u
    BY <1>7, <2>1 DEF Numbered
  <2>2. CASE s = u + 1 /\ t \in 1..u
    BY <1>1, <1>6, <2>2
  <2>3. CASE t = u + 1 /\ s \in 1..u
    BY <1>1, <1>6, <2>3
  <2> QED
    BY <1>3, <1>7, <2>1, <2>2, <2>3
<1>8. ASSUME NEW s \in 1..(u + 1), NEW t \in 1..(u + 1), s < t, as[s] = as[t],
             NEW x \in ToSet(d[s]), NEW y \in ToSet(d[t])
      PROVE  x < y
  <2>1. s \in 1..u
    BY <1>8
  <2>2. CASE t \in 1..u
    BY <1>8, <2>1, <2>2 DEF InOrder
  <2>3. CASE t = u + 1
    <3>1. x \in 1..n /\ y = n + 1
      BY <1>1, <1>2, <2>1, <2>3
    <3> QED
      BY <3>1
  <2> QED
    BY <1>3, <2>2, <2>3
<1>9. InOrder(d, u + 1, as)
  BY <1>8 DEF InOrder
<1>10. Numbered(d, u + 1, n + 1)
  BY <1>4, <1>5, <1>7 DEF Numbered
<1> QED
  BY <1>9, <1>10

LEMMA NumberedMore ==
    ASSUME NEW u \in Nat, NEW n \in Nat, NEW c, Numbered(c, u, n), n < MaxSequence,
           NEW m \in 1..u, c[m] \in Seq(Event),
           NEW d, \A s \in 1..u : s # m => d[s] = c[s], d[m] = Append(c[m], n + 1),
           NEW of, InOrder(c, u, of), \A t \in 1..u : m < t => of[m] # of[t]
    PROVE  Numbered(d, u, n + 1) /\ InOrder(d, u, of)
<1>1. OrderedEvents(d[m], n + 1) /\ ToSet(d[m]) = ToSet(c[m]) \cup {n + 1}
  BY OrderedAppended DEF Numbered
<1>2. \A s \in 1..u : ToSet(c[s]) \subseteq 1..n /\ OrderedEvents(c[s], n + 1)
  BY OrderedMore DEF Numbered, OrderedEvents
<1>3. \A s \in 1..u : OrderedEvents(d[s], n + 1)
  BY <1>1, <1>2
<1>4. n + 1 \notin 1..n
  OBVIOUS
<1>5. ASSUME NEW x \in 1..(n + 1) PROVE \E s \in 1..u : x \in ToSet(d[s])
  <2>1. CASE x = n + 1
    BY <1>1, <2>1
  <2>2. CASE x # n + 1
    <3>1. x \in 1..n
      BY <2>2
    <3>2. PICK s \in 1..u : x \in ToSet(c[s])
      BY <3>1 DEF Numbered
    <3> QED
      BY <1>1, <3>2
  <2> QED
    BY <2>1, <2>2
<1>6. ASSUME NEW s \in 1..u, NEW t \in 1..u, s # t PROVE ToSet(d[s]) \cap ToSet(d[t]) = {}
  <2>1. ToSet(c[s]) \cap ToSet(c[t]) = {}
    BY <1>6 DEF Numbered
  <2>2. n + 1 \notin ToSet(c[s]) /\ n + 1 \notin ToSet(c[t])
    BY <1>2, <1>4
  <2>3. ToSet(d[s]) \subseteq ToSet(c[s]) \cup {n + 1} /\ ToSet(d[t]) \subseteq ToSet(c[t]) \cup {n + 1}
    BY <1>1
  <2>4. s # m => ToSet(d[s]) = ToSet(c[s])
    OBVIOUS
  <2>5. t # m => ToSet(d[t]) = ToSet(c[t])
    OBVIOUS
  <2> QED
    BY <1>6, <2>1, <2>2, <2>3, <2>4, <2>5
<1>7. ASSUME NEW s \in 1..u, NEW t \in 1..u, s < t, of[s] = of[t],
             NEW x \in ToSet(d[s]), NEW y \in ToSet(d[t])
      PROVE  x < y
  <2>1. s # m
    BY <1>7
  <2>2. x \in ToSet(c[s]) /\ x \in 1..n
    BY <1>2, <2>1
  <2>3. CASE y \in ToSet(c[t])
    BY <1>7, <2>2, <2>3 DEF InOrder
  <2>4. CASE y \notin ToSet(c[t])
    <3>1. y = n + 1
      BY <1>1, <2>4
    <3> QED
      BY <2>2, <3>1
  <2> QED
    BY <2>3, <2>4
<1>8. InOrder(d, u, of)
  BY <1>7 DEF InOrder
<1>9. Numbered(d, u, n + 1)
  BY <1>3, <1>5, <1>6 DEF Numbered
<1> QED
  BY <1>8, <1>9

\* Segments of a clean log are raw, and the recovery finds none.
LEMMA CleanFacts ==
    ASSUME IInv, Clean, CleanLog
    PROVE  /\ used \in Nat /\ sequence \in Nat /\ \A s \in 1..used : s \in Segments /\ Root(s) = "raw"
           /\ todo # {} => pc \notin ToSet(Names)
           /\ job # NoJob => pc \in {"running", "closing"}
<1>1. used \in 0..MaxSegments /\ sequence \in 0..MaxSequence /\ todo \subseteq 1..used
  BY DEF IInv, Types
<1>2. used \in Nat /\ sequence \in Nat /\ \A s \in 1..used : s \in Segments /\ s <= used
  BY <1>1, Values DEF Segments
<1>3. ASSUME NEW s \in 1..used PROVE Root(s) = "raw"
  <2>1. LayoutOf(s)
    BY <1>2 DEF IInv
  <2>2. streamOf[s] # Snapshots
    BY <1>2, <2>1 DEF LayoutOf, Clean
  <2> QED
    BY <2>2 DEF Root
<1>4. pc \in ToSet(Names) => 1..used = {}
  BY DEF CleanLog, NotRecovering
<1>5. ASSUME job # NoJob PROVE pc \in {"running", "closing"}
  <2>1. job.segment \in 1..used
    BY <1>5, JobFacts
  <2>2. pc \notin ToSet(Names)
    BY <1>4, <2>1
  <2>3. JobStep(job.segment, job.events, job.step)
    BY <1>5 DEF IInv, JobOK
  <2>4. pc \in {"1", "2", "3", "4", "7", "8", "running", "closing"}
    BY <2>3 DEF JobStep, RawJob, PartJob
  <2> QED
    BY <2>2, <2>4, Phases
<1> QED
  BY <1>1, <1>2, <1>3, <1>4, <1>5

LEMMA ContentsSame ==
    ASSUME Types, UNCHANGED <<streams, streamOf, open, used, kept>>
    PROVE  Contents' = Contents /\ OpenSegments' = OpenSegments
<1>1. OpenSegments' = OpenSegments
  BY DEF OpenSegments, IsOpen
<1>2. \A s : Content(s)' = Content(s)
  BY <1>1 DEF Content
<1> QED
  BY <1>1, <1>2 DEF Contents

\* A step of finalizing a segment leaves what has been written.
LEMMA CleanFinalize ==
    ASSUME IInv, Clean, CleanLog, Finalize
    PROVE  CleanLog'
<1>1. job # NoJob /\ Types
  BY DEF Finalize, Table, Rename, Create, Compress, PublishSegment, Describe, Commit, Unlink, Done,
         At, IInv
<1>2. PICK s \in Segments : s = job.segment
  BY <1>1, JobFacts
<1>3. PICK e \in Seq(Event) : e = job.events
  BY <1>1, JobFacts
<1>4. /\ s \in 1..used /\ s \notin OpenSegments /\ Root(s) = "raw" /\ pc \in {"running", "closing"}
      /\ RawJob(disk[s], e, job.step) /\ RawLayout(disk[s]) /\ e = kept[s]
  <2>1. s \in 1..used /\ s \notin OpenSegments
    BY <1>1, <1>2, JobFacts
  <2>2. Root(s) = "raw" /\ pc \in {"running", "closing"}
    BY <1>1, <2>1, CleanFacts
  <2>3. RawJob(disk[s], e, job.step) /\ RawLayout(disk[s])
    BY <1>1, <1>2, <1>3, <2>2, Before
  <2> QED
    BY <1>1, <1>2, <1>3, <2>1, <2>2, <2>3 DEF CleanLog, JobIsKept
<1>5. ~Table
  BY <1>4 DEF Table, At, RawJob
<1>6. UNCHANGED <<streams, streamOf, open, sequence, used, pc, kept>>
  BY <1>5 DEF Finalize, Rename, Create, Compress, PublishSegment, Describe, Commit, Unlink,
         Done, unchangedByStep, notOnDisk, names
<1>7. Contents' = Contents /\ OpenSegments' = OpenSegments
  BY <1>1, <1>6, ContentsSame
<1>8. NotRecovering' /\ Numbered(Contents, used, sequence)' /\ InOrder(Contents, used, streamOf)'
      /\ LastIsOpen'
  BY <1>6, <1>7 DEF CleanLog, NotRecovering, LastIsOpen
<1>9. \A t \in Segments \ {s} : disk'[t] = disk[t]
  <2>1. CASE \E x, f : Put(s, x, f)
    BY <1>1, <2>1 DEF Put, Types
  <2>2. CASE \E x, y : Renamed(s, x, y)
    BY <1>1, <2>2 DEF Renamed, Types
  <2>3. CASE disk' = disk
    BY <2>3
  <2> QED
    BY <1>2, <1>5, <2>1, <2>2, <2>3 DEF Finalize, Rename, Create, Compress, PublishSegment,
       Describe, Commit, Unlink, Done
<1>10. \A t \in Segments \ {s} : Closed(t) => Closed(t)'
  BY <1>6, <1>9 DEF Closed, Has, Holds
<1>11. \A t \in Segments \ {s} : ~Busy(t)
  BY <1>2 DEF Busy
<1>12. CASE Done
  <2>1. job.step = "done" /\ job' = NoJob /\ disk' = disk
    BY <1>12 DEF Done, At
  <2>2. Closed(s)
    <3>1. Holds(s, "zst", e)
      BY <1>1, <1>2, <1>3, <2>1 DEF CleanLog, JobIsKept
    <3>2. disk[s]["manifest"] # Absent
      BY <1>4, <2>1 DEF RawJob
    <3> QED
      BY <1>4, <3>1, <3>2 DEF Closed, Has
  <2>3. Closed(s)'
    BY <1>6, <2>1, <2>2 DEF Closed, Has, Holds
  <2>4. RestIsClosed'
    <3>1. \A t \in 1..used : t \in Segments
      BY CleanFacts
    <3> QED
      BY <1>6, <1>7, <1>10, <1>11, <2>3, <3>1 DEF CleanLog, RestIsClosed
  <2>5. JobIsKept'
    BY <2>1 DEF JobIsKept
  <2> QED
    BY <1>8, <2>4, <2>5 DEF CleanLog
<1>13. CASE ~Done
  <2>1. PICK step \in Steps : Step(step)
    BY <1>5, <1>13 DEF Finalize, Rename, Create, Compress, PublishSegment, Describe, Commit,
       Unlink, Steps
  <2>2. /\ job' # NoJob /\ job'.segment = s /\ job'.events = e /\ job'.step = step
    BY <1>1, <1>2, <1>3, <2>1, NextStep
  <2>3. job'.step = "done" => disk'[s]["zst"] = File(e, FALSE)
    <3>1. CASE Unlink
      <4>1. Put(s, "jsonl", Absent) /\ job.step = "unlink"
        BY <1>2, <3>1 DEF Unlink, At
      <4>2. disk'[s]["zst"] = disk[s]["zst"]
        BY <1>1, <4>1 DEF Put, Types, FileKinds
      <4> QED
        BY <1>4, <4>1, <4>2 DEF RawJob
    <3>2. CASE Commit
      <4>1. Step("unlink")
        <5>1. pc \notin {"3", "4"}
          BY <1>4
        <5> QED
          BY <1>2, <1>4, <3>2, <5>1 DEF Commit
      <4>2. "unlink" \in Steps
        BY DEF Steps
      <4>3. job'.step = "unlink"
        BY <1>1, <4>1, <4>2, NextStep
      <4> QED
        BY <4>3
    <3>3. CASE ~Unlink /\ ~Commit
      <4>1. PICK st2 \in {"create", "compress", "publish", "describe", "commit"} : Step(st2)
        BY <1>5, <1>13, <3>3 DEF Finalize, Rename, Create, Compress, PublishSegment, Describe
      <4>2. st2 \in Steps
        BY DEF Steps
      <4>3. job'.step = st2
        BY <1>1, <4>1, <4>2, NextStep
      <4> QED
        BY <4>1, <4>3
    <3> QED
      BY <3>1, <3>2, <3>3
  <2>4. JobIsKept'
    BY <1>4, <1>6, <2>2, <2>3 DEF JobIsKept, Holds
  <2>5. RestIsClosed'
    <3>1. \A t \in 1..used : t \in Segments
      BY CleanFacts
    <3>2. Busy(s)'
      BY <2>2 DEF Busy
    <3> QED
      BY <1>6, <1>7, <1>10, <1>11, <3>1, <3>2 DEF CleanLog, RestIsClosed
  <2> QED
    BY <1>8, <2>4, <2>5 DEF CleanLog
<1> QED
  BY <1>12, <1>13

\* A process that starts has written nothing yet, or another one has before it.
LEMMA CleanStart ==
    ASSUME IInv, Start, Clean'
    PROVE  CleanLog'
<1>1. pc = "down" /\ pc' = "1" /\ sequence' = 0 /\ (used > 0) = restarted'
      /\ UNCHANGED <<names, disk, open, used, job, kept>>
  BY DEF Start
<1>2. used = 0
  <2>1. ~(used > 0)
    BY <1>1 DEF Clean
  <2>2. used \in Nat
    BY Values DEF IInv, Types
  <2> QED
    BY <2>1, <2>2
<1>3. job = NoJob
  BY <1>1 DEF IInv, JobOK, JobStep, RawJob, PartJob
<1>4. used' = 0 /\ 1..used' = {} /\ 1..sequence' = {} /\ job' = NoJob
  BY <1>1, <1>2, <1>3
<1>5. Numbered(Contents, used, sequence)' /\ InOrder(Contents, used, streamOf)'
  BY <1>4 DEF Numbered, InOrder
<1>6. NotRecovering' /\ LastIsOpen' /\ JobIsKept' /\ RestIsClosed'
  BY <1>4 DEF NotRecovering, LastIsOpen, JobIsKept, RestIsClosed
<1> QED
  BY <1>5, <1>6 DEF CleanLog

\* The recovery has nothing to do.
LEMMA CleanRecover ==
    ASSUME IInv, Clean, CleanLog, Recover
    PROVE  CleanLog'
<1>1. Types /\ (todo # {} => pc \notin ToSet(Names)) /\ (job # NoJob => pc \in {"running", "closing"})
      /\ \A s \in Segments : s \in 1..used => Root(s) = "raw"
  BY CleanFacts DEF IInv
<1>2. ToSet(Names) = {"1", "2", "3", "4", "5", "6", "7", "8", "9", "10"}
  BY Phases
<1>3. ~StartFails /\ ~OrphanFails
  BY <1>1 DEF StartFails, OrphanFails, At
<1>4. ~Truncate
  <2> SUFFICES ASSUME Truncate PROVE FALSE
    OBVIOUS
  <2>1. job # NoJob /\ job.step = "truncate"
    BY DEF Truncate, At
  <2>2. JobStep(job.segment, job.events, "truncate")
    BY <2>1 DEF IInv, JobOK
  <2>3. pc \in {"1", "2"}
    BY <2>2 DEF JobStep, RawJob, PartJob
  <2> QED
    BY <1>1, <2>1, <2>3
<1>5. ASSUME NEW s \in Segments, NEW loops \in SUBSET ToSet(Names) PROVE ~Taken(loops, s)
  BY <1>1, <1>5 DEF Taken
<1>6. ASSUME NEW s \in Segments
      PROVE  ~ (\/ RecoverPartial(s) \/ RecoverOrphan(s)
                \/ RecoverCompressedPartial(s) \/ RecoverCompressed(s)
                \/ RecoverPart(s) \/ RecoverParquet(s)
                \/ RecoverManifestPartial(s) \/ VerifyManifest(s))
  BY <1>2, <1>5 DEF RecoverPartial, RecoverOrphan, RecoverCompressedPartial, RecoverCompressed,
     RecoverPart, RecoverParquet, RecoverManifestPartial, VerifyManifest
<1>7. NextLoop
  BY <1>3, <1>4, <1>6 DEF Recover
<1>8. UNCHANGED <<streams, streamOf, disk, open, sequence, used, job, kept>> /\ pc \in ToSet(Names)
  <2>1. UNCHANGED <<streams, streamOf, disk, open, sequence, used, job, kept>>
    BY <1>7 DEF NextLoop, names
  <2>2. \E i \in DOMAIN Names : pc = Names[i]
    BY <1>7 DEF NextLoop
  <2> QED
    BY <2>1, <2>2 DEF ToSet
<1>9. Contents' = Contents /\ OpenSegments' = OpenSegments
  BY <1>1, <1>8, ContentsSame
<1>10. used = 0
  BY <1>8 DEF CleanLog, NotRecovering
<1>11. NotRecovering'
  BY <1>8, <1>10 DEF NotRecovering
<1>12. LastIsOpen' /\ JobIsKept' /\ RestIsClosed'
  BY <1>8, <1>9 DEF CleanLog, LastIsOpen, JobIsKept, RestIsClosed, Holds, Has, Busy, Closed
<1>13. Numbered(Contents, used, sequence)' /\ InOrder(Contents, used, streamOf)'
  BY <1>8, <1>9 DEF CleanLog
<1> QED
  BY <1>11, <1>12, <1>13 DEF CleanLog

\* What an open segment is, of a clean log
LEMMA OpenIs ==
    ASSUME IInv, NEW s \in OpenSegments
    PROVE  /\ s \in 1..used /\ streamOf[s] \in streams /\ IsOpen(streamOf[s])
           /\ open[streamOf[s]].number = s
<1>1. PICK st \in streams : IsOpen(st) /\ s = open[st].number
  BY DEF OpenSegments
<1>2. s \in Segments /\ s <= used /\ streamOf[s] = st
  BY <1>1, OpenFacts
<1>3. used \in Nat
  BY Values DEF IInv, Types
<1> QED
  BY <1>1, <1>2, <1>3 DEF Segments

LEMMA CleanOpen ==
    ASSUME IInv, Clean, CleanLog, NEW st \in streams, Open(st)
    PROVE  CleanLog'
<1>1. /\ pc' = "running" /\ job = NoJob /\ job' = NoJob /\ ~IsOpen(st)
      /\ sequence < MaxSequence /\ sequence' = sequence + 1
      /\ used < MaxSegments /\ used' = used + 1
      /\ open' = [open EXCEPT ![st] = [number |-> used + 1, events |-> <<sequence + 1>>]]
      /\ streamOf' = [streamOf EXCEPT ![used + 1] = st]
      /\ Put(used + 1, "jsonl.partial", File(<<>>, FALSE))
      /\ streams' = streams /\ kept' = kept
  BY DEF Open, Running, Clean
<1>2. /\ Types /\ used \in Nat /\ sequence \in Nat /\ used + 1 \in Segments
      /\ \A s \in 1..used : s \in Segments /\ s # used + 1
  <2>1. Types /\ used \in Nat /\ sequence \in Nat
    BY CleanFacts DEF IInv
  <2> QED
    BY <1>1, <2>1, Values DEF Segments
<1>3. /\ \A t \in streams : t # st => open'[t] = open[t]
      /\ open'[st] = [number |-> used + 1, events |-> <<sequence + 1>>]
      /\ streamOf'[used + 1] = st /\ \A s \in 1..used : streamOf'[s] = streamOf[s]
      /\ \A s \in 1..used : disk'[s] = disk[s]
  BY <1>1, <1>2 DEF Types, Put
<1>4. open'[st] # NoSegment
  <2>1. PICK n \in Event : n = sequence + 1
    BY <1>1, <1>2, Values DEF Event
  <2>2. <<n>> \in Seq(Event)
    OBVIOUS
  <2>3. [number |-> used + 1, events |-> <<n>>] # NoSegment
    BY <1>2, <2>2, Values
  <2> QED
    BY <1>3, <2>1, <2>3
<1>5. ASSUME NEW s PROVE s \in OpenSegments' <=> s \in OpenSegments \/ s = used + 1
  <2>1. CASE s \in OpenSegments'
    <3>1. PICK t \in streams : open'[t] # NoSegment /\ s = open'[t].number
      BY <1>1, <2>1 DEF OpenSegments, IsOpen
    <3>2. CASE t = st
      BY <1>3, <2>1, <3>1, <3>2
    <3>3. CASE t # st
      BY <1>3, <2>1, <3>1, <3>3 DEF OpenSegments, IsOpen
    <3> QED
      BY <2>1, <3>2, <3>3
  <2>2. CASE s \in OpenSegments
    <3>1. PICK t \in streams : open[t] # NoSegment /\ s = open[t].number
      BY <2>2 DEF OpenSegments, IsOpen
    <3>2. open'[t] = open[t]
      BY <1>1, <1>3, <3>1 DEF IsOpen
    <3> QED
      BY <1>1, <2>2, <3>1, <3>2 DEF OpenSegments, IsOpen
  <2>3. CASE s = used + 1
    <3>1. s = open'[st].number
      BY <1>3, <2>3
    <3> QED
      BY <1>1, <1>4, <2>3, <3>1 DEF OpenSegments, IsOpen
  <2> QED
    BY <2>1, <2>2, <2>3
<1>6. used + 1 \notin OpenSegments
  <2>1. used + 1 \notin 1..used
    BY <1>2
  <2> QED
    BY <2>1, OpenIs
<1>7. PICK d : d = Contents'
  OBVIOUS
<1>8. PICK as : as = streamOf'
  OBVIOUS
<1>9. ASSUME NEW s \in 1..used PROVE d[s] = Contents[s] /\ as[s] = streamOf[s]
  <2>1. s \in 1..used' /\ s # used + 1
    BY <1>1, <1>2
  <2>2. d[s] = Content(s)'
    BY <1>7, <2>1 DEF Contents
  <2>3. Content(s)' = Content(s)
    <3>1. CASE s \in OpenSegments
      <4>1. streamOf[s] \in streams /\ streamOf[s] # st
        BY <1>1, <3>1, OpenIs
      <4> QED
        BY <1>3, <1>5, <3>1, <4>1 DEF Content
    <3>2. CASE s \notin OpenSegments
      BY <1>1, <1>5, <2>1, <3>2 DEF Content
    <3> QED
      BY <3>1, <3>2
  <2> QED
    BY <1>3, <1>8, <2>2, <2>3 DEF Contents
<1>10. d[used + 1] = <<sequence + 1>>
  <2>1. PICK n \in 1..used' : n = used + 1
    BY <1>1, <1>2
  <2>2. d[n] = Content(n)'
    BY <1>7 DEF Contents
  <2>3. Content(n)' = open'[st].events
    BY <1>3, <1>5, <2>1 DEF Content
  <2> QED
    BY <1>3, <2>1, <2>2, <2>3
<1>11. Numbered(Contents, used, sequence)' /\ InOrder(Contents, used, streamOf)'
  <2>1. Numbered(Contents, used, sequence) /\ InOrder(Contents, used, streamOf)
    BY DEF CleanLog
  <2>2. Numbered(d, used + 1, sequence + 1) /\ InOrder(d, used + 1, as)
    BY <1>1, <1>2, <1>9, <1>10, <2>1, NumberedNew
  <2> QED
    BY <1>1, <1>7, <1>8, <2>2
<1>12. LastIsOpen'
  <2> SUFFICES ASSUME NEW s \in 1..(used + 1), NEW t \in 1..(used + 1), s < t,
                      streamOf'[s] = streamOf'[t], s \in OpenSegments'
               PROVE  FALSE
    BY <1>1 DEF LastIsOpen
  <2>1. s \in 1..used /\ s \in OpenSegments
    BY <1>2, <1>5
  <2>2. CASE t \in 1..used
    BY <1>3, <2>1, <2>2 DEF CleanLog, LastIsOpen
  <2>3. CASE t = used + 1
    <3>1. streamOf[s] = st
      BY <1>3, <2>1, <2>3
    <3> QED
      BY <1>1, <2>1, <3>1, OpenIs
  <2> QED
    BY <1>2, <2>2, <2>3
<1>13. RestIsClosed'
  <2> SUFFICES ASSUME NEW s \in 1..(used + 1), s \notin OpenSegments' PROVE Closed(s)'
    BY <1>1 DEF RestIsClosed
  <2>1. s \in 1..used /\ s \notin OpenSegments
    BY <1>2, <1>5
  <2>2. Closed(s)
    BY <1>1, <2>1 DEF CleanLog, RestIsClosed, Busy
  <2> QED
    BY <1>1, <1>3, <2>1, <2>2 DEF Closed, Has, Holds
<1>14. NotRecovering' /\ JobIsKept'
  BY <1>1, Phases DEF NotRecovering, JobIsKept
<1> QED
  BY <1>11, <1>12, <1>13, <1>14 DEF CleanLog

LEMMA CleanWrite ==
    ASSUME IInv, Clean, CleanLog, NEW st \in streams, Write(st)
    PROVE  CleanLog'
<1>1. /\ pc' = pc /\ job = NoJob /\ job' = NoJob /\ IsOpen(st) /\ pc = "running"
      /\ sequence < MaxSequence /\ sequence' = sequence + 1
      /\ open' = [open EXCEPT ![st].events = Append(@, sequence + 1)]
      /\ UNCHANGED <<streams, streamOf, disk, used, kept>>
  BY DEF Write, Running, names
<1>2. Types /\ used \in Nat /\ sequence \in Nat
  BY CleanFacts DEF IInv
<1>3. PICK m \in 1..used : m = open[st].number /\ m \in Segments /\ m \in OpenSegments
  <2>1. open[st].number \in OpenSegments /\ open[st].number \in Segments
    BY <1>1, OpenFacts
  <2> QED
    BY <2>1, OpenIs
<1>4. PICK e \in Seq(Event) : e = open[st].events
  BY <1>1, OpenFacts
<1>5. m \in OpenSegments /\ streamOf[m] = st /\ open[st] = [number |-> m, events |-> e]
  BY <1>1, <1>3, <1>4, OpenFacts
<1>6. /\ \A t \in streams : t # st => open'[t] = open[t]
      /\ open'[st] = [number |-> m, events |-> Append(e, sequence + 1)]
  <2>1. /\ \A t \in streams : t # st => open'[t] = open[t]
        /\ open'[st] = [open[st] EXCEPT !.events = Append(@, sequence + 1)]
    BY <1>1, <1>2 DEF Types
  <2> QED
    BY <1>5, <2>1
<1>7. open'[st] # NoSegment
  <2>1. PICK n \in Event : n = sequence + 1
    BY <1>1, <1>2, Values DEF Event
  <2>2. Append(e, n) \in Seq(Event)
    OBVIOUS
  <2>3. [number |-> m, events |-> Append(e, n)] # NoSegment
    BY <1>3, <2>2, Values
  <2> QED
    BY <1>6, <2>1, <2>3
<1>8. \A t \in streams : open'[t].number = open[t].number /\ (IsOpen(t)' <=> IsOpen(t))
  BY <1>1, <1>5, <1>6, <1>7 DEF IsOpen
<1>9. OpenSegments' = OpenSegments
  BY <1>1, <1>8 DEF OpenSegments
<1>10. PICK d : d = Contents'
  OBVIOUS
<1>11. ASSUME NEW s \in 1..used, s # m PROVE d[s] = Contents[s]
  <2>1. d[s] = Content(s)'
    BY <1>1, <1>10 DEF Contents
  <2>2. CASE s \in OpenSegments
    <3>1. streamOf[s] \in streams /\ streamOf[s] # st
      BY <1>3, <1>11, <2>2, OpenIs
    <3> QED
      BY <1>1, <1>6, <1>9, <2>1, <2>2, <3>1 DEF Content, Contents
  <2>3. CASE s \notin OpenSegments
    BY <1>1, <1>9, <2>1, <2>3 DEF Content, Contents
  <2> QED
    BY <2>2, <2>3
<1>12. Contents[m] = e /\ d[m] = Append(e, sequence + 1)
  <2>1. d[m] = Content(m)' /\ Contents[m] = Content(m)
    BY <1>1, <1>10 DEF Contents
  <2> QED
    BY <1>1, <1>5, <1>6, <1>9, <2>1 DEF Content
<1>13. \A t \in 1..used : m < t => streamOf[m] # streamOf[t]
  BY <1>5 DEF CleanLog, LastIsOpen
<1>14. Numbered(Contents, used, sequence)' /\ InOrder(Contents, used, streamOf)'
  <2>1. Numbered(Contents, used, sequence) /\ InOrder(Contents, used, streamOf)
    BY DEF CleanLog
  <2>2. Numbered(d, used, sequence + 1) /\ InOrder(d, used, streamOf)
    BY <1>1, <1>2, <1>11, <1>12, <1>13, <2>1, NumberedMore
  <2> QED
    BY <1>1, <1>10, <2>2
<1>15. NotRecovering' /\ JobIsKept' /\ LastIsOpen'
  BY <1>1, <1>9, Phases DEF NotRecovering, JobIsKept, LastIsOpen, CleanLog
<1>16. RestIsClosed'
  BY <1>1, <1>9 DEF CleanLog, RestIsClosed, Busy, Closed, Has, Holds
<1> QED
  BY <1>14, <1>15, <1>16 DEF CleanLog

\* A flush hands what has been written to the operating system.
LEMMA CleanFlush ==
    ASSUME IInv, Clean, CleanLog, Flush
    PROVE  CleanLog'
<1> DEFINE Written(s) == \E st \in RawOpen : open[st].number = s
<1>1. /\ pc' = pc /\ job = NoJob /\ job' = NoJob /\ pc = "running"
      /\ disk' = [s \in Segments |->
                    IF Written(s)
                      THEN [disk[s] EXCEPT !["jsonl.partial"] = File(open[streamOf[s]].events, FALSE)]
                      ELSE disk[s]]
      /\ kept' = [s \in Segments |-> IF Written(s) THEN open[streamOf[s]].events ELSE kept[s]]
      /\ UNCHANGED <<streams, streamOf, open, used, sequence>>
  BY DEF Flush, Running, names
<1>2. \A s : Written(s) => s \in OpenSegments
  BY DEF RawOpen, OpenSegments
<1>3. OpenSegments' = OpenSegments
  BY <1>1 DEF OpenSegments, IsOpen
<1>4. \A s \in 1..used : s \in Segments
  BY CleanFacts
<1>5. \A s \in 1..used : s \notin OpenSegments => disk'[s] = disk[s] /\ kept'[s] = kept[s]
  BY <1>1, <1>2, <1>4
<1>6. \A s \in 1..used : Content(s)' = Content(s)
  BY <1>1, <1>3, <1>5 DEF Content
<1>7. Contents' = Contents
  BY <1>1, <1>6 DEF Contents
<1>8. Numbered(Contents, used, sequence)' /\ InOrder(Contents, used, streamOf)'
  BY <1>1, <1>7 DEF CleanLog
<1>9. NotRecovering' /\ JobIsKept' /\ LastIsOpen'
  BY <1>1, <1>3, Phases DEF NotRecovering, JobIsKept, LastIsOpen, CleanLog
<1>10. RestIsClosed'
  <2>1. used' = used /\ job = NoJob
    BY <1>1
  <2>2. \A s \in 1..used : s \notin OpenSegments => Closed(s)
    BY <2>1 DEF CleanLog, RestIsClosed, Busy
  <2> HIDE DEF Written
  <2> QED
    BY <1>3, <1>5, <2>1, <2>2 DEF RestIsClosed, Closed, Has, Holds
<1> QED
  BY <1>8, <1>9, <1>10 DEF CleanLog

\* A segment that is finalized holds all that has been written to it.
LEMMA CleanFinalizes ==
    ASSUME IInv, Clean, CleanLog, NEW st \in streams, Finalizes(st), job = NoJob,
           pc' \in {"running", "closing"}
    PROVE  CleanLog'
<1>1. PICK s \in Segments : s = open[st].number
  BY OpenFacts DEF Finalizes
<1>2. PICK e \in Seq(Event) : e = open[st].events
  BY OpenFacts DEF Finalizes
<1>3. /\ IsOpen(st) /\ open' = [open EXCEPT ![st] = NoSegment]
      /\ job' = Job(s, e, "rename") /\ Put(s, "jsonl.partial", File(e, FALSE))
      /\ kept' = [kept EXCEPT ![s] = e]
      /\ UNCHANGED <<streams, streamOf, used, sequence>>
  BY <1>1, <1>2 DEF Finalizes, names, Clean
<1>4. Types
  BY DEF IInv
<1>5. /\ \A t \in streams : t # st => open'[t] = open[t]
      /\ open'[st] = NoSegment /\ kept'[s] = e
      /\ \A t \in Segments \ {s} : kept'[t] = kept[t] /\ disk'[t] = disk[t]
      /\ s \in OpenSegments /\ streamOf[s] = st
  <2>1. s \in OpenSegments /\ streamOf[s] = st
    BY <1>1, <1>3, OpenFacts
  <2>2. \A t \in Segments \ {s} : kept'[t] = kept[t] /\ disk'[t] = disk[t]
    BY <1>3, <1>4 DEF Types, Put
  <2>3. open'[st] = NoSegment /\ kept'[s] = e /\ \A t \in streams : t # st => open'[t] = open[t]
    BY <1>3, <1>4 DEF Types
  <2> QED
    BY <2>1, <2>2, <2>3
<1>6. ASSUME NEW t PROVE t \in OpenSegments' <=> t \in OpenSegments /\ t # s
  <2>1. CASE t \in OpenSegments'
    <3>1. PICK x \in streams : open'[x] # NoSegment /\ t = open'[x].number
      BY <1>3, <2>1 DEF OpenSegments, IsOpen
    <3>2. x # st /\ open'[x] = open[x]
      BY <1>5, <3>1
    <3>3. t # s
      <4>1. IsOpen(x) /\ t = open[x].number
        BY <3>1, <3>2 DEF IsOpen
      <4>2. streamOf[t] = x
        BY <4>1, OpenFacts
      <4> QED
        BY <1>5, <3>2, <4>2
    <3> QED
      BY <2>1, <3>1, <3>2, <3>3 DEF OpenSegments, IsOpen
  <2>2. CASE t \in OpenSegments /\ t # s
    <3>1. PICK x \in streams : open[x] # NoSegment /\ t = open[x].number
      BY <2>2 DEF OpenSegments, IsOpen
    <3>2. open'[x] = open[x]
      BY <1>1, <1>5, <2>2, <3>1
    <3> QED
      BY <1>3, <2>2, <3>1, <3>2 DEF OpenSegments, IsOpen
  <2> QED
    BY <2>1, <2>2
<1>7. \A t \in 1..used : t \in Segments
  BY CleanFacts
<1>8. ASSUME NEW t \in 1..used PROVE Content(t)' = Content(t)
  <2>1. CASE t = s
    <3>1. Content(t)' = e
      BY <1>5, <1>6, <2>1 DEF Content
    <3>2. Content(t) = e
      BY <1>2, <1>5, <2>1 DEF Content
    <3> QED
      BY <3>1, <3>2
  <2>2. CASE t # s /\ t \in OpenSegments
    <3>1. streamOf[t] \in streams /\ streamOf[t] # st
      BY <1>1, <2>2, OpenIs
    <3> QED
      BY <1>3, <1>5, <1>6, <2>2, <3>1 DEF Content
  <2>3. CASE t # s /\ t \notin OpenSegments
    BY <1>5, <1>6, <1>7, <2>3 DEF Content
  <2> QED
    BY <2>1, <2>2, <2>3
<1>9. Contents' = Contents
  BY <1>3, <1>8 DEF Contents
<1>10. Numbered(Contents, used, sequence)' /\ InOrder(Contents, used, streamOf)'
  BY <1>3, <1>9 DEF CleanLog
<1>11. NotRecovering'
  BY Phases DEF NotRecovering
<1>12. LastIsOpen'
  BY <1>3, <1>6 DEF CleanLog, LastIsOpen
<1>13. JobIsKept'
  BY <1>3, <1>5 DEF JobIsKept, Job
<1>14. RestIsClosed'
  <2> SUFFICES ASSUME NEW t \in 1..used, t \notin OpenSegments', ~Busy(t)' PROVE Closed(t)'
    BY <1>3 DEF RestIsClosed
  <2>1. job' # NoJob /\ job'.segment = s
    BY <1>3, Values DEF Job, Steps
  <2>2. t # s
    BY <2>1 DEF Busy
  <2>3. t \notin OpenSegments /\ ~Busy(t)
    BY <1>6, <2>2 DEF Busy
  <2>4. Closed(t)
    BY <2>3 DEF CleanLog, RestIsClosed
  <2> QED
    BY <1>5, <1>7, <2>2, <2>4 DEF Closed, Has, Holds
<1> QED
  BY <1>10, <1>11, <1>12, <1>13, <1>14 DEF CleanLog

\* What a log depends on that is not on the disk
LEMMA CleanSame ==
    ASSUME IInv, Clean, CleanLog, UNCHANGED <<streams, streamOf, disk, open, sequence, used, job, kept>>,
           pc' \in ToSet(Names) => pc \in ToSet(Names)
    PROVE  CleanLog'
<1>1. Contents' = Contents /\ OpenSegments' = OpenSegments
  BY ContentsSame DEF IInv
<1>2. NotRecovering' /\ LastIsOpen' /\ JobIsKept' /\ RestIsClosed'
  BY <1>1 DEF CleanLog, NotRecovering, LastIsOpen, JobIsKept, RestIsClosed, Holds, Has, Busy, Closed
<1>3. Numbered(Contents, used, sequence)' /\ InOrder(Contents, used, streamOf)'
  BY <1>1 DEF CleanLog
<1> QED
  BY <1>2, <1>3 DEF CleanLog

LEMMA CleanInit ==
    ASSUME Init
    PROVE  CleanLog
<1>1. used = 0 /\ sequence = 0 /\ job = NoJob
  BY DEF Init
<1>2. 1..used = {} /\ 1..sequence = {}
  BY <1>1
<1> QED
  BY <1>1, <1>2 DEF CleanLog, NotRecovering, Numbered, InOrder, LastIsOpen, JobIsKept, RestIsClosed

LEMMA CleanStep ==
    ASSUME IInv, Clean => CleanLog, [Next]_vars, Clean'
    PROVE  CleanLog'
<1>1. CASE Start
  BY <1>1, CleanStart
<1>2. CASE Crash
  <2>1. crashes' = crashes + 1 /\ crashes \in Nat
    BY <1>2, Values DEF Crash, IInv, Types
  <2>2. crashes' # 0
    BY <2>1
  <2> QED
    BY <2>2 DEF Clean
<1>3. CASE ~Start /\ ~Crash
  <2>1. UNCHANGED <<streams, crashes, restarted>>
    <3>1. CASE \E st \in streams : Open(st) \/ Write(st) \/ Rotate(st) \/ Close(st)
      BY <3>1 DEF Open, Write, Rotate, Close, Finalizes, names
    <3>2. CASE Flush \/ Exit
      BY <3>2 DEF Flush, Exit, names
    <3>3. CASE Finalize
      BY <3>3 DEF Finalize, Table, Rename, Create, Compress, PublishSegment, Describe, Commit, Unlink,
         Done, unchangedByStep, notOnDisk, names
    <3>4. CASE Recover
      BY <3>4 DEF Recover, NextLoop, Truncate, StartFails, OrphanFails, RecoverPartial,
         RecoverOrphan, RecoverCompressedPartial, RecoverCompressed, RecoverPart, RecoverParquet,
         RecoverManifestPartial, VerifyManifest, unchangedByStep, unchangedByRecovery, notOnDisk,
         names
    <3>5. CASE UNCHANGED vars
      BY <3>5 DEF vars, names
    <3> QED
      BY <1>3, <3>1, <3>2, <3>3, <3>4, <3>5 DEF Next
  <2>2. Clean /\ CleanLog
    BY <2>1 DEF Clean
  <2>3. CASE \E st \in streams : Open(st) \/ Write(st) \/ Rotate(st) \/ Close(st)
    <3>1. ASSUME NEW st \in streams, Rotate(st) PROVE CleanLog'
      <4>1. Finalizes(st) /\ job = NoJob /\ pc' \in {"running", "closing"}
        BY <3>1 DEF Rotate, Running
      <4> QED
        BY <2>2, <4>1, CleanFinalizes
    <3>2. ASSUME NEW st \in streams, Close(st) PROVE CleanLog'
      <4>1. Finalizes(st) /\ job = NoJob /\ pc' \in {"running", "closing"}
        BY <3>2 DEF Close
      <4> QED
        BY <2>2, <4>1, CleanFinalizes
    <3> QED
      BY <2>2, <2>3, <3>1, <3>2, CleanOpen, CleanWrite
  <2>4. CASE Exit
    <3>1. UNCHANGED <<streams, streamOf, disk, open, sequence, used, job, kept>> /\ pc' = "down"
      BY <2>4 DEF Exit, names
    <3> QED
      BY <2>2, <3>1, CleanSame, Phases
  <2>5. CASE UNCHANGED vars
    <3>1. UNCHANGED <<streams, streamOf, disk, open, sequence, used, job, kept, pc>>
      BY <2>5 DEF vars, names
    <3> QED
      BY <2>2, <3>1, CleanSame
  <2> QED
    BY <1>3, <2>2, <2>3, <2>4, <2>5, CleanFlush, CleanFinalize, CleanRecover DEF Next
<1> QED
  BY <1>1, <1>2, <1>3

-----------------------------------------------------------------------------
(* What replay is given.                                                   *)

\* Segments with a manifest are such as replay expects.
LEMMA FinalizedAre ==
    ASSUME IInv, Ordered
    PROVE  /\ DOMAIN Finalized = streams \ {Snapshots}
           /\ AreStreams(Finalized)
<1>1. streams \in StreamSets /\ used \in 0..MaxSegments
  BY DEF IInv, Types
<1>2. IsFiniteSet(streams) /\ used \in Nat /\ \A s \in 1..used : s \in Segments
  BY <1>1, StorageAssumption DEF StorageAssumption, Segments
<1>3. IsFiniteSet(streams \ {Snapshots})
  BY <1>2, FS_Subset
<1>4. ASSUME NEW st \in streams \ {Snapshots} PROVE IsStream(Finalized[st])
  <2> DEFINE Of(s) == [number |-> s, events |-> disk[s]["zst"].events]
             those == {t \in 1..used : streamOf[t] = st /\ Has(t, "manifest")}
  <2>1. Finalized[st] = {Of(s) : s \in those}
    BY DEF Finalized
  <2>2. IsFiniteSet(those)
    <3>1. IsFiniteSet(1..used) /\ those \subseteq 1..used
      BY <1>2, FS_Interval
    <3> QED
      BY <3>1, FS_Subset
  <2>3. ASSUME NEW g \in Finalized[st] PROVE IsSegment(g)
    <3>1. PICK s \in those : g = Of(s)
      BY <2>1
    <3>2. s \in Segments /\ Root(s) = "raw" /\ Has(s, "manifest")
      BY <1>2 DEF Root
    <3>3. disk[s]["manifest"] = disk[s]["zst"]
      BY <3>2 DEF IInv, LayoutOf, RawLayout, Has
    <3>4. Has(s, "zst") /\ disk[s]["zst"].events \in Seq(Event)
      BY <3>2, <3>3, FileOf DEF Has, FileKinds, IInv
    <3>5. ~disk[s]["zst"].torn
      BY <3>2, <3>4 DEF IInv, LayoutOf, RawLayout, Has
    <3>6. OrderedFile("manifest", disk[s]["manifest"])
      BY <3>2 DEF Ordered, FilesOrdered, FileKinds
    <3>7. g.events = disk[s]["zst"].events
      BY <3>1
    <3>8. g.events # <<>> /\ Increasing(g.events)
      BY <3>3, <3>5, <3>6, <3>7 DEF OrderedFile, NeverEmpty
    <3>9. \A e \in Seq(Event) : e \in Seq(Nat \ {0})
      <4>1. MaxSequence \in Nat
        BY Values
      <4> QED
        BY <4>1 DEF Event
    <3>10. g.events \in Seq(Nat \ {0})
      BY <3>4, <3>7, <3>9
    <3> QED
      BY <3>8, <3>10 DEF IsSegment
  <2>4. IsFiniteSet(Finalized[st])
    <3> HIDE DEF those, Of
    <3>1. [s \in those |-> Of(s)] \in Surjection(those, Finalized[st])
      BY <2>1 DEF Surjection
    <3> QED
      BY <2>2, <3>1, FS_Surjection
  <2> QED
    BY <2>3, <2>4 DEF IsStream
<1>5. DOMAIN Finalized = streams \ {Snapshots}
  BY DEF Finalized
<1> QED
  BY <1>3, <1>4, <1>5 DEF AreStreams

\* All that a clean log holds is in segments with a manifest.
LEMMA FinalizedWhole ==
    ASSUME IInv, Ordered, Clean, CleanLog, pc = "down"
    PROVE  /\ \A st \in streams : Apart(Finalized[st])
           /\ \A st, su \in streams :
                 st # su => EventsOf(Finalized[st]) \cap EventsOf(Finalized[su]) = {}
           /\ EventsOf(AllSegments(Finalized)) = 1..sequence
<1>1. OpenSegments = {} /\ job = NoJob
  <2>1. \A st \in streams : ~IsOpen(st)
    BY DEF IInv, OpenOf
  <2>2. job = NoJob
    BY CleanFacts
  <2> QED
    BY <2>1, <2>2 DEF OpenSegments
<1>2. streams \ {Snapshots} = streams /\ used \in Nat
  BY CleanFacts DEF Clean
<1>3. ASSUME NEW s \in 1..used
      PROVE  /\ streamOf[s] \in streams /\ Has(s, "manifest")
             /\ disk[s]["zst"].events = Contents[s]
             /\ OrderedEvents(Contents[s], sequence) /\ DOMAIN Contents[s] = 1..Len(Contents[s])
  <2>1. Has(s, "manifest") /\ Holds(s, "zst", kept[s])
    BY <1>1 DEF CleanLog, RestIsClosed, Busy, Closed
  <2>2. Contents[s] = kept[s]
    BY <1>1 DEF Contents, Content
  <2>3. s \in Segments /\ LayoutOf(s) /\ kept[s] \in Seq(Event)
    BY CleanFacts DEF IInv, Types
  <2>4. streamOf[s] \in streams
    <3>1. s <= used
      OBVIOUS
    <3> QED
      BY <2>3, <3>1 DEF LayoutOf
  <2>5. OrderedEvents(Contents[s], sequence)
    BY DEF CleanLog, Numbered
  <2>6. disk[s]["zst"].events = kept[s]
    BY <2>1 DEF Holds, File
  <2>7. DOMAIN kept[s] = 1..Len(kept[s])
    BY <2>3
  <2> QED
    BY <2>1, <2>2, <2>4, <2>5, <2>6, <2>7
<1>4. ASSUME NEW st \in streams, NEW g \in Finalized[st]
      PROVE  \E s \in 1..used : streamOf[s] = st /\ g.events = Contents[s]
  <2>1. PICK s \in {t \in 1..used : streamOf[t] = st /\ Has(t, "manifest")} :
           g = [number |-> s, events |-> disk[s]["zst"].events]
    BY <1>2 DEF Finalized
  <2>2. g.events = disk[s]["zst"].events
    BY <2>1
  <2> QED
    BY <1>3, <2>2
<1>5. ASSUME NEW s \in 1..used
      PROVE  \E g \in Finalized[streamOf[s]] : g.events = Contents[s]
  <2>1. [number |-> s, events |-> disk[s]["zst"].events] \in Finalized[streamOf[s]]
    BY <1>2, <1>3 DEF Finalized
  <2>2. [number |-> s, events |-> disk[s]["zst"].events].events = Contents[s]
    BY <1>3
  <2> QED
    BY <2>1, <2>2
<1>6. ASSUME NEW s \in 1..used, NEW x
      PROVE  x \in ToSet(Contents[s]) <=> \E i \in DOMAIN Contents[s] : x = Contents[s][i]
  BY DEF ToSet
<1>7. ASSUME NEW st \in streams, NEW g \in Finalized[st], NEW h \in Finalized[st], g # h
      PROVE  Precedes(g, h) \/ Precedes(h, g)
  <2>1. PICK s \in 1..used : /\ streamOf[s] = st /\ g.events = Contents[s]
                             /\ g = [number |-> s, events |-> disk[s]["zst"].events]
    <3>1. PICK s \in {t \in 1..used : streamOf[t] = st /\ Has(t, "manifest")} :
             g = [number |-> s, events |-> disk[s]["zst"].events]
      BY <1>2 DEF Finalized
    <3> QED
      BY <1>3, <3>1
  <2>2. PICK t \in 1..used : /\ streamOf[t] = st /\ h.events = Contents[t]
                             /\ h = [number |-> t, events |-> disk[t]["zst"].events]
    <3>1. PICK r \in {t \in 1..used : streamOf[t] = st /\ Has(t, "manifest")} :
             h = [number |-> r, events |-> disk[r]["zst"].events]
      BY <1>2 DEF Finalized
    <3> QED
      BY <1>3, <3>1
  <2>3. s # t
    BY <1>7, <2>1, <2>2
  <2>4. ASSUME NEW p \in 1..used, NEW q \in 1..used, p < q, streamOf[p] = streamOf[q],
               NEW i \in DOMAIN Contents[p], NEW j \in DOMAIN Contents[q]
        PROVE  Contents[p][i] < Contents[q][j]
    <3>1. Contents[p][i] \in ToSet(Contents[p]) /\ Contents[q][j] \in ToSet(Contents[q])
      BY <1>6
    <3> QED
      BY <2>4, <3>1 DEF CleanLog, InOrder
  <2>5. s < t \/ t < s
    BY <2>3
  <2> QED
    BY <2>1, <2>2, <2>4, <2>5 DEF Precedes
<1>8. ASSUME NEW st \in streams, NEW su \in streams, st # su,
             NEW x \in EventsOf(Finalized[st]), x \in EventsOf(Finalized[su])
      PROVE  FALSE
  <2>1. PICK g \in Finalized[st] : x \in ToSet(g.events)
    BY DEF EventsOf
  <2>2. PICK h \in Finalized[su] : x \in ToSet(h.events)
    BY <1>8 DEF EventsOf
  <2>3. PICK s \in 1..used : streamOf[s] = st /\ g.events = Contents[s]
    BY <1>4
  <2>4. PICK t \in 1..used : streamOf[t] = su /\ h.events = Contents[t]
    BY <1>4
  <2>5. ToSet(Contents[s]) \cap ToSet(Contents[t]) = {}
    BY <1>8, <2>3, <2>4 DEF CleanLog, Numbered
  <2> QED
    BY <2>1, <2>2, <2>3, <2>4, <2>5
<1>9. ASSUME NEW x PROVE x \in EventsOf(AllSegments(Finalized)) <=> x \in 1..sequence
  <2>1. CASE x \in EventsOf(AllSegments(Finalized))
    <3>1. PICK g \in AllSegments(Finalized) : x \in ToSet(g.events)
      BY <2>1 DEF EventsOf
    <3>2. PICK st \in DOMAIN Finalized : g \in Finalized[st]
      BY DEF AllSegments
    <3>3. st \in streams
      BY <1>2, FinalizedAre
    <3>4. PICK s \in 1..used : g.events = Contents[s]
      BY <1>4, <3>2, <3>3
    <3>5. ToSet(Contents[s]) \subseteq 1..sequence
      BY <1>3 DEF OrderedEvents
    <3> QED
      BY <2>1, <3>1, <3>4, <3>5
  <2>2. CASE x \in 1..sequence
    <3>1. PICK s \in 1..used : x \in ToSet(Contents[s])
      BY <2>2 DEF CleanLog, Numbered
    <3>2. PICK g \in Finalized[streamOf[s]] : g.events = Contents[s]
      BY <1>5
    <3>3. streamOf[s] \in DOMAIN Finalized
      BY <1>2, <1>3, FinalizedAre
    <3>4. g \in AllSegments(Finalized)
      BY <3>3 DEF AllSegments
    <3> QED
      BY <2>2, <3>1, <3>2, <3>4 DEF EventsOf
  <2> QED
    BY <2>1, <2>2
<1>10. \A st \in streams : Apart(Finalized[st])
  BY <1>7 DEF Apart
<1>11. \A st, su \in streams :
          st # su => EventsOf(Finalized[st]) \cap EventsOf(Finalized[su]) = {}
  BY <1>8
<1>12. EventsOf(AllSegments(Finalized)) = 1..sequence
  BY <1>9
<1> QED
  BY <1>10, <1>11, <1>12

LEMMA InvariantsReplay ==
    ASSUME IInv, Ordered, Clean => CleanLog
    PROVE  ReplayIsExact
<1> DEFINE replay == ReadRawEvents(Finalized)
           segments == AllSegments(Finalized)
<1>1. AreStreams(Finalized) /\ DOMAIN Finalized = streams \ {Snapshots}
  BY FinalizedAre
<1>2. ASSUME pc = "down", Clean PROVE ~replay.refused /\ replay.events = [i \in 1..sequence |-> i]
  <2>1. CleanLog /\ DOMAIN Finalized = streams /\ sequence \in Nat
    BY <1>1, <1>2, CleanFacts DEF Clean
  <2>2. /\ \A st \in DOMAIN Finalized : Apart(Finalized[st])
        /\ \A st, su \in DOMAIN Finalized :
              st # su => EventsOf(Finalized[st]) \cap EventsOf(Finalized[su]) = {}
        /\ EventsOf(AllSegments(Finalized)) = 1..sequence
    BY <1>2, <2>1, FinalizedWhole
  <2> QED
    BY <1>1, <2>1, <2>2, ReplayIsComplete
<1>3. ASSUME ~replay.refused
      PROVE  /\ ToSet(replay.events) = EventsOf(segments)
             /\ \A a \in segments : IsInjective(a.events)
             /\ \A a, b \in segments : a # b => ToSet(a.events) \cap ToSet(b.events) = {}
             /\ \A i \in 1..Len(replay.events) : replay.events[i] = replay.events[1] + i - 1
  <2>1. /\ replay.events \in Seq(Nat \ {0})
        /\ ToSet(replay.events) = EventsOf(segments)
        /\ Consecutive(replay.events) /\ Disjoint(segments)
    BY <1>1, <1>3, ReplayIsSound
  <2>2. ASSUME NEW a \in segments PROVE IsInjective(a.events)
    <3>1. PICK st \in DOMAIN Finalized : a \in Finalized[st]
      BY DEF AllSegments
    <3>2. IsSegment(a)
      BY <1>1, <3>1 DEF AreStreams, IsStream
    <3>3. a.events \in Seq(Nat \ {0}) /\ Increasing(a.events)
      BY <3>2 DEF IsSegment
    <3> QED
      BY <3>3 DEF Increasing, IsInjective
  <2> HIDE DEF replay, segments
  <2>3. DOMAIN replay.events = 1..Len(replay.events)
    BY <2>1
  <2>4. \A i \in 1..Len(replay.events) : replay.events[i] = replay.events[1] + i - 1
    BY <2>1, <2>3 DEF Consecutive
  <2>5. \A a, b \in segments : a # b => ToSet(a.events) \cap ToSet(b.events) = {}
    BY <2>1 DEF Disjoint
  <2> QED
    BY <2>1, <2>2, <2>4, <2>5
<1>4. /\ segments = UNION {Finalized[st] : st \in DOMAIN Finalized}
      /\ EventsOf(segments) = UNION {ToSet(segment.events) : segment \in segments}
  BY DEF AllSegments, EventsOf
<1>5. crashes = 0 /\ ~restarted /\ Snapshots \notin streams => Clean
  BY DEF Clean
<1> HIDE DEF segments
<1> QED
  BY <1>2, <1>3, <1>4, <1>5 DEF ReplayIsExact

\* What one process has written and closed in order, in several streams and
\* segments, replay gives back whole and in order; whatever the crashes and the
\* restarts, it refuses a log or gives back every event of every segment that
\* has a manifest, once, without a gap (RawEventStorage, read_raw_events).
THEOREM ReplayHolds == Spec => []ReplayIsExact
<1> DEFINE Inv == IInv /\ Ordered /\ (Clean => CleanLog)
<1>1. Init => Inv
  BY IInvInit, OrderedInit, CleanInit
<1>2. Inv /\ [Next]_vars => Inv'
  BY IInvStep, OrderedStep, CleanStep
<1>3. Inv => ReplayIsExact
  BY InvariantsReplay
<1> QED
  BY <1>1, <1>2, <1>3, PTL DEF Spec

===============================================================================
