---------------------------- MODULE SegmentStorage ----------------------------
(***************************************************************************)
(* What the service keeps on disk (market_data/storage.py): the segments   *)
(* of the raw streams (RawEventStorage) and the parts of the snapshots     *)
(* (ParquetSnapshotWriter), how they are written and finalized, what       *)
(* recover_partial_files() makes of what a crash has left, and what replay *)
(* reads back.                                                             *)
(*                                                                         *)
(* One action is one change of the file system, so that a crash can come   *)
(* between any two of them, those of the recovery included.  A crash ends  *)
(* the process: what is in a buffer of the process is lost, what has been  *)
(* handed to the operating system is not.                                  *)
(*                                                                         *)
(* A file is the sequence of the events it holds, each one its ingest      *)
(* sequence (of a row its snapshot sequence), and whether it ends within   *)
(* one.  A manifest holds the events of its data file: their number,       *)
(* bounds and hash.  Raw segments and snapshot parts are in directories of *)
(* their own and share no file.                                            *)
(***************************************************************************)
EXTENDS Replay

CONSTANTS
    StreamSets,      \* the sets of streams that are written in a behaviour
    Snapshots,       \* the stream of the snapshots; the others are raw
    MaxSegments,     \* bound: segments and parts opened in a behaviour
    MaxSequence,     \* bound: events of one process
    MaxCrashes,      \* bound: crashes in a behaviour, fewer with more streams
    Absent, NoSegment, NoJob, NoStream

\* The steps of finalizing a segment or a part, and of recovering one
Steps == {"table", "truncate", "rename", "create", "compress", "publish", "describe", "commit",
          "unlink", "done"}

ASSUME StorageAssumption ==
    /\ MaxSegments \in Nat /\ MaxSequence \in Nat \ {0} /\ MaxCrashes \in Nat
    /\ \A set \in StreamSets : NoStream \notin set /\ IsFiniteSet(set)
    /\ Absent \notin [events : Seq(Nat), torn : BOOLEAN]
    /\ NoSegment \notin [number : Nat, events : Seq(Nat)]
    /\ NoJob \notin [segment : Nat, events : Seq(Nat), step : Steps]

VARIABLES
    streams,         \* the streams that are written
    streamOf,        \* per segment, the stream in whose directory it is
    disk,            \* per segment and suffix, the file or Absent
    quarantine,      \* per segment, the files moved to quarantine/
    open,            \* per stream, its open segment: number and events written
    sequence,        \* ingest sequences given out by this process
    used,            \* how many segments have been opened
    pc,              \* down, a loop of the recovery, running or closing
    todo,            \* the files this loop of the recovery has yet to see
    job,             \* the segment being finalized, and the next step of it
    crashes,
    \* History:
    restarted,       \* more than one process has written
    kept             \* per segment, the events flushed to its file

names == <<streams, streamOf>>
vars == <<names, disk, quarantine, open, sequence, used, pc, todo, job, crashes, restarted, kept>>

Segments == 1..MaxSegments
FileKinds == {"jsonl.partial", "jsonl", "zst.partial", "zst", "parquet.partial", "parquet",
              "manifest.partial", "manifest"}

Root(s) == IF streamOf[s] = Snapshots THEN "snapshots" ELSE "raw"
DataKind(s) == IF Root(s) = "raw" THEN "zst" ELSE "parquet"

File(events, torn) == [events |-> events, torn |-> torn]

Init ==
    /\ streams \in StreamSets
    /\ streamOf = [s \in Segments |-> NoStream]
    /\ disk = [s \in Segments |-> [x \in FileKinds |-> Absent]]
    /\ quarantine = [s \in Segments |-> {}]
    /\ open = [st \in streams |-> NoSegment] /\ sequence = 0 /\ used = 0
    /\ pc = "down" /\ todo = {} /\ job = NoJob
    /\ crashes = 0 /\ restarted = FALSE
    /\ kept = [s \in Segments |-> <<>>]

-----------------------------------------------------------------------------
(* Files.                                                                  *)

Has(s, x) == disk[s][x] # Absent

Put(s, x, file) == disk' = [disk EXCEPT ![s][x] = file]

\* path.replace(target)
Renamed(s, from, to) ==
    disk' = [disk EXCEPT ![s][to] = disk[s][from], ![s][from] = Absent]

\* _quarantine
Quarantined(s, x) ==
    /\ disk' = [disk EXCEPT ![s][x] = Absent]
    /\ quarantine' = [quarantine EXCEPT ![s] = @ \cup {[suffix |-> x, file |-> disk[s][x]]}]

-----------------------------------------------------------------------------
(* write(), flush() and close() of both writers.                           *)

Running == pc = "running" /\ job = NoJob

IsOpen(st) == open[st] # NoSegment
OpenSegments == {open[st].number : st \in {t \in streams : IsOpen(t)}}

\* The first event of a segment: raw, in the buffer of a new file.
Open(st) ==
    /\ Running /\ ~IsOpen(st)
    /\ used < MaxSegments /\ sequence < MaxSequence
    /\ used' = used + 1 /\ sequence' = sequence + 1
    /\ open' = [open EXCEPT ![st] = [number |-> used', events |-> <<sequence'>>]]
    /\ streamOf' = [streamOf EXCEPT ![used'] = st]
    /\ IF st = Snapshots THEN UNCHANGED disk ELSE Put(used', "jsonl.partial", File(<<>>, FALSE))
    /\ UNCHANGED <<streams, quarantine, pc, todo, job, crashes, restarted, kept>>

Write(st) ==
    /\ Running /\ IsOpen(st) /\ sequence < MaxSequence
    /\ sequence' = sequence + 1
    /\ open' = [open EXCEPT ![st].events = Append(@, sequence')]
    /\ UNCHANGED <<names, disk, quarantine, used, pc, todo, job, crashes, restarted, kept>>

RawOpen == {st \in streams : IsOpen(st) /\ st # Snapshots}

\* RawEventStorage.flush(), of all open segments
Flush ==
    /\ Running /\ RawOpen # {}
    /\ disk' = [s \in Segments |->
                  IF \E st \in RawOpen : open[st].number = s
                    THEN [disk[s] EXCEPT !["jsonl.partial"] = File(open[streamOf[s]].events, FALSE)]
                    ELSE disk[s]]
    /\ kept' = [s \in Segments |->
                  IF \E st \in RawOpen : open[st].number = s THEN open[streamOf[s]].events ELSE kept[s]]
    /\ UNCHANGED <<names, quarantine, open, sequence, used, pc, todo, job, crashes, restarted>>

\* The next step of finalizing segment s, which holds these events.
Job(s, events, step) == [segment |-> s, events |-> events, step |-> step]

\* _finalize() begins: a raw segment is flushed and closed.
Finalizes(st) ==
    LET s == open[st].number
        events == open[st].events
    IN
    /\ IsOpen(st)
    /\ open' = [open EXCEPT ![st] = NoSegment]
    /\ IF st = Snapshots
         THEN job' = Job(s, events, "table") /\ UNCHANGED <<disk, kept>>
         ELSE /\ job' = Job(s, events, "rename")
              /\ kept' = [kept EXCEPT ![s] = events]
              /\ Put(s, "jsonl.partial", File(events, FALSE))
    /\ UNCHANGED <<names, quarantine, sequence, used, todo, crashes, restarted>>

\* A segment that is too large or too old is finalized before the next event,
\* a part after its last row.
Rotate(st) == Running /\ Finalizes(st) /\ UNCHANGED pc

\* close(): one open segment after the other; and the process ends.
Close(st) ==
    /\ pc \in {"running", "closing"} /\ job = NoJob
    /\ Finalizes(st)
    /\ pc' = "closing"

Exit ==
    /\ pc \in {"running", "closing"} /\ job = NoJob
    /\ \A st \in streams : ~IsOpen(st)
    /\ pc' = "down"
    /\ UNCHANGED <<names, disk, quarantine, open, sequence, used, todo, job, crashes, restarted, kept>>

-----------------------------------------------------------------------------
(* _finalize(), step by step.                                              *)

At(step) == job # NoJob /\ job.step = step

Step(step) == job' = [job EXCEPT !.step = step]

notOnDisk == <<names, open, sequence, used, pc, crashes, restarted>>
unchangedByStep == <<notOnDisk, quarantine, todo, kept>>

\* The rows of a part are written to a .parquet.partial.
Table ==
    /\ At("table")
    /\ Put(job.segment, "parquet.partial", File(job.events, FALSE))
    /\ kept' = [kept EXCEPT ![job.segment] = job.events]
    /\ Step("publish")
    /\ UNCHANGED <<notOnDisk, quarantine, todo>>

\* .jsonl.partial becomes .jsonl.
Rename ==
    /\ At("rename")
    /\ Renamed(job.segment, "jsonl.partial", "jsonl")
    /\ Step("create")
    /\ UNCHANGED unchangedByStep

\* .jsonl.zst.partial is opened, and must not exist.
Create ==
    /\ At("create")
    /\ ~Has(job.segment, "zst.partial")
    /\ Put(job.segment, "zst.partial", File(<<>>, FALSE))
    /\ Step("compress")
    /\ UNCHANGED unchangedByStep

Compress ==
    /\ At("compress")
    /\ Put(job.segment, "zst.partial", File(job.events, FALSE))
    /\ Step("publish")
    /\ UNCHANGED unchangedByStep

\* The compressed file is read back, and becomes .jsonl.zst, or .parquet.
PublishSegment ==
    /\ At("publish")
    /\ IF Root(job.segment) = "raw"
         THEN Renamed(job.segment, "zst.partial", "zst")
         ELSE Renamed(job.segment, "parquet.partial", "parquet")
    /\ Step("describe")
    /\ UNCHANGED unchangedByStep

\* _atomic_json: the manifest is written beside, and renamed.
Describe ==
    /\ At("describe")
    /\ Put(job.segment, "manifest.partial", File(job.events, FALSE))
    /\ Step("commit")
    /\ UNCHANGED unchangedByStep

\* If there is still a .jsonl, in _finalize(), it goes next.
Commit ==
    /\ At("commit")
    /\ Renamed(job.segment, "manifest.partial", "manifest")
    /\ Step(IF Root(job.segment) = "snapshots" \/ pc \in {"3", "4"} THEN "done" ELSE "unlink")
    /\ UNCHANGED unchangedByStep

Unlink ==
    /\ At("unlink")
    /\ Put(job.segment, "jsonl", Absent)
    /\ Step("done")
    /\ UNCHANGED unchangedByStep

\* _finalize(), _raw_manifest() or _parquet_manifest() returns.
Done ==
    /\ At("done")
    /\ job' = NoJob
    /\ todo' = todo \ {job.segment}
    /\ UNCHANGED <<notOnDisk, disk, quarantine, kept>>

Finalize ==
    Table \/ Rename \/ Create \/ Compress \/ PublishSegment \/ Describe \/ Commit \/ Unlink \/ Done

-----------------------------------------------------------------------------
(* recover_partial_files(): ten loops, each over the files it finds when   *)
(* it begins, six in the raw directory and four in that of the snapshots.  *)

Loops == <<"jsonl.partial", "jsonl", "zst.partial", "zst", "manifest.partial", "manifest",
           "parquet.partial", "parquet", "manifest.partial", "manifest">>

Names == <<"1", "2", "3", "4", "5", "6", "7", "8", "9", "10">>

Found(i) ==
    {s \in 1..used : Root(s) = (IF i <= 6 THEN "raw" ELSE "snapshots") /\ Has(s, Loops[i])}

\* A process begins with the recovery, and numbers its events from 1.
Start ==
    /\ pc = "down"
    /\ pc' = "1" /\ todo' = Found(1)
    /\ sequence' = 0
    /\ restarted' = (used > 0)
    /\ UNCHANGED <<names, disk, quarantine, open, used, job, crashes, kept>>

\* The next loop that finds a file; after the last one the service runs.
NextLoop ==
    /\ todo = {} /\ job = NoJob
    /\ \E i \in DOMAIN Names :
          LET later == {j \in DOMAIN Names : j > i /\ Found(j) # {}} IN
          /\ pc = Names[i]
          /\ IF later = {} THEN pc' = "running" /\ UNCHANGED todo
             ELSE pc' = Names[Min(later)] /\ todo' = Found(Min(later))
    /\ UNCHANGED <<names, disk, quarantine, open, sequence, used, job, crashes, restarted, kept>>

\* The loops take their files in the order of their names.
Taken(loops, s) ==
    /\ pc \in loops /\ job = NoJob
    /\ s \in todo /\ \A t \in todo : s <= t

Skip(s) == todo' = todo \ {s} /\ UNCHANGED <<disk, quarantine, job>>

Drop(s, x) ==
    /\ Quarantined(s, x)
    /\ todo' = todo \ {s} /\ UNCHANGED job

unchangedByRecovery == <<notOnDisk, kept>>

RecoverPartial(s) ==
    /\ Taken({"1"}, s)
    /\ job' = Job(s, <<>>, "truncate")
    /\ UNCHANGED <<disk, quarantine, todo, unchangedByRecovery>>

\* Mutant of RecoverOrphan: a segment that is complete is finalized again.
RecoverOrphanAlways(s) ==
    /\ Taken({"2"}, s)
    /\ Renamed(s, "jsonl", "jsonl.partial")
    /\ job' = Job(s, <<>>, "truncate")
    /\ UNCHANGED <<quarantine, todo, unchangedByRecovery>>

\* An orphan .jsonl is made a .jsonl.partial again.
RecoverOrphan(s) ==
    /\ Taken({"2"}, s)
    /\ IF Has(s, "manifest") THEN Skip(s)
       ELSE /\ Renamed(s, "jsonl", "jsonl.partial")
            /\ job' = Job(s, <<>>, "truncate")
            /\ UNCHANGED <<quarantine, todo>>
    /\ UNCHANGED unchangedByRecovery

\* Mutant of Truncate: a last line that is not complete is kept.
TruncateNot ==
    /\ At("truncate")
    /\ LET events == disk[job.segment]["jsonl.partial"].events IN
         IF events = <<>>
           THEN Put(job.segment, "jsonl.partial", Absent) /\ Step("done")
           ELSE job' = Job(job.segment, events, "rename") /\ UNCHANGED disk
    /\ UNCHANGED unchangedByStep

\* _recover_jsonl_partial: what follows the last complete line goes; a file
\* without a complete line is removed.
Truncate ==
    /\ At("truncate")
    /\ LET events == disk[job.segment]["jsonl.partial"].events IN
         IF events = <<>>
           THEN Put(job.segment, "jsonl.partial", Absent) /\ Step("done")
           ELSE /\ Put(job.segment, "jsonl.partial", File(events, FALSE))
                /\ job' = Job(job.segment, events, "rename")
    /\ UNCHANGED unchangedByStep

\* FileExistsError, in the first loop: the .jsonl.partial to be moved to
\* quarantine has been renamed, so the recovery and the start fail.
StartFails ==
    /\ pc = "1" /\ At("create")
    /\ Has(job.segment, "zst.partial")
    /\ pc' = "down" /\ todo' = {} /\ job' = NoJob
    /\ UNCHANGED <<names, disk, quarantine, open, sequence, used, crashes, restarted, kept>>

\* Mutant of OrphanFails: the file is removed rather than moved.
OrphanRemoved ==
    /\ pc = "2" /\ At("create")
    /\ Has(job.segment, "zst.partial")
    /\ Put(job.segment, "jsonl", Absent)
    /\ job' = NoJob /\ todo' = todo \ {job.segment}
    /\ UNCHANGED <<quarantine, unchangedByRecovery>>

\* Mutant of OrphanFails: this error ends the start as well.
OrphanFailsStart ==
    /\ pc = "2" /\ At("create")
    /\ Has(job.segment, "zst.partial")
    /\ pc' = "down" /\ todo' = {} /\ job' = NoJob
    /\ UNCHANGED <<names, disk, quarantine, open, sequence, used, crashes, restarted, kept>>

\* FileExistsError, in the second loop: the .jsonl goes to quarantine.
OrphanFails ==
    /\ pc = "2" /\ At("create")
    /\ Has(job.segment, "zst.partial")
    /\ Quarantined(job.segment, "jsonl")
    /\ job' = NoJob /\ todo' = todo \ {job.segment}
    /\ UNCHANGED unchangedByRecovery

\* A .jsonl.zst.partial that can be read becomes a .jsonl.zst, whatever it
\* holds; an empty one gets no manifest.
RecoverCompressedPartial(s) ==
    /\ Taken({"3"}, s)
    /\ IF disk[s]["zst.partial"].torn THEN Drop(s, "zst.partial")
       ELSE /\ Renamed(s, "zst.partial", "zst")
            /\ IF disk[s]["zst.partial"].events = <<>> \/ Has(s, "manifest")
                 THEN todo' = todo \ {s} /\ UNCHANGED job
                 ELSE job' = Job(s, disk[s]["zst.partial"].events, "describe") /\ UNCHANGED todo
            /\ UNCHANGED quarantine
    /\ UNCHANGED unchangedByRecovery

\* Mutant of RecoverCompressed: an empty .jsonl.zst stays where it is.
RecoverCompressedOrSkip(s) ==
    /\ Taken({"4"}, s)
    /\ IF Has(s, "manifest") \/ disk[s]["zst"].events = <<>> THEN Skip(s)
       ELSE /\ job' = Job(s, disk[s]["zst"].events, "describe")
            /\ UNCHANGED <<disk, quarantine, todo>>
    /\ UNCHANGED unchangedByRecovery

\* A .jsonl.zst without a manifest gets one, unless it holds nothing.
RecoverCompressed(s) ==
    /\ Taken({"4"}, s)
    /\ IF Has(s, "manifest") THEN Skip(s)
       ELSE IF disk[s]["zst"].events = <<>> THEN Drop(s, "zst")
       ELSE /\ job' = Job(s, disk[s]["zst"].events, "describe")
            /\ UNCHANGED <<disk, quarantine, todo>>
    /\ UNCHANGED unchangedByRecovery

\* A .parquet.partial that is complete becomes a .parquet with a manifest.
RecoverPart(s) ==
    /\ Taken({"7"}, s)
    /\ IF disk[s]["parquet.partial"].torn THEN Drop(s, "parquet.partial")
       ELSE /\ Renamed(s, "parquet.partial", "parquet")
            /\ job' = Job(s, disk[s]["parquet.partial"].events, "describe")
            /\ UNCHANGED <<quarantine, todo>>
    /\ UNCHANGED unchangedByRecovery

\* Mutant of RecoverParquet: a .parquet is taken for a part that is complete.
RecoverParquetNot(s) ==
    /\ Taken({"8"}, s)
    /\ Skip(s) /\ UNCHANGED unchangedByRecovery

\* A .parquet without a manifest gets one.
RecoverParquet(s) ==
    /\ Taken({"8"}, s)
    /\ IF Has(s, "manifest") THEN Skip(s)
       ELSE /\ job' = Job(s, disk[s]["parquet"].events, "describe")
            /\ UNCHANGED <<disk, quarantine, todo>>
    /\ UNCHANGED unchangedByRecovery

\* The manifest of x says what the data file holds.
Describes(s, x) == Has(s, DataKind(s)) /\ disk[s][x] = disk[s][DataKind(s)]

RecoverManifestPartial(s) ==
    /\ Taken({"5", "9"}, s)
    /\ IF ~Describes(s, "manifest.partial") THEN Drop(s, "manifest.partial")
       ELSE /\ Renamed(s, "manifest.partial", "manifest")
            /\ todo' = todo \ {s} /\ UNCHANGED <<quarantine, job>>
    /\ UNCHANGED unchangedByRecovery

VerifyManifest(s) ==
    /\ Taken({"6", "10"}, s)
    /\ IF Describes(s, "manifest") THEN Skip(s) ELSE Drop(s, "manifest")
    /\ UNCHANGED unchangedByRecovery

Recover ==
    \/ NextLoop \/ Truncate \/ StartFails \/ OrphanFails
    \/ \E s \in Segments :
          \/ RecoverPartial(s) \/ RecoverOrphan(s)
          \/ RecoverCompressedPartial(s) \/ RecoverCompressed(s)
          \/ RecoverPart(s) \/ RecoverParquet(s)
          \/ RecoverManifestPartial(s) \/ VerifyManifest(s)

-----------------------------------------------------------------------------
(* The end of the process, at any moment.                                  *)

\* What may be found of a file whose events are being written, of which n have
\* been flushed: more events, and a part of the next one.
Remains(events, n) ==
    {File(events, FALSE)}
      \cup [events : {SubSeq(events, 1, i) : i \in n..(Len(events) - 1)}, torn : BOOLEAN]

\* Segment s with any of these files for its x.
WithOneOf(s, x, files) == {[disk[s] EXCEPT ![x] = f] : f \in files}

\* What may be found of segment s.
Remaining(s) ==
    LET InStep(step) == At(step) /\ job.segment = s IN
    CASE s \in {open[st].number : st \in RawOpen} ->
           WithOneOf(s, "jsonl.partial", Remains(open[streamOf[s]].events, Len(kept[s])))
      [] InStep("compress") -> WithOneOf(s, "zst.partial", Remains(job.events, 0))
      [] InStep("table") -> WithOneOf(s, "parquet.partial", {Absent, File(<<>>, TRUE)})
      [] InStep("describe") ->
           WithOneOf(s, "manifest.partial", {disk[s]["manifest.partial"], File(<<>>, TRUE)})
      [] OTHER -> {disk[s]}

Crash ==
    /\ pc # "down"
    /\ crashes + Cardinality(streams) < MaxCrashes
    /\ crashes' = crashes + 1
    /\ LET written == {s \in Segments : Remaining(s) # {disk[s]}} IN
         \E found \in [written -> UNION {Remaining(s) : s \in written}] :
            /\ \A s \in written : found[s] \in Remaining(s)
            /\ disk' = [s \in Segments |-> IF s \in written THEN found[s] ELSE disk[s]]
    /\ open' = [st \in streams |-> NoSegment]
    /\ pc' = "down" /\ todo' = {} /\ job' = NoJob
    /\ UNCHANGED <<names, quarantine, sequence, used, restarted, kept>>

Next ==
    \/ \E st \in streams : Open(st) \/ Write(st) \/ Rotate(st) \/ Close(st)
    \/ Flush \/ Exit
    \/ Finalize
    \/ Start \/ Recover
    \/ Crash

Spec == Init /\ [][Next]_vars

\* The process is started again whenever it is down, and does not stop before
\* it has recovered.
FairSpec == Spec /\ WF_vars(Start) /\ WF_vars(Finalize \/ Recover)

-----------------------------------------------------------------------------
(* Properties.                                                             *)

\* Only a partial file may end within an event.
TypeOK ==
    /\ streams \in StreamSets /\ streamOf \in [Segments -> streams \cup {NoStream}]
    /\ \A s \in Segments, x \in {"jsonl", "zst", "parquet", "manifest"} : Has(s, x) => ~disk[s][x].torn
    /\ \A s \in Segments, x \in FileKinds :
          Has(s, x) => /\ Root(s) = "raw" \/ x \in {"parquet.partial", "parquet", "manifest.partial", "manifest"}
                       /\ ToSet(disk[s][x].events) \subseteq 1..MaxSequence
    /\ \A st \in streams : IsOpen(st) => streamOf[open[st].number] = st
    /\ sequence \in 0..MaxSequence /\ used \in 0..MaxSegments /\ crashes \in 0..MaxCrashes
    /\ pc \in {"down", "running", "closing"} \cup ToSet(Names)
    /\ todo \subseteq 1..used
    /\ job = NoJob \/ job.segment \in 1..used

DataKinds == FileKinds \ {"manifest.partial", "manifest"}

\* The data files there are of segment s, wherever they are
Copies(s) ==
    {disk[s][x] : x \in {y \in DataKinds : Has(s, y)}}
      \cup {q.file : q \in {r \in quarantine[s] : r.suffix \in DataKinds}}

\* An event that has been flushed is never lost again: whenever the process
\* dies, while it writes, finalizes or recovers, and however often, some one
\* file on the disk holds all flushed events of the segment.  The rows of a
\* part that was written to its end are in the snapshot directory, not in
\* quarantine.
NothingFlushedIsLost ==
    \A s \in Segments : kept[s] # <<>> =>
        IF Root(s) = "raw" THEN \E f \in Copies(s) : IsPrefix(kept[s], f.events)
        ELSE \E x \in {"parquet.partial", "parquet"} : Has(s, x) /\ disk[s][x] = File(kept[s], FALSE)

\* A manifest always describes its data file, so that replay never meets a wrong
\* hash or number of events, not even while the recovery runs; and a segment
\* with a manifest is complete: neither file is written again by any recovery
\* that comes later.
CompletedForGood ==
    [][\A s \in Segments : Has(s, "manifest") =>
          /\ Describes(s, "manifest")
          /\ disk'[s]["manifest"] = disk[s]["manifest"]
          /\ disk'[s][DataKind(s)] = disk[s][DataKind(s)]]_vars

\* When the recovery is over, nothing is half done: of every old segment there
\* is a data file with its manifest, or neither, and no partial file.
RecoveryIsComplete ==
    Running => \A s \in Segments \ OpenSegments :
          /\ Has(s, DataKind(s)) <=> Has(s, "manifest")
          /\ \A x \in {"jsonl.partial", "zst.partial", "parquet.partial", "manifest.partial"} : ~Has(s, x)

\* The segments of each raw stream that a manifest tells replay of.
Finalized ==
    [st \in streams \ {Snapshots} |->
       {[number |-> s, events |-> disk[s]["zst"].events] :
           s \in {t \in 1..used : streamOf[t] = st /\ Has(t, "manifest")}}]

\* What one process has written and closed in order, in several streams and
\* segments, replay gives back whole and in the order of the ingest sequences.
\* Whatever the crashes and restarts, replay refuses a log or gives back every
\* event of every segment that has a manifest, once, without a gap.
ReplayIsExact ==
    LET replay == ReadRawEvents(Finalized)
        segments == UNION {Finalized[st] : st \in DOMAIN Finalized}
        all == UNION {ToSet(segment.events) : segment \in segments}
    IN
    pc = "down" =>
      /\ crashes = 0 /\ ~restarted /\ Snapshots \notin streams =>
            ~replay.refused /\ replay.events = [i \in 1..sequence |-> i]
      /\ ~replay.refused =>
            /\ ToSet(replay.events) = all
            /\ \A a \in segments : IsInjective(a.events)
            /\ \A a, b \in segments : a # b => ToSet(a.events) \cap ToSet(b.events) = {}
            /\ \A i \in 1..Len(replay.events) : replay.events[i] = replay.events[1] + i - 1

\* Whatever crashes there have been, and although a start may fail on what
\* they left, starting again and again gets the service to run.
StartConverges == pc = "down" ~> pc = "running"

==============================================================================
