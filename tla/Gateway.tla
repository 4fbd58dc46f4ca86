------------------------------- MODULE Gateway -------------------------------
(***************************************************************************)
(* The gateway (market_data/gateway.py): its producer and worker tasks,    *)
(* the queues between them, what a fatal error stops, and the shutdown.    *)
(*                                                                         *)
(* Events are numbered in the order in which the bus accepts them.  The    *)
(* bus is the one EventBus specifies, seen from outside: publish() puts an *)
(* event into both queues at once, or fails because a queue stays full.    *)
(***************************************************************************)
EXTENDS Naturals, SequencesExt

CONSTANTS
    Sources,         \* the tasks of the live sources
    StateCap, StorageCap, MarketCap, SnapshotCap,   \* capacities of the queues
    BatchSize,       \* raw_flush_events
    MaxEvents,       \* bound: events accepted when a running producer adds one
    MaxWindows       \* bound: window states discovered

ASSUME GatewayAssumption ==
    /\ {StateCap, StorageCap, MarketCap, SnapshotCap, BatchSize} \subseteq Nat \ {0}
    /\ MaxEvents \in Nat /\ MaxWindows \in Nat
    /\ {"scheduler", "discovery"} \cap Sources = {}

VARIABLES
    accepted,        \* the kinds of the events accepted, in order
    stateQ, storageQ, snapshotQ,   \* the queues: numbers of events
    marketQ,         \* how many window states wait for the manager
    windows,         \* how many window states have been discovered
    producers,       \* each producer task: running, cancelled, surviving or done
    reducer, manager,    \* where the task is: get, put or exited
    tick,            \* the event of the snapshot the reducer has to store
    writer, batch,   \* the raw writer: get, collect, write or exited
    parquet, row,    \* the Parquet writer: get, write or exited
    reduced, written, rows,        \* what the three workers have done, in order
    stop,            \* _stop
    fatal,           \* _fatal is not None
    shutdown,        \* how far shutdown() has got
    timedOut         \* it has reached its deadline

queueVars == <<accepted, stateQ, storageQ>>
taskVars == <<reducer, tick, reduced, snapshotQ>>
managerVars == <<manager, marketQ, windows>>
writerVars == <<writer, batch, written>>
parquetVars == <<parquet, row, rows>>
shutdownVars == <<shutdown, timedOut>>
vars == <<queueVars, taskVars, managerVars, writerVars, parquetVars, producers,
          stop, fatal, shutdownVars>>

Producers == Sources \cup {"scheduler", "discovery"}

Init ==
    /\ accepted = <<>> /\ stateQ = <<>> /\ storageQ = <<>> /\ snapshotQ = <<>>
    /\ marketQ = 0 /\ windows = 0
    /\ producers = [p \in Producers |-> "running"]
    /\ reducer = "get" /\ tick = 0 /\ manager = "get"
    /\ writer = "get" /\ batch = <<>>
    /\ parquet = "get" /\ row = 0
    /\ reduced = <<>> /\ written = <<>> /\ rows = <<>>
    /\ stop = FALSE /\ fatal = FALSE
    /\ shutdown = "running" /\ timedOut = FALSE

-----------------------------------------------------------------------------
(* Publishing, and the end of a task.                                      *)

Open == shutdown # "closed"

\* Mutant of Room: only the state queue is looked at.
RoomInState == Len(stateQ) < StateCap

Room == Len(stateQ) < StateCap /\ Len(storageQ) < StorageCap

\* bus.publish() accepts an event.  (It looks at closed when it is called, and
\* not again before the event is in the queues.)
Accept(kind) ==
    /\ Room
    /\ accepted' = Append(accepted, kind)
    /\ stateQ' = Append(stateQ, Len(accepted'))
    /\ storageQ' = Append(storageQ, Len(accepted'))

\* bus.publish() raises: the bus is closed, or a queue has stayed full beyond
\* the deadline.
Refused == (~Open \/ ~Room) /\ UNCHANGED queueVars

\* _task_done: the first exception of any task stops the service.
Fatal == fatal' = TRUE /\ stop' = TRUE
NotFatal == UNCHANGED <<stop, fatal>>

-----------------------------------------------------------------------------
(* Producers.                                                              *)

\* A source publishes an event.  (If it is refused, the source logs it as a
\* lost connection and goes on.)
Produce(p) ==
    /\ producers[p] = "running"
    /\ Open /\ Len(accepted) < MaxEvents
    /\ Accept("data")
    /\ UNCHANGED <<taskVars, managerVars, writerVars, parquetVars, producers, stop, fatal,
                   shutdownVars>>

\* _snapshot_scheduler: a tick
Schedule ==
    /\ producers["scheduler"] = "running" /\ ~stop
    /\ Open /\ Len(accepted) < MaxEvents
    /\ Accept("tick")
    /\ UNCHANGED <<taskVars, managerVars, writerVars, parquetVars, producers, stop, fatal,
                   shutdownVars>>

ScheduleFails ==
    /\ producers["scheduler"] = "running" /\ ~stop
    /\ Refused
    /\ producers' = [producers EXCEPT !["scheduler"] = "done"]
    /\ Fatal
    /\ UNCHANGED <<taskVars, managerVars, writerVars, parquetVars, shutdownVars>>

ScheduleStops ==
    /\ producers["scheduler"] = "running" /\ stop
    /\ producers' = [producers EXCEPT !["scheduler"] = "done"]
    /\ UNCHANGED <<queueVars, taskVars, managerVars, writerVars, parquetVars, stop, fatal,
                   shutdownVars>>

\* market_discovery_callback: publish_market_state_nowait(), which raises when
\* the queue is full
Discover ==
    /\ producers["discovery"] \in {"running", "surviving"}
    /\ windows < MaxWindows
    /\ windows' = windows + 1
    /\ IF Open /\ marketQ < MarketCap
         THEN /\ marketQ' = marketQ + 1
              /\ NotFatal
              /\ UNCHANGED producers
         ELSE /\ producers' = [producers EXCEPT !["discovery"] = "done"]
              /\ Fatal
              /\ UNCHANGED marketQ
    /\ UNCHANGED <<queueVars, taskVars, manager, writerVars, parquetVars, shutdownVars>>

\* A cancelled producer ends.  A source still publishes the status of its
\* connection on the way out, if it had one, and if there is room.
ProducerEnds(p) ==
    /\ producers[p] = "cancelled"
    /\ producers' = [producers EXCEPT ![p] = "done"]
    /\ \/ UNCHANGED queueVars /\ NotFatal
       \/ p \in Sources /\ Open /\ Accept("data") /\ NotFatal
       \/ p \in Sources /\ Refused /\ Fatal
    /\ UNCHANGED <<taskVars, managerVars, writerVars, parquetVars, shutdownVars>>

\* Each worker of discovery is ending a search, and takes the cancellation for
\* that of its expiry task (see Cancelled in Discovery): discovery goes on.  The
\* next search ends a window later, so the deadline does not meet it there again.
DiscoverySurvives ==
    /\ producers["discovery"] = "cancelled" /\ shutdown = "producers"
    /\ producers' = [producers EXCEPT !["discovery"] = "surviving"]
    /\ UNCHANGED <<queueVars, taskVars, managerVars, writerVars, parquetVars, stop, fatal,
                   shutdownVars>>

-----------------------------------------------------------------------------
(* Workers: each runs until _stop is set and its queue is empty.           *)

\* _market_manager: it takes a window state and calls publish().
ManagerTakes ==
    /\ manager = "get" /\ marketQ > 0
    /\ marketQ' = marketQ - 1
    /\ \/ Open /\ manager' = "put" /\ NotFatal
       \/ ~Open /\ manager' = "exited" /\ Fatal
    /\ UNCHANGED <<queueVars, taskVars, windows, writerVars, parquetVars, producers, shutdownVars>>

ManagerPublishes ==
    /\ manager = "put"
    /\ Accept("data")
    /\ manager' = "get"
    /\ UNCHANGED <<taskVars, marketQ, windows, writerVars, parquetVars, producers, stop, fatal,
                   shutdownVars>>

ManagerFails ==
    /\ manager = "put"
    /\ ~Room /\ UNCHANGED queueVars
    /\ manager' = "exited"
    /\ Fatal
    /\ UNCHANGED <<taskVars, marketQ, windows, writerVars, parquetVars, producers, shutdownVars>>

ManagerExits ==
    /\ manager = "get" /\ stop /\ marketQ = 0
    /\ manager' = "exited"
    /\ UNCHANGED <<queueVars, taskVars, marketQ, windows, writerVars, parquetVars, producers,
                   stop, fatal, shutdownVars>>

\* _reducer
ReducerTakes ==
    /\ reducer = "get" /\ stateQ # <<>>
    /\ stateQ' = Tail(stateQ)
    /\ reduced' = Append(reduced, Head(stateQ))
    /\ IF accepted[Head(stateQ)] = "tick"
         THEN reducer' = "put" /\ tick' = Head(stateQ)
         ELSE UNCHANGED <<reducer, tick>>
    /\ UNCHANGED <<accepted, storageQ, snapshotQ, managerVars, writerVars, parquetVars,
                   producers, stop, fatal, shutdownVars>>

ReducerStores ==
    /\ reducer = "put"
    /\ Len(snapshotQ) < SnapshotCap
    /\ snapshotQ' = Append(snapshotQ, tick)
    /\ reducer' = "get" /\ tick' = 0
    /\ UNCHANGED <<queueVars, reduced, managerVars, writerVars, parquetVars, producers, stop,
                   fatal, shutdownVars>>

\* The snapshot queue stays full beyond the deadline.
ReducerFails ==
    /\ reducer = "put"
    /\ Len(snapshotQ) = SnapshotCap
    /\ reducer' = "exited" /\ tick' = 0
    /\ Fatal
    /\ UNCHANGED <<queueVars, snapshotQ, reduced, managerVars, writerVars, parquetVars, producers,
                   shutdownVars>>

ReducerExits ==
    /\ reducer = "get" /\ stop /\ stateQ = <<>>
    /\ reducer' = "exited"
    /\ UNCHANGED <<queueVars, tick, snapshotQ, reduced, managerVars, writerVars, parquetVars,
                   producers, stop, fatal, shutdownVars>>

\* _raw_writer: the first event of a batch
WriterTakes ==
    /\ writer = "get" /\ storageQ # <<>>
    /\ batch' = <<Head(storageQ)>>
    /\ storageQ' = Tail(storageQ)
    /\ writer' = "collect"
    /\ UNCHANGED <<accepted, stateQ, taskVars, managerVars, written, parquetVars,
                   producers, stop, fatal, shutdownVars>>

\* The rest of the batch: all there is once _stop is set
WriterCollects ==
    /\ writer = "collect"
    /\ LET limit == IF stop THEN Len(storageQ) + 1 ELSE BatchSize
           n == IF Len(storageQ) < limit - 1 THEN Len(storageQ) ELSE limit - 1 IN
         /\ batch' = batch \o SubSeq(storageQ, 1, n)
         /\ storageQ' = SubSeq(storageQ, n + 1, Len(storageQ))
    /\ writer' = "write"
    /\ UNCHANGED <<accepted, stateQ, taskVars, managerVars, written, parquetVars,
                   producers, stop, fatal, shutdownVars>>

\* _persist_raw_batch, in a thread
WriterWrites ==
    /\ writer = "write"
    /\ written' = written \o batch
    /\ batch' = <<>>
    /\ writer' = "get"
    /\ UNCHANGED <<queueVars, taskVars, managerVars, parquetVars, producers, stop,
                   fatal, shutdownVars>>

\* Mutant of WriterFails: the raw writer goes on after an error of the disk.
WriterGoesOn ==
    /\ writer = "write"
    /\ \E n \in 0..(Len(batch) - 1) : written' = written \o SubSeq(batch, 1, n)
    /\ batch' = <<>>
    /\ writer' = "get"
    /\ UNCHANGED <<queueVars, taskVars, managerVars, parquetVars, producers, stop, fatal,
                   shutdownVars>>

\* The storage raises in the middle of a batch, or when all of it is flushed.
WriterFails ==
    /\ writer = "write"
    /\ \E n \in 0..Len(batch) : written' = written \o SubSeq(batch, 1, n)
    /\ batch' = <<>>
    /\ writer' = "exited"
    /\ Fatal
    /\ UNCHANGED <<queueVars, taskVars, managerVars, parquetVars, producers, shutdownVars>>

WriterExits ==
    /\ writer = "get" /\ stop /\ storageQ = <<>>
    /\ writer' = "exited"
    /\ UNCHANGED <<queueVars, taskVars, managerVars, batch, written, parquetVars,
                   producers, stop, fatal, shutdownVars>>

\* _parquet_writer
ParquetTakes ==
    /\ parquet = "get" /\ snapshotQ # <<>>
    /\ row' = Head(snapshotQ)
    /\ snapshotQ' = Tail(snapshotQ)
    /\ parquet' = "write"
    /\ UNCHANGED <<queueVars, reducer, tick, reduced, managerVars, writerVars, rows, producers,
                   stop, fatal, shutdownVars>>

ParquetWrites ==
    /\ parquet = "write"
    /\ rows' = Append(rows, row)
    /\ parquet' = "get" /\ row' = 0
    /\ UNCHANGED <<queueVars, taskVars, managerVars, writerVars, producers, stop, fatal,
                   shutdownVars>>

\* Mutant of ParquetFails: the Parquet writer goes on after an error of the disk.
ParquetGoesOn ==
    /\ parquet = "write"
    /\ parquet' = "get" /\ row' = 0
    /\ UNCHANGED <<queueVars, taskVars, managerVars, writerVars, rows, producers, stop, fatal,
                   shutdownVars>>

ParquetFails ==
    /\ parquet = "write"
    /\ parquet' = "exited" /\ row' = 0
    /\ Fatal
    /\ UNCHANGED <<queueVars, taskVars, managerVars, writerVars, rows, producers, shutdownVars>>

ParquetExits ==
    /\ parquet = "get" /\ stop /\ snapshotQ = <<>>
    /\ parquet' = "exited"
    /\ UNCHANGED <<queueVars, taskVars, managerVars, writerVars, row, rows, producers, stop,
                   fatal, shutdownVars>>
-----------------------------------------------------------------------------
(* shutdown()                                                              *)

\* The order in which it waits.
Stages == <<"producers", "market", "state", "storage", "snapshot", "tasks">>

\* It is called once, on a signal or after a fatal error, and cancels the
\* producers.
Shutdown ==
    /\ shutdown = "running"
    /\ shutdown' = "producers"
    /\ producers' = [p \in Producers |-> IF producers[p] = "running" THEN "cancelled"
                                         ELSE producers[p]]
    /\ UNCHANGED <<queueVars, taskVars, managerVars, writerVars, parquetVars, stop, fatal, timedOut>>

\* queue.join(): nothing is queued, and nothing taken is unfinished.
MarketDone == marketQ = 0 /\ manager # "put"
StateDone == stateQ = <<>> /\ reducer # "put"
StorageDone == storageQ = <<>> /\ batch = <<>>
SnapshotDone == snapshotQ = <<>> /\ parquet # "write"

Exited == manager = "exited" /\ reducer = "exited" /\ writer = "exited" /\ parquet = "exited"

\* Mutant of Waited: the queues are joined before the producers are gone.
WaitedForQueues(stage) ==
    CASE stage = "producers" -> TRUE
      [] stage = "market" -> MarketDone
      [] stage = "state" -> StateDone
      [] stage = "storage" -> StorageDone
      [] stage = "snapshot" -> SnapshotDone
      [] stage = "tasks" -> Exited

\* What stage of the shutdown waits for
Waited(stage) ==
    CASE stage = "producers" -> \A p \in Producers : producers[p] = "done"
      [] stage = "market" -> MarketDone
      [] stage = "state" -> StateDone
      [] stage = "storage" -> StorageDone
      [] stage = "snapshot" -> SnapshotDone
      [] stage = "tasks" -> Exited

\* Mutant of Proceed: _stop is left to the finally clause.
ProceedWithoutStop ==
    \E i \in DOMAIN Stages :
        /\ shutdown = Stages[i]
        /\ Waited(Stages[i])
        /\ shutdown' = IF i = Len(Stages) THEN "closing" ELSE Stages[i + 1]
        /\ UNCHANGED <<queueVars, taskVars, managerVars, writerVars, parquetVars, producers, stop,
                       fatal, timedOut>>

Proceed ==
    \E i \in DOMAIN Stages :
        /\ shutdown = Stages[i]
        /\ Waited(Stages[i])
        /\ shutdown' = IF i = Len(Stages) THEN "closing" ELSE Stages[i + 1]
        /\ stop' = (stop \/ Stages[i] = "snapshot")
        /\ UNCHANGED <<queueVars, taskVars, managerVars, writerVars, parquetVars, producers, fatal,
                       timedOut>>

\* asyncio.timeout(shutdown_timeout_seconds).  What is being waited for is
\* cancelled: a discovery that has survived, once more.  (In the last stage the
\* workers too; they are about to exit on empty queues all the same.)
TimesOut ==
    /\ \E i \in DOMAIN Stages : shutdown = Stages[i]
    /\ shutdown' = "closing"
    /\ timedOut' = TRUE
    /\ producers' = [p \in Producers |-> IF producers[p] = "surviving" THEN "cancelled"
                                         ELSE producers[p]]
    /\ UNCHANGED <<queueVars, taskVars, managerVars, writerVars, parquetVars, stop, fatal>>

\* finally: the storages and the bus are closed.
Close ==
    /\ shutdown = "closing"
    /\ shutdown' = "closed"
    /\ stop' = TRUE
    /\ UNCHANGED <<queueVars, taskVars, managerVars, writerVars, parquetVars, producers, fatal,
                   timedOut>>

\* A storage raises while it is closed: the bus stays open.
CloseFails ==
    /\ shutdown = "closing"
    /\ shutdown' = "failed"
    /\ stop' = TRUE
    /\ UNCHANGED <<queueVars, taskVars, managerVars, writerVars, parquetVars, producers, fatal,
                   timedOut>>

-----------------------------------------------------------------------------
ProducerStep ==
    \/ \E p \in Sources : Produce(p)
    \/ Schedule \/ ScheduleFails \/ ScheduleStops \/ Discover

WorkerStep ==
    \/ ManagerTakes \/ ManagerPublishes \/ ManagerFails \/ ManagerExits
    \/ ReducerTakes \/ ReducerStores \/ ReducerFails \/ ReducerExits
    \/ WriterTakes \/ WriterCollects \/ WriterWrites \/ WriterFails \/ WriterExits
    \/ ParquetTakes \/ ParquetWrites \/ ParquetFails \/ ParquetExits

Next ==
    \/ ProducerStep
    \/ \E p \in Producers : ProducerEnds(p)
    \/ DiscoverySurvives
    \/ WorkerStep
    \/ Shutdown \/ Proceed \/ TimesOut \/ Close \/ CloseFails

Spec == Init /\ [][Next]_vars

\* The event loop runs each worker, each cancelled producer, and a shutdown
\* that has been asked for.  Nobody has to ask for one, and no deadline of it has
\* to pass.  (A cancelled discovery does not have to end: it may survive.)
FairSpec ==
    /\ Spec
    /\ WF_vars(ManagerTakes \/ ManagerPublishes \/ ManagerFails \/ ManagerExits)
    /\ WF_vars(ReducerTakes \/ ReducerStores \/ ReducerFails \/ ReducerExits)
    /\ WF_vars(WriterTakes \/ WriterCollects \/ WriterWrites \/ WriterFails \/ WriterExits)
    /\ WF_vars(ParquetTakes \/ ParquetWrites \/ ParquetFails \/ ParquetExits)
    /\ \A p \in Producers : WF_vars(ProducerEnds(p))
    /\ WF_vars(Proceed) /\ WF_vars(Close \/ CloseFails)

-----------------------------------------------------------------------------
(* Properties.                                                             *)

TypeOK ==
    /\ accepted \in Seq({"data", "tick"})
    /\ stateQ \in Seq(Nat) /\ Len(stateQ) <= StateCap
    /\ storageQ \in Seq(Nat) /\ Len(storageQ) <= StorageCap
    /\ snapshotQ \in Seq(Nat) /\ Len(snapshotQ) <= SnapshotCap
    /\ marketQ \in 0..MarketCap /\ windows \in 0..MaxWindows
    /\ producers \in [Producers -> {"running", "cancelled", "surviving", "done"}]
    /\ {reducer, manager} \subseteq {"get", "put", "exited"}
    /\ writer \in {"get", "collect", "write", "exited"}
    /\ parquet \in {"get", "write", "exited"}
    /\ {tick, row} \subseteq Nat
    /\ {batch, reduced, written, rows} \subseteq Seq(Nat)
    /\ {stop, fatal, timedOut} \subseteq BOOLEAN
    /\ shutdown \in {"running", "closing", "closed", "failed"} \cup ToSet(Stages)

Events == [i \in DOMAIN accepted |-> i]
Ticks == {n \in DOMAIN accepted : accepted[n] = "tick"}

\* What is on disk is always a beginning of what was accepted: an error of the
\* disk, a fatal error elsewhere or an interrupted shutdown may end the raw
\* log, and never leaves a hole in it.
LogIsPrefix == IsPrefix(written, Events)

Increasing(s) == \A i, j \in DOMAIN s : i < j => s[i] < s[j]

\* The same for the rows of the Parquet files and the ticks: they are in the
\* order of the ticks, and no tick before the last row is without its row,
\* neither because the queue was full nor because the disk failed.
RowsArePrefix ==
    /\ Increasing(rows)
    /\ ToSet(rows) \subseteq Ticks
    /\ \A n \in Ticks, m \in ToSet(rows) : n < m => n \in ToSet(rows)

\* A shutdown that reports no error has lost nothing: every event accepted is
\* in the raw log, has been reduced, and every tick has its row.
CleanShutdown ==
    shutdown = "closed" /\ ~timedOut /\ ~fatal =>
        /\ written = Events
        /\ reduced = Events
        /\ ToSet(rows) = Ticks

\* A shutdown comes to its end, and not only because its deadline passes: the
\* tasks that wait for each other do not wait for ever.  What may leave it to the
\* deadline is a fatal error, after which a queue may have no reader, and a
\* discovery that survives its cancellation.
ShutdownEnds ==
    shutdown = "producers" ~>
        (shutdown \in {"closed", "failed"} \/ fatal \/ producers["discovery"] = "surviving")

=============================================================================
