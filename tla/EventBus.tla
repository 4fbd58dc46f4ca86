------------------------------ MODULE EventBus ------------------------------
(***************************************************************************)
(* The in-process event bus (market_data/event_bus.py).                    *)
(*                                                                         *)
(* Every source, the market manager and the snapshot scheduler call        *)
(* publish(), a coroutine serialised by one asyncio.Lock: the holder takes *)
(* the next ingest sequence, then polls until neither bounded queue is     *)
(* full and puts the event in both, or gives up at its deadline.  A task   *)
(* can be cancelled wherever publish() is suspended: in the line for the   *)
(* lock, or between two polls.  Between two suspensions nothing else runs, *)
(* so one action is the code from one suspension to the next.              *)
(***************************************************************************)
EXTENDS Naturals, SequencesExt

CONSTANTS
    Publishers,      \* the tasks that call publish()
    NoOne,           \* "no task is polling inside the lock"
    StateCap,        \* capacity of state_queue
    StorageCap,      \* capacity of storage_queue
    MarketCap,       \* capacity of market_state_queue
    PutTimeout,      \* put_timeout_seconds, in ticks of the clock
    MaxCalls         \* bound on the calls of publish() in a behaviour

ASSUME CapsAssumption ==
    /\ StateCap \in Nat \ {0}
    /\ StorageCap \in Nat \ {0}
    /\ MarketCap \in Nat \ {0}
ASSUME TimeoutAssumption == PutTimeout \in Nat \ {0}
ASSUME CallsAssumption == MaxCalls \in Nat
ASSUME NoOneAssumption == NoOne \notin Publishers

VARIABLES
    stateQueue,      \* events not yet taken by the reducer
    storageQueue,    \* events not yet taken by the raw writer
    marketQueue,     \* number of discovery snapshots not yet taken
    highWater,       \* high_water: the largest size each queue has had
    closed,          \* EventBus.closed
    waiters,         \* tasks in line for _publish_lock, in asyncio's FIFO order
    holder,          \* the task that polls inside the lock, or NoOne
    held,            \* ingest sequence the holder has taken
    timeLeft,        \* ticks before the holder's deadline
    nextSequence,    \* the gateway's itertools.count
    outcome,         \* what each task's current or last call has come to
    \* History: not in the code.
    calls,           \* number of calls made; a call's number is its ticket
    ticket,          \* the ticket of each task's current or last call
    accepted,        \* the events publish() accepted, in order
    reduced,         \* number of events the reducer has taken
    stored           \* number of events the raw writer has taken

queueVars   == <<stateQueue, storageQueue, reduced, stored>>
marketVars  == <<marketQueue>>
lockVars    == <<waiters, holder, held, timeLeft>>
historyVars == <<calls, ticket, accepted>>
vars == <<queueVars, marketVars, highWater, closed, lockVars, nextSequence,
          outcome, historyVars>>

Event    == [sequence : Nat, ticket : Nat]
Outcomes == {"none", "busy", "accepted", "backpressure", "cancelled", "closed"}

-----------------------------------------------------------------------------
Init ==
    /\ stateQueue = <<>>
    /\ storageQueue = <<>>
    /\ marketQueue = 0
    /\ highWater = [state |-> 0, storage |-> 0, market |-> 0]
    /\ closed = FALSE
    /\ waiters = <<>>
    /\ holder = NoOne
    /\ held = 0
    /\ timeLeft = 0
    /\ nextSequence = 1
    /\ outcome = [p \in Publishers |-> "none"]
    /\ calls = 0
    /\ ticket = [p \in Publishers |-> 0]
    /\ accepted = <<>>
    /\ reduced = 0 /\ stored = 0

-----------------------------------------------------------------------------
(* The lock, and the loop that runs inside it.                             *)

\* Mutant of Full: waits only while both queues are full.
FullBoth == Len(stateQueue) >= StateCap /\ Len(storageQueue) >= StorageCap

Full == Len(stateQueue) >= StateCap \/ Len(storageQueue) >= StorageCap

\* Mutant of TimeUp: the deadline is computed anew by every poll.
TimeUpNever == FALSE

TimeUp == timeLeft = 0

\* Mutant of LockFree: a newcomer may overtake the line.
LockFreeBarging == holder = NoOne

\* asyncio.Lock.acquire() does not suspend when the lock is free and nobody
\* is in line; otherwise the caller goes to the end of the line.
LockFree == holder = NoOne /\ waiters = <<>>

Larger(a, b) == IF a >= b THEN a ELSE b

\* Mutant of Deliver: the event never reaches the raw writer's queue.
DeliverStateOnly(p, event) ==
    /\ stateQueue' = Append(stateQueue, event)
    /\ highWater' = [highWater EXCEPT !.state = Larger(@, Len(stateQueue'))]
    /\ accepted' = Append(accepted, event)
    /\ outcome' = [outcome EXCEPT ![p] = "accepted"]
    /\ UNCHANGED <<storageQueue, reduced, stored>>

\* Both put_nowait calls, the high-water marks, return True.
Deliver(p, event) ==
    /\ stateQueue' = Append(stateQueue, event)
    /\ storageQueue' = Append(storageQueue, event)
    /\ highWater' = [highWater EXCEPT
                        !.state = Larger(@, Len(stateQueue')),
                        !.storage = Larger(@, Len(storageQueue'))]
    /\ accepted' = Append(accepted, event)
    /\ outcome' = [outcome EXCEPT ![p] = "accepted"]
    /\ UNCHANGED <<reduced, stored>>

\* Mutant of GiveUp: the call returns True although the event was dropped.
GiveUpSilently(p) == outcome' = [outcome EXCEPT ![p] = "accepted"]

GiveUp(p) == outcome' = [outcome EXCEPT ![p] = "backpressure"]

\* A task that has just got the lock allocates a sequence and looks at the
\* queues once, without suspending; it keeps the lock if it has to wait.
Enter(p, t) ==
    /\ nextSequence' = nextSequence + 1
    /\ \/ /\ ~Full
          /\ Deliver(p, [sequence |-> nextSequence, ticket |-> t])
          /\ UNCHANGED <<holder, held, timeLeft>>
       \/ /\ Full
          /\ holder' = p
          /\ held' = nextSequence
          /\ timeLeft' = PutTimeout
          /\ outcome' = [outcome EXCEPT ![p] = "busy"]
          /\ UNCHANGED <<queueVars, highWater, accepted>>

\* The call of publish().
Publish(p) ==
    /\ calls < MaxCalls
    /\ outcome[p] # "busy"
    /\ calls' = calls + 1
    /\ ticket' = [ticket EXCEPT ![p] = calls + 1]
    /\ \/ /\ closed
          /\ outcome' = [outcome EXCEPT ![p] = "closed"]
          /\ UNCHANGED <<queueVars, highWater, lockVars, nextSequence, accepted>>
       \/ /\ ~closed
          /\ LockFree
          /\ Enter(p, calls + 1)
          /\ UNCHANGED waiters
       \/ /\ ~closed
          /\ ~LockFree
          /\ waiters' = Append(waiters, p)
          /\ outcome' = [outcome EXCEPT ![p] = "busy"]
          /\ UNCHANGED <<queueVars, highWater, holder, held, timeLeft,
                         nextSequence, accepted>>
    /\ UNCHANGED <<marketVars, closed>>

\* The first task in line gets the lock.  `closed` is not looked at again.
Acquire(p) ==
    /\ holder = NoOne
    /\ waiters # <<>>
    /\ p = Head(waiters)
    /\ waiters' = Tail(waiters)
    /\ Enter(p, ticket[p])
    /\ UNCHANGED <<marketVars, closed, calls, ticket>>

ReleaseLock == holder' = NoOne /\ held' = 0 /\ timeLeft' = 0

\* The holder wakes up from asyncio.sleep(0.001): it delivers if there is
\* room, whatever the time; it raises if there is none and time is up.
Poll(p) ==
    /\ holder = p
    /\ \/ /\ ~Full
          /\ Deliver(p, [sequence |-> held, ticket |-> ticket[p]])
       \/ /\ Full
          /\ TimeUp
          /\ GiveUp(p)
          /\ UNCHANGED <<queueVars, highWater, accepted>>
    /\ ReleaseLock
    /\ UNCHANGED <<marketVars, closed, waiters, nextSequence, calls, ticket>>

Tick ==
    /\ holder # NoOne
    /\ timeLeft > 0
    /\ timeLeft' = timeLeft - 1
    /\ UNCHANGED <<queueVars, marketVars, highWater, closed, waiters, holder,
                   held, nextSequence, outcome, historyVars>>

\* CancelledError thrown in while the task is in line: it leaves the line.
CancelWaiting(p) ==
    /\ \E i \in DOMAIN waiters :
          waiters[i] = p /\ waiters' = RemoveAt(waiters, i)
    /\ outcome' = [outcome EXCEPT ![p] = "cancelled"]
    /\ UNCHANGED <<queueVars, marketVars, highWater, closed, holder, held,
                   timeLeft, nextSequence, historyVars>>

\* Mutant of CancelPolling: the lock is not released on the way out.
CancelPollingHoldingLock(p) ==
    /\ holder = p
    /\ outcome' = [outcome EXCEPT ![p] = "cancelled"]
    /\ UNCHANGED <<queueVars, marketVars, highWater, closed, lockVars,
                   nextSequence, historyVars>>

\* CancelledError thrown in at asyncio.sleep(0.001): the lock is released and
\* the sequence taken is not given back.
CancelPolling(p) ==
    /\ holder = p
    /\ ReleaseLock
    /\ outcome' = [outcome EXCEPT ![p] = "cancelled"]
    /\ UNCHANGED <<queueVars, marketVars, highWater, closed, waiters,
                   nextSequence, historyVars>>

-----------------------------------------------------------------------------
(* The other operations of the bus, and its consumers.                     *)

\* publish_market_state_nowait(): it raises, changing nothing, when the bus
\* is closed or the queue is full.
PublishMarketState ==
    /\ ~closed
    /\ marketQueue < MarketCap
    /\ marketQueue' = marketQueue + 1
    /\ highWater' = [highWater EXCEPT !.market = Larger(@, marketQueue')]
    /\ UNCHANGED <<queueVars, closed, lockVars, nextSequence, outcome,
                   historyVars>>

Close ==
    /\ ~closed
    /\ closed' = TRUE
    /\ UNCHANGED <<queueVars, marketVars, highWater, lockVars, nextSequence,
                   outcome, historyVars>>

\* state_queue.get() in the reducer
GetState ==
    /\ stateQueue # <<>>
    /\ stateQueue' = Tail(stateQueue)
    /\ reduced' = reduced + 1
    /\ UNCHANGED <<storageQueue, stored, marketVars, highWater, closed, lockVars,
                   nextSequence, outcome, historyVars>>

\* storage_queue.get() or get_nowait() in the raw writer
GetStorage ==
    /\ storageQueue # <<>>
    /\ storageQueue' = Tail(storageQueue)
    /\ stored' = stored + 1
    /\ UNCHANGED <<stateQueue, reduced, marketVars, highWater, closed, lockVars,
                   nextSequence, outcome, historyVars>>

\* market_state_queue.get() in the market manager
GetMarketState ==
    /\ marketQueue > 0
    /\ marketQueue' = marketQueue - 1
    /\ UNCHANGED <<queueVars, highWater, closed, lockVars, nextSequence,
                   outcome, historyVars>>

Next ==
    \/ \E p \in Publishers : \/ Publish(p) \/ Acquire(p) \/ Poll(p)
                              \/ CancelWaiting(p) \/ CancelPolling(p)
    \/ Tick
    \/ PublishMarketState \/ Close
    \/ GetState \/ GetStorage \/ GetMarketState

Spec == Init /\ [][Next]_vars

\* The event loop runs every task that is ready, and time passes.  Nothing is
\* assumed of the callers or of the consumers: they may stop for good.
Fairness ==
    /\ \A p \in Publishers : WF_vars(Acquire(p)) /\ WF_vars(Poll(p))
    /\ WF_vars(Tick)

FairSpec == Spec /\ Fairness

-----------------------------------------------------------------------------
(* Properties.                                                             *)

\* Every variable has its type, and no high-water mark exceeds its capacity.
TypeOK ==
    /\ stateQueue \in Seq(Event) /\ storageQueue \in Seq(Event)
    /\ marketQueue \in 0..MarketCap
    /\ highWater \in [state : 0..StateCap, storage : 0..StorageCap,
                      market : 0..MarketCap]
    /\ closed \in BOOLEAN
    /\ waiters \in Seq(Publishers)
    /\ holder \in Publishers \cup {NoOne}
    /\ held \in Nat /\ timeLeft \in 0..PutTimeout
    /\ nextSequence \in Nat \ {0}
    /\ outcome \in [Publishers -> Outcomes]
    /\ calls \in Nat
    /\ ticket \in [Publishers -> Nat]
    /\ accepted \in Seq(Event)
    /\ reduced \in Nat /\ stored \in Nat

\* The put_nowait calls of publish() never find a queue full, although the
\* check and the put are separate statements and other tasks run between two
\* polls: no queue ever holds more than its capacity.
QueuesBounded ==
    /\ Len(stateQueue) <= highWater.state /\ highWater.state <= StateCap
    /\ Len(storageQueue) <= highWater.storage /\ highWater.storage <= StorageCap

IsRemainder(queue, taken, history) ==
    /\ Len(history) = taken + Len(queue)
    /\ \A i \in 1..Len(queue) : queue[i] = history[taken + i]

\* The reducer and the raw writer are fed the same history: each queue is
\* what its consumer has yet to see of the accepted events, none missing,
\* none twice, none out of order, however far the two consumers are apart.
FanOut ==
    /\ IsRemainder(stateQueue, reduced, accepted)
    /\ IsRemainder(storageQueue, stored, accepted)

\* Events are accepted in the order in which publish() was called, and their
\* ingest sequences increase in that order, whatever is cancelled or times
\* out in between.  (The market manager relies on it: a window state it
\* publishes is ahead of the books its new subscriptions bring.)
ArrivalOrder ==
    \A i, j \in 1..Len(accepted) :
        i < j => /\ accepted[i].sequence < accepted[j].sequence
                 /\ accepted[i].ticket < accepted[j].ticket

Delivered(t) == \E i \in 1..Len(accepted) : accepted[i].ticket = t

\* What publish() tells its caller is what happened to the event: True means
\* it is in the history of both queues, an exception means it is in neither.
AllOrNothing ==
    \A p \in Publishers :
        /\ outcome[p] = "accepted" => Delivered(ticket[p])
        /\ outcome[p] \in {"busy", "backpressure", "cancelled", "closed"}
              => ~Delivered(ticket[p])

\* A task is suspended in publish() exactly when it polls inside the lock or
\* is in line for it, and it is never in line twice.
LineMatchesCallers ==
    /\ \A p \in Publishers :
          outcome[p] = "busy" <=>
              holder = p \/ \E i \in 1..Len(waiters) : waiters[i] = p
    /\ \A i \in 1..Len(waiters) : waiters[i] # holder
    /\ \A i, j \in 1..Len(waiters) : waiters[i] = waiters[j] => i = j

\* Every call of publish() returns or raises: the deadline frees the lock even
\* if both consumers have stopped for good, and the line moves up.
EveryCallReturns ==
    \A p \in Publishers : outcome[p] = "busy" ~> outcome[p] # "busy"

\* What callers and consumers see of the bus: the log BusLog specifies.
SeenAs(o) ==
    CASE o = "busy" -> "pending"
      [] o \in {"backpressure", "cancelled", "closed"} -> "refused"
      [] OTHER -> o

LogReaders == {"reducer", "rawWriter"}
Lags      == [r \in LogReaders |-> IF r = "reducer" THEN StateCap ELSE StorageCap]
Positions == [r \in LogReaders |-> IF r = "reducer" THEN reduced ELSE stored]
Tickets   == [i \in 1..Len(accepted) |-> accepted[i].ticket]
Answers   == [p \in Publishers |-> SeenAs(outcome[p])]

Log == INSTANCE BusLog WITH
    Callers <- Publishers, Readers <- LogReaders, Lag <- Lags,
    number <- ticket, answer <- Answers, log <- Tickets, position <- Positions

\* The bus, with its lock, its two queues and its polling, is one log: each call
\* is answered once, truthfully, and each consumer reads every accepted call in
\* the order of the calls, never too far behind.
IsOneLog == Log!Spec

=============================================================================
