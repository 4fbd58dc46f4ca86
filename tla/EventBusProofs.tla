--------------------------- MODULE EventBusProofs ---------------------------
(* Proofs about the event bus, for any publishers, capacities and time-out: *)
(* its invariants, and that it implements the log that BusLog specifies.    *)
EXTENDS EventBus, SequenceTheorems, TLAPS

\* What removing the element at i leaves of a sequence: the line for the lock
\* after a cancelled task has left it.
LEMMA RemoveAtProperties ==
    ASSUME NEW S, NEW s \in Seq(S), NEW i \in 1..Len(s)
    PROVE  /\ RemoveAt(s, i) \in Seq(S)
           /\ Len(RemoveAt(s, i)) = Len(s) - 1
           /\ \A j \in 1..Len(s) - 1 :
                 RemoveAt(s, i)[j] = IF j < i THEN s[j] ELSE s[j + 1]
<1> DEFINE front == SubSeq(s, 1, i - 1)
           back  == SubSeq(s, i + 1, Len(s))
<1>1. front \in Seq(S) /\ Len(front) = i - 1 /\ \A j \in 1..i - 1 : front[j] = s[j]
  BY SMT
<1>2. back \in Seq(S) /\ Len(back) = Len(s) - i
      /\ \A j \in 1..Len(s) - i : back[j] = s[i + j]
  BY SMT
<1>3. RemoveAt(s, i) = front \o back
  BY DEF RemoveAt
<1> HIDE DEF front, back
<1>4. front \o back \in Seq(S) /\ Len(front \o back) = Len(s) - 1
  BY <1>1, <1>2
<1>5. \A j \in 1..Len(s) - 1 :
         (front \o back)[j] = IF j < i THEN s[j] ELSE s[j + 1]
  BY <1>1, <1>2
<1> QED
  BY <1>3, <1>4, <1>5

\* The bus starts with every variable in its type.
LEMMA TypeInit == Init => TypeOK
<1> SUFFICES ASSUME Init PROVE TypeOK
  OBVIOUS
<1> USE CapsAssumption, TimeoutAssumption DEF Init, CapsAssumption, TimeoutAssumption
<1>1. highWater \in [state : 0..StateCap, storage : 0..StorageCap, market : 0..MarketCap]
  OBVIOUS
<1>2. outcome \in [Publishers -> Outcomes] /\ ticket \in [Publishers -> Nat]
  BY DEF Outcomes
<1>3. stateQueue \in Seq(Event) /\ storageQueue \in Seq(Event) /\ accepted \in Seq(Event) /\ waiters \in Seq(Publishers)
  OBVIOUS
<1>4. marketQueue \in 0..MarketCap /\ timeLeft \in 0..PutTimeout
  OBVIOUS
<1>5. closed \in BOOLEAN
  OBVIOUS
<1>6. /\ held \in Nat /\ nextSequence \in Nat \ {0} /\ calls \in Nat
      /\ reduced \in Nat /\ stored \in Nat
  OBVIOUS
<1>7. holder \in Publishers \cup {NoOne}
  OBVIOUS
<1> QED BY <1>1, <1>2, <1>3, <1>4, <1>5, <1>6, <1>7 DEF TypeOK

-----------------------------------------------------------------------------
(* Types.                                                                  *)

\* What Deliver assigns.
DeliverTypes ==
    /\ stateQueue' \in Seq(Event) /\ storageQueue' \in Seq(Event)
    /\ accepted' \in Seq(Event)
    /\ highWater' \in [state : 0..StateCap, storage : 0..StorageCap,
                       market : 0..MarketCap]
    /\ outcome' \in [Publishers -> Outcomes]
    /\ reduced' \in Nat /\ stored' \in Nat

\* Putting an event in both queues keeps them, and their high-water marks,
\* within their types when neither queue is full.
LEMMA DeliverType ==
    ASSUME TypeOK, NEW p \in Publishers, NEW e \in Event, ~Full, Deliver(p, e)
    PROVE  DeliverTypes
<1> USE CapsAssumption DEF CapsAssumption
<1>1. stateQueue' \in Seq(Event) /\ Len(stateQueue') = Len(stateQueue) + 1
  BY DEF TypeOK, Deliver
<1>2. storageQueue' \in Seq(Event) /\ Len(storageQueue') = Len(storageQueue) + 1
  BY DEF TypeOK, Deliver
<1>3. Len(stateQueue) \in Nat /\ Len(storageQueue) \in Nat
  BY DEF TypeOK
<1>4. Len(stateQueue') \in 0..StateCap /\ Len(storageQueue') \in 0..StorageCap
  BY <1>1, <1>2, <1>3 DEF Full
<1>5. highWater' \in [state : 0..StateCap, storage : 0..StorageCap, market : 0..MarketCap]
  BY <1>4 DEF TypeOK, Deliver, Larger
<1>6. accepted' \in Seq(Event)
  BY DEF TypeOK, Deliver
<1>7. outcome' \in [Publishers -> Outcomes]
  BY DEF TypeOK, Deliver, Outcomes
<1>8. reduced' \in Nat /\ stored' \in Nat
  BY DEF TypeOK, Deliver
<1> QED
  BY <1>1, <1>2, <1>5, <1>6, <1>7, <1>8 DEF DeliverTypes

\* A task that has just got the lock leaves every variable it assigns in its type.
LEMMA EnterType ==
    ASSUME TypeOK, NEW p \in Publishers, NEW t \in Nat, Enter(p, t)
    PROVE  /\ DeliverTypes
           /\ holder' \in Publishers \cup {NoOne}
           /\ held' \in Nat /\ timeLeft' \in 0..PutTimeout
           /\ nextSequence' \in Nat \ {0}
<1>1. nextSequence' \in Nat \ {0}
  BY DEF TypeOK, Enter
<1>2. CASE ~Full
  <2>1. [sequence |-> nextSequence, ticket |-> t] \in Event
    BY DEF TypeOK, Event
  <2>2. /\ Deliver(p, [sequence |-> nextSequence, ticket |-> t])
        /\ UNCHANGED <<holder, held, timeLeft>>
    BY <1>2 DEF Enter
  <2>3. DeliverTypes
    BY <1>2, <2>1, <2>2, DeliverType
  <2> QED
    BY <1>1, <2>2, <2>3 DEF TypeOK
<1>3. CASE Full
  <2>1. /\ holder' = p /\ held' = nextSequence /\ timeLeft' = PutTimeout
        /\ outcome' = [outcome EXCEPT ![p] = "busy"]
        /\ UNCHANGED <<queueVars, highWater, accepted>>
    BY <1>3 DEF Enter
  <2>2. outcome' \in [Publishers -> Outcomes]
    BY <2>1 DEF TypeOK, Outcomes
  <2>3. PutTimeout \in 0..PutTimeout
    BY TimeoutAssumption DEF TimeoutAssumption
  <2> QED
    BY <1>1, <2>1, <2>2, <2>3 DEF TypeOK, DeliverTypes, queueVars
<1> QED
  BY <1>2, <1>3

\* Every operation of the bus, and of its consumers, keeps the types.
LEMMA TypeStep == TypeOK /\ [Next]_vars => TypeOK'
<1> SUFFICES ASSUME TypeOK, [Next]_vars PROVE TypeOK'
  OBVIOUS
<1> USE DEF queueVars, marketVars, lockVars, historyVars
<1>1. ASSUME NEW p \in Publishers, Publish(p) PROVE TypeOK'
  <2>1. /\ calls' \in Nat /\ ticket' \in [Publishers -> Nat]
        /\ UNCHANGED <<marketQueue, closed>>
    BY <1>1 DEF Publish, TypeOK
  <2>2. CASE closed
    <3>1. outcome' \in [Publishers -> Outcomes]
      BY <1>1, <2>2 DEF Publish, TypeOK, Outcomes
    <3> QED
      BY <1>1, <2>1, <2>2, <3>1 DEF Publish, TypeOK
  <2>3. CASE ~closed /\ LockFree
    <3>1. Enter(p, calls + 1) /\ UNCHANGED waiters
      BY <1>1, <2>3 DEF Publish
    <3>2. calls + 1 \in Nat
      BY DEF TypeOK
    <3> QED
      BY <2>1, <3>1, <3>2, EnterType DEF TypeOK, DeliverTypes
  <2>4. CASE ~closed /\ ~LockFree
    <3>1. outcome' \in [Publishers -> Outcomes]
      BY <1>1, <2>4 DEF Publish, TypeOK, Outcomes
    <3>2. waiters' = Append(waiters, p)
      BY <1>1, <2>4 DEF Publish
    <3>3. waiters' \in Seq(Publishers)
      BY <3>2 DEF TypeOK
    <3> QED
      BY <1>1, <2>1, <2>4, <3>1, <3>3 DEF Publish, TypeOK
  <2> QED
    BY <2>2, <2>3, <2>4
<1>2. ASSUME NEW p \in Publishers, Acquire(p) PROVE TypeOK'
  <2>1. Enter(p, ticket[p]) /\ ticket[p] \in Nat
    BY <1>2 DEF Acquire, TypeOK
  <2>2. waiters' \in Seq(Publishers)
    BY <1>2 DEF Acquire, TypeOK
  <2> QED
    BY <1>2, <2>1, <2>2, EnterType DEF Acquire, TypeOK, DeliverTypes
<1>3. ASSUME NEW p \in Publishers, Poll(p) PROVE TypeOK'
  <2>1. holder' \in Publishers \cup {NoOne} /\ held' \in Nat /\ timeLeft' \in 0..PutTimeout
    BY <1>3, TimeoutAssumption DEF Poll, ReleaseLock, TimeoutAssumption
  <2>2. CASE ~Full
    <3>1. [sequence |-> held, ticket |-> ticket[p]] \in Event
      BY DEF TypeOK, Event
    <3>2. DeliverTypes
      BY <1>3, <2>2, <3>1, DeliverType DEF Poll
    <3> QED
      BY <1>3, <2>1, <3>2 DEF Poll, TypeOK, DeliverTypes
  <2>3. CASE Full
    <3>1. outcome' \in [Publishers -> Outcomes]
      BY <1>3, <2>3 DEF Poll, GiveUp, TypeOK, Outcomes
    <3> QED
      BY <1>3, <2>1, <2>3, <3>1 DEF Poll, TypeOK
  <2> QED
    BY <2>2, <2>3
<1>4. ASSUME NEW p \in Publishers, CancelWaiting(p) PROVE TypeOK'
  <2>1. waiters' \in Seq(Publishers)
    BY <1>4, RemoveAtProperties DEF CancelWaiting, TypeOK
  <2>2. outcome' \in [Publishers -> Outcomes]
    BY <1>4 DEF CancelWaiting, TypeOK, Outcomes
  <2> QED
    BY <1>4, <2>1, <2>2 DEF CancelWaiting, TypeOK
<1>5. ASSUME NEW p \in Publishers, CancelPolling(p) PROVE TypeOK'
  <2>1. holder' \in Publishers \cup {NoOne} /\ held' \in Nat /\ timeLeft' \in 0..PutTimeout
    BY <1>5, TimeoutAssumption DEF CancelPolling, ReleaseLock, TimeoutAssumption
  <2>2. outcome' \in [Publishers -> Outcomes]
    BY <1>5 DEF CancelPolling, TypeOK, Outcomes
  <2> QED
    BY <1>5, <2>1, <2>2 DEF CancelPolling, TypeOK
<1>6. CASE Tick
  BY <1>6, TimeoutAssumption DEF Tick, TypeOK, TimeoutAssumption
<1>7. CASE PublishMarketState
  <2>1. marketQueue' \in 0..MarketCap
    <3>1. marketQueue < MarketCap /\ marketQueue' = marketQueue + 1
      BY <1>7 DEF PublishMarketState
    <3>2. marketQueue \in 0..MarketCap /\ MarketCap \in Nat
      BY CapsAssumption DEF TypeOK, CapsAssumption
    <3> QED
      BY <3>1, <3>2
  <2>2. highWater' \in [state : 0..StateCap, storage : 0..StorageCap, market : 0..MarketCap]
    BY <1>7, <2>1 DEF PublishMarketState, TypeOK, Larger
  <2> QED
    BY <1>7, <2>1, <2>2 DEF PublishMarketState, TypeOK
<1>8. CASE Close
  BY <1>8 DEF Close, TypeOK
<1>9. CASE GetState
  BY <1>9 DEF GetState, TypeOK
<1>10. CASE GetStorage
  BY <1>10 DEF GetStorage, TypeOK
<1>11. CASE GetMarketState
  BY <1>11, CapsAssumption DEF GetMarketState, TypeOK, CapsAssumption
<1>12. CASE UNCHANGED vars
  BY <1>12 DEF vars, TypeOK
<1> QED
  BY <1>1, <1>2, <1>3, <1>4, <1>5, <1>6, <1>7, <1>8, <1>9, <1>10, <1>11, <1>12 DEF Next

\* Every variable keeps its type, for any number of publishers, any capacities
\* and any time-out.
THEOREM TypeCorrect == Spec => []TypeOK
BY TypeInit, TypeStep, PTL DEF Spec

-----------------------------------------------------------------------------
(* The inductive invariant.  ArrivalOrder is not inductive: that the next  *)
(* event to be accepted is later than the last one needs the order of the  *)
(* tickets along the line for the lock, that the holder came before all of *)
(* them, and that its sequence is larger than any accepted one.            *)

TicketsInLine ==
    /\ \A p \in Publishers : ticket[p] <= calls
    /\ \A p \in Publishers : outcome[p] # "none" => ticket[p] > 0
    /\ \A p, q \in Publishers : p # q /\ ticket[p] = ticket[q] => ticket[p] = 0
    /\ \A i, j \in 1..Len(waiters) :
          i < j => ticket[waiters[i]] < ticket[waiters[j]]
    /\ holder # NoOne =>
          \A i \in 1..Len(waiters) : ticket[holder] < ticket[waiters[i]]

AcceptedBeforeLine ==
    /\ \A k \in 1..Len(accepted) :
          /\ accepted[k].sequence < nextSequence
          /\ accepted[k].ticket <= calls
          /\ accepted[k].ticket > 0
    /\ holder # NoOne =>
          /\ held < nextSequence
          /\ \A k \in 1..Len(accepted) :
                accepted[k].sequence < held /\ accepted[k].ticket < ticket[holder]
    /\ \A k \in 1..Len(accepted), i \in 1..Len(waiters) :
          accepted[k].ticket < ticket[waiters[i]]

IInv ==
    /\ TypeOK
    /\ QueuesBounded
    /\ FanOut
    /\ LineMatchesCallers
    /\ TicketsInLine
    /\ AcceptedBeforeLine
    /\ ArrivalOrder
    /\ AllOrNothing

\* The inductive invariant holds when the gateway has just been built.
LEMMA IInvInit == Init => IInv
<1> SUFFICES ASSUME Init PROVE IInv
  OBVIOUS
<1>1. TypeOK
  BY TypeInit
<1>2. QueuesBounded /\ FanOut
  BY CapsAssumption DEF Init, CapsAssumption, QueuesBounded, FanOut, IsRemainder
<1>3. LineMatchesCallers
  BY NoOneAssumption DEF Init, LineMatchesCallers, NoOneAssumption
<1>4. TicketsInLine /\ AcceptedBeforeLine /\ ArrivalOrder
  BY DEF Init, TicketsInLine, AcceptedBeforeLine, ArrivalOrder
<1>5. AllOrNothing
  BY DEF Init, AllOrNothing
<1> QED
  BY <1>1, <1>2, <1>3, <1>4, <1>5 DEF IInv

\* A step gives both queues and the history the same new event, takes the head
\* of one queue, or touches none of the three.
LEMMA QueueSteps ==
    ASSUME TypeOK, [Next]_vars
    PROVE  \/ ~Full /\ \E p \in Publishers, e \in Event : Deliver(p, e)
           \/ /\ stateQueue # <<>> /\ stateQueue' = Tail(stateQueue)
              /\ reduced' = reduced + 1
              /\ UNCHANGED <<storageQueue, stored, highWater, accepted>>
           \/ /\ storageQueue # <<>> /\ storageQueue' = Tail(storageQueue)
              /\ stored' = stored + 1
              /\ UNCHANGED <<stateQueue, reduced, highWater, accepted>>
           \/ /\ UNCHANGED <<queueVars, accepted>>
              /\ highWater'.state = highWater.state
              /\ highWater'.storage = highWater.storage
<1> DEFINE Idle == /\ UNCHANGED <<queueVars, accepted>>
                   /\ highWater'.state = highWater.state
                   /\ highWater'.storage = highWater.storage
           Given == ~Full /\ \E p \in Publishers, e \in Event : Deliver(p, e)
<1> USE DEF queueVars, marketVars, lockVars, historyVars
<1>1. ASSUME NEW p \in Publishers, NEW t \in Nat, Enter(p, t)
      PROVE  Given \/ Idle
  <2>1. [sequence |-> nextSequence, ticket |-> t] \in Event
    BY DEF TypeOK, Event
  <2> QED
    BY <1>1, <2>1 DEF Enter
<1>2. ASSUME NEW p \in Publishers, Publish(p) PROVE Given \/ Idle
  <2>1. calls + 1 \in Nat
    BY DEF TypeOK
  <2>2. Idle \/ Enter(p, calls + 1)
    BY <1>2 DEF Publish
  <2> QED
    BY <1>1, <2>1, <2>2
<1>3. ASSUME NEW p \in Publishers, Acquire(p) PROVE Given \/ Idle
  <2>1. ticket[p] \in Nat /\ Enter(p, ticket[p])
    BY <1>3 DEF TypeOK, Acquire
  <2> QED
    BY <1>1, <2>1
<1>4. ASSUME NEW p \in Publishers, Poll(p) PROVE Given \/ Idle
  <2>1. [sequence |-> held, ticket |-> ticket[p]] \in Event
    BY DEF TypeOK, Event
  <2> QED
    BY <1>4, <2>1 DEF Poll
<1>5. ASSUME \/ \E p \in Publishers : CancelWaiting(p) \/ CancelPolling(p)
             \/ Tick \/ Close \/ GetMarketState \/ UNCHANGED vars
      PROVE  Idle
  BY <1>5 DEF CancelWaiting, CancelPolling, Tick, Close, GetMarketState, vars
<1>6. CASE PublishMarketState
  BY <1>6 DEF PublishMarketState, TypeOK
<1> QED
  BY <1>2, <1>3, <1>4, <1>5, <1>6 DEF Next, GetState, GetStorage

\* Giving the same element to a queue and to its history keeps the queue a
\* remainder of the history.
LEMMA AppendToBoth ==
    ASSUME NEW S, NEW q \in Seq(S), NEW h \in Seq(S), NEW e \in S, NEW n \in Nat,
           IsRemainder(q, n, h)
    PROVE  IsRemainder(Append(q, e), n, Append(h, e))
<1>1. /\ Len(Append(q, e)) = Len(q) + 1 /\ Len(Append(h, e)) = Len(h) + 1
      /\ Len(q) \in Nat /\ Len(h) \in Nat /\ Len(h) = n + Len(q)
  BY DEF IsRemainder
<1>2. ASSUME NEW i \in 1..Len(Append(q, e))
      PROVE  Append(q, e)[i] = Append(h, e)[n + i]
  <2>1. CASE i = Len(q) + 1
    BY <1>1, <2>1
  <2>2. CASE i \in 1..Len(q)
    <3>1. n + i \in 1..Len(h)
      BY <1>1, <2>2
    <3>2. Append(q, e)[i] = q[i] /\ Append(h, e)[n + i] = h[n + i]
      BY <2>2, <3>1
    <3> QED
      BY <2>2, <3>2 DEF IsRemainder
  <2> QED
    BY <1>1, <2>1, <2>2
<1> QED
  BY <1>1, <1>2 DEF IsRemainder

\* Taking the head of a queue keeps it a remainder.
LEMMA TakeHead ==
    ASSUME NEW S, NEW q \in Seq(S), NEW h \in Seq(S), NEW n \in Nat,
           q # <<>>, IsRemainder(q, n, h)
    PROVE  IsRemainder(Tail(q), n + 1, h)
<1>1. /\ Len(Tail(q)) = Len(q) - 1 /\ Len(q) \in Nat \ {0}
      /\ \A i \in 1..Len(q) - 1 : Tail(q)[i] = q[i + 1]
  OBVIOUS
<1>2. \A i \in 1..Len(q) - 1 : i + 1 \in 1..Len(q) /\ n + (i + 1) = (n + 1) + i
  BY <1>1
<1> QED
  BY <1>1, <1>2 DEF IsRemainder

\* The queues stay within their capacities and stay remainders of the history.
LEMMA QueuesStep ==
    TypeOK /\ QueuesBounded /\ FanOut /\ [Next]_vars => QueuesBounded' /\ FanOut'
<1> SUFFICES ASSUME TypeOK, QueuesBounded, FanOut, [Next]_vars
             PROVE  QueuesBounded' /\ FanOut'
  OBVIOUS
<1>1. ASSUME NEW p \in Publishers, NEW e \in Event, ~Full, Deliver(p, e)
      PROVE  QueuesBounded' /\ FanOut'
  <2>0. /\ stateQueue' = Append(stateQueue, e) /\ reduced' = reduced
        /\ storageQueue' = Append(storageQueue, e) /\ stored' = stored
        /\ accepted' = Append(accepted, e)
    BY <1>1 DEF Deliver
  <2>1. FanOut'
    <3>1. /\ IsRemainder(Append(stateQueue, e), reduced, Append(accepted, e))
          /\ IsRemainder(Append(storageQueue, e), stored, Append(accepted, e))
      BY AppendToBoth DEF TypeOK, FanOut
    <3> QED
      BY <2>0, <3>1 DEF FanOut
  <2>2. /\ Len(stateQueue') = Len(stateQueue) + 1 /\ Len(stateQueue) \in Nat
        /\ Len(storageQueue') = Len(storageQueue) + 1 /\ Len(storageQueue) \in Nat
    <3>1. stateQueue \in Seq(Event) /\ storageQueue \in Seq(Event)
      BY DEF TypeOK
    <3> QED
      BY <2>0, <3>1
  <2>3. /\ highWater'.state = Larger(highWater.state, Len(stateQueue'))
        /\ highWater'.storage = Larger(highWater.storage, Len(storageQueue'))
    BY <1>1 DEF TypeOK, Deliver
  <2>4. highWater.state \in Nat /\ highWater.storage \in Nat
    BY DEF TypeOK
  <2>5. QueuesBounded'
    BY <1>1, <2>2, <2>3, <2>4, CapsAssumption
    DEF QueuesBounded, Full, Larger, CapsAssumption
  <2> QED
    BY <2>1, <2>5
<1>2. CASE /\ stateQueue # <<>> /\ stateQueue' = Tail(stateQueue)
           /\ reduced' = reduced + 1
           /\ UNCHANGED <<storageQueue, stored, highWater, accepted>>
  <2>1. IsRemainder(stateQueue', reduced', accepted')
    BY <1>2, TakeHead DEF TypeOK, FanOut
  <2>2. IsRemainder(storageQueue', stored', accepted')
    BY <1>2 DEF FanOut
  <2>3. QueuesBounded'
    BY <1>2 DEF TypeOK, QueuesBounded
  <2> QED
    BY <2>1, <2>2, <2>3 DEF FanOut
<1>3. CASE /\ storageQueue # <<>> /\ storageQueue' = Tail(storageQueue)
           /\ stored' = stored + 1
           /\ UNCHANGED <<stateQueue, reduced, highWater, accepted>>
  <2>1. IsRemainder(storageQueue', stored', accepted')
    BY <1>3, TakeHead DEF TypeOK, FanOut
  <2>2. IsRemainder(stateQueue', reduced', accepted')
    BY <1>3 DEF FanOut
  <2>3. QueuesBounded'
    BY <1>3 DEF TypeOK, QueuesBounded
  <2> QED
    BY <2>1, <2>2, <2>3 DEF FanOut
<1>4. CASE /\ UNCHANGED <<queueVars, accepted>>
           /\ highWater'.state = highWater.state
           /\ highWater'.storage = highWater.storage
  BY <1>4 DEF queueVars, QueuesBounded, FanOut
<1> QED
  BY <1>1, <1>2, <1>3, <1>4, QueueSteps

-----------------------------------------------------------------------------
(* What a step does to the lock, the calls and the history.                *)

control == <<waiters, holder, held, nextSequence, outcome, calls, ticket,
             accepted>>

\* Task p, with ticket t, has its event accepted with sequence s.
Accepts(p, s, t) ==
    /\ accepted' = Append(accepted, [sequence |-> s, ticket |-> t])
    /\ outcome' = [outcome EXCEPT ![p] = "accepted"]

\* Task p has the lock and the next sequence, and starts to poll.
StartsToPoll(p) ==
    /\ holder' = p /\ held' = nextSequence
    /\ outcome' = [outcome EXCEPT ![p] = "busy"]
    /\ accepted' = accepted

Enters(p, t) ==
    /\ nextSequence' = nextSequence + 1
    /\ \/ Accepts(p, nextSequence, t) /\ holder' = holder /\ held' = held
       \/ StartsToPoll(p)

NewTicket(p) ==
    /\ outcome[p] # "busy"
    /\ calls' = calls + 1
    /\ ticket' = [ticket EXCEPT ![p] = calls + 1]

Refused(p) ==
    /\ NewTicket(p)
    /\ outcome' = [outcome EXCEPT ![p] = "closed"]
    /\ UNCHANGED <<waiters, holder, held, nextSequence, accepted>>

CalledAndEntered(p) ==
    /\ NewTicket(p)
    /\ LockFree
    /\ Enters(p, calls + 1)
    /\ UNCHANGED waiters

CalledAndLinedUp(p) ==
    /\ NewTicket(p)
    /\ waiters' = Append(waiters, p)
    /\ outcome' = [outcome EXCEPT ![p] = "busy"]
    /\ UNCHANGED <<holder, held, nextSequence, accepted>>

FirstEntered(p) ==
    /\ holder = NoOne
    /\ waiters # <<>>
    /\ p = Head(waiters)
    /\ waiters' = Tail(waiters)
    /\ Enters(p, ticket[p])
    /\ UNCHANGED <<calls, ticket>>

Released(p) ==
    /\ holder = p
    /\ holder' = NoOne /\ held' = 0
    /\ \/ Accepts(p, held, ticket[p])
       \/ /\ \E o \in {"backpressure", "cancelled"} :
                outcome' = [outcome EXCEPT ![p] = o]
          /\ accepted' = accepted
    /\ UNCHANGED <<waiters, nextSequence, calls, ticket>>

LeftLine(p) ==
    /\ \E i \in 1..Len(waiters) :
          waiters[i] = p /\ waiters' = RemoveAt(waiters, i)
    /\ outcome' = [outcome EXCEPT ![p] = "cancelled"]
    /\ UNCHANGED <<holder, held, nextSequence, calls, ticket, accepted>>

\* Every step is one of six things done to the lock and the history, or leaves
\* both alone.
LEMMA ControlSteps ==
    ASSUME TypeOK, [Next]_vars
    PROVE  \/ \E p \in Publishers :
                 \/ Refused(p) \/ CalledAndEntered(p) \/ CalledAndLinedUp(p)
                 \/ FirstEntered(p) \/ Released(p) \/ LeftLine(p)
           \/ UNCHANGED control
<1> USE DEF queueVars, marketVars, lockVars, historyVars
<1>1. ASSUME NEW p, NEW t, Enter(p, t) PROVE Enters(p, t)
  BY <1>1 DEF Enter, Enters, Deliver, Accepts, StartsToPoll
<1>2. ASSUME NEW p \in Publishers, Publish(p)
      PROVE  Refused(p) \/ CalledAndEntered(p) \/ CalledAndLinedUp(p)
  <2>1. NewTicket(p)
    BY <1>2 DEF Publish, NewTicket
  <2>2. CASE closed
    BY <1>2, <2>1, <2>2 DEF Publish, Refused
  <2>3. CASE ~closed /\ LockFree
    BY <1>1, <1>2, <2>1, <2>3 DEF Publish, CalledAndEntered
  <2>4. CASE ~closed /\ ~LockFree
    BY <1>2, <2>1, <2>4 DEF Publish, CalledAndLinedUp
  <2> QED
    BY <2>2, <2>3, <2>4
<1>3. ASSUME NEW p \in Publishers, Acquire(p) PROVE FirstEntered(p)
  BY <1>1, <1>3 DEF Acquire, FirstEntered
<1>4. ASSUME NEW p \in Publishers, Poll(p) PROVE Released(p)
  BY <1>4 DEF Poll, ReleaseLock, GiveUp, Deliver, Accepts, Released
<1>5. ASSUME NEW p \in Publishers, CancelPolling(p) PROVE Released(p)
  BY <1>5 DEF CancelPolling, ReleaseLock, Released
<1>6. ASSUME NEW p \in Publishers, CancelWaiting(p) PROVE LeftLine(p)
  BY <1>6 DEF CancelWaiting, LeftLine, TypeOK
<1>7. ASSUME \/ Tick \/ PublishMarketState \/ Close \/ GetState \/ GetStorage
             \/ GetMarketState \/ UNCHANGED vars
      PROVE  UNCHANGED control
  BY <1>7 DEF control, Tick, PublishMarketState, Close, GetState, GetStorage,
              GetMarketState, vars
<1> QED
  BY <1>2, <1>3, <1>4, <1>5, <1>6, <1>7 DEF Next

\* The line and the holder keep matching the tasks suspended in publish().
LEMMA LineStep ==
    TypeOK /\ LineMatchesCallers /\ [Next]_vars => LineMatchesCallers'
<1> SUFFICES ASSUME TypeOK, LineMatchesCallers, [Next]_vars
             PROVE  LineMatchesCallers'
  OBVIOUS
<1> USE NoOneAssumption DEF NoOneAssumption
<1>0. waiters \in Seq(Publishers) /\ outcome \in [Publishers -> Outcomes]
      /\ Len(waiters) \in Nat
  BY DEF TypeOK
<1>1. ASSUME NEW p \in Publishers, Refused(p) PROVE LineMatchesCallers'
  BY <1>0, <1>1 DEF Refused, NewTicket, LineMatchesCallers
<1>2. ASSUME NEW p \in Publishers, CalledAndEntered(p) PROVE LineMatchesCallers'
  BY <1>0, <1>2 DEF CalledAndEntered, NewTicket, LockFree, Enters, Accepts,
                    StartsToPoll, LineMatchesCallers
<1>3. ASSUME NEW p \in Publishers, CalledAndLinedUp(p) PROVE LineMatchesCallers'
  BY <1>0, <1>3 DEF CalledAndLinedUp, NewTicket, LineMatchesCallers
<1>4. ASSUME NEW p \in Publishers, FirstEntered(p) PROVE LineMatchesCallers'
  <2>1. /\ Len(waiters) > 0 /\ waiters[1] = p /\ holder = NoOne
        /\ Len(waiters') = Len(waiters) - 1
        /\ \A i \in 1..Len(waiters') : waiters'[i] = waiters[i + 1]
    BY <1>0, <1>4 DEF FirstEntered
  <2>2. \A i \in 2..Len(waiters) : waiters[i] # p /\ waiters[i] \in Publishers
    BY <1>0, <2>1 DEF LineMatchesCallers
  <2>3. \A q \in Publishers \ {p} :
           (\E i \in 1..Len(waiters) : waiters[i] = q)
              <=> \E i \in 1..Len(waiters') : waiters'[i] = q
    <3> SUFFICES ASSUME NEW q \in Publishers \ {p}
                 PROVE  (\E i \in 1..Len(waiters) : waiters[i] = q)
                           <=> \E i \in 1..Len(waiters') : waiters'[i] = q
      OBVIOUS
    <3>1. ASSUME NEW i \in 1..Len(waiters), waiters[i] = q
          PROVE  \E j \in 1..Len(waiters') : waiters'[j] = q
      <4>1. i - 1 \in 1..Len(waiters') /\ waiters'[i - 1] = waiters[i]
        BY <1>0, <2>1, <3>1
      <4> QED
        BY <3>1, <4>1
    <3>2. ASSUME NEW i \in 1..Len(waiters'), waiters'[i] = q
          PROVE  \E j \in 1..Len(waiters) : waiters[j] = q
      <4>1. i + 1 \in 1..Len(waiters) /\ waiters'[i] = waiters[i + 1]
        BY <1>0, <2>1
      <4> QED
        BY <3>2, <4>1
    <3> QED
      BY <3>1, <3>2
  <2>4. \A i \in 1..Len(waiters') : waiters'[i] # p
    BY <1>0, <2>1, <2>2
  <2>5. \A i, j \in 1..Len(waiters') : waiters'[i] = waiters'[j] => i = j
    BY <1>0, <2>1 DEF LineMatchesCallers
  <2>6. \/ outcome' = [outcome EXCEPT ![p] = "accepted"] /\ holder' = NoOne
        \/ outcome' = [outcome EXCEPT ![p] = "busy"] /\ holder' = p
    BY <1>4, <2>1 DEF FirstEntered, Enters, Accepts, StartsToPoll
  <2>7. \A q \in Publishers :
           outcome'[q] = "busy" <=>
               holder' = q \/ \E i \in 1..Len(waiters') : waiters'[i] = q
    BY <1>0, <2>1, <2>3, <2>4, <2>6 DEF LineMatchesCallers
  <2>8. \A i \in 1..Len(waiters') : waiters'[i] # holder'
    BY <1>0, <2>1, <2>2, <2>4, <2>6
  <2> QED
    BY <2>5, <2>7, <2>8 DEF LineMatchesCallers
<1>5. ASSUME NEW p \in Publishers, Released(p) PROVE LineMatchesCallers'
  BY <1>0, <1>5 DEF Released, Accepts, LineMatchesCallers
<1>6. ASSUME NEW p \in Publishers, LeftLine(p) PROVE LineMatchesCallers'
  <2>1. PICK k \in 1..Len(waiters) :
           waiters[k] = p /\ waiters' = RemoveAt(waiters, k)
    BY <1>6 DEF LeftLine
  <2>2. /\ Len(waiters') = Len(waiters) - 1
        /\ \A i \in 1..Len(waiters) - 1 :
              waiters'[i] = IF i < k THEN waiters[i] ELSE waiters[i + 1]
    BY <1>0, <2>1, RemoveAtProperties
  <2>3. \A i \in 1..Len(waiters') :
           \E j \in 1..Len(waiters) : j # k /\ waiters'[i] = waiters[j]
    BY <1>0, <2>1, <2>2
  <2>4. \A j \in 1..Len(waiters) :
           j # k => \E i \in 1..Len(waiters') : waiters'[i] = waiters[j]
    <3> SUFFICES ASSUME NEW j \in 1..Len(waiters), j # k
                 PROVE  \E i \in 1..Len(waiters') : waiters'[i] = waiters[j]
      OBVIOUS
    <3>1. CASE j < k
      BY <1>0, <2>1, <2>2, <3>1
    <3>2. CASE j > k
      <4>1. j - 1 \in 1..Len(waiters') /\ waiters'[j - 1] = waiters[j]
        BY <1>0, <2>1, <2>2, <3>2
      <4> QED
        BY <4>1
    <3> QED
      BY <1>0, <2>1, <3>1, <3>2
  <2>5. \A i, j \in 1..Len(waiters') : waiters'[i] = waiters'[j] => i = j
    BY <1>0, <2>1, <2>2 DEF LineMatchesCallers
  <2>6. \A i \in 1..Len(waiters) : waiters[i] # holder
    BY DEF LineMatchesCallers
  <2>7. outcome' = [outcome EXCEPT ![p] = "cancelled"] /\ holder' = holder
    BY <1>6 DEF LeftLine
  <2>8. \A q \in Publishers :
           outcome'[q] = "busy" <=>
               holder' = q \/ \E i \in 1..Len(waiters') : waiters'[i] = q
    <3>1. holder # p
      BY <2>1, <2>6
    <3>2. \A i \in 1..Len(waiters') : waiters'[i] # p
      BY <2>1, <2>3 DEF LineMatchesCallers
    <3>3. \A q \in Publishers \ {p} :
             (\E i \in 1..Len(waiters) : waiters[i] = q)
                <=> \E i \in 1..Len(waiters') : waiters'[i] = q
      <4> SUFFICES ASSUME NEW q \in Publishers \ {p}
                   PROVE  (\E i \in 1..Len(waiters) : waiters[i] = q)
                             <=> \E i \in 1..Len(waiters') : waiters'[i] = q
        OBVIOUS
      <4>1. ASSUME NEW i \in 1..Len(waiters), waiters[i] = q
            PROVE  \E j \in 1..Len(waiters') : waiters'[j] = q
        BY <2>1, <2>4, <4>1
      <4>2. ASSUME NEW i \in 1..Len(waiters'), waiters'[i] = q
            PROVE  \E j \in 1..Len(waiters) : waiters[j] = q
        BY <2>3, <4>2
      <4> QED
        BY <4>1, <4>2
    <3> QED
      BY <1>0, <2>7, <3>1, <3>2, <3>3 DEF LineMatchesCallers
  <2>9. \A i \in 1..Len(waiters') : waiters'[i] # holder'
    BY <2>3, <2>6, <2>7
  <2> QED
    BY <2>5, <2>8, <2>9 DEF LineMatchesCallers
<1>7. CASE UNCHANGED control
  BY <1>7 DEF control, LineMatchesCallers
<1> QED
  BY <1>1, <1>2, <1>3, <1>4, <1>5, <1>6, <1>7, ControlSteps

\* A task that makes a call is not in line and does not hold the lock, so its
\* new ticket, larger than all others, changes nobody else's.
LEMMA NewTicketFacts ==
    ASSUME TypeOK, LineMatchesCallers, TicketsInLine,
           NEW p \in Publishers, NewTicket(p)
    PROVE  /\ calls' = calls + 1 /\ ticket'[p] = calls + 1
           /\ \A q \in Publishers : q # p => ticket'[q] = ticket[q]
           /\ \A q \in Publishers : ticket'[q] <= calls'
           /\ \A q \in Publishers : q # p => ticket'[q] < ticket'[p]
           /\ \A i \in 1..Len(waiters) :
                 waiters[i] # p /\ ticket'[waiters[i]] = ticket[waiters[i]]
           /\ holder # p
           /\ holder # NoOne => ticket'[holder] = ticket[holder]
<1>1. calls' = calls + 1 /\ ticket' = [ticket EXCEPT ![p] = calls + 1]
      /\ outcome[p] # "busy"
  BY DEF NewTicket
<1>2. /\ ticket \in [Publishers -> Nat] /\ calls \in Nat
      /\ holder \in Publishers \cup {NoOne}
      /\ waiters \in Seq(Publishers)
  BY DEF TypeOK
<1>3. holder # p /\ \A i \in 1..Len(waiters) : waiters[i] # p
  BY <1>1 DEF LineMatchesCallers
<1> QED
  BY <1>1, <1>2, <1>3 DEF TicketsInLine

\* Tickets keep increasing along the line, the holder's being the smallest.
LEMMA TicketStep ==
    TypeOK /\ LineMatchesCallers /\ TicketsInLine /\ [Next]_vars => TicketsInLine'
<1> SUFFICES ASSUME TypeOK, LineMatchesCallers, TicketsInLine, [Next]_vars
             PROVE  TicketsInLine'
  OBVIOUS
<1> USE NoOneAssumption DEF NoOneAssumption
<1>0. /\ waiters \in Seq(Publishers) /\ outcome \in [Publishers -> Outcomes]
      /\ Len(waiters) \in Nat /\ ticket \in [Publishers -> Nat] /\ calls \in Nat
      /\ holder \in Publishers \cup {NoOne}
      /\ \A i \in 1..Len(waiters) : waiters[i] \in Publishers
  BY DEF TypeOK
<1>1. ASSUME NEW p \in Publishers, Refused(p) PROVE TicketsInLine'
  BY <1>0, <1>1, NewTicketFacts DEF Refused, TicketsInLine
<1>2. ASSUME NEW p \in Publishers, CalledAndEntered(p) PROVE TicketsInLine'
  BY <1>0, <1>2, NewTicketFacts
  DEF CalledAndEntered, LockFree, Enters, Accepts, StartsToPoll, TicketsInLine
<1>3. ASSUME NEW p \in Publishers, CalledAndLinedUp(p) PROVE TicketsInLine'
  BY <1>0, <1>3, NewTicketFacts DEF CalledAndLinedUp, TicketsInLine
<1>4. ASSUME NEW p \in Publishers, FirstEntered(p) PROVE TicketsInLine'
  <2>1. /\ Len(waiters) > 0 /\ waiters[1] = p /\ holder = NoOne
        /\ Len(waiters') = Len(waiters) - 1
        /\ \A i \in 1..Len(waiters') : waiters'[i] = waiters[i + 1]
    BY <1>0, <1>4 DEF FirstEntered
  <2>2. \/ outcome' = [outcome EXCEPT ![p] = "accepted"] /\ holder' = NoOne
        \/ outcome' = [outcome EXCEPT ![p] = "busy"] /\ holder' = p
    BY <1>4, <2>1 DEF FirstEntered, Enters, Accepts, StartsToPoll
  <2>3. UNCHANGED <<calls, ticket>>
    BY <1>4 DEF FirstEntered
  <2>4. outcome[p] = "busy"
    BY <1>0, <2>1 DEF LineMatchesCallers
  <2> DEFINE old(i) == i + 1
  <2>5. /\ \A i \in 1..Len(waiters') :
              /\ old(i) \in 1..Len(waiters) /\ 1 < old(i)
              /\ waiters'[i] = waiters[old(i)]
        /\ \A i, j \in 1..Len(waiters') : i < j => old(i) < old(j)
    BY <1>0, <2>1
  <2> HIDE DEF old
  <2>6. \A i, j \in 1..Len(waiters') :
           i < j => ticket[waiters'[i]] < ticket[waiters'[j]]
    <3> SUFFICES ASSUME NEW i \in 1..Len(waiters'), NEW j \in 1..Len(waiters'),
                        i < j
                 PROVE  ticket[waiters'[i]] < ticket[waiters'[j]]
      OBVIOUS
    <3>1. /\ old(i) \in 1..Len(waiters) /\ waiters'[i] = waiters[old(i)]
          /\ old(j) \in 1..Len(waiters) /\ waiters'[j] = waiters[old(j)]
          /\ old(i) < old(j)
      BY <2>5
    <3>2. ticket[waiters[old(i)]] < ticket[waiters[old(j)]]
      BY <3>1 DEF TicketsInLine
    <3> QED
      BY <3>1, <3>2
  <2>7. \A i \in 1..Len(waiters') : ticket[p] < ticket[waiters'[i]]
    <3>1. 1 \in 1..Len(waiters)
      BY <1>0, <2>1
    <3> QED
      BY <1>0, <2>1, <2>5, <3>1 DEF TicketsInLine
  <2>8. \A q \in Publishers : outcome'[q] # "none" => ticket[q] > 0
    BY <1>0, <2>2, <2>4 DEF TicketsInLine
  <2> QED
    BY <2>1, <2>2, <2>3, <2>6, <2>7, <2>8 DEF TicketsInLine
<1>5. ASSUME NEW p \in Publishers, Released(p) PROVE TicketsInLine'
  <2>1. outcome[p] = "busy"
    BY <1>5 DEF Released, LineMatchesCallers
  <2> QED
    BY <1>0, <1>5, <2>1 DEF Released, Accepts, TicketsInLine
<1>6. ASSUME NEW p \in Publishers, LeftLine(p) PROVE TicketsInLine'
  <2>1. PICK k \in 1..Len(waiters) :
           waiters[k] = p /\ waiters' = RemoveAt(waiters, k)
    BY <1>6 DEF LeftLine
  <2>2. /\ Len(waiters') = Len(waiters) - 1
        /\ \A i \in 1..Len(waiters) - 1 :
              waiters'[i] = IF i < k THEN waiters[i] ELSE waiters[i + 1]
    BY <1>0, <2>1, RemoveAtProperties
  <2>3. outcome[p] = "busy" /\ outcome' = [outcome EXCEPT ![p] = "cancelled"]
        /\ UNCHANGED <<calls, ticket, holder>>
    BY <1>6, <2>1 DEF LeftLine, LineMatchesCallers
  <2> DEFINE old(i) == IF i < k THEN i ELSE i + 1
  <2>6. /\ \A i \in 1..Len(waiters') :
              old(i) \in 1..Len(waiters) /\ waiters'[i] = waiters[old(i)]
        /\ \A i, j \in 1..Len(waiters') : i < j => old(i) < old(j)
    BY <1>0, <2>1, <2>2
  <2> HIDE DEF old
  <2>4. \A i, j \in 1..Len(waiters') :
           i < j => ticket[waiters'[i]] < ticket[waiters'[j]]
    <3> SUFFICES ASSUME NEW i \in 1..Len(waiters'), NEW j \in 1..Len(waiters'),
                        i < j
                 PROVE  ticket[waiters'[i]] < ticket[waiters'[j]]
      OBVIOUS
    <3>1. /\ old(i) \in 1..Len(waiters) /\ waiters'[i] = waiters[old(i)]
          /\ old(j) \in 1..Len(waiters) /\ waiters'[j] = waiters[old(j)]
          /\ old(i) < old(j)
      BY <2>6
    <3>2. ticket[waiters[old(i)]] < ticket[waiters[old(j)]]
      BY <3>1 DEF TicketsInLine
    <3> QED
      BY <3>1, <3>2
  <2>5. holder # NoOne =>
           \A i \in 1..Len(waiters') : ticket[holder] < ticket[waiters'[i]]
    BY <1>0, <2>6 DEF TicketsInLine
  <2> QED
    BY <1>0, <2>3, <2>4, <2>5 DEF TicketsInLine
<1>7. CASE UNCHANGED control
  BY <1>7 DEF control, TicketsInLine
<1> QED
  BY <1>1, <1>2, <1>3, <1>4, <1>5, <1>6, <1>7, ControlSteps

\* The fields of an accepted event are numbers.
LEMMA HistoryTypes ==
    ASSUME TypeOK
    PROVE  /\ Len(accepted) \in Nat
           /\ \A k \in 1..Len(accepted) :
                 accepted[k].sequence \in Nat /\ accepted[k].ticket \in Nat
<1>1. Len(accepted) \in Nat /\ \A k \in 1..Len(accepted) : accepted[k] \in Event
  BY DEF TypeOK
<1> QED
  BY <1>1 DEF Event

\* The history after one more event: the old entries stay, the new one is last.
LEMMA AcceptsFacts ==
    ASSUME TypeOK, NEW p \in Publishers, NEW s \in Nat, NEW t \in Nat,
           Accepts(p, s, t)
    PROVE  /\ Len(accepted) \in Nat /\ Len(accepted') = Len(accepted) + 1
           /\ \A k \in 1..Len(accepted) : accepted'[k] = accepted[k]
           /\ accepted'[Len(accepted')].sequence = s
           /\ accepted'[Len(accepted')].ticket = t
           /\ \A k \in 1..Len(accepted) :
                 accepted[k].sequence \in Nat /\ accepted[k].ticket \in Nat
<1>1. [sequence |-> s, ticket |-> t] \in Event
  BY DEF Event
<1>2. Len(accepted) \in Nat /\ Len(accepted') = Len(accepted) + 1
  BY <1>1 DEF TypeOK, Accepts
<1>3. \A k \in 1..Len(accepted) : accepted'[k] = accepted[k]
  BY <1>1 DEF TypeOK, Accepts
<1>4. accepted'[Len(accepted')] = [sequence |-> s, ticket |-> t]
  BY <1>1, <1>2 DEF TypeOK, Accepts
<1> QED
  BY <1>2, <1>3, <1>4, HistoryTypes

\* An event later than all accepted ones keeps the history in order.
LEMMA AcceptLater ==
    ASSUME TypeOK, ArrivalOrder,
           NEW p \in Publishers, NEW s \in Nat, NEW t \in Nat, Accepts(p, s, t),
           \A k \in 1..Len(accepted) :
               accepted[k].sequence < s /\ accepted[k].ticket < t
    PROVE  ArrivalOrder'
<1> SUFFICES ASSUME NEW i \in 1..Len(accepted'), NEW j \in 1..Len(accepted'), i < j
             PROVE  /\ accepted'[i].sequence < accepted'[j].sequence
                    /\ accepted'[i].ticket < accepted'[j].ticket
  BY DEF ArrivalOrder
<1>1. i \in 1..Len(accepted)
  BY AcceptsFacts
<1>2. CASE j = Len(accepted')
  BY <1>1, <1>2, AcceptsFacts
<1>3. CASE j # Len(accepted')
  <2>1. j \in 1..Len(accepted)
    BY <1>3, AcceptsFacts
  <2> QED
    BY <1>1, <2>1, AcceptsFacts DEF ArrivalOrder
<1> QED
  BY <1>2, <1>3

\* Entering the lock with a ticket larger than every accepted one and smaller
\* than every one still in line.
LEMMA EntersOrder ==
    ASSUME TypeOK, ArrivalOrder, AcceptedBeforeLine, holder = NoOne,
           NEW p \in Publishers, NEW t \in Nat, Enters(p, t),
           t = ticket'[p], 0 < t, calls' \in Nat, t <= calls', calls <= calls',
           \A k \in 1..Len(accepted) : accepted[k].ticket < t,
           \A i \in 1..Len(waiters') : t < ticket'[waiters'[i]],
           \A k \in 1..Len(accepted), i \in 1..Len(waiters') :
               accepted[k].ticket < ticket'[waiters'[i]]
    PROVE  AcceptedBeforeLine' /\ ArrivalOrder'
<1>1. nextSequence \in Nat /\ calls \in Nat /\ nextSequence' = nextSequence + 1
      /\ \A k \in 1..Len(accepted) :
            accepted[k].sequence \in Nat /\ accepted[k].ticket \in Nat
  <2>1. nextSequence \in Nat /\ calls \in Nat
    BY DEF TypeOK
  <2> QED
    BY <2>1, HistoryTypes DEF Enters
<1>2. CASE Accepts(p, nextSequence, t) /\ holder' = holder /\ held' = held
  <2>1. ArrivalOrder'
    BY <1>1, <1>2, AcceptLater DEF AcceptedBeforeLine
  <2>2. \A k \in 1..Len(accepted') :
           \/ k = Len(accepted')
           \/ k \in 1..Len(accepted) /\ accepted'[k] = accepted[k]
    BY <1>1, <1>2, AcceptsFacts
  <2>3. /\ accepted'[Len(accepted')].sequence = nextSequence
        /\ accepted'[Len(accepted')].ticket = t
    BY <1>1, <1>2, AcceptsFacts
  <2>4. \A k \in 1..Len(accepted') :
           /\ accepted'[k].sequence < nextSequence'
           /\ accepted'[k].ticket <= calls'
           /\ accepted'[k].ticket > 0
    BY <1>1, <2>2, <2>3 DEF AcceptedBeforeLine
  <2>5. \A k \in 1..Len(accepted'), i \in 1..Len(waiters') :
           accepted'[k].ticket < ticket'[waiters'[i]]
    BY <2>2, <2>3
  <2> QED
    BY <1>2, <2>1, <2>4, <2>5 DEF AcceptedBeforeLine
<1>3. CASE StartsToPoll(p)
  <2>1. accepted' = accepted /\ holder' = p /\ held' = nextSequence
    BY <1>3 DEF StartsToPoll
  <2>2. \A k \in 1..Len(accepted) :
           /\ accepted[k].sequence < nextSequence
           /\ accepted[k].sequence < nextSequence'
           /\ accepted[k].ticket <= calls'
           /\ accepted[k].ticket > 0
    BY <1>1 DEF AcceptedBeforeLine
  <2>3. held' < nextSequence'
    BY <1>1, <2>1
  <2>4. AcceptedBeforeLine'
    BY <2>1, <2>2, <2>3 DEF AcceptedBeforeLine
  <2> QED
    BY <2>1, <2>4 DEF ArrivalOrder
<1> QED
  BY <1>2, <1>3 DEF Enters

\* The history stays ordered, and behind the holder and everybody in line.
LEMMA AcceptedStep ==
    /\ TypeOK /\ LineMatchesCallers /\ TicketsInLine
    /\ AcceptedBeforeLine /\ ArrivalOrder
    /\ [Next]_vars
    => AcceptedBeforeLine' /\ ArrivalOrder'
<1> SUFFICES ASSUME TypeOK, LineMatchesCallers, TicketsInLine,
                    AcceptedBeforeLine, ArrivalOrder, [Next]_vars
             PROVE  AcceptedBeforeLine' /\ ArrivalOrder'
  OBVIOUS
<1> USE NoOneAssumption DEF NoOneAssumption
<1>0. /\ waiters \in Seq(Publishers) /\ Len(waiters) \in Nat
      /\ ticket \in [Publishers -> Nat] /\ calls \in Nat
      /\ holder \in Publishers \cup {NoOne}
      /\ held \in Nat /\ nextSequence \in Nat
      /\ \A i \in 1..Len(waiters) : waiters[i] \in Publishers
  BY DEF TypeOK
<1>1. ASSUME NEW p \in Publishers, Refused(p)
      PROVE  AcceptedBeforeLine' /\ ArrivalOrder'
  <2>1. UNCHANGED <<waiters, holder, held, nextSequence, accepted>>
    BY <1>1 DEF Refused
  <2>2. /\ calls' = calls + 1
        /\ \A i \in 1..Len(waiters) : ticket'[waiters[i]] = ticket[waiters[i]]
        /\ holder # NoOne => ticket'[holder] = ticket[holder]
    BY <1>1, NewTicketFacts DEF Refused
  <2>3. \A k \in 1..Len(accepted) : accepted[k].ticket <= calls'
    BY <1>0, <2>2, HistoryTypes DEF AcceptedBeforeLine
  <2>4. holder # NoOne =>
           \A k \in 1..Len(accepted) : accepted[k].ticket < ticket'[holder]
    BY <2>2 DEF AcceptedBeforeLine
  <2>5. \A k \in 1..Len(accepted), i \in 1..Len(waiters) :
           accepted[k].ticket < ticket'[waiters[i]]
    BY <2>2 DEF AcceptedBeforeLine
  <2>6. ArrivalOrder'
    BY <2>1 DEF ArrivalOrder
  <2> QED
    BY <2>1, <2>3, <2>4, <2>5, <2>6 DEF AcceptedBeforeLine
<1>2. ASSUME NEW p \in Publishers, CalledAndEntered(p)
      PROVE  AcceptedBeforeLine' /\ ArrivalOrder'
  <2>1. holder = NoOne /\ waiters = <<>> /\ waiters' = <<>> /\ Enters(p, calls + 1)
    BY <1>2 DEF CalledAndEntered, LockFree
  <2>2. calls' = calls + 1 /\ ticket'[p] = calls + 1
    BY <1>2, NewTicketFacts DEF CalledAndEntered
  <2>3. \A k \in 1..Len(accepted) : accepted[k].ticket < calls + 1
    BY <1>0, HistoryTypes DEF AcceptedBeforeLine
  <2> QED
    BY <1>0, <2>1, <2>2, <2>3, EntersOrder
<1>3. ASSUME NEW p \in Publishers, CalledAndLinedUp(p)
      PROVE  AcceptedBeforeLine' /\ ArrivalOrder'
  <2>1. /\ UNCHANGED <<holder, held, nextSequence, accepted>>
        /\ waiters' = Append(waiters, p)
    BY <1>3 DEF CalledAndLinedUp
  <2>2. /\ calls' = calls + 1 /\ ticket'[p] = calls + 1
        /\ \A i \in 1..Len(waiters) : ticket'[waiters[i]] = ticket[waiters[i]]
        /\ holder # NoOne => ticket'[holder] = ticket[holder]
    BY <1>3, NewTicketFacts DEF CalledAndLinedUp
  <2>3. \A i \in 1..Len(waiters') :
           \/ i \in 1..Len(waiters) /\ waiters'[i] = waiters[i]
           \/ waiters'[i] = p
    BY <1>0, <2>1
  <2> QED
    BY <1>0, <2>1, <2>2, <2>3, HistoryTypes DEF AcceptedBeforeLine, ArrivalOrder
<1>4. ASSUME NEW p \in Publishers, FirstEntered(p)
      PROVE  AcceptedBeforeLine' /\ ArrivalOrder'
  <2>1. /\ Len(waiters) > 0 /\ waiters[1] = p /\ holder = NoOne
        /\ \A i \in 1..Len(waiters') :
              i + 1 \in 1..Len(waiters) /\ waiters'[i] = waiters[i + 1]
        /\ UNCHANGED <<calls, ticket>>
        /\ Enters(p, ticket[p])
    BY <1>0, <1>4 DEF FirstEntered
  <2>2. 1 \in 1..Len(waiters)
    BY <1>0, <2>1
  <2>3. 0 < ticket[p] /\ ticket[p] <= calls
    BY <2>1, <2>2 DEF LineMatchesCallers, TicketsInLine
  <2>4. \A i \in 1..Len(waiters') : ticket[p] < ticket[waiters'[i]]
    BY <2>1, <2>2 DEF TicketsInLine
  <2>5. \A k \in 1..Len(accepted) : accepted[k].ticket < ticket[p]
    BY <2>1, <2>2 DEF AcceptedBeforeLine
  <2>6. \A k \in 1..Len(accepted), i \in 1..Len(waiters') :
           accepted[k].ticket < ticket[waiters'[i]]
    BY <2>1 DEF AcceptedBeforeLine
  <2>7. /\ ticket[p] \in Nat /\ ticket' = ticket /\ calls' = calls
        /\ calls' \in Nat /\ calls <= calls'
    BY <1>0, <2>1
  <2> QED
    BY <2>1, <2>3, <2>4, <2>5, <2>6, <2>7, EntersOrder
<1>5. ASSUME NEW p \in Publishers, Released(p)
      PROVE  AcceptedBeforeLine' /\ ArrivalOrder'
  <2>1. /\ holder = p /\ holder # NoOne /\ holder' = NoOne
        /\ UNCHANGED <<waiters, nextSequence, calls, ticket>>
    BY <1>5 DEF Released
  <2>2. CASE Accepts(p, held, ticket[p])
    <3>1. ticket[p] \in Nat
      BY <1>0
    <3>2. ArrivalOrder'
      BY <1>0, <2>1, <2>2, <3>1, AcceptLater DEF AcceptedBeforeLine
    <3>3. \A k \in 1..Len(accepted') :
             \/ /\ k = Len(accepted')
                /\ accepted'[k].sequence = held /\ accepted'[k].ticket = ticket[p]
             \/ k \in 1..Len(accepted) /\ accepted'[k] = accepted[k]
      BY <1>0, <2>2, <3>1, AcceptsFacts
    <3>4. 0 < ticket[p] /\ ticket[p] <= calls
      BY <2>1 DEF LineMatchesCallers, TicketsInLine
    <3>5. held < nextSequence
      BY <2>1 DEF AcceptedBeforeLine
    <3>6. \A i \in 1..Len(waiters) : ticket[p] < ticket[waiters[i]]
      BY <2>1 DEF TicketsInLine
    <3>7. AcceptedBeforeLine'
      BY <2>1, <3>3, <3>4, <3>5, <3>6 DEF AcceptedBeforeLine
    <3> QED
      BY <3>2, <3>7
  <2>3. CASE accepted' = accepted
    BY <2>1, <2>3 DEF AcceptedBeforeLine, ArrivalOrder
  <2> QED
    BY <1>5, <2>2, <2>3 DEF Released
<1>6. ASSUME NEW p \in Publishers, LeftLine(p)
      PROVE  AcceptedBeforeLine' /\ ArrivalOrder'
  <2>1. UNCHANGED <<holder, held, nextSequence, calls, ticket, accepted>>
    BY <1>6 DEF LeftLine
  <2>2. \A i \in 1..Len(waiters') :
           \E j \in 1..Len(waiters) : waiters'[i] = waiters[j]
    <3>1. PICK k \in 1..Len(waiters) :
             waiters[k] = p /\ waiters' = RemoveAt(waiters, k)
      BY <1>6 DEF LeftLine
    <3>2. /\ Len(waiters') = Len(waiters) - 1
          /\ \A i \in 1..Len(waiters) - 1 :
                waiters'[i] = IF i < k THEN waiters[i] ELSE waiters[i + 1]
      BY <1>0, <3>1, RemoveAtProperties
    <3>3. ASSUME NEW i \in 1..Len(waiters')
          PROVE  \E j \in 1..Len(waiters) : waiters'[i] = waiters[j]
      <4>1. /\ i \in 1..Len(waiters) /\ i + 1 \in 1..Len(waiters)
            /\ waiters'[i] \in {waiters[i], waiters[i + 1]}
        BY <1>0, <3>2
      <4> QED
        BY <4>1
    <3> QED
      BY <3>3
  <2> QED
    BY <2>1, <2>2 DEF AcceptedBeforeLine, ArrivalOrder
<1>7. CASE UNCHANGED control
  BY <1>7 DEF control, AcceptedBeforeLine, ArrivalOrder
<1> QED
  BY <1>1, <1>2, <1>3, <1>4, <1>5, <1>6, <1>7, ControlSteps

\* Delivering with ticket t delivers t and nothing else that is new.
LEMMA DeliveredAfter ==
    ASSUME TypeOK, NEW p \in Publishers, NEW s \in Nat, NEW t \in Nat,
           Accepts(p, s, t), NEW u
    PROVE  Delivered(u)' <=> Delivered(u) \/ u = t
<1>1. \A k \in 1..Len(accepted') :
         \/ k = Len(accepted') /\ accepted'[k].ticket = t
         \/ k \in 1..Len(accepted) /\ accepted'[k] = accepted[k]
  BY AcceptsFacts
<1>2. Len(accepted') \in 1..Len(accepted')
      /\ \A k \in 1..Len(accepted) : k \in 1..Len(accepted')
  BY AcceptsFacts
<1>3. Delivered(u)' => Delivered(u) \/ u = t
  BY <1>1 DEF Delivered
<1>4. Delivered(u) \/ u = t => Delivered(u)'
  BY <1>2, AcceptsFacts DEF Delivered
<1> QED
  BY <1>3, <1>4

\* What publish() tells its callers stays what happened to their events.
LEMMA AllOrNothingStep ==
    /\ TypeOK /\ LineMatchesCallers /\ TicketsInLine /\ AcceptedBeforeLine
    /\ AllOrNothing /\ [Next]_vars
    => AllOrNothing'
<1> SUFFICES ASSUME TypeOK, LineMatchesCallers, TicketsInLine,
                    AcceptedBeforeLine, AllOrNothing, [Next]_vars
             PROVE  AllOrNothing'
  OBVIOUS
<1> USE NoOneAssumption DEF NoOneAssumption
<1>0. /\ outcome \in [Publishers -> Outcomes] /\ ticket \in [Publishers -> Nat]
      /\ calls \in Nat /\ held \in Nat /\ nextSequence \in Nat
      /\ waiters \in Seq(Publishers)
  BY DEF TypeOK
<1>a. ~Delivered(calls + 1)
  BY <1>0, HistoryTypes DEF Delivered, AcceptedBeforeLine
\* Task p's call ends or goes on without its event being accepted.
<1>b. ASSUME NEW p \in Publishers, accepted' = accepted,
             NEW o \in {"busy", "backpressure", "cancelled", "closed"},
             outcome' = [outcome EXCEPT ![p] = o],
             ~Delivered(ticket'[p]),
             \A q \in Publishers : q # p => ticket'[q] = ticket[q]
      PROVE  AllOrNothing'
  <2>1. \A u : Delivered(u)' <=> Delivered(u)
    BY <1>b DEF Delivered
  <2> QED
    BY <1>0, <1>b, <2>1 DEF AllOrNothing, Delivered
\* Task p's event is accepted with p's ticket, which nobody else has.
<1>c. ASSUME NEW p \in Publishers, NEW s \in Nat, NEW t \in Nat,
             Accepts(p, s, t), t = ticket'[p], t > 0,
             \A q \in Publishers : q # p => ticket'[q] = ticket[q] /\ ticket[q] # t
      PROVE  AllOrNothing'
  <2> DEFINE After(u) == \E i \in 1..Len(accepted') : accepted'[i].ticket = u
  <2>1. \A u : After(u) <=> Delivered(u) \/ u = t
    BY <1>c, DeliveredAfter DEF Delivered
  <2>2. outcome' = [outcome EXCEPT ![p] = "accepted"]
    BY <1>c DEF Accepts
  <2> HIDE DEF After
  <2>3. outcome'[p] = "accepted" /\ After(ticket'[p])
    BY <1>0, <1>c, <2>1, <2>2
  <2>4. ASSUME NEW q \in Publishers, q # p
        PROVE  outcome'[q] = outcome[q] /\ (After(ticket'[q]) <=> Delivered(ticket[q]))
    BY <1>0, <1>c, <2>1, <2>2, <2>4
  <2>5. \A q \in Publishers :
           /\ outcome'[q] = "accepted" => After(ticket'[q])
           /\ outcome'[q] \in {"busy", "backpressure", "cancelled", "closed"}
                 => ~After(ticket'[q])
    BY <2>3, <2>4 DEF AllOrNothing
  <2> QED
    BY <2>5 DEF AllOrNothing, Delivered, After
<1>1. ASSUME NEW p \in Publishers, Refused(p) PROVE AllOrNothing'
  BY <1>1, <1>a, <1>b, NewTicketFacts DEF Refused
<1>2. ASSUME NEW p \in Publishers, CalledAndEntered(p) PROVE AllOrNothing'
  <2>1. ticket'[p] = calls + 1 /\ \A q \in Publishers : q # p => ticket'[q] = ticket[q]
    BY <1>2, NewTicketFacts DEF CalledAndEntered
  <2>2. \A q \in Publishers : ticket[q] # calls + 1
    BY <1>0 DEF TicketsInLine
  <2>3. CASE Accepts(p, nextSequence, calls + 1)
    BY <1>0, <1>c, <2>1, <2>2, <2>3
  <2>4. CASE StartsToPoll(p)
    BY <1>a, <1>b, <2>1, <2>4 DEF StartsToPoll
  <2> QED
    BY <1>2, <2>3, <2>4 DEF CalledAndEntered, Enters
<1>3. ASSUME NEW p \in Publishers, CalledAndLinedUp(p) PROVE AllOrNothing'
  BY <1>3, <1>a, <1>b, NewTicketFacts DEF CalledAndLinedUp
<1>4. ASSUME NEW p \in Publishers, outcome[p] = "busy"
      PROVE  /\ ~Delivered(ticket[p]) /\ ticket[p] > 0 /\ ticket[p] \in Nat
             /\ \A q \in Publishers : q # p => ticket[q] # ticket[p]
  BY <1>0, <1>4 DEF AllOrNothing, TicketsInLine
<1>5. ASSUME NEW p \in Publishers, FirstEntered(p) PROVE AllOrNothing'
  <2>1. outcome[p] = "busy"
    BY <1>0, <1>5 DEF FirstEntered, LineMatchesCallers
  <2>2. ticket' = ticket
    BY <1>5 DEF FirstEntered
  <2>3. CASE Accepts(p, nextSequence, ticket[p])
    BY <1>0, <1>4, <1>c, <2>1, <2>2, <2>3
  <2>4. CASE StartsToPoll(p)
    BY <1>4, <1>b, <2>1, <2>2, <2>4 DEF StartsToPoll
  <2> QED
    BY <1>5, <2>3, <2>4 DEF FirstEntered, Enters
<1>6. ASSUME NEW p \in Publishers, Released(p) PROVE AllOrNothing'
  <2>1. outcome[p] = "busy" /\ ticket' = ticket
    BY <1>6 DEF Released, LineMatchesCallers
  <2>2. CASE Accepts(p, held, ticket[p])
    BY <1>0, <1>4, <1>c, <2>1, <2>2
  <2>3. ASSUME NEW o \in {"backpressure", "cancelled"},
               outcome' = [outcome EXCEPT ![p] = o], accepted' = accepted
        PROVE  AllOrNothing'
    BY <1>4, <1>b, <2>1, <2>3
  <2> QED
    BY <1>6, <2>2, <2>3 DEF Released
<1>7. ASSUME NEW p \in Publishers, LeftLine(p) PROVE AllOrNothing'
  <2>1. outcome[p] = "busy"
    BY <1>7 DEF LeftLine, LineMatchesCallers
  <2> QED
    BY <1>4, <1>b, <1>7, <2>1 DEF LeftLine
<1>8. CASE UNCHANGED control
  BY <1>8 DEF control, AllOrNothing, Delivered
<1> QED
  BY <1>1, <1>2, <1>3, <1>5, <1>6, <1>7, <1>8, ControlSteps

-----------------------------------------------------------------------------
(* The theorems.                                                           *)

\* The inductive invariant is preserved by every step.
LEMMA IInvStep == IInv /\ [Next]_vars => IInv'
BY TypeStep, QueuesStep, LineStep, TicketStep, AcceptedStep, AllOrNothingStep DEF IInv

\* The inductive invariant holds throughout every behaviour of the bus.
THEOREM Invariance == Spec => []IInv
BY IInvInit, IInvStep, PTL DEF Spec

\* Neither put_nowait call of publish() can find its queue full.
THEOREM QueuesAreBounded == Spec => []QueuesBounded
<1>1. IInv => QueuesBounded
  BY DEF IInv
<1> QED
  BY <1>1, Invariance, PTL

\* The reducer and the raw writer are fed the same accepted history, in order,
\* for any capacities and however far apart they are.
THEOREM FanOutIsFaithful == Spec => []FanOut
<1>1. IInv => FanOut
  BY DEF IInv
<1> QED
  BY <1>1, Invariance, PTL

\* Calls are accepted in the order they were made, with increasing sequences,
\* whatever is cancelled or times out.
THEOREM ArrivalOrderHolds == Spec => []ArrivalOrder
<1>1. IInv => ArrivalOrder
  BY DEF IInv
<1> QED
  BY <1>1, Invariance, PTL

\* publish() returns True exactly for the events it put in both queues.
THEOREM AllOrNothingHolds == Spec => []AllOrNothing
<1>1. IInv => AllOrNothing
  BY DEF IInv
<1> QED
  BY <1>1, Invariance, PTL

\* A task is suspended in publish() exactly when it holds the lock or is in
\* line for it, once: no cancellation leaves the lock held or a dead waiter.
THEOREM LineIsExact == Spec => []LineMatchesCallers
<1>1. IInv => LineMatchesCallers
  BY DEF IInv
<1> QED
  BY <1>1, Invariance, PTL

-----------------------------------------------------------------------------
(* The event bus implements the log that BusLog specifies.                  *)

\* One task's outcome changes: so does what is seen of it, and nothing else.
LEMMA AnswerChanges ==
    ASSUME TypeOK, NEW p \in Publishers, NEW o \in Outcomes,
           outcome' = [outcome EXCEPT ![p] = o]
    PROVE  Answers' = [Answers EXCEPT ![p] = SeenAs(o)]
<1>1. \A q \in Publishers : Answers'[q] = [Answers EXCEPT ![p] = SeenAs(o)][q]
  BY DEF TypeOK, Answers
<1> QED
  BY <1>1 DEF Answers

\* A task is seen to wait exactly when it is suspended in publish().
LEMMA PendingIsBusy ==
    ASSUME TypeOK, NEW p \in Publishers
    PROVE  Answers[p] = "pending" <=> outcome[p] = "busy"
BY DEF TypeOK, Answers, SeenAs, Outcomes

\* Sequences of the same length with the same elements are equal.
LEMMA SameElements ==
    ASSUME NEW S, NEW a \in Seq(S), NEW b \in Seq(S), Len(a) = Len(b),
           \A i \in 1..Len(a) : a[i] = b[i]
    PROVE  a = b
OBVIOUS

\* Putting a later event in both queues is accepting a call.
LEMMA DeliverAccepts ==
    ASSUME TypeOK, FanOut, ~Full,
           NEW p \in Publishers, NEW s \in Nat, NEW t \in Nat,
           Deliver(p, [sequence |-> s, ticket |-> t]),
           \A k \in 1..Len(accepted) : accepted[k].ticket < t
    PROVE  Log!Accept(p, t) /\ Positions' = Positions
<1> DEFINE e == [sequence |-> s, ticket |-> t]
<1>1. e \in Event /\ accepted \in Seq(Event) /\ Len(accepted) \in Nat
  BY DEF TypeOK, Event
<1>2. /\ accepted' = Append(accepted, e)
      /\ outcome' = [outcome EXCEPT ![p] = "accepted"]
      /\ reduced' = reduced /\ stored' = stored
  BY DEF Deliver
<1> HIDE DEF e
<1>3. /\ Len(accepted') = Len(accepted) + 1
      /\ \A i \in 1..Len(accepted) : accepted'[i] = accepted[i]
      /\ accepted'[Len(accepted) + 1] = e
  BY <1>1, <1>2
<1>4. Tickets \in Seq(Nat) /\ Len(Tickets) = Len(accepted)
  BY <1>1, HistoryTypes DEF Tickets
<1>5. Tickets' = Append(Tickets, t)
  <2>1. e.ticket = t
    BY DEF e
  <2>2. /\ Append(Tickets, t) \in Seq(Nat) /\ Len(Append(Tickets, t)) = Len(accepted) + 1
        /\ \A i \in 1..Len(accepted) : Append(Tickets, t)[i] = Tickets[i]
        /\ Append(Tickets, t)[Len(accepted) + 1] = t
    BY <1>1, <1>4
  <2>3. /\ Tickets' = [i \in 1..Len(accepted) + 1 |-> accepted'[i].ticket]
        /\ \A i \in 1..Len(accepted) : Tickets[i] = accepted[i].ticket
    BY <1>3 DEF Tickets
  <2>4. \A i \in 1..Len(accepted) + 1 : Tickets'[i] = Append(Tickets, t)[i]
    BY <1>1, <1>3, <2>1, <2>2, <2>3
  <2>5. Tickets' \in Seq(Nat) /\ Len(Tickets') = Len(accepted) + 1
    <3>1. \A i \in 1..Len(accepted) + 1 : accepted'[i].ticket \in Nat
      BY <1>1, <1>3, <2>1, HistoryTypes
    <3> QED
      BY <1>1, <2>3, <3>1
  <2> HIDE DEF Tickets
  <2> QED
    BY <2>2, <2>4, <2>5, SameElements
<1>6. Answers' = [Answers EXCEPT ![p] = "accepted"]
  BY <1>2, AnswerChanges DEF Outcomes, SeenAs
<1>7. \A r \in LogReaders : Len(Tickets) - Positions[r] < Lags[r]
  <2>1. /\ Len(accepted) = reduced + Len(stateQueue)
        /\ Len(accepted) = stored + Len(storageQueue)
    BY DEF FanOut, IsRemainder
  <2>2. Len(stateQueue) < StateCap /\ Len(storageQueue) < StorageCap
    BY CapsAssumption DEF Full, TypeOK, CapsAssumption
  <2>3. Len(stateQueue) \in Nat /\ Len(storageQueue) \in Nat /\ reduced \in Nat /\ stored \in Nat
    BY DEF TypeOK
  <2>4. /\ Positions["reducer"] = reduced /\ Positions["rawWriter"] = stored
        /\ Lags["reducer"] = StateCap /\ Lags["rawWriter"] = StorageCap
    BY DEF LogReaders, Positions, Lags
  <2>5. StateCap \in Nat /\ StorageCap \in Nat
    BY CapsAssumption DEF CapsAssumption
  <2>6. Len(Tickets) - reduced < StateCap /\ Len(Tickets) - stored < StorageCap
    BY <1>4, <2>1, <2>2, <2>3, <2>5
  <2> QED
    BY <2>4, <2>6 DEF LogReaders
<1>8. \A i \in 1..Len(Tickets) : Tickets[i] < t
  BY <1>4 DEF Tickets
<1>9. Positions' = Positions
  BY <1>2 DEF Positions
<1> QED
  BY <1>5, <1>6, <1>7, <1>8, <1>9 DEF Log!Accept

\* The bus starts with an empty log.
LEMMA LogInit == Init => Log!Init
<1> SUFFICES ASSUME Init PROVE Log!Init
  OBVIOUS
<1>1. Tickets = <<>>
  BY DEF Init, Tickets
<1>2. Answers = [p \in Publishers |-> "none"]
  BY DEF Init, Answers, SeenAs
<1>3. Positions = [r \in LogReaders |-> 0]
  BY DEF Init, Positions
<1> QED
  BY <1>1, <1>2, <1>3 DEF Init, Log!Init

\* Every step of the bus is a step of the log, or none.
LEMMA LogStep == IInv /\ [Next]_vars => [Log!Next]_(Log!vars)
<1> SUFFICES ASSUME IInv, [Next]_vars PROVE [Log!Next]_(Log!vars)
  OBVIOUS
<1> USE NoOneAssumption DEF NoOneAssumption, queueVars, marketVars, lockVars, historyVars
<1>0. /\ TypeOK /\ FanOut /\ LineMatchesCallers /\ TicketsInLine /\ AcceptedBeforeLine
      /\ waiters \in Seq(Publishers) /\ calls \in Nat /\ nextSequence \in Nat /\ held \in Nat
      /\ ticket \in [Publishers -> Nat] /\ outcome \in [Publishers -> Outcomes]
  BY DEF IInv, TypeOK
<1>t. ASSUME UNCHANGED <<accepted, reduced, stored>>
      PROVE  Tickets' = Tickets /\ Positions' = Positions
  BY <1>t DEF Tickets, Positions
<1>s. ASSUME UNCHANGED <<accepted, reduced, stored, outcome, calls, ticket>>
      PROVE  UNCHANGED Log!vars
  BY <1>s, <1>t DEF Log!vars, Answers
\* A call that waits is refused.
<1>r. ASSUME NEW p \in Publishers, outcome[p] = "busy",
             NEW o \in {"backpressure", "cancelled"},
             outcome' = [outcome EXCEPT ![p] = o],
             UNCHANGED <<accepted, reduced, stored, calls, ticket>>
      PROVE  Log!Answer(p)
  <2>1. Answers[p] = "pending"
    BY <1>0, <1>r, PendingIsBusy
  <2>2. Answers' = [Answers EXCEPT ![p] = "refused"]
    BY <1>0, <1>r, AnswerChanges DEF Outcomes, SeenAs
  <2> QED
    BY <1>r, <1>t, <2>1, <2>2 DEF Log!Answer, Log!Refuse
\* A call that waits is accepted.
<1>d. ASSUME NEW p \in Publishers, outcome[p] = "busy", ~Full, NEW s \in Nat,
             Deliver(p, [sequence |-> s, ticket |-> ticket[p]]),
             \A k \in 1..Len(accepted) : accepted[k].ticket < ticket[p],
             UNCHANGED <<calls, ticket>>
      PROVE  Log!Answer(p)
  <2>1. Answers[p] = "pending"
    BY <1>0, <1>d, PendingIsBusy
  <2>2. Log!Accept(p, ticket[p]) /\ Positions' = Positions
    BY <1>0, <1>d, DeliverAccepts
  <2> QED
    BY <1>d, <2>1, <2>2 DEF Log!Answer
<1>1. ASSUME NEW p \in Publishers, Publish(p) PROVE Log!Call(p)
  <2>1. /\ Answers[p] # "pending"
        /\ calls' = calls + 1 /\ ticket' = [ticket EXCEPT ![p] = calls + 1]
    BY <1>0, <1>1, PendingIsBusy DEF Publish
  <2>2. ASSUME NEW o \in Outcomes, outcome' = [outcome EXCEPT ![p] = o],
               UNCHANGED <<accepted, reduced, stored>>
        PROVE  /\ Answers' = [Answers EXCEPT ![p] = SeenAs(o)]
               /\ Tickets' = Tickets /\ Positions' = Positions
    BY <1>0, <1>t, <2>2, AnswerChanges
  <2>3. CASE closed
    <3>1. Log!Refuse(p) /\ Positions' = Positions
      BY <1>1, <2>2, <2>3 DEF Publish, Outcomes, SeenAs, Log!Refuse
    <3> QED
      BY <2>1, <3>1 DEF Log!Call
  <2>4. CASE ~closed /\ LockFree
    <3>1. Enter(p, calls + 1)
      BY <1>1, <2>4 DEF Publish
    <3>2. CASE Full
      BY <2>1, <2>2, <3>1, <3>2 DEF Enter, Outcomes, SeenAs, Log!Call
    <3>3. CASE ~Full
      <4>1. \A k \in 1..Len(accepted) : accepted[k].ticket < calls + 1
        BY <1>0, HistoryTypes DEF AcceptedBeforeLine
      <4>2. Deliver(p, [sequence |-> nextSequence, ticket |-> calls + 1])
        BY <3>1, <3>3 DEF Enter
      <4>3. calls + 1 \in Nat
        BY <1>0
      <4>4. Log!Accept(p, calls + 1) /\ Positions' = Positions
        BY <1>0, <3>3, <4>1, <4>2, <4>3, DeliverAccepts
      <4> QED
        BY <2>1, <4>4 DEF Log!Call
    <3> QED
      BY <3>2, <3>3
  <2>5. CASE ~closed /\ ~LockFree
    BY <1>1, <2>1, <2>2, <2>5 DEF Publish, Outcomes, SeenAs, Log!Call
  <2> QED
    BY <2>3, <2>4, <2>5
<1>2. ASSUME NEW p \in Publishers, Acquire(p)
      PROVE  Log!Answer(p) \/ UNCHANGED Log!vars
  <2>1. /\ Enter(p, ticket[p]) /\ UNCHANGED <<calls, ticket>>
        /\ 1 \in 1..Len(waiters) /\ p = waiters[1]
    BY <1>0, <1>2 DEF Acquire
  <2>2. outcome[p] = "busy"
    BY <1>0, <2>1 DEF LineMatchesCallers
  <2>3. CASE Full
    <3>1. outcome' = outcome /\ UNCHANGED <<accepted, reduced, stored>>
      BY <1>0, <2>1, <2>2, <2>3 DEF Enter
    <3> QED
      BY <1>s, <2>1, <3>1
  <2>4. CASE ~Full
    <3>1. Deliver(p, [sequence |-> nextSequence, ticket |-> ticket[p]])
      BY <2>1, <2>4 DEF Enter
    <3>2. \A k \in 1..Len(accepted) : accepted[k].ticket < ticket[p]
      BY <1>0, <2>1 DEF AcceptedBeforeLine
    <3> QED
      BY <1>0, <1>d, <2>1, <2>2, <2>4, <3>1, <3>2
  <2> QED
    BY <2>3, <2>4
<1>3. ASSUME NEW p \in Publishers, Poll(p) PROVE Log!Answer(p)
  <2>1. /\ holder = p /\ holder # NoOne /\ outcome[p] = "busy"
        /\ UNCHANGED <<calls, ticket>>
    BY <1>0, <1>3 DEF Poll, LineMatchesCallers
  <2>2. CASE Full
    BY <1>3, <1>r, <2>1, <2>2 DEF Poll, GiveUp
  <2>3. CASE ~Full
    <3>1. Deliver(p, [sequence |-> held, ticket |-> ticket[p]])
      BY <1>3, <2>3 DEF Poll
    <3>2. \A k \in 1..Len(accepted) : accepted[k].ticket < ticket[p]
      BY <1>0, <2>1 DEF AcceptedBeforeLine
    <3> QED
      BY <1>0, <1>d, <2>1, <2>3, <3>1, <3>2
  <2> QED
    BY <2>2, <2>3
<1>4. ASSUME NEW p \in Publishers, CancelWaiting(p) PROVE Log!Answer(p)
  <2>1. outcome[p] = "busy"
    BY <1>0, <1>4 DEF CancelWaiting, LineMatchesCallers
  <2> QED
    BY <1>4, <1>r, <2>1 DEF CancelWaiting
<1>5. ASSUME NEW p \in Publishers, CancelPolling(p) PROVE Log!Answer(p)
  <2>1. outcome[p] = "busy"
    BY <1>0, <1>5 DEF CancelPolling, LineMatchesCallers
  <2> QED
    BY <1>5, <1>r, <2>1 DEF CancelPolling
<1>6. ASSUME GetState \/ GetStorage
      PROVE  \E r \in LogReaders : Log!Read(r)
  <2>0. /\ Len(Tickets) = Len(accepted) /\ Len(accepted) \in Nat
        /\ reduced \in Nat /\ stored \in Nat
        /\ stateQueue \in Seq(Event) /\ storageQueue \in Seq(Event)
        /\ Len(accepted) = reduced + Len(stateQueue)
        /\ Len(accepted) = stored + Len(storageQueue)
    BY <1>0, HistoryTypes DEF Tickets, TypeOK, FanOut, IsRemainder
  <2>1. UNCHANGED <<accepted, outcome, calls, ticket>>
    BY <1>6 DEF GetState, GetStorage
  <2>2. Tickets' = Tickets /\ Answers' = Answers
    BY <2>1 DEF Tickets, Answers
  <2>3. CASE GetState
    <3>1. Positions["reducer"] < Len(Tickets)
      BY <2>0, <2>3 DEF GetState, Positions, LogReaders
    <3>2. Positions' = [Positions EXCEPT !["reducer"] = @ + 1]
      BY <2>3 DEF GetState, Positions, LogReaders
    <3>3. Log!Read("reducer")
      BY <2>1, <2>2, <3>1, <3>2 DEF Log!Read
    <3> QED
      BY <3>3 DEF LogReaders
  <2>4. CASE GetStorage
    <3>1. Positions["rawWriter"] < Len(Tickets)
      BY <2>0, <2>4 DEF GetStorage, Positions, LogReaders
    <3>2. Positions' = [Positions EXCEPT !["rawWriter"] = @ + 1]
      BY <2>4 DEF GetStorage, Positions, LogReaders
    <3>3. Log!Read("rawWriter")
      BY <2>1, <2>2, <3>1, <3>2 DEF Log!Read
    <3> QED
      BY <3>3 DEF LogReaders
  <2> QED
    BY <1>6, <2>3, <2>4
<1>7. ASSUME Tick \/ PublishMarketState \/ Close \/ GetMarketState \/ UNCHANGED vars
      PROVE  UNCHANGED Log!vars
  <2>1. UNCHANGED <<accepted, reduced, stored, outcome, calls, ticket>>
    BY <1>7 DEF Tick, PublishMarketState, Close, GetMarketState, vars
  <2> QED
    BY <1>s, <2>1
<1> QED
  BY <1>1, <1>2, <1>3, <1>4, <1>5, <1>6, <1>7 DEF Next, Log!Next

\* The bus is one log with two readers: its lock, queues, polls, time-outs and
\* cancellations show in nothing but the answers of the calls.
THEOREM BusIsOneLog == Spec => IsOneLog
BY LogInit, LogStep, Invariance, PTL DEF Spec, IsOneLog, Log!Spec

=============================================================================
