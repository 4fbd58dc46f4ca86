------------------------------ MODULE ClobSource ------------------------------
(***************************************************************************)
(* The Polymarket CLOB source (market_data/sources/polymarket_clob.py),    *)
(* the connection it reads from and the exchange at the other end.         *)
(*                                                                         *)
(* Three asyncio tasks touch its state: run(), the task _subscriptions()   *)
(* of the current connection, and the market manager of the gateway, which *)
(* calls on_market_snapshot().  One action is what one of them does        *)
(* between two of its awaits.                                              *)
(*                                                                         *)
(* An event is published by appending it to line: what EventBus shows is   *)
(* that events are delivered in the order of the calls of publish(), and   *)
(* that a call fails only when the queues stay full.                       *)
(*                                                                         *)
(* Time is not modelled: a back-off ends, a grace period expires and a     *)
(* connection is lost at any moment.                                       *)
(***************************************************************************)
EXTENDS Naturals, SequencesExt

CONSTANTS
    Markets, Outcomes, Timeframes, TimeframeOf,   \* as in StateStore
    MaxSessions,     \* bound: how often the source connects
    MaxVersion,      \* bound: versions of one book of the exchange
    MaxLine,         \* how many published events wait for the reducer
    MaxInbox,        \* bound: frames the exchange has sent and nobody has read
    FreshIds,        \* TRUE if no two full books have the same identity (hash)
    ArrayReplies     \* TRUE if one frame holds all books of a subscription

ASSUME SourceAssumption ==
    /\ MaxSessions \in Nat \ {0} /\ MaxVersion \in Nat \ {0}
    /\ MaxLine \in Nat \ {0} /\ MaxInbox \in Nat
    /\ FreshIds \in BOOLEAN /\ ArrayReplies \in BOOLEAN

VARIABLES
    pc,              \* where run() is
    sid,             \* current_session_id; 0 before the first connection
    opened,          \* session_id of this turn of the loop is not None
    initial,         \* the desired assets when this connection was requested
    desired,         \* _desired
    subscribed,      \* _subscribed
    assets,          \* the keys of the dictionary assets
    retiring,        \* the keys of _retire_at
    cache,           \* _deduplication: per asset, the identities seen
    frame,           \* the messages of the frame being handled
    subs,            \* the task _subscriptions(): where it is, what it sends
    link,            \* the connection: down, up, or lost and not noticed yet
    inbox,           \* frames under way to the source
    listed,          \* the subscriptions the exchange knows of
    version,         \* the exchange's book of each asset
    connected,       \* HealthRegistry: the CLOB source is connected
    line             \* events published, in order, and not yet reduced

runVars == <<pc, sid, opened, initial>>
assetVars == <<desired, subscribed, assets, retiring, cache>>
netVars == <<link, inbox, listed, version>>
sourceVars == <<runVars, assetVars, frame, subs, netVars, connected, line>>

Assets == Markets \X Outcomes
Versions == 1..MaxVersion

NoSubs == [at |-> "none", added |-> {}, removed |-> {}]
IdleSubs == [NoSubs EXCEPT !.at = "waiting"]

SourceInit ==
    /\ pc = "start" /\ sid = 0 /\ opened = FALSE /\ initial = {}
    /\ desired = {} /\ subscribed = {} /\ assets = {} /\ retiring = {}
    /\ cache = [a \in Assets |-> {}]
    /\ frame = <<>>
    /\ subs = NoSubs
    /\ link = "down" /\ inbox = <<>> /\ listed = {}
    /\ version = [a \in Assets |-> 1]
    /\ connected = FALSE
    /\ line = <<>>

-----------------------------------------------------------------------------
(* Messages of the exchange, and events.                                   *)

\* A message and the identity _event_id() gives it: of a price change the
\* change, of a full book the levels, unless every book sent is different.
ChangeMessage(a, v) == [kind |-> "change", asset |-> a, version |-> v, stamp |-> 0]
BookMessage(a) == [kind |-> "book", asset |-> a, version |-> version[a],
                   stamp |-> IF FreshIds THEN sid ELSE 0]

\* Mutant of Identity: one identity for all price changes.
IdentityOfKind(m) == <<m.kind, m.stamp>>

Identity(m) == <<m.kind, m.version, m.stamp>>

\* apply_clob_message: the event of a message, tagged with the session
MessageEvent(m) ==
    [kind |-> m.kind, asset |-> m.asset, version |-> m.version, session |-> sid]

StatusEvent(up) == [kind |-> "status", up |-> up, session |-> sid]

\* Mutant of Publish: the event is put into the queue without waiting.
PublishAtOnce(e) == line' = Append(line, e)

Publish(e) == Len(line) < MaxLine /\ line' = Append(line, e)

\* The queues stay full beyond the deadline: publish() raises.  (The bound on
\* sessions bounds the failures too.)
PublishFails == Len(line) = MaxLine /\ sid < MaxSessions /\ UNCHANGED line

\* The frames that answer a subscription to the assets A, in one order.
Reply(order) ==
    IF ArrayReplies
      THEN <<[i \in DOMAIN order |-> BookMessage(order[i])]>>
      ELSE [i \in DOMAIN order |-> <<BookMessage(order[i])>>]

\* The exchange learns of a subscription, if the connection still stands.
Subscribed(A) ==
    IF link = "up"
      THEN /\ listed' = listed \cup A
           /\ \E order \in SetToSeqs(A) : inbox' = inbox \o Reply(order)
           /\ UNCHANGED <<link, version>>
      ELSE UNCHANGED netVars

-----------------------------------------------------------------------------
(* run(): one connection after the other.                                  *)

\* run() asks for a connection.  While no asset is desired it waits for a snapshot
\* first; one that repeats a window without markets is no step of the model, so
\* it may go on with nothing to subscribe to.
Start ==
    /\ pc = "start"
    /\ initial' = desired
    /\ opened' = FALSE
    /\ pc' = "connecting"
    /\ UNCHANGED <<sid, assetVars, frame, subs, netVars, connected, line>>

\* The connection stands: a new session, and the registry is told at once.
Connect ==
    /\ pc = "connecting"
    /\ sid < MaxSessions
    /\ sid' = sid + 1
    /\ opened' = TRUE
    /\ connected' = TRUE
    /\ link' = "up"
    /\ pc' = "announcing"
    /\ UNCHANGED <<initial, assetVars, frame, subs, inbox, listed, version, line>>

\* The status event of the new session.
Announce ==
    /\ pc = "announcing"
    /\ Publish(StatusEvent(TRUE))
    /\ pc' = "subscribing"
    /\ UNCHANGED <<sid, opened, initial, assetVars, frame, subs, netVars, connected>>

\* The initial subscription, and the task that keeps it up to date.
Subscribe ==
    /\ pc = "subscribing"
    /\ Subscribed(initial)
    /\ subscribed' = initial
    /\ subs' = IdleSubs
    /\ pc' = "reading"
    /\ UNCHANGED <<sid, opened, initial, desired, assets, retiring, cache, frame,
                   connected, line>>

Receive ==
    /\ pc = "reading" /\ frame = <<>>
    /\ inbox # <<>>
    /\ frame' = Head(inbox)
    /\ inbox' = Tail(inbox)
    /\ UNCHANGED <<runVars, assetVars, subs, link, listed, version, connected, line>>

\* InvalidEventError leaves the loop over the messages of the frame.
Discard == frame' = <<>>

Duplicate(m) == Identity(m) \in cache[m.asset]

\* A message of an asset that is not known (any more).
HandleUnknown ==
    /\ pc = "reading" /\ frame # <<>>
    /\ Head(frame).asset \notin assets
    /\ Discard
    /\ UNCHANGED <<runVars, assetVars, subs, netVars, connected, line>>

\* A message whose identity has been seen before.
HandleDuplicate ==
    /\ pc = "reading" /\ frame # <<>>
    /\ Head(frame).asset \in assets
    /\ Duplicate(Head(frame))
    /\ frame' = Tail(frame)
    /\ UNCHANGED <<runVars, assetVars, subs, netVars, connected, line>>

\* The identity is remembered before the event is published.
Remember(m) == cache' = [cache EXCEPT ![m.asset] = @ \cup {Identity(m)}]

HandleMessage ==
    /\ pc = "reading" /\ frame # <<>>
    /\ Head(frame).asset \in assets
    /\ ~Duplicate(Head(frame))
    /\ Remember(Head(frame))
    /\ Publish(MessageEvent(Head(frame)))
    /\ frame' = Tail(frame)
    /\ UNCHANGED <<runVars, desired, subscribed, assets, retiring, subs, netVars, connected>>

-----------------------------------------------------------------------------
(* The ways out of a connection.                                           *)

\* except Exception: the websocket is closed already, the registry is not told.
Fail ==
    /\ pc' = "backoff"
    /\ subscribed' = {}
    /\ frame' = <<>>
    /\ link' = "down" /\ inbox' = <<>> /\ listed' = {}
    /\ UNCHANGED <<sid, opened, initial, desired, assets, retiring, subs, version, connected>>

ConnectFails ==
    /\ pc = "connecting"
    /\ Fail
    /\ UNCHANGED <<cache, line>>

\* The status of a new session, or an event, does not get into the queues.
AnnounceFails ==
    /\ pc = "announcing"
    /\ PublishFails
    /\ Fail
    /\ UNCHANGED cache

MessageFails ==
    /\ pc = "reading" /\ frame # <<>>
    /\ Head(frame).asset \in assets
    /\ ~Duplicate(Head(frame))
    /\ Remember(Head(frame))
    /\ PublishFails
    /\ Fail

\* The loss is noticed by a send, or once all frames received are read.
ConnectionFails ==
    /\ link = "lost"
    /\ \/ pc = "subscribing"
       \/ pc = "reading" /\ frame = <<>> /\ inbox = <<>>
    /\ Fail
    /\ UNCHANGED <<cache, line>>

\* A normal closure ends the loop over the frames, without a back-off.
ConnectionEnds ==
    /\ pc = "reading" /\ frame = <<>>
    /\ link = "lost" /\ inbox = <<>>
    /\ pc' = "closing"
    /\ link' = "down" /\ listed' = {}
    /\ UNCHANGED <<sid, opened, initial, assetVars, frame, subs, inbox, version, connected, line>>

BackedOff ==
    /\ pc = "backoff"
    /\ pc' = "closing"
    /\ UNCHANGED <<sid, opened, initial, assetVars, frame, subs, netVars, connected, line>>

\* finally: the registry, the status event, and the end of the two tasks.
Close ==
    /\ pc = "closing"
    /\ connected' = FALSE
    /\ IF opened THEN Publish(StatusEvent(FALSE)) ELSE UNCHANGED line
    /\ subs' = NoSubs
    /\ pc' = "start"
    /\ UNCHANGED <<sid, opened, initial, assetVars, frame, netVars>>

\* An exception in finally ends run(), for good.
CloseFails ==
    /\ pc = "closing" /\ opened
    /\ connected' = FALSE
    /\ PublishFails
    /\ pc' = "dead"
    /\ UNCHANGED <<sid, opened, initial, assetVars, frame, subs, netVars>>

-----------------------------------------------------------------------------
(* _subscriptions()                                                        *)

\* Mutant of Expired: the metadata goes, the asset stays desired.
ExpiredHalf(X) ==
    /\ desired' = desired
    /\ assets' = assets \ X
    /\ cache' = [a \in Assets |-> IF a \in X THEN {} ELSE cache[a]]
    /\ retiring' = retiring \ X

\* _expire_assets, when the grace period of the assets X is over
Expired(X) ==
    /\ desired' = desired \ X
    /\ assets' = assets \ X
    /\ cache' = [a \in Assets |-> IF a \in X THEN {} ELSE cache[a]]
    /\ retiring' = retiring \ X

\* It wakes up, forgets the assets X whose grace period is over, and works out
\* what to send.
SubsWake(X) ==
    /\ subs.at = "waiting"
    /\ Expired(X)
    /\ subs' = [at |-> "adding", added |-> desired' \ subscribed,
                removed |-> subscribed \ desired']
    /\ UNCHANGED <<runVars, subscribed, frame, netVars, connected, line>>

SubsAdd ==
    /\ subs.at = "adding"
    /\ IF subs.added = {} THEN UNCHANGED <<netVars, subscribed>>
       ELSE /\ link # "down"
            /\ Subscribed(subs.added)
            /\ subscribed' = subscribed \cup subs.added
    /\ subs' = [subs EXCEPT !.at = "removing", !.added = {}]
    /\ UNCHANGED <<runVars, desired, assets, retiring, cache, frame, connected, line>>

\* Mutant of SubsRemove: what has become desired during the send counts as sent.
SubsRemoveToDesired ==
    /\ subs.at = "removing"
    /\ IF subs.removed = {} THEN UNCHANGED <<netVars, subscribed>>
       ELSE /\ link # "down"
            /\ listed' = IF link = "up" THEN listed \ subs.removed ELSE listed
            /\ subscribed' = desired
            /\ UNCHANGED <<link, inbox, version>>
    /\ subs' = IdleSubs
    /\ UNCHANGED <<runVars, desired, assets, retiring, cache, frame, connected, line>>

SubsRemove ==
    /\ subs.at = "removing"
    /\ IF subs.removed = {} THEN UNCHANGED <<netVars, subscribed>>
       ELSE /\ link # "down"
            /\ listed' = IF link = "up" THEN listed \ subs.removed ELSE listed
            /\ subscribed' = subscribed \ subs.removed
            /\ UNCHANGED <<link, inbox, version>>
    /\ subs' = IdleSubs
    /\ UNCHANGED <<runVars, desired, assets, retiring, cache, frame, connected, line>>

\* A send on a connection that is gone raises, and the task ends; run() does
\* not look at it before the connection is over.
SubsFails ==
    /\ \/ subs.at = "adding" /\ subs.added # {}
       \/ subs.at = "removing" /\ subs.removed # {}
    /\ link # "up"
    /\ subs' = NoSubs
    /\ UNCHANGED <<runVars, assetVars, frame, netVars, connected, line>>

-----------------------------------------------------------------------------
(* on_market_snapshot(), called by the market manager.                     *)

\* The assets that a window of timeframe tf with these two markets requires.
Required(current, next) == {a \in Assets : a[1] \in {current, next}}

OnMarketSnapshot(tf, current, next) ==
    LET required == Required(current, next)
        owned == {a \in assets \cup required : TimeframeOf[a[1]] = tf} IN
    /\ assets' = assets \cup required
    /\ retiring' = (retiring \cup owned) \ required
    /\ desired' = desired \cup required
    /\ UNCHANGED <<subscribed, cache>>

-----------------------------------------------------------------------------
(* The exchange and the network.                                           *)

\* A book of the exchange changes; subscribers are sent the change.
Trade(a) ==
    /\ version[a] < MaxVersion
    /\ version' = [version EXCEPT ![a] = @ + 1]
    /\ IF a \in listed /\ link = "up"
         THEN /\ Len(inbox) < MaxInbox
              /\ inbox' = Append(inbox, <<ChangeMessage(a, version[a] + 1)>>)
         ELSE UNCHANGED inbox
    /\ UNCHANGED <<runVars, assetVars, frame, subs, link, listed, connected, line>>

\* The connection is lost, with any number of the frames under way.  (The last
\* connection that the bound allows is not lost.)
Lose ==
    /\ link = "up"
    /\ sid < MaxSessions
    /\ link' = "lost"
    /\ \E n \in 0..Len(inbox) : inbox' = SubSeq(inbox, 1, n)
    /\ UNCHANGED <<runVars, assetVars, frame, subs, listed, version, connected, line>>

-----------------------------------------------------------------------------
Run ==
    \/ Start \/ Connect \/ ConnectFails \/ Announce \/ AnnounceFails \/ Subscribe
    \/ Receive \/ HandleUnknown \/ HandleDuplicate \/ HandleMessage \/ MessageFails
    \/ ConnectionFails \/ ConnectionEnds \/ BackedOff \/ Close \/ CloseFails

Subscriptions == (\E X \in SUBSET retiring : SubsWake(X)) \/ SubsAdd \/ SubsRemove \/ SubsFails

Exchange == Lose \/ \E a \in Assets : Trade(a)

=============================================================================
