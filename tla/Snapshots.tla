------------------------------- MODULE Snapshots ------------------------------
(***************************************************************************)
(* From the events to the snapshots and those who read them: the rolling   *)
(* windows and flags of the StateStore, the ticks of the scheduler, the    *)
(* health writer, the reducer, the SnapshotPublisher with its subscribers  *)
(* (gateway.snapshots()), and the replay of the same log into a fresh      *)
(* store.                                                                  *)
(*                                                                         *)
(* Trades have quantity one; the markets are ready throughout (that part   *)
(* of a snapshot is a function of the log, see StateStore).                *)
(***************************************************************************)
EXTENDS PriceSources

CONSTANTS
    Seconds,         \* the lengths of the rolling windows
    StaleAfter,      \* ..._stale_after_ms
    Subscribers,
    SubscriberCap    \* subscriber_capacity

ASSUME SnapshotsAssumption ==
    /\ {StateCap, SubscriberCap} \subseteq Nat \ {0}
    /\ {MaxMessage, MaxEvents, MaxTime, StaleAfter} \subseteq Nat
    /\ Seconds \subseteq Nat
    /\ Active \subseteq SUBSET (Sources \cup Subscribers \cup {"health"})

VARIABLES
    store,           \* what the live StateStore knows
    replayed,        \* what a fresh StateStore knows that gets the log only
    compared,        \* the last snapshot, live and replayed
    read,            \* when the health writer last took a snapshot
    subs,            \* the subscribers
    published,       \* how many snapshots have been published
    stop, stopping   \* _stop of the gateway, _stop of the publisher

storeVars == <<store, replayed, compared, read>>
subVars == <<subs, published, stop, stopping>>
vars == <<sourceVars, storeVars, subVars>>

Never == [at |-> 0, known |-> FALSE]
End == 0

NoWindow == [rows |-> <<>>, total |-> 0]
FreshStore == [up |-> [s \in Sources |-> FALSE],
               price |-> [s \in Direct |-> Never],
               window |-> [w \in Seconds |-> NoWindow]]

NoSnapshot == [at |-> 0, ready |-> FALSE, totals |-> [w \in Seconds |-> 0]]

Init ==
    /\ SourceInit
    /\ store = FreshStore /\ replayed = FreshStore
    /\ compared = [live |-> NoSnapshot, replayed |-> NoSnapshot, count |-> 0]
    /\ read = 0
    /\ subs = [i \in Subscribers |-> [pc |-> "none", queue |-> <<>>, member |-> FALSE,
                                      from |-> 0, got |-> <<>>]]
    /\ published = 0 /\ stop = FALSE /\ stopping = FALSE

-----------------------------------------------------------------------------
(* The store.                                                              *)

\* _RollingAccumulator.expire(): rows leave from the front while they are too old.
Kept(rows, cutoff) ==
    LET fresh == {i \in DOMAIN rows : rows[i] >= cutoff} IN
    IF fresh = {} THEN <<>> ELSE SubSeq(rows, Min(fresh), Len(rows))

\* Mutant of Expire: what leaves is not subtracted.
ExpireRows(window, t, seconds) == [window EXCEPT !.rows = Kept(@, t - seconds)]

Expire(window, t, seconds) ==
    LET rows == Kept(window.rows, t - seconds) IN
    [rows |-> rows, total |-> window.total - (Len(window.rows) - Len(rows))]

Added(window, t, seconds) ==
    Expire([rows |-> Append(window.rows, t), total |-> window.total + 1], t, seconds)

\* What a snapshot does to a store: the windows expire.
Read(st, t) == [st EXCEPT !.window = [w \in Seconds |-> Expire(@[w], t, w)]]

\* Mutant of StatusApplied: a status says only that a source is connected.
StatusAppliedUp(st, e) == [st EXCEPT !.up[Clob] = @ \/ e.up]

\* A status of the log sets the flag again.
StatusApplied(st, e) == [st EXCEPT !.up[Clob] = e.up]

\* StateStore.apply(), of the events modelled here
Applied(st, e) ==
    CASE e.kind = "status" -> StatusApplied(st, e)
      [] e.kind = "price" /\ e.source = "binance" ->
           [st EXCEPT !.price["binance"] = [at |-> e.at, known |-> TRUE],
                      !.window = [w \in Seconds |-> Added(@[w], e.at, w)]]
      [] e.kind = "price" /\ e.source = "chainlink" ->
           [st EXCEPT !.price["chainlink"] = [at |-> e.at, known |-> TRUE]]

\* ready_for_strategy at time t
Ready(st, t) ==
    /\ \A s \in Sources : st.up[s]
    /\ \A s \in Direct : st.price[s].known /\ t <= st.price[s].at + StaleAfter

\* StateStore.snapshot() of a store that has been Read
Snapshot(st, t) ==
    [at |-> t, ready |-> Ready(st, t), totals |-> [w \in Seconds |-> st.window[w].total]]

\* A source sets its flag in the registry of the live store.
Flag(s, up) == store' = [store EXCEPT !.up[s] = up] /\ UNCHANGED <<replayed, compared, read>>

\* _health_writer: it looks at the live store at any time.
HealthReads ==
    /\ "health" \in active /\ ~stop
    /\ store' = Read(store, now)
    /\ read' = now
    /\ UNCHANGED <<sourceVars, replayed, compared, subVars>>

-----------------------------------------------------------------------------
(* Ticks and the reducer.                                                  *)

\* _snapshot_scheduler
Schedules ==
    /\ ~stop /\ ~stopping
    /\ \/ Publish([kind |-> "tick", at |-> now]) /\ UNCHANGED <<fatal, stop>>
       \/ Refuse /\ fatal' = TRUE /\ stop' = TRUE
    /\ UNCHANGED <<active, now, conn, last, seen, reduced, storeVars, subs, published, stopping>>

\* Mutant of Delivered: the oldest snapshot makes room for the newest.
DeliveredToAll(n) ==
    [i \in Subscribers |->
       IF ~subs[i].member THEN subs[i]
       ELSE IF Len(subs[i].queue) < SubscriberCap
              THEN [subs[i] EXCEPT !.queue = Append(@, n)]
              ELSE [subs[i] EXCEPT !.queue = Append(Tail(@), n)]]

\* SnapshotPublisher.publish(): a subscriber whose queue is full is removed.
Delivered(n) ==
    [i \in Subscribers |->
       IF ~subs[i].member THEN subs[i]
       ELSE IF Len(subs[i].queue) < SubscriberCap
              THEN [subs[i] EXCEPT !.queue = Append(@, n)]
              ELSE [subs[i] EXCEPT !.member = FALSE]]

Reduces ==
    /\ reduced < Len(log)
    /\ reduced' = reduced + 1
    /\ LET e == log[reduced'] IN
         \/ /\ e.kind # "tick"
            /\ store' = Applied(store, e) /\ replayed' = Applied(replayed, e)
            /\ UNCHANGED <<compared, subs, published>>
         \/ /\ e.kind = "tick"
            /\ store' = Read(store, e.at) /\ replayed' = Read(replayed, e.at)
            /\ compared' = [live |-> Snapshot(store', e.at), replayed |-> Snapshot(replayed', e.at),
                            count |-> reduced']
            /\ published' = published + 1
            /\ subs' = Delivered(published')
    /\ UNCHANGED <<active, now, conn, last, seen, log, fatal, read, stop, stopping>>

-----------------------------------------------------------------------------
(* Subscribers: gateway.snapshots()                                        *)

Sub(i, s) ==
    /\ subs' = [subs EXCEPT ![i] = s]
    /\ UNCHANGED <<sourceVars, storeVars, published, stop, stopping>>

Subscribes(i) ==
    /\ i \in active /\ subs[i].pc = "none" /\ ~stopping
    /\ Sub(i, [subs[i] EXCEPT !.pc = IF fatal THEN "raised" ELSE "waiting",
                              !.member = ~fatal, !.from = published])

\* It gets a snapshot, and works on it; or it gets the end marker.
Takes(i) ==
    LET s == subs[i] IN
    /\ s.pc = "waiting" /\ s.queue # <<>>
    /\ Sub(i, IF Head(s.queue) = End
                THEN [s EXCEPT !.pc = "ended", !.queue = Tail(@), !.member = FALSE]
                ELSE [s EXCEPT !.pc = "busy", !.queue = Tail(@), !.got = Append(@, Head(s.queue))])

\* It asks for the next one.
Asks(i) ==
    /\ subs[i].pc = "busy"
    /\ Sub(i, IF fatal THEN [subs[i] EXCEPT !.pc = "raised", !.member = FALSE]
              ELSE [subs[i] EXCEPT !.pc = "waiting"])

\* Mutant of TimesOut: only the end marker ends the iteration.
TimesOutNever(i) == FALSE /\ UNCHANGED vars

\* Half a second without a snapshot, after _stop is set
TimesOut(i) ==
    /\ subs[i].pc = "waiting" /\ subs[i].queue = <<>> /\ stop
    /\ Sub(i, [subs[i] EXCEPT !.pc = "ended", !.member = FALSE])

\* shutdown(): publisher.stop(), and later _stop
StopsPublisher ==
    /\ ~stopping
    /\ stopping' = TRUE
    /\ subs' = [i \in Subscribers |->
                  IF subs[i].member /\ Len(subs[i].queue) < SubscriberCap
                    THEN [subs[i] EXCEPT !.queue = Append(@, End), !.member = FALSE]
                    ELSE [subs[i] EXCEPT !.member = FALSE]]
    /\ UNCHANGED <<sourceVars, storeVars, published, stop>>

\* The shutdown comes to the end, when the reducer has taken everything.
StopsAll ==
    /\ stopping /\ ~stop /\ reduced = Len(log)
    /\ stop' = TRUE
    /\ UNCHANGED <<sourceVars, storeVars, subs, published, stopping>>

-----------------------------------------------------------------------------
Passes ==
    /\ now < MaxTime
    /\ now' = now + 1
    /\ UNCHANGED <<active, conn, last, seen, log, reduced, fatal, storeVars, subVars>>

\* The sources run until the shutdown begins; a fatal error sets _stop.
SourcesRun ==
    /\ ~stopping
    /\ SourceStep(Flag, UNCHANGED storeVars)
    /\ stop' = (stop \/ fatal')
    /\ UNCHANGED <<subs, published, stopping>>

Next ==
    \/ SourcesRun
    \/ HealthReads \/ Schedules \/ Reduces \/ Passes
    \/ \E i \in Subscribers : Subscribes(i) \/ Takes(i) \/ Asks(i) \/ TimesOut(i)
    \/ StopsPublisher \/ StopsAll

Spec == Init /\ [][Next]_vars

\* A subscriber that waits for its queue is woken by what arrives and by its
\* time limit.  It need not come back for the next snapshot.
FairSpec == Spec /\ \A i \in Subscribers : WF_vars(Takes(i)) /\ WF_vars(TimesOut(i))

-----------------------------------------------------------------------------
(* Properties.                                                             *)

TypeOK ==
    /\ active \in Active /\ now \in 0..MaxTime /\ reduced \in 0..Len(log)
    /\ conn \in [Sources -> {"idle", "connected", "reading", "backoff", "cleared", "ended"}]
    /\ last \in [Direct -> 0..MaxMessage] /\ seen \subseteq (1..MaxMessage) \X (1..MaxMessage)
    /\ Len(log) - reduced <= StateCap
    /\ {fatal, stop, stopping} \subseteq BOOLEAN
    /\ \A i \in Subscribers :
         /\ subs[i].pc \in {"none", "waiting", "busy", "ended", "raised"}
         /\ Len(subs[i].queue) <= SubscriberCap

\* Trades among the first n events that were received since time t
TradesSince(n, t) ==
    Cardinality({i \in 1..n : log[i].kind = "price" /\ log[i].source = "binance" /\ log[i].at >= t})

\* The totals of a rolling window, which are kept by adding and subtracting, are
\* those of the trades of the log that are not too old when the snapshot was
\* scheduled.  A live snapshot may miss trades, and only when the health writer
\* has read the store between the schedule of the snapshot and its reduction.
WindowsAreExact ==
    \A w \in Seconds :
        LET live == compared.live.totals[w]
            again == compared.replayed.totals[w]
        IN
        /\ again = TradesSince(compared.count, compared.live.at - w)
        /\ live <= again
        /\ live < again => read > compared.live.at

\* The registry's flag of a source, which the CLOB source sets twice, directly
\* and through the log, is right again as soon as the log has been reduced.
FlagsSettle ==
    reduced = Len(log) /\ ~fatal =>
        \A s \in Sources : /\ conn[s] = "reading" => store.up[s]
                           /\ conn[s] = "idle" => ~store.up[s]

\* A message of Chainlink is published once, and no price after a newer one:
\* over reconnections and refused events too.  (The same price, sent again
\* later, is another message.)
PricesInOrder ==
    \A i, j \in DOMAIN log :
        /\ i < j
        /\ log[i].kind = "price" /\ log[j].kind = "price"
        /\ log[i].source = "chainlink" /\ log[j].source = "chainlink"
        => /\ log[i].number <= log[j].number
           /\ <<log[i].number, log[i].sent>> # <<log[j].number, log[j].sent>>

\* A subscriber gets the snapshots from its subscription on, each once and in
\* order; it may be cut off, and what it has got then has no hole.
SubscribersInOrder ==
    \A i \in Subscribers :
        LET s == subs[i] IN
        /\ \A k \in DOMAIN s.got : s.got[k] = s.from + k
        /\ \A k \in DOMAIN s.queue : \/ s.queue[k] = s.from + Len(s.got) + k
                                     \/ s.queue[k] = End /\ k = Len(s.queue)
        /\ s.member => s.from + Len(s.got) + Len(s.queue) = published

\* An iteration over snapshots() ends after the gateway has stopped, also that
\* of a subscriber that was removed, or had no room for the end marker.
IterationsEnd ==
    \A i \in Subscribers : (stop /\ subs[i].pc = "waiting") ~> subs[i].pc # "waiting"

\* What the documentation says of replay: live ingestion and replay make the
\* same snapshots.  The code does not keep to it: the flags of two sources are
\* not in the log, so a replayed snapshot is never ready.
ReplayAgrees == compared.live.ready = compared.replayed.ready

=============================================================================
