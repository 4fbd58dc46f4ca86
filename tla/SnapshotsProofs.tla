--------------------------- MODULE SnapshotsProofs ----------------------------
(***************************************************************************)
(* Proofs about Snapshots, for any messages, events, capacities, windows   *)
(* and subscribers: prices of Chainlink are in order, the flags of the     *)
(* registry settle, rolling windows are exact, and subscribers get         *)
(* snapshots without a hole.                                               *)
(***************************************************************************)
EXTENDS Snapshots, SequenceTheorems, FiniteSetTheorems, TLAPS

LogEvent ==
    [kind : {"price"}, source : Direct, number : Nat, sent : Nat, at : Nat]
    \cup [kind : {"status"}, source : {Clob}, up : BOOLEAN, at : Nat]
    \cup [kind : {"tick"}, at : Nat]

\* Only the flags of a store matter here.
IsStore(st) ==
    /\ st = [up |-> st.up, price |-> st.price, window |-> st.window]
    /\ st.up \in [Sources -> BOOLEAN]

Subscriber == [pc : {"none", "waiting", "busy", "ended", "raised"}, queue : Seq(Nat),
               member : BOOLEAN, from : Nat, got : Seq(Nat)]

Types ==
    /\ now \in Nat /\ log \in Seq(LogEvent) /\ reduced \in 0..Len(log)
    /\ conn \in [Sources -> {"idle", "connected", "reading", "backoff", "cleared", "ended"}]
    /\ last \in [Direct -> Nat] /\ seen \subseteq Nat \X Nat
    /\ fatal \in BOOLEAN /\ published \in Nat
    /\ IsStore(store)
    /\ subs \in [Subscribers -> Subscriber]

\* The Chainlink source has seen what it has published, and knows the newest.
IsPrice(e) == e.kind = "price" /\ e.source = "chainlink"

PricesSeen ==
    /\ \A i \in DOMAIN log : IsPrice(log[i]) => <<log[i].number, log[i].sent>> \in seen
    /\ \A m \in seen : m[1] <= last["chainlink"]

\* The flag that the CLOB source wants: what the last status that is still to be
\* reduced says, and if there is none, what the registry says.
Pending(i) == i \in (reduced + 1)..Len(log) /\ log[i].kind = "status"

ClobFlag ==
    conn[Clob] \in {"idle", "reading"} =>
        LET up == conn[Clob] = "reading" IN
        /\ \A i \in DOMAIN log : Pending(i) /\ (\A j \in DOMAIN log : Pending(j) => j <= i)
                                   => (log[i].up <=> up)
        /\ (\A i \in DOMAIN log : ~Pending(i)) => (store.up[Clob] <=> up)

DirectFlags ==
    \A s \in Direct : /\ conn[s] \in {"idle", "reading", "backoff"}
                      /\ conn[s] = "reading" => store.up[s]
                      /\ conn[s] = "idle" => ~store.up[s]

\* A subscriber that is not in the set of the publisher gets nothing more, and
\* one that is has not got the end marker.
Membership ==
    \A i \in Subscribers :
        /\ subs[i].pc = "none" => subs[i].queue = <<>> /\ subs[i].got = <<>> /\ ~subs[i].member
        /\ subs[i].member => \A k \in DOMAIN subs[i].queue : subs[i].queue[k] # End

\* The bounds of TypeOK
Bounds ==
    /\ active \in Active /\ now <= MaxTime
    /\ last \in [Direct -> 0..MaxMessage] /\ seen \subseteq (1..MaxMessage) \X (1..MaxMessage)
    /\ Len(log) - reduced <= StateCap
    /\ {stop, stopping} \subseteq BOOLEAN
    /\ \A i \in Subscribers : Len(subs[i].queue) <= SubscriberCap

\* The rolling windows.  Of a window and of a log, what matters is how many trades
\* they have since any time c.
IsTrade(e) == e.kind = "price" /\ e.source = "binance"

RowsSince(rows, c) == Cardinality({k \in DOMAIN rows : rows[k] >= c})

\* TradesSince, of any log
TradesOf(l, n, c) == Cardinality({i \in 1..n : IsTrade(l[i]) /\ l[i].at >= c})

IsWindow(win) ==
    /\ win = [rows |-> win.rows, total |-> win.total]
    /\ win.rows \in Seq(Nat) /\ win.total = Len(win.rows)
    /\ \A i, j \in DOMAIN win.rows : i <= j => win.rows[i] <= win.rows[j]

\* A window of w seconds that was filled from the first n events of the log, and
\* has expired at their times, and other times up to r: it has too few trades only
\* since times that are too old, when w seconds have gone by.
Follows(win, w, l, n, r) ==
    /\ IsWindow(win)
    /\ \A k \in DOMAIN win.rows : \E i \in 1..n : win.rows[k] = l[i].at
    /\ \A c \in Int : RowsSince(win.rows, c) <= TradesOf(l, n, c)
    /\ \A c \in Int : r <= c + w /\ (\A i \in 1..n : l[i].at <= c + w)
                        => RowsSince(win.rows, c) = TradesOf(l, n, c)

Clocks ==
    /\ read \in Nat /\ read <= now
    /\ \A i \in DOMAIN log : log[i].at <= now
    /\ \A i, j \in DOMAIN log : i <= j => log[i].at <= log[j].at

\* The live store expires at the times of the events and of the health writer,
\* the replayed one at those of the events.
WindowsFollow ==
    /\ store.window = [w \in Seconds |-> store.window[w]]
    /\ replayed.window = [w \in Seconds |-> replayed.window[w]]
    /\ \A w \in Seconds : /\ Follows(store.window[w], w, log, reduced, read)
                          /\ Follows(replayed.window[w], w, log, reduced, 0)

Compared ==
    /\ compared.count \in 0..Len(log) /\ compared.live.at \in Nat
    /\ WindowsAreExact

WindowsInv == Clocks /\ IsStore(replayed) /\ WindowsFollow /\ Compared

IInv == Types /\ Bounds /\ PricesSeen /\ PricesInOrder /\ ClobFlag /\ DirectFlags /\ Membership
             /\ SubscribersInOrder /\ WindowsInv

-----------------------------------------------------------------------------
(* Steps.                                                                  *)

\* The times a message may have.
LEMMA SentType ==
    ASSUME NEW s
    PROVE  /\ Sent(s) \subseteq Nat
           /\ s = "chainlink" => Sent(s) = 1..MaxMessage
BY SnapshotsAssumption DEF Sent

\* The steps of the sources, by what they do to the flags.
LEMMA SourceCases ==
    ASSUME SourcesRun
    PROVE  /\ UNCHANGED <<subs, published, stopping>>
           /\ \/ \E s \in Direct : PriceConnects(s, Flag)
              \/ \E s \in Direct : PriceClears(s, Flag)
              \/ ClobFlags(Flag)
              \/ /\ UNCHANGED storeVars
                 /\ \/ \E s \in Direct : PriceArrives(s)
                    \/ \E s \in Direct : PriceLost(s)
                    \/ ClobAnnounces \/ ClobLost \/ ClobRetracts
BY DEF SourcesRun, SourceStep

LEMMA AppendSeq ==
    ASSUME NEW S, NEW s \in Seq(S), NEW x \in S
    PROVE  /\ Append(s, x) \in Seq(S) /\ Len(Append(s, x)) = Len(s) + 1
           /\ DOMAIN s = 1..Len(s) /\ DOMAIN Append(s, x) = 1..Len(s) + 1
           /\ \A i \in 1..Len(s) : Append(s, x)[i] = s[i]
           /\ Append(s, x)[Len(s) + 1] = x
OBVIOUS

LEMMA PublishType ==
    ASSUME Types, NEW e \in LogEvent, Publish(e)
    PROVE  /\ log' \in Seq(LogEvent) /\ Len(log') = Len(log) + 1 /\ Len(log) \in Nat
           /\ DOMAIN log = 1..Len(log) /\ DOMAIN log' = 1..Len(log) + 1
           /\ \A i \in 1..Len(log) : log'[i] = log[i]
           /\ log'[Len(log) + 1] = e
<1>1. log \in Seq(LogEvent) /\ log' = Append(log, e)
  BY DEF Types, Publish
<1> QED
  BY <1>1, AppendSeq

LEMMA AppliedUp ==
    ASSUME NEW st, IsStore(st), NEW e \in LogEvent, e.kind # "tick"
    PROVE  /\ IsStore(Applied(st, e))
           /\ e.kind = "price" => Applied(st, e).up = st.up
           /\ e.kind = "status" => Applied(st, e).up = [st.up EXCEPT ![Clob] = e.up]
<1>1. CASE e.kind = "price"
  <2>1. e.source \in Direct
    BY <1>1 DEF LogEvent
  <2> QED
    BY <1>1, <2>1 DEF IsStore, Applied, Direct
<1>2. CASE e.kind = "status"
  <2>1. e.up \in BOOLEAN
    BY <1>2 DEF LogEvent
  <2> QED
    BY <1>2, <2>1 DEF IsStore, Applied, StatusApplied
<1> QED
  BY <1>1, <1>2 DEF LogEvent

LEMMA ReadUp ==
    ASSUME NEW st, IsStore(st), NEW t
    PROVE  IsStore(Read(st, t)) /\ Read(st, t).up = st.up
BY DEF IsStore, Read

LEMMA FlagUp ==
    ASSUME Types, NEW s \in Sources, NEW up \in BOOLEAN, Flag(s, up)
    PROVE  IsStore(store') /\ store'.up = [store.up EXCEPT ![s] = up]
BY DEF Types, IsStore, Flag

\* What an append to a subscriber's queue, and what taking from it, leave.
LEMMA SubscriberAt ==
    ASSUME Types, NEW i \in Subscribers
    PROVE  /\ subs[i] \in Subscriber
           /\ subs[i].queue \in Seq(Nat) /\ subs[i].got \in Seq(Nat)
           /\ Len(subs[i].queue) \in Nat /\ Len(subs[i].got) \in Nat
           /\ subs[i].from \in Nat /\ subs[i].member \in BOOLEAN
           /\ DOMAIN subs[i].queue = 1..Len(subs[i].queue)
           /\ DOMAIN subs[i].got = 1..Len(subs[i].got)
BY DEF Types, Subscriber

LEMMA DeliveredAt ==
    ASSUME Types, NEW n \in Nat, NEW i \in Subscribers
    PROVE  \/ ~subs[i].member /\ Delivered(n)[i] = subs[i]
           \/ subs[i].member /\ Delivered(n)[i] = [subs[i] EXCEPT !.queue = Append(@, n)]
           \/ Delivered(n)[i] = [subs[i] EXCEPT !.member = FALSE]
BY DEF Delivered

LEMMA DeliveredType ==
    ASSUME Types, NEW n \in Nat
    PROVE  Delivered(n) \in [Subscribers -> Subscriber]
<1>1. ASSUME NEW i \in Subscribers PROVE Delivered(n)[i] \in Subscriber
  <2>1. Append(subs[i].queue, n) \in Seq(Nat)
    BY SubscriberAt, AppendSeq
  <2>2. subs[i] \in Subscriber
    BY SubscriberAt
  <2>3. /\ [subs[i] EXCEPT !.queue = Append(@, n)] \in Subscriber
        /\ [subs[i] EXCEPT !.member = FALSE] \in Subscriber
    BY <2>1, <2>2 DEF Subscriber
  <2> QED
    BY <2>2, <2>3, DeliveredAt
<1> QED
  BY <1>1 DEF Delivered

LEMMA StoppedAt ==
    ASSUME Types, StopsPublisher, NEW i \in Subscribers
    PROVE  \/ subs[i].member /\ subs'[i] = [subs[i] EXCEPT !.queue = Append(@, End), !.member = FALSE]
           \/ subs'[i] = [subs[i] EXCEPT !.member = FALSE]
BY DEF StopsPublisher

LEMMA StoppedType ==
    ASSUME Types, StopsPublisher
    PROVE  subs' \in [Subscribers -> Subscriber]
<1>1. ASSUME NEW i \in Subscribers PROVE subs'[i] \in Subscriber
  <2>1. Append(subs[i].queue, End) \in Seq(Nat)
    BY SubscriberAt, AppendSeq DEF End
  <2>2. subs[i] \in Subscriber
    BY SubscriberAt
  <2> QED
    BY <2>1, <2>2, StoppedAt DEF Subscriber
<1>2. subs' = [i \in Subscribers |-> subs'[i]]
  BY DEF StopsPublisher
<1> QED
  BY <1>1, <1>2

\* What one of the steps of subscriber i makes of it.
LEMMA SubscriberSteps ==
    ASSUME Types, NEW i \in Subscribers, Subscribes(i) \/ Takes(i) \/ Asks(i) \/ TimesOut(i)
    PROVE  /\ \E s \in Subscriber : subs' = [subs EXCEPT ![i] = s]
           /\ subs' \in [Subscribers -> Subscriber]
<1>1. subs[i] \in Subscriber /\ published \in Nat
  BY SubscriberAt DEF Types
<1>2. ASSUME NEW s \in Subscriber, subs' = [subs EXCEPT ![i] = s]
      PROVE  /\ \E t \in Subscriber : subs' = [subs EXCEPT ![i] = t]
             /\ subs' \in [Subscribers -> Subscriber]
  BY <1>2 DEF Types
<1>3. CASE Subscribes(i)
  <2> DEFINE s == [subs[i] EXCEPT !.pc = IF fatal THEN "raised" ELSE "waiting",
                                  !.member = ~fatal, !.from = published]
  <2>1. s \in Subscriber
    BY <1>1 DEF Subscriber, Types
  <2>2. subs' = [subs EXCEPT ![i] = s]
    BY <1>3 DEF Subscribes, Sub
  <2> QED
    BY <1>2, <2>1, <2>2
<1>4. CASE Takes(i)
  <2>1. /\ subs[i].queue \in Seq(Nat) /\ subs[i].queue # <<>> /\ subs[i].got \in Seq(Nat)
        /\ Head(subs[i].queue) \in Nat /\ Tail(subs[i].queue) \in Seq(Nat)
    BY <1>4, SubscriberAt DEF Takes
  <2>2. Append(subs[i].got, Head(subs[i].queue)) \in Seq(Nat)
    BY <2>1, AppendSeq
  <2> DEFINE s == [subs[i] EXCEPT !.pc = "ended", !.queue = Tail(@), !.member = FALSE]
             t == [subs[i] EXCEPT !.pc = "busy", !.queue = Tail(@),
                                  !.got = Append(@, Head(subs[i].queue))]
  <2>3. s \in Subscriber /\ t \in Subscriber
    BY <1>1, <2>1, <2>2 DEF Subscriber
  <2>4. subs' = [subs EXCEPT ![i] = s] \/ subs' = [subs EXCEPT ![i] = t]
    BY <1>4 DEF Takes, Sub
  <2> QED
    BY <1>2, <2>3, <2>4
<1>5. CASE Asks(i)
  <2> DEFINE s == [subs[i] EXCEPT !.pc = "raised", !.member = FALSE]
             t == [subs[i] EXCEPT !.pc = "waiting"]
  <2>1. s \in Subscriber /\ t \in Subscriber
    BY <1>1 DEF Subscriber
  <2>2. subs' = [subs EXCEPT ![i] = s] \/ subs' = [subs EXCEPT ![i] = t]
    BY <1>5 DEF Asks, Sub
  <2> QED
    BY <1>2, <2>1, <2>2
<1>6. CASE TimesOut(i)
  <2> DEFINE s == [subs[i] EXCEPT !.pc = "ended", !.member = FALSE]
  <2>1. s \in Subscriber
    BY <1>1 DEF Subscriber
  <2>2. subs' = [subs EXCEPT ![i] = s]
    BY <1>6 DEF TimesOut, Sub
  <2> QED
    BY <1>2, <2>1, <2>2
<1> QED
  BY <1>3, <1>4, <1>5, <1>6

LEMMA TypesStep == Types /\ [Next]_vars => Types'
<1> SUFFICES ASSUME Types, [Next]_vars PROVE Types'
  OBVIOUS
<1>1. ASSUME SourcesRun PROVE Types'
  <2>0. UNCHANGED <<subs, published>>
    BY <1>1, SourceCases
  <2>s. \A s \in Direct : s \in Sources
    BY DEF Sources
  <2>c. Clob \in Sources
    BY DEF Sources
  <2>1. ASSUME NEW s \in Direct, PriceConnects(s, Flag) PROVE Types'
    <3>1. IsStore(store')
      BY <2>1, <2>s, FlagUp DEF PriceConnects
    <3> QED
      BY <2>0, <2>1, <2>s, <3>1 DEF PriceConnects, Goes, Types
  <2>2. ASSUME NEW s \in Direct, PriceClears(s, Flag) PROVE Types'
    <3>1. IsStore(store')
      BY <2>2, <2>s, FlagUp DEF PriceClears
    <3> QED
      BY <2>0, <2>2, <2>s, <3>1 DEF PriceClears, Goes, Types
  <2>3. ASSUME ClobFlags(Flag) PROVE Types'
    <3>1. IsStore(store')
      BY <2>3, <2>c, FlagUp DEF ClobFlags
    <3>2. conn' \in [Sources -> {"idle", "connected", "reading", "backoff", "cleared", "ended"}]
      BY <2>3 DEF ClobFlags, Goes, Types
    <3> QED
      BY <2>0, <2>3, <3>1, <3>2 DEF ClobFlags, Types
  <2>4. ASSUME NEW s \in Direct, PriceArrives(s), UNCHANGED storeVars PROVE Types'
    <3>1. PICK n \in 1..MaxMessage, t \in Sent(s) :
            /\ last' = [last EXCEPT ![s] = n]
            /\ seen' = IF s = "chainlink" THEN seen \cup {<<n, t>>} ELSE seen
            /\ \/ /\ Publish([kind |-> "price", source |-> s, number |-> n, sent |-> t, at |-> now])
                  /\ UNCHANGED conn
               \/ Refuse /\ Goes(s, "backoff")
      BY <2>4 DEF PriceArrives
    <3>2. /\ n \in Nat /\ t \in Nat
          /\ [kind |-> "price", source |-> s, number |-> n, sent |-> t, at |-> now] \in LogEvent
      BY SentType DEF LogEvent, Types
    <3>3. log' \in Seq(LogEvent) /\ reduced \in 0..Len(log')
      <4>1. CASE UNCHANGED log
        BY <4>1 DEF Types
      <4>2. CASE Publish([kind |-> "price", source |-> s, number |-> n, sent |-> t, at |-> now])
        BY <3>2, <4>2, PublishType DEF Types
      <4> QED
        BY <3>1, <4>1, <4>2 DEF Refuse
    <3>4. conn' \in [Sources -> {"idle", "connected", "reading", "backoff", "cleared", "ended"}]
      BY <2>s, <3>1 DEF Goes, Types
    <3>5. last' \in [Direct -> Nat] /\ seen' \subseteq Nat \X Nat
      BY <3>1, <3>2 DEF Types
    <3> QED
      BY <2>0, <2>4, <3>3, <3>4, <3>5 DEF PriceArrives, Types, storeVars
  <2>5. ASSUME NEW s \in Direct, PriceLost(s), UNCHANGED storeVars PROVE Types'
    BY <2>0, <2>5 DEF PriceLost, Goes, Types, storeVars
  <2>6. ASSUME ClobAnnounces \/ ClobLost \/ ClobRetracts, UNCHANGED storeVars PROVE Types'
    <3>1. \A up \in BOOLEAN : Status(up) \in LogEvent
      BY DEF Status, LogEvent, Types
    <3>2. log' \in Seq(LogEvent) /\ reduced \in 0..Len(log')
      <4>1. CASE UNCHANGED log
        BY <4>1 DEF Types
      <4>2. CASE \E up \in BOOLEAN : Publish(Status(up))
        BY <3>1, <4>2, PublishType DEF Types
      <4> QED
        BY <2>6, <4>1, <4>2 DEF ClobAnnounces, ClobLost, ClobRetracts, Refuse
    <3>3. conn' \in [Sources -> {"idle", "connected", "reading", "backoff", "cleared", "ended"}]
      BY <2>6 DEF ClobAnnounces, ClobLost, ClobRetracts, Goes, Types
    <3>4. fatal' \in BOOLEAN /\ UNCHANGED <<now, last, seen, reduced>>
      BY <2>6 DEF ClobAnnounces, ClobLost, ClobRetracts, Types
    <3> QED
      BY <2>0, <2>6, <3>2, <3>3, <3>4 DEF Types, storeVars
  <2> QED
    BY <1>1, <2>1, <2>2, <2>3, <2>4, <2>5, <2>6, SourceCases
<1>2. ASSUME HealthReads PROVE Types'
  <2>1. IsStore(store')
    BY <1>2, ReadUp DEF HealthReads, Types
  <2> QED
    BY <1>2, <2>1 DEF HealthReads, Types, sourceVars, subVars
<1>3. ASSUME Schedules PROVE Types'
  <2>1. log' \in Seq(LogEvent) /\ reduced \in 0..Len(log') /\ fatal' \in BOOLEAN
    <3>1. [kind |-> "tick", at |-> now] \in LogEvent
      BY DEF LogEvent, Types
    <3>2. CASE Publish([kind |-> "tick", at |-> now]) /\ UNCHANGED fatal
      BY <3>1, <3>2, PublishType DEF Types
    <3>3. CASE UNCHANGED log /\ fatal' = TRUE
      BY <3>3 DEF Types
    <3> QED
      BY <1>3, <3>2, <3>3 DEF Schedules, Refuse
  <2> QED
    BY <1>3, <2>1 DEF Schedules, Types, storeVars
<1>4. ASSUME Reduces PROVE Types'
  <2>1. reduced' = reduced + 1 /\ reduced' \in 1..Len(log) /\ log[reduced'] \in LogEvent
    BY <1>4 DEF Reduces, Types
  <2>2. UNCHANGED <<now, conn, last, seen, log, fatal>>
    BY <1>4 DEF Reduces
  <2>3. CASE log[reduced'].kind # "tick"
    <3>1. IsStore(store) /\ store' = Applied(store, log[reduced']) /\ UNCHANGED <<subs, published>>
      BY <1>4, <2>3 DEF Reduces, Types
    <3>2. IsStore(store')
      BY <2>1, <2>3, <3>1, AppliedUp
    <3> QED
      BY <2>1, <2>2, <3>1, <3>2 DEF Types
  <2>4. CASE log[reduced'].kind = "tick"
    <3>1. IsStore(store') /\ published' \in Nat
      BY <1>4, <2>4, ReadUp DEF Reduces, Types
    <3>2. subs' \in [Subscribers -> Subscriber]
      BY <1>4, <2>4, <3>1, DeliveredType DEF Reduces
    <3> QED
      BY <2>1, <2>2, <3>1, <3>2 DEF Types
  <2> QED
    BY <2>3, <2>4
<1>5. ASSUME Passes PROVE Types'
  BY <1>5 DEF Passes, Types, storeVars, subVars
<1>6. ASSUME NEW i \in Subscribers, Subscribes(i) \/ Takes(i) \/ Asks(i) \/ TimesOut(i)
      PROVE  Types'
  <2>1. UNCHANGED <<sourceVars, storeVars, published>>
    BY <1>6 DEF Subscribes, Takes, Asks, TimesOut, Sub
  <2>2. subs' \in [Subscribers -> Subscriber]
    BY <1>6, SubscriberSteps
  <2> QED
    BY <2>1, <2>2 DEF Types, sourceVars, storeVars
<1>7. ASSUME StopsPublisher PROVE Types'
  <2>1. subs' \in [Subscribers -> Subscriber]
    BY <1>7, StoppedType
  <2> QED
    BY <1>7, <2>1 DEF StopsPublisher, Types, sourceVars, storeVars
<1>8. ASSUME StopsAll \/ UNCHANGED vars PROVE Types'
  BY <1>8 DEF StopsAll, vars, subVars, Types, sourceVars, storeVars
<1> QED
  BY <1>1, <1>2, <1>3, <1>4, <1>5, <1>6, <1>7, <1>8 DEF Next

-----------------------------------------------------------------------------
(* Prices of Chainlink.                                                    *)

LEMMA PricesKept ==
    ASSUME PricesSeen, PricesInOrder,
           UNCHANGED <<log, seen>>, last'["chainlink"] = last["chainlink"]
    PROVE  PricesSeen' /\ PricesInOrder'
BY DEF PricesSeen, PricesInOrder, IsPrice

\* An event that is no price of Chainlink.
LEMMA OtherAdded ==
    ASSUME Types, PricesSeen, PricesInOrder, NEW e \in LogEvent, ~IsPrice(e), Publish(e),
           UNCHANGED seen, last'["chainlink"] = last["chainlink"]
    PROVE  PricesSeen' /\ PricesInOrder'
<1>1. /\ DOMAIN log = 1..Len(log) /\ DOMAIN log' = 1..Len(log) + 1 /\ Len(log) \in Nat
      /\ \A i \in 1..Len(log) : log'[i] = log[i]
      /\ log'[Len(log) + 1] = e
  BY PublishType
<1>2. \A i \in DOMAIN log' : IsPrice(log'[i]) => i \in DOMAIN log /\ log'[i] = log[i]
  BY <1>1
<1>3. PricesSeen'
  BY <1>2 DEF PricesSeen, IsPrice
<1>4. PricesInOrder'
  BY <1>2 DEF PricesInOrder, IsPrice
<1> QED
  BY <1>3, <1>4

LEMMA PriceAdded ==
    ASSUME Types, PricesSeen, PricesInOrder, NEW n \in Nat, NEW t \in Nat,
           NEW e \in LogEvent, IsPrice(e), e.number = n, e.sent = t,
           n >= last["chainlink"], <<n, t>> \notin seen, Publish(e),
           last' = [last EXCEPT !["chainlink"] = n], seen' = seen \cup {<<n, t>>}
    PROVE  PricesSeen' /\ PricesInOrder'
<1>1. /\ DOMAIN log = 1..Len(log) /\ DOMAIN log' = 1..Len(log) + 1 /\ Len(log) \in Nat
      /\ \A i \in 1..Len(log) : log'[i] = log[i]
      /\ log'[Len(log) + 1] = e
  BY PublishType
<1>2. last["chainlink"] \in Nat /\ last'["chainlink"] = n
  BY DEF Types, Direct
<1>3. \A m \in seen : m[1] \in Nat /\ m[1] <= n /\ m # <<n, t>>
  <2>1. seen \subseteq Nat \X Nat
    BY DEF Types
  <2>2. \A m \in seen : m[1] <= last["chainlink"]
    BY DEF PricesSeen
  <2>3. n >= last["chainlink"] /\ <<n, t>> \notin seen
    OBVIOUS
  <2> QED
    BY <1>2, <2>1, <2>2, <2>3
<1>4. PricesSeen'
  <2>1. \A m \in seen' : m[1] <= n
    BY <1>3
  <2>2. \A i \in DOMAIN log' : IsPrice(log'[i]) => <<log'[i].number, log'[i].sent>> \in seen'
    BY <1>1 DEF PricesSeen, IsPrice
  <2> QED
    BY <1>2, <2>1, <2>2 DEF PricesSeen, IsPrice
<1>5. PricesInOrder'
  <2>1. SUFFICES ASSUME NEW i \in DOMAIN log', NEW j \in DOMAIN log', i < j,
                        IsPrice(log'[i]), IsPrice(log'[j])
                 PROVE  /\ log'[i].number <= log'[j].number
                        /\ <<log'[i].number, log'[i].sent>> # <<log'[j].number, log'[j].sent>>
    BY DEF PricesInOrder, IsPrice
  <2>2. /\ i \in DOMAIN log /\ log'[i] = log[i]
        /\ <<log[i].number, log[i].sent>> \in seen
    BY <1>1, <2>1 DEF PricesSeen, IsPrice
  <2>3. CASE j = Len(log) + 1
    BY <1>1, <1>3, <2>2, <2>3
  <2>4. CASE j \in DOMAIN log
    BY <1>1, <2>1, <2>2, <2>4 DEF PricesInOrder, IsPrice
  <2> QED
    BY <1>1, <2>3, <2>4
<1> QED
  BY <1>4, <1>5

LEMMA PricesStep ==
    Types /\ PricesSeen /\ PricesInOrder /\ [Next]_vars => PricesSeen' /\ PricesInOrder'
<1> SUFFICES ASSUME Types, PricesSeen, PricesInOrder, [Next]_vars
             PROVE  PricesSeen' /\ PricesInOrder'
  OBVIOUS
<1>k. ASSUME UNCHANGED <<log, seen, last>> PROVE PricesSeen' /\ PricesInOrder'
  BY <1>k, PricesKept
<1>1. ASSUME NEW s \in Direct, PriceConnects(s, Flag) PROVE PricesSeen' /\ PricesInOrder'
  <2>1. last'["chainlink"] = last["chainlink"] /\ UNCHANGED <<log, seen>>
    BY <1>1 DEF PriceConnects, Types, Direct
  <2> QED
    BY <2>1, PricesKept
<1>2. ASSUME NEW s \in Direct, PriceArrives(s) PROVE PricesSeen' /\ PricesInOrder'
  <2> DEFINE e(n, t) == [kind |-> "price", source |-> s, number |-> n, sent |-> t, at |-> now]
  <2>1. PICK n \in 1..MaxMessage, t \in Sent(s) :
          /\ Fresh(s, n, t)
          /\ last' = [last EXCEPT ![s] = n]
          /\ seen' = IF s = "chainlink" THEN seen \cup {<<n, t>>} ELSE seen
          /\ Publish(e(n, t)) \/ UNCHANGED log
    BY <1>2 DEF PriceArrives, Refuse
  <2>2. n \in Nat /\ t \in Nat /\ e(n, t) \in LogEvent
    BY SentType DEF LogEvent, Types
  <2> HIDE DEF e
  <2>3. CASE s = "binance"
    <3>1. ~IsPrice(e(n, t)) /\ UNCHANGED seen /\ last'["chainlink"] = last["chainlink"]
      BY <2>1, <2>3 DEF IsPrice, e, Types, Direct
    <3> QED
      BY <2>1, <2>2, <3>1, PricesKept, OtherAdded
  <2>4. CASE s = "chainlink"
    <3>1. /\ IsPrice(e(n, t)) /\ e(n, t).number = n /\ e(n, t).sent = t
          /\ n >= last["chainlink"] /\ <<n, t>> \notin seen
          /\ last' = [last EXCEPT !["chainlink"] = n] /\ seen' = seen \cup {<<n, t>>}
      BY <2>1, <2>4 DEF IsPrice, e, Fresh
    <3>2. CASE Publish(e(n, t))
      BY <2>2, <3>1, <3>2, PriceAdded
    <3>3. CASE UNCHANGED log
      <4>1. last["chainlink"] \in Nat /\ last'["chainlink"] = n
        BY <3>1 DEF Types, Direct
      <4>2. seen \subseteq Nat \X Nat /\ \A m \in seen : m[1] <= last["chainlink"]
        BY DEF PricesSeen, Types
      <4>3. \A m \in seen' : m[1] <= n
        BY <2>2, <3>1, <4>1, <4>2
      <4> QED
        BY <3>1, <3>3, <4>1, <4>3 DEF PricesSeen, PricesInOrder, IsPrice
    <3> QED
      BY <2>1, <3>2, <3>3
  <2> QED
    BY <2>3, <2>4 DEF Direct
<1>3. ASSUME ClobAnnounces \/ ClobRetracts PROVE PricesSeen' /\ PricesInOrder'
  <2>1. UNCHANGED <<last, seen>>
    BY <1>3 DEF ClobAnnounces, ClobRetracts
  <2>2. UNCHANGED log \/ \E up \in BOOLEAN : Publish(Status(up))
    BY <1>3 DEF ClobAnnounces, ClobRetracts, Refuse
  <2>3. \A up \in BOOLEAN : Status(up) \in LogEvent /\ ~IsPrice(Status(up))
    BY DEF Status, LogEvent, Types, IsPrice
  <2> QED
    BY <2>1, <2>2, <2>3, PricesKept, OtherAdded
<1>4. ASSUME Schedules PROVE PricesSeen' /\ PricesInOrder'
  <2>1. UNCHANGED <<last, seen>>
    BY <1>4 DEF Schedules
  <2>2. UNCHANGED log \/ Publish([kind |-> "tick", at |-> now])
    BY <1>4 DEF Schedules, Refuse
  <2>3. /\ [kind |-> "tick", at |-> now] \in LogEvent
        /\ ~IsPrice([kind |-> "tick", at |-> now])
    BY DEF LogEvent, Types, IsPrice
  <2> QED
    BY <2>1, <2>2, <2>3, PricesKept, OtherAdded
<1>5. ASSUME SourcesRun PROVE PricesSeen' /\ PricesInOrder'
  <2>1. ASSUME NEW s \in Direct, PriceClears(s, Flag) \/ PriceLost(s)
        PROVE  UNCHANGED <<log, seen, last>>
    BY <2>1 DEF PriceClears, PriceLost
  <2>2. ASSUME ClobFlags(Flag) \/ ClobLost PROVE UNCHANGED <<log, seen, last>>
    BY <2>2 DEF ClobFlags, ClobLost
  <2> QED
    BY <1>5, <1>k, <1>1, <1>2, <1>3, <2>1, <2>2, SourceCases
<1>6. ASSUME NEW i \in Subscribers, Subscribes(i) \/ Takes(i) \/ Asks(i) \/ TimesOut(i)
      PROVE  UNCHANGED <<log, seen, last>>
  BY <1>6 DEF Subscribes, Takes, Asks, TimesOut, Sub, sourceVars
<1>7. ASSUME HealthReads \/ Reduces \/ Passes \/ StopsPublisher \/ StopsAll \/ UNCHANGED vars
      PROVE  UNCHANGED <<log, seen, last>>
  BY <1>7 DEF HealthReads, Reduces, Passes, StopsPublisher, StopsAll, vars, sourceVars
<1> QED
  BY <1>k, <1>4, <1>5, <1>6, <1>7 DEF Next

-----------------------------------------------------------------------------
(* Flags of the registry.                                                  *)

LEMMA DirectFlagsStep == Types /\ DirectFlags /\ [Next]_vars => DirectFlags'
<1> SUFFICES ASSUME Types, DirectFlags, [Next]_vars, NEW r \in Direct
             PROVE  /\ conn'[r] \in {"idle", "reading", "backoff"}
                    /\ conn'[r] = "reading" => store'.up[r]
                    /\ conn'[r] = "idle" => ~store'.up[r]
  BY DEF DirectFlags
<1> DEFINE Same == conn'[r] = conn[r] /\ store'.up[r] = store.up[r]
           Right == /\ conn'[r] \in {"idle", "reading", "backoff"}
                    /\ conn'[r] = "reading" => store'.up[r]
                    /\ conn'[r] = "idle" => ~store'.up[r]
<1>a. r \in Sources /\ r # Clob /\ Clob \in Sources /\ store.up \in [Sources -> BOOLEAN]
      /\ conn[r] \in {"idle", "reading", "backoff"}
  BY DEF Sources, Direct, Clob, Types, IsStore, DirectFlags
<1>c. conn \in [Sources -> {"idle", "connected", "reading", "backoff", "cleared", "ended"}]
  BY DEF Types
<1>k. ASSUME Same PROVE Right
  BY <1>k DEF DirectFlags
<1>1. ASSUME NEW s \in Direct, PriceConnects(s, Flag) PROVE Right
  <2>1. conn' = [conn EXCEPT ![s] = "reading"] /\ Flag(s, TRUE) /\ s \in Sources
    BY <1>1 DEF PriceConnects, Goes, Sources
  <2>2. store'.up = [store.up EXCEPT ![s] = TRUE]
    BY <2>1, FlagUp
  <2>3. CASE s = r
    BY <1>a, <1>c, <2>1, <2>2, <2>3
  <2>4. CASE s # r
    BY <1>a, <1>c, <1>k, <2>1, <2>2, <2>4
  <2> QED
    BY <2>3, <2>4
<1>2. ASSUME NEW s \in Direct, PriceClears(s, Flag) PROVE Right
  <2>1. conn' = [conn EXCEPT ![s] = "idle"] /\ Flag(s, FALSE) /\ s \in Sources
    BY <1>2 DEF PriceClears, Goes, Sources
  <2>2. store'.up = [store.up EXCEPT ![s] = FALSE]
    BY <2>1, FlagUp
  <2>3. CASE s = r
    BY <1>a, <1>c, <2>1, <2>2, <2>3
  <2>4. CASE s # r
    BY <1>a, <1>c, <1>k, <2>1, <2>2, <2>4
  <2> QED
    BY <2>3, <2>4
<1>3. ASSUME ClobFlags(Flag) PROVE Right
  <2>1. PICK up \in BOOLEAN : Flag(Clob, up)
    BY <1>3 DEF ClobFlags
  <2>2. store'.up = [store.up EXCEPT ![Clob] = up]
    BY <1>a, <2>1, FlagUp
  <2>3. conn'[r] = conn[r]
    BY <1>3, <1>a, <1>c DEF ClobFlags, Goes
  <2> QED
    BY <1>a, <1>k, <2>2, <2>3
<1>4. ASSUME NEW s \in Direct, PriceArrives(s) \/ PriceLost(s), UNCHANGED storeVars PROVE Right
  <2>1. UNCHANGED conn \/ conn' = [conn EXCEPT ![s] = "backoff"]
    BY <1>4 DEF PriceArrives, PriceLost, Goes
  <2>2. conn'[r] = conn[r] \/ conn'[r] = "backoff"
    BY <1>a, <1>c, <2>1 DEF Sources
  <2> QED
    BY <1>4, <1>k, <2>2 DEF storeVars
<1>5. ASSUME ClobAnnounces \/ ClobLost \/ ClobRetracts, UNCHANGED storeVars PROVE Right
  <2>1. conn'[r] = conn[r]
    BY <1>5, <1>a, <1>c DEF ClobAnnounces, ClobLost, ClobRetracts, Goes
  <2> QED
    BY <1>5, <1>k, <2>1 DEF storeVars
<1>6. ASSUME Reduces PROVE Right
  <2>1. UNCHANGED conn /\ reduced' \in 1..Len(log) /\ log[reduced'] \in LogEvent /\ IsStore(store)
    BY <1>6 DEF Reduces, Types
  <2>2. CASE log[reduced'].kind = "tick"
    <3>1. store' = Read(store, log[reduced'].at)
      BY <1>6, <2>2 DEF Reduces
    <3> QED
      BY <1>k, <2>1, <3>1, ReadUp
  <2>3. CASE log[reduced'].kind # "tick"
    <3>1. store' = Applied(store, log[reduced'])
      BY <1>6, <2>3 DEF Reduces
    <3>2. store'.up = store.up \/ \E up : store'.up = [store.up EXCEPT ![Clob] = up]
      BY <2>1, <2>3, <3>1, AppliedUp DEF LogEvent
    <3> QED
      BY <1>a, <1>k, <2>1, <3>2
  <2> QED
    BY <2>2, <2>3
<1>7. ASSUME HealthReads PROVE Right
  <2>1. store' = Read(store, now) /\ UNCHANGED conn /\ IsStore(store)
    BY <1>7 DEF HealthReads, sourceVars, Types
  <2> QED
    BY <1>k, <2>1, ReadUp
<1>8. ASSUME NEW i \in Subscribers, Subscribes(i) \/ Takes(i) \/ Asks(i) \/ TimesOut(i)
      PROVE  Right
  BY <1>8, <1>k DEF Subscribes, Takes, Asks, TimesOut, Sub, sourceVars, storeVars
<1>9. ASSUME Schedules \/ Passes \/ StopsPublisher \/ StopsAll \/ UNCHANGED vars PROVE Right
  BY <1>9, <1>k DEF Schedules, Passes, StopsPublisher, StopsAll, vars, sourceVars, storeVars
<1> QED
  BY <1>1, <1>2, <1>3, <1>4, <1>5, <1>6, <1>7, <1>8, <1>9, SourceCases DEF Next

\* Nothing happens to the CLOB source, its flag and its status events.
LEMMA ClobKept ==
    ASSUME ClobFlag, UNCHANGED <<log, reduced>>,
           conn'[Clob] = conn[Clob], store'.up[Clob] = store.up[Clob]
    PROVE  ClobFlag'
BY DEF ClobFlag, Pending

LEMMA ClobOtherAdded ==
    ASSUME Types, ClobFlag, NEW e \in LogEvent, e.kind # "status", Publish(e),
           UNCHANGED reduced, conn'[Clob] = conn[Clob], store'.up[Clob] = store.up[Clob]
    PROVE  ClobFlag'
<1>1. /\ DOMAIN log = 1..Len(log) /\ DOMAIN log' = 1..Len(log) + 1 /\ Len(log) \in Nat
      /\ \A i \in 1..Len(log) : log'[i] = log[i]
      /\ log'[Len(log) + 1] = e /\ Len(log') = Len(log) + 1
      /\ reduced \in Nat
  BY PublishType DEF Types
<1>2. \A i \in DOMAIN log' : Pending(i)' => i \in DOMAIN log
  BY <1>1 DEF Pending
<1>3. \A i \in DOMAIN log : i \in DOMAIN log' /\ (Pending(i)' <=> Pending(i)) /\ log'[i] = log[i]
  BY <1>1 DEF Pending
<1> QED
  BY <1>2, <1>3 DEF ClobFlag

LEMMA ClobStatusAdded ==
    ASSUME Types, NEW up \in BOOLEAN, Publish(Status(up)), UNCHANGED reduced,
           conn'[Clob] = IF up THEN "reading" ELSE "idle"
    PROVE  ClobFlag'
<1>0. Status(up) \in LogEvent /\ Status(up).kind = "status" /\ Status(up).up = up
  BY DEF Status, LogEvent, Types
<1>1. /\ DOMAIN log' = 1..Len(log) + 1 /\ Len(log) \in Nat
      /\ log'[Len(log) + 1] = Status(up) /\ Len(log') = Len(log) + 1
      /\ reduced \in 0..Len(log)
  BY <1>0, PublishType DEF Types
<1>2. PICK k : k = Len(log) + 1
  OBVIOUS
<1>3. k \in DOMAIN log' /\ Pending(k)'
  BY <1>0, <1>1, <1>2 DEF Pending
<1>4. \A i \in DOMAIN log' : k <= i => log'[i].up = up
  BY <1>0, <1>1, <1>2
<1>5. conn'[Clob] = "reading" <=> up
  OBVIOUS
<1> QED
  BY <1>3, <1>4, <1>5 DEF ClobFlag

LEMMA ClobFlagStep == Types /\ ClobFlag /\ [Next]_vars => ClobFlag'
<1> SUFFICES ASSUME Types, ClobFlag, [Next]_vars PROVE ClobFlag'
  OBVIOUS
<1>a. /\ Clob \in Sources /\ \A s \in Direct : s # Clob /\ s \in Sources
      /\ store.up \in [Sources -> BOOLEAN] /\ IsStore(store)
  BY DEF Sources, Direct, Clob, Types, IsStore
<1>c. conn \in [Sources -> {"idle", "connected", "reading", "backoff", "cleared", "ended"}]
  BY DEF Types
<1>o. ASSUME conn'[Clob] \notin {"idle", "reading"} PROVE ClobFlag'
  BY <1>o DEF ClobFlag
<1>1. ASSUME NEW s \in Direct, PriceConnects(s, Flag) \/ PriceClears(s, Flag) PROVE ClobFlag'
  <2>1. PICK up \in BOOLEAN : Flag(s, up)
    BY <1>1 DEF PriceConnects, PriceClears
  <2>2. store'.up = [store.up EXCEPT ![s] = up]
    BY <1>a, <2>1, FlagUp
  <2>3. conn'[Clob] = conn[Clob] /\ UNCHANGED <<log, reduced>>
    BY <1>1, <1>a, <1>c DEF PriceConnects, PriceClears, Goes
  <2> QED
    BY <1>a, <2>2, <2>3, ClobKept
<1>2. ASSUME ClobFlags(Flag) \/ ClobLost PROVE ClobFlag'
  BY <1>2, <1>a, <1>c, <1>o DEF ClobFlags, ClobLost, Goes
<1>3. ASSUME NEW s \in Direct, PriceArrives(s), UNCHANGED storeVars PROVE ClobFlag'
  <2>1. conn'[Clob] = conn[Clob] /\ UNCHANGED <<reduced, store>>
    BY <1>3, <1>a, <1>c DEF PriceArrives, Goes, storeVars
  <2>2. \/ UNCHANGED log
        \/ \E n \in 1..MaxMessage, t \in Sent(s) :
             Publish([kind |-> "price", source |-> s, number |-> n, sent |-> t, at |-> now])
    BY <1>3 DEF PriceArrives, Refuse
  <2>3. CASE UNCHANGED log
    BY <2>1, <2>3, ClobKept
  <2>4. ASSUME NEW n \in 1..MaxMessage, NEW t \in Sent(s),
               Publish([kind |-> "price", source |-> s, number |-> n, sent |-> t, at |-> now])
        PROVE  ClobFlag'
    <3> DEFINE e == [kind |-> "price", source |-> s, number |-> n, sent |-> t, at |-> now]
    <3>1. e \in LogEvent /\ e.kind # "status"
      BY SentType DEF LogEvent, Types
    <3>2. Publish(e)
      BY <2>4
    <3> HIDE DEF e
    <3> QED
      BY <2>1, <3>1, <3>2, ClobOtherAdded
  <2> QED
    BY <2>2, <2>3, <2>4
<1>4. ASSUME NEW s \in Direct, PriceLost(s), UNCHANGED storeVars PROVE ClobFlag'
  <2>1. conn'[Clob] = conn[Clob] /\ UNCHANGED <<log, reduced, store>>
    BY <1>4, <1>a, <1>c DEF PriceLost, Goes, storeVars
  <2> QED
    BY <2>1, ClobKept
<1>5. ASSUME ClobAnnounces PROVE ClobFlag'
  <2>1. CASE Publish(Status(TRUE)) /\ Goes(Clob, "reading")
    <3>1. conn'[Clob] = (IF TRUE THEN "reading" ELSE "idle") /\ UNCHANGED reduced
      BY <1>5, <1>a, <1>c, <2>1 DEF ClobAnnounces, Goes
    <3> QED
      BY <2>1, <3>1, ClobStatusAdded
  <2>2. CASE Goes(Clob, "backoff")
    BY <1>a, <1>c, <1>o, <2>2 DEF Goes
  <2> QED
    BY <1>5, <2>1, <2>2 DEF ClobAnnounces
<1>6. ASSUME ClobRetracts PROVE ClobFlag'
  <2>1. CASE Publish(Status(FALSE)) /\ Goes(Clob, "idle")
    <3>1. conn'[Clob] = (IF FALSE THEN "reading" ELSE "idle") /\ UNCHANGED reduced
      BY <1>6, <1>a, <1>c, <2>1 DEF ClobRetracts, Goes
    <3> QED
      BY <2>1, <3>1, ClobStatusAdded
  <2>2. CASE Goes(Clob, "ended")
    BY <1>a, <1>c, <1>o, <2>2 DEF Goes
  <2> QED
    BY <1>6, <2>1, <2>2 DEF ClobRetracts
<1>7. ASSUME Schedules PROVE ClobFlag'
  <2>1. UNCHANGED <<conn, reduced, store>>
    BY <1>7 DEF Schedules, storeVars
  <2>2. UNCHANGED log \/ Publish([kind |-> "tick", at |-> now])
    BY <1>7 DEF Schedules, Refuse
  <2>3. /\ [kind |-> "tick", at |-> now] \in LogEvent
        /\ [kind |-> "tick", at |-> now].kind # "status"
    BY DEF LogEvent, Types
  <2> QED
    BY <2>1, <2>2, <2>3, ClobKept, ClobOtherAdded
<1>8. ASSUME Reduces PROVE ClobFlag'
  <2>1. /\ reduced' = reduced + 1 /\ reduced' \in DOMAIN log /\ log[reduced'] \in LogEvent
        /\ reduced \in Nat /\ Len(log) \in Nat /\ DOMAIN log = 1..Len(log)
        /\ UNCHANGED <<conn, log>>
    BY <1>8 DEF Reduces, Types
  <2>2. \A i \in DOMAIN log : Pending(i)' <=> Pending(i) /\ i # reduced'
    BY <2>1 DEF Pending
  <2>3. Pending(reduced') <=> log[reduced'].kind = "status"
    BY <2>1 DEF Pending
  <2>4. CASE log[reduced'].kind = "tick"
    <3>1. store' = Read(store, log[reduced'].at)
      BY <1>8, <2>4 DEF Reduces
    <3>2. store'.up = store.up
      BY <1>a, <3>1, ReadUp
    <3>3. \A i \in DOMAIN log : Pending(i)' <=> Pending(i)
      BY <2>2, <2>3, <2>4
    <3> QED
      BY <2>1, <3>2, <3>3 DEF ClobFlag
  <2>5. CASE log[reduced'].kind = "price"
    <3>1. store' = Applied(store, log[reduced'])
      BY <1>8, <2>5 DEF Reduces
    <3>2. store'.up = store.up
      BY <1>a, <2>1, <2>5, <3>1, AppliedUp
    <3>3. \A i \in DOMAIN log : Pending(i)' <=> Pending(i)
      BY <2>2, <2>3, <2>5
    <3> QED
      BY <2>1, <3>2, <3>3 DEF ClobFlag
  <2>6. CASE log[reduced'].kind = "status"
    <3>1. store' = Applied(store, log[reduced'])
      BY <1>8, <2>6 DEF Reduces
    <3>2. store'.up = [store.up EXCEPT ![Clob] = log[reduced'].up]
      BY <1>a, <2>1, <2>6, <3>1, AppliedUp
    <3>3. store'.up[Clob] = log[reduced'].up
      BY <1>a, <3>2
    <3>4. SUFFICES ASSUME conn[Clob] \in {"idle", "reading"}
                   PROVE  ClobFlag'
      BY <2>1 DEF ClobFlag
    <3> DEFINE up == conn[Clob] = "reading"
    <3>5. \A i \in DOMAIN log : Pending(i) /\ (\A j \in DOMAIN log : Pending(j) => j <= i)
                                  => (log[i].up <=> up)
      BY <3>4 DEF ClobFlag
    <3>6. \A i \in DOMAIN log :
            Pending(i)' /\ (\A j \in DOMAIN log : Pending(j)' => j <= i) => (log[i].up <=> up)
      <4>1. \A i \in DOMAIN log : Pending(i)' => Pending(i) /\ reduced' <= i
        BY <2>1, <2>2 DEF Pending
      <4>2. \A i \in DOMAIN log :
              Pending(i)' /\ (\A j \in DOMAIN log : Pending(j)' => j <= i)
                => \A j \in DOMAIN log : Pending(j) => j <= i
        BY <2>2, <4>1
      <4> QED
        BY <3>5, <4>1, <4>2
    <3>7. (\A i \in DOMAIN log : ~Pending(i)') => (store'.up[Clob] <=> up)
      <4>1. ASSUME \A i \in DOMAIN log : ~Pending(i)'
            PROVE  \A j \in DOMAIN log : Pending(j) => j <= reduced'
        BY <2>1, <2>2, <4>1
      <4> QED
        BY <2>1, <2>3, <2>6, <3>3, <3>5, <4>1
    <3> QED
      BY <2>1, <3>6, <3>7 DEF ClobFlag
  <2> QED
    BY <2>1, <2>4, <2>5, <2>6 DEF LogEvent
<1>9. ASSUME HealthReads PROVE ClobFlag'
  <2>1. store' = Read(store, now) /\ UNCHANGED <<conn, log, reduced>>
    BY <1>9 DEF HealthReads, sourceVars
  <2> QED
    BY <1>a, <2>1, ReadUp, ClobKept
<1>10. ASSUME NEW i \in Subscribers, Subscribes(i) \/ Takes(i) \/ Asks(i) \/ TimesOut(i)
       PROVE  ClobFlag'
  BY <1>10, ClobKept DEF Subscribes, Takes, Asks, TimesOut, Sub, sourceVars, storeVars
<1>11. ASSUME Passes \/ StopsPublisher \/ StopsAll \/ UNCHANGED vars PROVE ClobFlag'
  BY <1>11, ClobKept DEF Passes, StopsPublisher, StopsAll, vars, sourceVars, storeVars
<1>12. ASSUME SourcesRun PROVE ClobFlag'
  BY <1>12, <1>1, <1>2, <1>3, <1>4, <1>5, <1>6, SourceCases
<1> QED
  BY <1>7, <1>8, <1>9, <1>10, <1>11, <1>12 DEF Next

-----------------------------------------------------------------------------
(* Subscribers.  Good(s, n): one of them, when n snapshots are published.  *)

Good(s, n) ==
    /\ s.pc = "none" => s.queue = <<>> /\ s.got = <<>> /\ ~s.member
    /\ s.member => \A k \in DOMAIN s.queue : s.queue[k] # End
    /\ \A k \in DOMAIN s.got : s.got[k] = s.from + k
    /\ \A k \in DOMAIN s.queue : \/ s.queue[k] = s.from + Len(s.got) + k
                                 \/ s.queue[k] = End /\ k = Len(s.queue)
    /\ s.member => s.from + Len(s.got) + Len(s.queue) = n

LEMMA AllGood ==
    Membership /\ SubscribersInOrder <=> \A i \in Subscribers : Good(subs[i], published)
BY DEF Membership, SubscribersInOrder, Good

LEMMA SubscriberFields ==
    ASSUME NEW s \in Subscriber
    PROVE  /\ s.queue \in Seq(Nat) /\ s.got \in Seq(Nat)
           /\ Len(s.queue) \in Nat /\ Len(s.got) \in Nat
           /\ s.from \in Nat /\ s.member \in BOOLEAN
           /\ DOMAIN s.queue = 1..Len(s.queue) /\ DOMAIN s.got = 1..Len(s.got)
BY DEF Subscriber

\* Arithmetic of these numbers.
LEMMA Counting ==
    ASSUME NEW a \in Nat, NEW b \in Nat, NEW c \in Nat
    PROVE  /\ a + b + 1 # 0
           /\ \A n : a + b + c = n => a + b + (c + 1) = n + 1
           /\ \A n : c >= 1 /\ a + b + c = n => a + (b + 1) + (c - 1) = n
           /\ a + b + (c + 1) = a + (b + 1) + c
OBVIOUS

LEMMA CountingAt ==
    ASSUME NEW s \in Subscriber
    PROVE  /\ s.from + Len(s.got) + 1 # End
           /\ \A n : s.from + Len(s.got) + Len(s.queue) = n
                     => s.from + Len(s.got) + (Len(s.queue) + 1) = n + 1
           /\ \A n : Len(s.queue) >= 1 /\ s.from + Len(s.got) + Len(s.queue) = n
                     => s.from + (Len(s.got) + 1) + (Len(s.queue) - 1) = n
           /\ \A k \in Nat : s.from + Len(s.got) + (k + 1) = s.from + (Len(s.got) + 1) + k
<1>1. s.from \in Nat /\ Len(s.got) \in Nat /\ Len(s.queue) \in Nat
  BY SubscriberFields
<1> DEFINE a == s.from
           b == Len(s.got)
           c == Len(s.queue)
<1>2. a \in Nat /\ b \in Nat /\ c \in Nat
  BY <1>1
<1> HIDE DEF a, b, c
<1>3. /\ a + b + 1 # 0
      /\ \A n : a + b + c = n => a + b + (c + 1) = n + 1
      /\ \A n : c >= 1 /\ a + b + c = n => a + (b + 1) + (c - 1) = n
      /\ \A k \in Nat : a + b + (k + 1) = a + (b + 1) + k
  BY <1>2, Counting
<1> QED
  BY <1>3 DEF a, b, c, End

LEMMA GoodRemoved ==
    ASSUME NEW s \in Subscriber, NEW n, NEW m, Good(s, n)
    PROVE  Good([s EXCEPT !.member = FALSE], m)
<1> DEFINE t == [s EXCEPT !.member = FALSE]
<1>1. /\ t.pc = s.pc /\ t.queue = s.queue /\ t.got = s.got /\ t.from = s.from
      /\ t.member = FALSE
  BY DEF Subscriber
<1> HIDE DEF t
<1> QED
  BY <1>1 DEF Good, t

LEMMA GoodOutside ==
    ASSUME NEW s, NEW n, NEW m, Good(s, n), ~s.member
    PROVE  Good(s, m)
BY DEF Good

LEMMA GoodDelivered ==
    ASSUME NEW s \in Subscriber, NEW n \in Nat, Good(s, n), s.member
    PROVE  Good([s EXCEPT !.queue = Append(@, n + 1)], n + 1)
<1> DEFINE q == Append(s.queue, n + 1)
           t == [s EXCEPT !.queue = q]
<1>1. t.pc = s.pc /\ t.queue = q /\ t.got = s.got /\ t.from = s.from /\ t.member = s.member
  BY DEF Subscriber
<1>2. /\ Len(q) = Len(s.queue) + 1 /\ DOMAIN q = 1..Len(s.queue) + 1
      /\ \A k \in 1..Len(s.queue) : q[k] = s.queue[k]
      /\ q[Len(s.queue) + 1] = n + 1
  BY SubscriberFields, AppendSeq
<1> HIDE DEF q, t
<1>f. /\ Len(s.queue) \in Nat /\ Len(s.got) \in Nat /\ s.from \in Nat
      /\ DOMAIN s.queue = 1..Len(s.queue) /\ DOMAIN s.got = 1..Len(s.got)
  BY SubscriberFields
<1>g. Len(s.queue) \in Nat /\ Len(s.got) \in Nat /\ s.from \in Nat
  BY <1>f
<1>3. s.from + Len(s.got) + Len(s.queue) = n /\ s.pc # "none"
  BY DEF Good
<1>4. \A k \in DOMAIN q : q[k] # End /\ q[k] = s.from + Len(s.got) + k
  <2>1. SUFFICES ASSUME NEW k \in DOMAIN q PROVE q[k] # End /\ q[k] = s.from + Len(s.got) + k
    OBVIOUS
  <2>2. CASE k = Len(s.queue) + 1
    <3>1. q[k] = n + 1 /\ n + 1 # End
      BY <1>2, <2>2 DEF End
    <3>2. n + 1 = s.from + Len(s.got) + k
      <4>1. s.from + Len(s.got) + Len(s.queue) = n
        BY <1>3
      <4> QED
        BY <1>g, <2>2, <4>1
    <3> QED
      BY <3>1, <3>2
  <2>3. CASE k \in DOMAIN s.queue
    <3>1. q[k] = s.queue[k]
      BY <1>2, <2>3, SubscriberFields
    <3> QED
      BY <2>3, <3>1 DEF Good
  <2> QED
    BY <1>2, <2>2, <2>3, SubscriberFields
<1>5. s.from + Len(s.got) + Len(q) = n + 1
  <2>1. s.from + Len(s.got) + (Len(s.queue) + 1) = n + 1
    BY <1>3, CountingAt
  <2> QED
    BY <1>2, <1>f, <2>1
<1>6. \A k \in DOMAIN s.got : s.got[k] = s.from + k
  BY DEF Good
<1>7. Good(t, n + 1)
  BY <1>1, <1>3, <1>4, <1>5, <1>6 DEF Good
<1> QED
  BY <1>7 DEF t, q

LEMMA GoodStopped ==
    ASSUME NEW s \in Subscriber, NEW n, Good(s, n), s.member
    PROVE  Good([s EXCEPT !.queue = Append(@, End), !.member = FALSE], n)
<1> DEFINE q == Append(s.queue, End)
           t == [s EXCEPT !.queue = q, !.member = FALSE]
<1>1. t.pc = s.pc /\ t.queue = q /\ t.got = s.got /\ t.from = s.from /\ t.member = FALSE
  BY DEF Subscriber
<1>2. /\ Len(q) = Len(s.queue) + 1 /\ DOMAIN q = 1..Len(s.queue) + 1
      /\ \A k \in 1..Len(s.queue) : q[k] = s.queue[k]
      /\ q[Len(s.queue) + 1] = End
  BY SubscriberFields, AppendSeq DEF End
<1> HIDE DEF q, t
<1>3. \A k \in DOMAIN q : \/ q[k] = s.from + Len(s.got) + k
                          \/ q[k] = End /\ k = Len(q)
  <2>1. SUFFICES ASSUME NEW k \in DOMAIN q, k # Len(q)
                 PROVE  q[k] = s.from + Len(s.got) + k
    BY <1>2
  <2>2. k \in DOMAIN s.queue /\ q[k] = s.queue[k]
    BY <1>2, <2>1, SubscriberFields
  <2> QED
    BY <2>2 DEF Good
<1>4. s.pc # "none" /\ \A k \in DOMAIN s.got : s.got[k] = s.from + k
  BY DEF Good
<1>5. Good(t, n)
  BY <1>1, <1>3, <1>4 DEF Good
<1> QED
  BY <1>5 DEF t, q

\* The head of the queue is the end marker and the last entry, or the number
\* that comes next.
LEMMA GoodHead ==
    ASSUME NEW s \in Subscriber, NEW n, Good(s, n), s.queue # <<>>
    PROVE  /\ Tail(s.queue) \in Seq(Nat) /\ Head(s.queue) \in Nat
           /\ Len(s.queue) >= 1 /\ Len(Tail(s.queue)) = Len(s.queue) - 1
           /\ DOMAIN Tail(s.queue) = 1..Len(s.queue) - 1
           /\ \A k \in 1..Len(s.queue) - 1 : Tail(s.queue)[k] = s.queue[k + 1]
           /\ Head(s.queue) = End => Tail(s.queue) = <<>>
           /\ Head(s.queue) # End => Head(s.queue) = s.from + Len(s.got) + 1
<1>1. s.queue \in Seq(Nat) /\ s.queue # <<>>
  BY SubscriberFields
<1>f. /\ Len(s.queue) \in Nat /\ Len(s.got) \in Nat /\ s.from \in Nat
      /\ DOMAIN s.queue = 1..Len(s.queue) /\ DOMAIN s.got = 1..Len(s.got)
  BY SubscriberFields
<1>2. /\ Tail(s.queue) \in Seq(Nat) /\ Head(s.queue) \in Nat
      /\ Len(s.queue) \in Nat /\ Len(s.queue) >= 1 /\ Len(Tail(s.queue)) = Len(s.queue) - 1
      /\ DOMAIN Tail(s.queue) = 1..Len(s.queue) - 1
      /\ Head(s.queue) = s.queue[1] /\ 1 \in DOMAIN s.queue
  BY <1>1
<1>3. \A k \in 1..Len(s.queue) - 1 : Tail(s.queue)[k] = s.queue[k + 1]
  BY <1>1
<1>4. \/ Head(s.queue) = s.from + Len(s.got) + 1
      \/ Head(s.queue) = End /\ Len(s.queue) = 1
  BY <1>2 DEF Good
<1>5. s.from + Len(s.got) + 1 # End
  BY CountingAt
<1>6. Head(s.queue) = End => Tail(s.queue) = <<>>
  <2>1. Head(s.queue) = End => Len(s.queue) = 1
    BY <1>4, <1>5
  <2>2. Len(s.queue) = 1 => Len(Tail(s.queue)) = 0
    BY <1>2
  <2> QED
    BY <1>2, <2>1, <2>2, EmptySeq
<1> QED
  BY <1>2, <1>3, <1>4, <1>6

LEMMA GoodEnded ==
    ASSUME NEW s \in Subscriber, NEW n, Good(s, n), s.queue # <<>>, Head(s.queue) = End
    PROVE  Good([s EXCEPT !.pc = "ended", !.queue = Tail(@), !.member = FALSE], n)
<1> DEFINE t == [s EXCEPT !.pc = "ended", !.queue = Tail(@), !.member = FALSE]
<1>1. t.pc = "ended" /\ t.queue = Tail(s.queue) /\ t.got = s.got /\ t.from = s.from
      /\ t.member = FALSE
  BY DEF Subscriber
<1> HIDE DEF t
<1>2. Tail(s.queue) = <<>>
  BY GoodHead
<1>3. Good(t, n)
  BY <1>1, <1>2 DEF Good
<1> QED
  BY <1>3 DEF t

LEMMA GoodTaken ==
    ASSUME NEW s \in Subscriber, NEW n \in Nat, Good(s, n), s.queue # <<>>, Head(s.queue) # End
    PROVE  Good([s EXCEPT !.pc = "busy", !.queue = Tail(@), !.got = Append(@, Head(s.queue))], n)
<1> DEFINE h == Head(s.queue)
           q == Tail(s.queue)
           g == Append(s.got, h)
           t == [s EXCEPT !.pc = "busy", !.queue = q, !.got = g]
<1>1. t.pc = "busy" /\ t.queue = q /\ t.got = g /\ t.from = s.from /\ t.member = s.member
  BY DEF Subscriber
<1>2. /\ h \in Nat /\ h = s.from + Len(s.got) + 1
      /\ Len(s.queue) >= 1 /\ Len(q) = Len(s.queue) - 1 /\ DOMAIN q = 1..Len(s.queue) - 1
      /\ \A k \in 1..Len(s.queue) - 1 : q[k] = s.queue[k + 1]
  BY GoodHead
<1>3. /\ Len(g) = Len(s.got) + 1 /\ DOMAIN g = 1..Len(s.got) + 1
      /\ \A k \in 1..Len(s.got) : g[k] = s.got[k]
      /\ g[Len(s.got) + 1] = h
  BY <1>2, SubscriberFields, AppendSeq
<1> HIDE DEF h, q, g, t
<1>f. /\ Len(s.queue) \in Nat /\ Len(s.got) \in Nat /\ s.from \in Nat
      /\ DOMAIN s.queue = 1..Len(s.queue) /\ DOMAIN s.got = 1..Len(s.got)
  BY SubscriberFields
<1>g. Len(s.queue) \in Nat /\ Len(s.got) \in Nat /\ s.from \in Nat
  BY <1>f
<1>4. \A k \in DOMAIN g : g[k] = s.from + k
  <2>1. \A k \in DOMAIN s.got : s.got[k] = s.from + k
    BY DEF Good
  <2>2. h = s.from + (Len(s.got) + 1)
    <3>1. h = s.from + Len(s.got) + 1
      BY <1>2
    <3> QED
      BY <1>g, <3>1
  <2>3. \A k \in DOMAIN g : k = Len(s.got) + 1 \/ k \in DOMAIN s.got
    BY <1>3, <1>f
  <2>4. g[Len(s.got) + 1] = s.from + (Len(s.got) + 1)
    BY <1>3, <2>2
  <2>5. \A k \in DOMAIN s.got : g[k] = s.from + k
    BY <1>3, <1>f, <2>1
  <2> QED
    BY <1>f, <2>3, <2>4, <2>5
<1>5. \A k \in DOMAIN q : \/ q[k] = s.from + Len(g) + k
                          \/ q[k] = End /\ k = Len(q)
  <2>1. SUFFICES ASSUME NEW k \in DOMAIN q
                 PROVE  \/ q[k] = s.from + Len(g) + k
                        \/ q[k] = End /\ k = Len(q)
    OBVIOUS
  <2>2. k \in Nat /\ k + 1 \in DOMAIN s.queue /\ q[k] = s.queue[k + 1]
    BY <1>2, <1>f
  <2>3. \/ s.queue[k + 1] = s.from + Len(s.got) + (k + 1)
        \/ s.queue[k + 1] = End /\ k + 1 = Len(s.queue)
    BY <2>2 DEF Good
  <2>4. s.from + Len(s.got) + (k + 1) = s.from + (Len(s.got) + 1) + k
    BY <2>2, CountingAt
  <2>5. k + 1 = Len(s.queue) => k = Len(q)
    BY <1>2, <1>f, <2>2
  <2>6. Len(g) = Len(s.got) + 1
    BY <1>3
  <2> QED
    BY <1>f, <2>2, <2>3, <2>4, <2>5, <2>6
<1>6. s.member => \A k \in DOMAIN q : q[k] # End
  <2>1. s.member => \A k \in DOMAIN s.queue : s.queue[k] # End
    BY DEF Good
  <2>2. \A k \in DOMAIN q : k + 1 \in DOMAIN s.queue /\ q[k] = s.queue[k + 1]
    BY <1>2, <1>f
  <2> QED
    BY <2>1, <2>2
<1>7. s.member => s.from + Len(g) + Len(q) = n
  <2>1. s.member => s.from + Len(s.got) + Len(s.queue) = n
    BY DEF Good
  <2>2. s.member => s.from + (Len(s.got) + 1) + (Len(s.queue) - 1) = n
    BY <1>2, <2>1, CountingAt
  <2>3. Len(g) = Len(s.got) + 1 /\ Len(q) = Len(s.queue) - 1
    BY <1>2, <1>3
  <2> QED
    BY <1>f, <2>2, <2>3
<1>8. Good(t, n)
  BY <1>1, <1>4, <1>5, <1>6, <1>7 DEF Good
<1> QED
  BY <1>8 DEF t, g, q, h

LEMMA SubscribersStep ==
    Types /\ Membership /\ SubscribersInOrder /\ [Next]_vars
        => Membership' /\ SubscribersInOrder'
<1> SUFFICES ASSUME Types, Membership, SubscribersInOrder, [Next]_vars,
                    NEW i \in Subscribers
             PROVE  Good(subs'[i], published')
  BY AllGood, AllGood DEF Membership, SubscribersInOrder, Good
<1>a. Good(subs[i], published) /\ subs[i] \in Subscriber /\ published \in Nat
  BY AllGood, SubscriberAt DEF Types
<1>k. ASSUME UNCHANGED <<subs, published>> PROVE Good(subs'[i], published')
  BY <1>a, <1>k
<1>1. ASSUME Reduces PROVE Good(subs'[i], published')
  <2>1. CASE UNCHANGED <<subs, published>>
    BY <1>k, <2>1
  <2>2. CASE published' = published + 1 /\ subs' = Delivered(published')
    <3>1. published' \in Nat
      BY <1>a, <2>2
    <3>2. \/ ~subs[i].member /\ subs'[i] = subs[i]
          \/ subs[i].member /\ subs'[i] = [subs[i] EXCEPT !.queue = Append(@, published + 1)]
          \/ subs'[i] = [subs[i] EXCEPT !.member = FALSE]
      BY <2>2, <3>1, DeliveredAt
    <3>3. CASE ~subs[i].member /\ subs'[i] = subs[i]
      BY <1>a, <3>3, GoodOutside
    <3>4. CASE subs[i].member /\ subs'[i] = [subs[i] EXCEPT !.queue = Append(@, published + 1)]
      BY <1>a, <2>2, <3>4, GoodDelivered
    <3>5. CASE subs'[i] = [subs[i] EXCEPT !.member = FALSE]
      BY <1>a, <3>5, GoodRemoved
    <3> QED
      BY <3>2, <3>3, <3>4, <3>5
  <2> QED
    BY <1>1, <2>1, <2>2 DEF Reduces
<1>2. ASSUME StopsPublisher PROVE Good(subs'[i], published')
  <2>1. UNCHANGED published
    BY <1>2 DEF StopsPublisher
  <2> QED
    BY <1>2, <1>a, <2>1, StoppedAt, GoodStopped, GoodRemoved
<1>3. ASSUME NEW j \in Subscribers, Subscribes(j) \/ Takes(j) \/ Asks(j) \/ TimesOut(j)
      PROVE  Good(subs'[i], published')
  <2>1. UNCHANGED published /\ subs \in [Subscribers -> Subscriber]
    BY <1>3 DEF Subscribes, Takes, Asks, TimesOut, Sub, Types
  <2>2. CASE i # j
    <3>1. subs'[i] = subs[i]
      BY <1>3, <2>2, <2>1, SubscriberSteps
    <3> QED
      BY <1>a, <2>1, <3>1
  <2>3. CASE i = j
    <3>1. CASE Subscribes(i)
      <4> DEFINE t == [subs[i] EXCEPT !.pc = IF fatal THEN "raised" ELSE "waiting",
                                      !.member = ~fatal, !.from = published]
      <4>1. subs'[i] = t /\ subs[i].pc = "none"
        BY <2>1, <3>1 DEF Subscribes, Sub
      <4>2. /\ t.pc # "none" /\ t.queue = subs[i].queue /\ t.got = subs[i].got
            /\ t.from = published
        BY <1>a DEF Subscriber
      <4> HIDE DEF t
      <4>3. t.queue = <<>> /\ t.got = <<>>
        BY <1>a, <4>1, <4>2 DEF Good
      <4>4. published + Len(<<>>) + Len(<<>>) = published
        BY <1>a
      <4> QED
        BY <2>1, <4>1, <4>2, <4>3, <4>4 DEF Good
    <3>2. CASE Takes(i)
      <4>1. subs[i].queue # <<>>
        BY <3>2 DEF Takes
      <4>2. CASE Head(subs[i].queue) = End
        <5>1. subs'[i] = [subs[i] EXCEPT !.pc = "ended", !.queue = Tail(@), !.member = FALSE]
          BY <2>1, <3>2, <4>2 DEF Takes, Sub
        <5> QED
          BY <1>a, <2>1, <4>1, <4>2, <5>1, GoodEnded
      <4>3. CASE Head(subs[i].queue) # End
        <5>1. subs'[i] = [subs[i] EXCEPT !.pc = "busy", !.queue = Tail(@),
                                         !.got = Append(@, Head(subs[i].queue))]
          BY <2>1, <3>2, <4>3 DEF Takes, Sub
        <5> QED
          BY <1>a, <2>1, <4>1, <4>3, <5>1, GoodTaken
      <4> QED
        BY <4>2, <4>3
    <3>3. CASE Asks(i) \/ TimesOut(i)
      <4>1. subs[i].pc # "none"
        BY <3>3 DEF Asks, TimesOut
      <4>2. \/ subs'[i] = [subs[i] EXCEPT !.pc = "raised", !.member = FALSE]
            \/ subs'[i] = [subs[i] EXCEPT !.pc = "ended", !.member = FALSE]
            \/ subs'[i] = [subs[i] EXCEPT !.pc = "waiting"]
        BY <2>1, <3>3 DEF Asks, TimesOut, Sub
      <4>3. /\ subs'[i].pc # "none" /\ (subs'[i].member => subs[i].member)
            /\ subs'[i].queue = subs[i].queue /\ subs'[i].got = subs[i].got
            /\ subs'[i].from = subs[i].from
        BY <1>a, <4>2 DEF Subscriber
      <4> QED
        BY <1>a, <2>1, <4>3 DEF Good
    <3> QED
      BY <1>3, <2>3, <3>1, <3>2, <3>3
  <2> QED
    BY <2>2, <2>3
<1>4. ASSUME SourcesRun \/ HealthReads \/ Schedules \/ Passes \/ StopsAll \/ UNCHANGED vars
      PROVE  UNCHANGED <<subs, published>>
  BY <1>4 DEF SourcesRun, HealthReads, Schedules, Passes, StopsAll, vars, subVars
<1> QED
  BY <1>k, <1>1, <1>2, <1>3, <1>4 DEF Next

-----------------------------------------------------------------------------
(* Bounds.                                                                 *)

LEMMA RoomLeft ==
    ASSUME Types, Bounds, NEW e \in LogEvent, Publish(e), UNCHANGED reduced
    PROVE  Len(log') - reduced' <= StateCap
<1>1. /\ Len(log') = Len(log) + 1 /\ Len(log) \in Nat /\ reduced \in 0..Len(log)
      /\ Len(log) - reduced < StateCap
  BY PublishType DEF Types, Publish, Room
<1>2. StateCap \in Nat
  BY SnapshotsAssumption
<1> QED
  BY <1>1, <1>2

LEMMA QueueBound ==
    ASSUME Types, Bounds, [Next]_vars, NEW i \in Subscribers
    PROVE  Len(subs'[i].queue) <= SubscriberCap
<1>a. /\ subs[i] \in Subscriber /\ Len(subs[i].queue) <= SubscriberCap
      /\ Len(subs[i].queue) \in Nat /\ SubscriberCap \in Nat
  BY SubscriberAt, SnapshotsAssumption DEF Bounds
<1>k. ASSUME UNCHANGED subs PROVE Len(subs'[i].queue) <= SubscriberCap
  BY <1>a, <1>k
<1>1. ASSUME Reduces PROVE Len(subs'[i].queue) <= SubscriberCap
  <2>1. CASE subs' = Delivered(published') /\ published' \in Nat
    <3>1. \/ subs'[i].queue = subs[i].queue
          \/ /\ Len(subs[i].queue) < SubscriberCap
             /\ subs'[i].queue = Append(subs[i].queue, published')
      BY <1>a, <2>1 DEF Delivered, Subscriber
    <3>2. Len(Append(subs[i].queue, published')) = Len(subs[i].queue) + 1
      BY <2>1, SubscriberAt, AppendSeq
    <3> QED
      BY <1>a, <3>1, <3>2
  <2> QED
    BY <1>1, <1>k, <2>1 DEF Reduces, Types
<1>2. ASSUME StopsPublisher PROVE Len(subs'[i].queue) <= SubscriberCap
  <2>1. \/ subs'[i].queue = subs[i].queue
        \/ /\ Len(subs[i].queue) < SubscriberCap
           /\ subs'[i].queue = Append(subs[i].queue, End)
    BY <1>2, <1>a DEF StopsPublisher, Subscriber
  <2>2. Len(Append(subs[i].queue, End)) = Len(subs[i].queue) + 1
    BY SubscriberAt, AppendSeq DEF End
  <2> QED
    BY <1>a, <2>1, <2>2
<1>3. ASSUME NEW j \in Subscribers, Subscribes(j) \/ Takes(j) \/ Asks(j) \/ TimesOut(j)
      PROVE  Len(subs'[i].queue) <= SubscriberCap
  <2>1. subs \in [Subscribers -> Subscriber]
    BY DEF Types
  <2>2. CASE i # j
    <3>1. subs'[i] = subs[i]
      BY <1>3, <2>1, <2>2, SubscriberSteps
    <3> QED
      BY <1>a, <3>1
  <2>3. CASE i = j /\ ~Takes(i)
    <3>1. \/ subs'[i] = [subs[i] EXCEPT !.pc = IF fatal THEN "raised" ELSE "waiting",
                                       !.member = ~fatal, !.from = published]
          \/ subs'[i] = [subs[i] EXCEPT !.pc = "raised", !.member = FALSE]
          \/ subs'[i] = [subs[i] EXCEPT !.pc = "ended", !.member = FALSE]
          \/ subs'[i] = [subs[i] EXCEPT !.pc = "waiting"]
      BY <1>3, <2>1, <2>3 DEF Subscribes, Asks, TimesOut, Sub
    <3>2. subs'[i].queue = subs[i].queue
      BY <1>a, <3>1 DEF Subscriber
    <3> QED
      BY <1>a, <3>2
  <2>4. CASE Takes(i)
    <3>1. subs'[i].queue = Tail(subs[i].queue) /\ subs[i].queue # <<>>
      BY <1>a, <2>1, <2>4 DEF Takes, Sub, Subscriber
    <3>2. Len(Tail(subs[i].queue)) = Len(subs[i].queue) - 1
      BY <3>1, SubscriberAt
    <3> QED
      BY <1>a, <3>1, <3>2
  <2> QED
    BY <2>2, <2>3, <2>4
<1>4. ASSUME SourcesRun \/ HealthReads \/ Schedules \/ Passes \/ StopsAll \/ UNCHANGED vars
      PROVE  UNCHANGED subs
  BY <1>4 DEF SourcesRun, HealthReads, Schedules, Passes, StopsAll, vars, subVars
<1> QED
  BY <1>k, <1>1, <1>2, <1>3, <1>4 DEF Next

\* What the sources and the scheduler do to the log and the messages.
LEMMA MessageBound ==
    ASSUME Types, Bounds, SourcesRun \/ Schedules
    PROVE  /\ last' \in [Direct -> 0..MaxMessage] /\ seen' \subseteq (1..MaxMessage) \X (1..MaxMessage)
           /\ Len(log') - reduced' <= StateCap
           /\ UNCHANGED <<active, now>>
<1>a. /\ last \in [Direct -> 0..MaxMessage] /\ seen \subseteq (1..MaxMessage) \X (1..MaxMessage)
      /\ Len(log) - reduced <= StateCap /\ MaxMessage \in Nat
  BY SnapshotsAssumption DEF Bounds
<1>1. ASSUME NEW s \in Direct, PriceArrives(s)
      PROVE  /\ last' \in [Direct -> 0..MaxMessage] /\ seen' \subseteq (1..MaxMessage) \X (1..MaxMessage)
             /\ Len(log') - reduced' <= StateCap /\ UNCHANGED <<active, now>>
  <2> DEFINE e(n, t) == [kind |-> "price", source |-> s, number |-> n, sent |-> t, at |-> now]
  <2>1. PICK n \in 1..MaxMessage, t \in Sent(s) :
          /\ last' = [last EXCEPT ![s] = n]
          /\ seen' = IF s = "chainlink" THEN seen \cup {<<n, t>>} ELSE seen
          /\ Publish(e(n, t)) \/ UNCHANGED log
    BY <1>1 DEF PriceArrives, Refuse
  <2>2. n \in 0..MaxMessage /\ e(n, t) \in LogEvent
    BY <1>a, SentType DEF LogEvent, Types
  <2>3. UNCHANGED <<active, now, reduced>>
    BY <1>1 DEF PriceArrives
  <2> HIDE DEF e
  <2>4. Len(log') - reduced' <= StateCap
    BY <1>a, <2>1, <2>2, <2>3, RoomLeft
  <2>5. seen' \subseteq (1..MaxMessage) \X (1..MaxMessage)
    BY <1>a, <2>1, SentType
  <2> QED
    BY <1>a, <2>1, <2>2, <2>3, <2>4, <2>5
<1>2. ASSUME NEW s \in Direct, PriceConnects(s, Flag) \/ PriceClears(s, Flag) \/ PriceLost(s)
      PROVE  /\ last' \in [Direct -> 0..MaxMessage]
             /\ UNCHANGED <<active, now, seen, log, reduced>>
  <2>1. UNCHANGED <<active, now, seen, log, reduced>>
    BY <1>2 DEF PriceConnects, PriceClears, PriceLost
  <2>2. UNCHANGED last \/ last' = [last EXCEPT ![s] = 0]
    BY <1>2 DEF PriceConnects, PriceClears, PriceLost
  <2> QED
    BY <1>a, <2>1, <2>2
<1>3. ASSUME ClobFlags(Flag) \/ ClobLost \/ ClobAnnounces \/ ClobRetracts \/ Schedules
      PROVE  /\ UNCHANGED <<active, now, last, seen>>
             /\ Len(log') - reduced' <= StateCap
  <2>1. UNCHANGED <<active, now, last, seen, reduced>>
    BY <1>3 DEF ClobFlags, ClobLost, ClobAnnounces, ClobRetracts, Schedules
  <2>2. UNCHANGED log \/ \E e \in LogEvent : Publish(e)
    <3> DEFINE tick == [kind |-> "tick", at |-> now]
    <3>1. Status(TRUE) \in LogEvent /\ Status(FALSE) \in LogEvent
      BY DEF Status, LogEvent, Types
    <3>2. tick \in LogEvent
      BY DEF LogEvent, Types
    <3>3. UNCHANGED log \/ Publish(Status(TRUE)) \/ Publish(Status(FALSE)) \/ Publish(tick)
      BY <1>3 DEF ClobFlags, ClobLost, ClobAnnounces, ClobRetracts, Schedules, Refuse
    <3> HIDE DEF tick
    <3> QED
      BY <3>1, <3>2, <3>3
  <2> QED
    BY <1>a, <2>1, <2>2, RoomLeft
<1> QED
  BY <1>a, <1>1, <1>2, <1>3, SourceCases

LEMMA BoundsStep == Types /\ Bounds /\ [Next]_vars => Bounds'
<1> SUFFICES ASSUME Types, Bounds, [Next]_vars PROVE Bounds'
  OBVIOUS
<1>1. \A i \in Subscribers : Len(subs'[i].queue) <= SubscriberCap
  BY QueueBound
<1>2. {stop', stopping'} \subseteq BOOLEAN
  <2>1. {stop, stopping, fatal} \subseteq BOOLEAN /\ fatal' \in BOOLEAN
    BY TypesStep DEF Bounds, Types
  <2> QED
    BY <2>1 DEF Next, SourcesRun, HealthReads, Schedules, Reduces, Passes, StopsPublisher,
                StopsAll, Subscribes, Takes, Asks, TimesOut, Sub, subVars, vars
<1>3. CASE SourcesRun \/ Schedules
  BY <1>1, <1>2, <1>3, MessageBound DEF Bounds
<1>4. CASE Reduces
  <2>1. /\ UNCHANGED <<active, now, last, seen, log>> /\ reduced' = reduced + 1
        /\ reduced \in Nat /\ Len(log) \in Nat /\ Len(log) - reduced <= StateCap
        /\ StateCap \in Nat
    BY <1>4, SnapshotsAssumption DEF Reduces, Types, Bounds
  <2>2. Len(log') - reduced' <= StateCap
    BY <2>1
  <2> QED
    BY <1>1, <1>2, <2>1, <2>2 DEF Bounds
<1>5. CASE Passes
  <2>1. UNCHANGED <<active, last, seen, log, reduced>> /\ now' <= MaxTime
    BY <1>5, SnapshotsAssumption DEF Passes, Types
  <2> QED
    BY <1>1, <1>2, <2>1 DEF Bounds
<1>6. ASSUME NEW i \in Subscribers, Subscribes(i) \/ Takes(i) \/ Asks(i) \/ TimesOut(i)
      PROVE  UNCHANGED sourceVars
  BY <1>6 DEF Subscribes, Takes, Asks, TimesOut, Sub
<1>7. ASSUME HealthReads \/ StopsPublisher \/ StopsAll \/ UNCHANGED vars
      PROVE  UNCHANGED sourceVars
  BY <1>7 DEF HealthReads, StopsPublisher, StopsAll, vars
<1>8. CASE UNCHANGED sourceVars
  BY <1>1, <1>2, <1>8 DEF Bounds, sourceVars
<1> QED
  BY <1>3, <1>4, <1>5, <1>6, <1>7, <1>8 DEF Next

-----------------------------------------------------------------------------
(* Rolling windows.                                                        *)

LEMMA MinOfNats ==
    ASSUME NEW S \in SUBSET Nat, S # {}
    PROVE  Min(S) \in S /\ \A y \in S : Min(S) <= y
<1>1. PICK x \in S : \A y \in S : ~ (<<y, x>> \in OpToRel(<, Nat))
  BY NatLessThanWellFounded, WFMin
<1>2. \A y \in S : x <= y
  <2> SUFFICES ASSUME NEW y \in S PROVE x <= y
    OBVIOUS
  <2>1. <<y, x>> \in Nat \X Nat /\ <<y, x>>[1] = y /\ <<y, x>>[2] = x
    OBVIOUS
  <2>2. ~ (y < x)
    BY <1>1, <2>1 DEF OpToRel
  <2> QED
    BY <2>2
<1> QED
  BY <1>2 DEF Min

LEMMA RowsFinite ==
    ASSUME NEW rows \in Seq(Nat), NEW c \in Int
    PROVE  /\ IsFiniteSet({k \in DOMAIN rows : rows[k] >= c})
           /\ RowsSince(rows, c) \in Nat
<1>1. IsFiniteSet(1..Len(rows)) /\ DOMAIN rows = 1..Len(rows)
  BY FS_Interval
<1>2. {k \in DOMAIN rows : rows[k] >= c} \in SUBSET (1..Len(rows))
  BY <1>1
<1> QED
  BY <1>1, <1>2, FS_Subset, FS_CardinalityType DEF RowsSince

LEMMA TradesFinite ==
    ASSUME NEW l, NEW n \in Nat, NEW c \in Int
    PROVE  /\ IsFiniteSet({i \in 1..n : IsTrade(l[i]) /\ l[i].at >= c})
           /\ TradesOf(l, n, c) \in Nat
<1>1. IsFiniteSet(1..n)
  BY FS_Interval
<1>2. {i \in 1..n : IsTrade(l[i]) /\ l[i].at >= c} \in SUBSET (1..n)
  OBVIOUS
<1> QED
  BY <1>1, <1>2, FS_Subset, FS_CardinalityType DEF TradesOf

\* The rows that Kept leaves: a suffix, or nothing.
LEMMA KeptIs ==
    ASSUME NEW rows \in Seq(Nat), NEW c \in Int
    PROVE  /\ Kept(rows, c) \in Seq(Nat)
           /\ \E d \in 0..Len(rows) :
                /\ Len(Kept(rows, c)) = Len(rows) - d
                /\ \A k \in 1..(Len(rows) - d) : Kept(rows, c)[k] = rows[k + d]
                /\ \A k \in 1..d : rows[k] < c
                /\ d < Len(rows) => rows[d + 1] >= c
<1> DEFINE fresh == {i \in DOMAIN rows : rows[i] >= c}
<1>0. DOMAIN rows = 1..Len(rows) /\ Len(rows) \in Nat /\ \A i \in 1..Len(rows) : rows[i] \in Nat
  OBVIOUS
<1>1. CASE fresh = {}
  <2>1. Kept(rows, c) = <<>>
    BY <1>1 DEF Kept
  <2>2. \A k \in 1..Len(rows) : rows[k] < c
    BY <1>0, <1>1
  <2>3. /\ Len(rows) \in 0..Len(rows) /\ Len(<<>>) = Len(rows) - Len(rows)
        /\ 1..(Len(rows) - Len(rows)) = {} /\ ~(Len(rows) < Len(rows))
        /\ <<>> \in Seq(Nat)
    BY <1>0
  <2> QED
    BY <2>1, <2>2, <2>3
<1>2. CASE fresh # {}
  <2>1. PICK m : m = Min(fresh)
    OBVIOUS
  <2>2. m \in fresh /\ \A y \in fresh : m <= y
    <3>1. fresh \in SUBSET Nat
      BY <1>0
    <3> HIDE DEF fresh
    <3> QED
      BY <1>2, <2>1, <3>1, MinOfNats
  <2>3. Kept(rows, c) = SubSeq(rows, m, Len(rows))
    BY <1>2, <2>1 DEF Kept
  <2>4. m \in 1..Len(rows) /\ rows[m] >= c /\ \A k \in 1..Len(rows) : k < m => rows[k] < c
    BY <1>0, <2>2
  <2>5. /\ SubSeq(rows, m, Len(rows)) \in Seq(Nat)
        /\ Len(SubSeq(rows, m, Len(rows))) = Len(rows) - (m - 1)
        /\ \A k \in 1..(Len(rows) - (m - 1)) : SubSeq(rows, m, Len(rows))[k] = rows[k + (m - 1)]
    BY <1>0, <2>4
  <2>6. m - 1 \in 0..Len(rows) /\ (m - 1) + 1 = m /\ \A k \in 1..(m - 1) : rows[k] < c
    BY <1>0, <2>4
  <2> QED
    BY <2>3, <2>4, <2>5, <2>6
<1> QED
  BY <1>1, <1>2

\* A suffix that begins after rows that are too old for c has as many rows since c.
LEMMA SuffixCounts ==
    ASSUME NEW rows \in Seq(Nat), NEW kept \in Seq(Nat), NEW d \in 0..Len(rows),
           Len(kept) = Len(rows) - d, \A k \in 1..(Len(rows) - d) : kept[k] = rows[k + d],
           NEW c \in Int
    PROVE  /\ RowsSince(kept, c) <= RowsSince(rows, c)
           /\ (\A k \in 1..d : rows[k] < c) => RowsSince(kept, c) = RowsSince(rows, c)
<1> DEFINE S == {k \in DOMAIN kept : kept[k] >= c}
           T == {k \in DOMAIN rows : rows[k] >= c}
           f == [k \in S |-> k + d]
<1>0. /\ DOMAIN rows = 1..Len(rows) /\ DOMAIN kept = 1..(Len(rows) - d) /\ Len(rows) \in Nat
      /\ d \in Nat
  OBVIOUS
<1>1. IsFiniteSet(T) /\ RowsSince(kept, c) = Cardinality(S) /\ RowsSince(rows, c) = Cardinality(T)
  BY RowsFinite DEF RowsSince
<1>2. \A k \in S : k \in Int /\ k + d \in T
  <2> SUFFICES ASSUME NEW k \in S PROVE k \in Int /\ k + d \in T
    OBVIOUS
  <2>1. k \in 1..(Len(rows) - d) /\ kept[k] >= c /\ kept[k] = rows[k + d]
    BY <1>0
  <2>2. \A n \in Nat : \A a \in 0..n : \A j \in 1..(n - a) : j \in Int /\ j + a \in 1..n
    OBVIOUS
  <2>3. k \in Int /\ k + d \in 1..Len(rows)
    <3> HIDE DEF S
    <3> QED
      BY <1>0, <2>1, <2>2
  <2> QED
    BY <1>0, <2>1, <2>3
<1>3. f \in Injection(S, T)
  <2>1. f \in [S -> T]
    BY <1>2
  <2>2. \A a, b \in S : f[a] = f[b] => a = b
    <3> SUFFICES ASSUME NEW a \in S, NEW b \in S, f[a] = f[b] PROVE a = b
      OBVIOUS
    <3>1. a \in Int /\ b \in Int /\ a + d = b + d
      BY <1>2
    <3> QED
      BY <1>0, <3>1
  <2> HIDE DEF S, T, f
  <2> QED
    BY <2>1, <2>2 DEF Injection, IsInjective
<1>4. ASSUME \A k \in 1..d : rows[k] < c PROVE f \in Surjection(S, T)
  <2>1. \A j \in T : \E k \in S : f[k] = j
    <3> SUFFICES ASSUME NEW j \in T PROVE \E k \in S : f[k] = j
      OBVIOUS
    <3>1. j \in 1..Len(rows) /\ j \in Int /\ rows[j] >= c /\ rows[j] \in Nat
      BY <1>0
    <3>2. ~ (j <= d)
      <4> SUFFICES ASSUME j <= d PROVE FALSE
        OBVIOUS
      <4>1. j \in 1..d /\ rows[j] < c
        BY <1>0, <1>4, <3>1
      <4> QED
        BY <3>1, <4>1
    <3>3. j - d \in 1..(Len(rows) - d) /\ (j - d) + d = j
      BY <1>0, <3>1, <3>2
    <3>4. j - d \in S
      BY <1>0, <3>1, <3>3
    <3> QED
      BY <3>3, <3>4
  <2>2. f \in [S -> T]
    BY <1>2
  <2> HIDE DEF S, T, f
  <2> QED
    BY <2>1, <2>2 DEF Surjection
<1>5. IsFiniteSet(S) /\ Cardinality(S) <= Cardinality(T)
      /\ (Cardinality(S) = Cardinality(T) <=> f \in Surjection(S, T))
  <2> HIDE DEF S, T, f
  <2> QED
    BY <1>1, <1>3, FS_Injection
<1> HIDE DEF S, T, f
<1> QED
  BY <1>1, <1>4, <1>5

\* Rows that are all since c
LEMMA AllSince ==
    ASSUME NEW rows \in Seq(Nat), NEW c \in Int, \A k \in DOMAIN rows : rows[k] >= c
    PROVE  RowsSince(rows, c) = Len(rows)
<1>1. {k \in DOMAIN rows : rows[k] >= c} = 1..Len(rows) /\ Len(rows) \in Nat
  OBVIOUS
<1>2. Cardinality(1..Len(rows)) = Len(rows)
  <2>1. 1 \in Int /\ Len(rows) \in Int
    BY <1>1
  <2>2. Cardinality(1..Len(rows)) = IF 1 > Len(rows) THEN 0 ELSE Len(rows) - 1 + 1
    BY <2>1, FS_Interval
  <2> QED
    BY <1>1, <2>2
<1> QED
  BY <1>1, <1>2 DEF RowsSince

\* The rows of a are among those of b.
Among(a, b) == \A k \in DOMAIN a : \E j \in DOMAIN b : a[k] = b[j]

LEMMA ExpireWindow ==
    ASSUME NEW win, IsWindow(win), NEW t \in Nat, NEW s \in Nat
    PROVE  /\ IsWindow(Expire(win, t, s))
           /\ Among(Expire(win, t, s).rows, win.rows)
           /\ \A c \in Int : RowsSince(Expire(win, t, s).rows, c) <= RowsSince(win.rows, c)
           /\ \A c \in Int : t <= c + s =>
                RowsSince(Expire(win, t, s).rows, c) = RowsSince(win.rows, c)
           /\ Expire(win, t, s).total = RowsSince(Expire(win, t, s).rows, t - s)
<1> DEFINE rows == win.rows
           kept == Kept(win.rows, t - s)
<1>0. rows \in Seq(Nat) /\ t - s \in Int /\ win.total = Len(rows)
  BY DEF IsWindow
<1>1. kept \in Seq(Nat)
  BY <1>0, KeptIs
<1>2. PICK d \in 0..Len(rows) :
         /\ Len(kept) = Len(rows) - d
         /\ \A k \in 1..(Len(rows) - d) : kept[k] = rows[k + d]
         /\ \A k \in 1..d : rows[k] < t - s
         /\ d < Len(rows) => rows[d + 1] >= t - s
  BY <1>0, KeptIs
<1>3. Expire(win, t, s).rows = kept /\ Expire(win, t, s).total = Len(kept)
      /\ Expire(win, t, s) = [rows |-> kept, total |-> Len(kept)]
  <2>1. win.total - (Len(win.rows) - Len(kept)) = Len(kept)
    BY <1>0, <1>1, <1>2
  <2> QED
    BY <2>1 DEF Expire
<1> HIDE DEF kept
<1>4. /\ DOMAIN rows = 1..Len(rows) /\ DOMAIN kept = 1..(Len(rows) - d) /\ Len(rows) \in Nat
      /\ \A k \in 1..Len(rows) : rows[k] \in Nat
  BY <1>0, <1>1, <1>2
<1>5. \A k \in DOMAIN kept : k + d \in DOMAIN rows /\ kept[k] = rows[k + d]
  BY <1>2, <1>4
<1>6. \A i, j \in DOMAIN rows : i <= j => rows[i] <= rows[j]
  BY DEF IsWindow
<1>7. \A i, j \in DOMAIN kept : i <= j => kept[i] <= kept[j]
  <2> SUFFICES ASSUME NEW i \in DOMAIN kept, NEW j \in DOMAIN kept, i <= j
               PROVE  kept[i] <= kept[j]
    OBVIOUS
  <2>1. i + d <= j + d
    BY <1>4
  <2> QED
    BY <1>5, <1>6, <2>1
<1>8. \A k \in DOMAIN kept : kept[k] >= t - s
  <2> SUFFICES ASSUME NEW k \in DOMAIN kept PROVE kept[k] >= t - s
    OBVIOUS
  <2>1. d < Len(rows) /\ d + 1 \in DOMAIN rows /\ d + 1 <= k + d
    BY <1>4
  <2>2. /\ rows[d + 1] >= t - s /\ rows[d + 1] <= rows[k + d]
        /\ rows[d + 1] \in Nat /\ rows[k + d] \in Nat
    BY <1>2, <1>4, <1>5, <1>6, <2>1
  <2>3. kept[k] = rows[k + d]
    BY <1>5
  <2> QED
    BY <1>0, <2>2, <2>3
<1>9. \A c \in Int : RowsSince(kept, c) <= RowsSince(rows, c)
  BY <1>0, <1>1, <1>2, SuffixCounts
<1>10. \A c \in Int : t <= c + s => RowsSince(kept, c) = RowsSince(rows, c)
  <2> SUFFICES ASSUME NEW c \in Int, t <= c + s PROVE RowsSince(kept, c) = RowsSince(rows, c)
    OBVIOUS
  <2>1. \A k \in 1..d : rows[k] < c
    <3> SUFFICES ASSUME NEW k \in 1..d PROVE rows[k] < c
      OBVIOUS
    <3>1. rows[k] \in Nat /\ rows[k] < t - s
      BY <1>2, <1>4
    <3> QED
      BY <3>1
  <2> QED
    BY <1>0, <1>1, <1>2, <2>1, SuffixCounts
<1>11. RowsSince(kept, t - s) = Len(kept)
  BY <1>0, <1>1, <1>8, AllSince
<1>12. IsWindow(Expire(win, t, s))
  BY <1>1, <1>3, <1>7 DEF IsWindow
<1>13. Among(kept, rows)
  BY <1>5 DEF Among
<1> QED
  BY <1>3, <1>13, <1>9, <1>10, <1>11, <1>12

LEMMA AddWindow ==
    ASSUME NEW win, IsWindow(win), NEW t \in Nat, \A k \in DOMAIN win.rows : win.rows[k] <= t
    PROVE  LET new == [rows |-> Append(win.rows, t), total |-> win.total + 1] IN
           /\ IsWindow(new)
           /\ \A k \in DOMAIN new.rows : new.rows[k] = t
                                         \/ \E j \in DOMAIN win.rows : new.rows[k] = win.rows[j]
           /\ \A c \in Int : RowsSince(new.rows, c) =
                               RowsSince(win.rows, c) + (IF t >= c THEN 1 ELSE 0)
<1> DEFINE rows == win.rows
           more == Append(win.rows, t)
           new == [rows |-> Append(win.rows, t), total |-> win.total + 1]
<1>0. /\ rows \in Seq(Nat) /\ win.total = Len(rows) /\ Len(rows) \in Nat
      /\ \A i, j \in DOMAIN rows : i <= j => rows[i] <= rows[j]
  BY DEF IsWindow
<1>1. /\ more \in Seq(Nat) /\ Len(more) = Len(rows) + 1
      /\ DOMAIN rows = 1..Len(rows) /\ DOMAIN more = 1..Len(rows) + 1
      /\ \A i \in 1..Len(rows) : more[i] = rows[i]
      /\ more[Len(rows) + 1] = t
  BY <1>0, AppendSeq
<1>2. new.rows = more /\ new.total = Len(more) /\ new = [rows |-> new.rows, total |-> new.total]
  BY <1>0, <1>1
<1> HIDE DEF more, new
<1>3. \A k \in DOMAIN more : k = Len(rows) + 1 \/ k \in DOMAIN rows
  BY <1>0, <1>1
<1>4. \A i, j \in DOMAIN more : i <= j => more[i] <= more[j]
  <2> SUFFICES ASSUME NEW i \in DOMAIN more, NEW j \in DOMAIN more, i <= j
               PROVE  more[i] <= more[j]
    OBVIOUS
  <2>1. CASE i \in DOMAIN rows /\ j \in DOMAIN rows
    BY <1>0, <1>1, <2>1
  <2>2. CASE i \in DOMAIN rows /\ j = Len(rows) + 1
    BY <1>1, <2>2
  <2>3. CASE i = Len(rows) + 1
    <3>1. j = Len(rows) + 1
      BY <1>0, <1>1, <2>3
    <3> QED
      BY <1>1, <2>3, <3>1
  <2> QED
    BY <1>3, <2>1, <2>2, <2>3
<1>5. ASSUME NEW c \in Int
      PROVE  RowsSince(more, c) = RowsSince(rows, c) + (IF t >= c THEN 1 ELSE 0)
  <2> DEFINE S == {k \in DOMAIN rows : rows[k] >= c}
             T == {k \in DOMAIN more : more[k] >= c}
  <2>1. IsFiniteSet(S) /\ RowsSince(rows, c) = Cardinality(S) /\ RowsSince(more, c) = Cardinality(T)
        /\ Cardinality(S) \in Nat
    BY <1>0, RowsFinite DEF RowsSince
  <2>2. Len(rows) + 1 \notin S
    BY <1>0, <1>1
  <2>3. CASE t >= c
    <3>a. Len(rows) + 1 \in T
      BY <1>0, <1>1, <2>3
    <3>b. \A k \in S : k \in T
      BY <1>0, <1>1
    <3>c. \A k \in T : k \in S \/ k = Len(rows) + 1
      BY <1>1, <1>3
    <3> HIDE DEF S, T
    <3>1. T = S \cup {Len(rows) + 1}
      BY <3>a, <3>b, <3>c
    <3> QED
      BY <2>1, <2>2, <2>3, <3>1, FS_AddElement
  <2>4. CASE ~(t >= c)
    <3>a. \A k \in S : k \in T
      BY <1>0, <1>1
    <3>b. \A k \in T : k \in S
      <4>1. Len(rows) + 1 \notin T
        BY <1>1, <2>4
      <4> QED
        BY <1>1, <1>3, <4>1
    <3> HIDE DEF S, T
    <3>1. T = S
      BY <3>a, <3>b
    <3> QED
      BY <2>1, <2>4, <3>1
  <2> QED
    BY <2>3, <2>4
<1>6. IsWindow(new)
  BY <1>1, <1>2, <1>4 DEF IsWindow
<1>7. \A k \in DOMAIN more : more[k] = t \/ \E j \in DOMAIN rows : more[k] = rows[j]
  BY <1>1, <1>3
<1> QED
  BY <1>2, <1>5, <1>6, <1>7 DEF new

\* One event more
LEMMA TradesMore ==
    ASSUME NEW l, NEW n \in Nat, NEW c \in Int
    PROVE  TradesOf(l, n + 1, c) =
             TradesOf(l, n, c) + (IF IsTrade(l[n + 1]) /\ l[n + 1].at >= c THEN 1 ELSE 0)
<1> DEFINE S == {i \in 1..n : IsTrade(l[i]) /\ l[i].at >= c}
           T == {i \in 1..(n + 1) : IsTrade(l[i]) /\ l[i].at >= c}
<1>1. IsFiniteSet(S) /\ TradesOf(l, n, c) = Cardinality(S) /\ TradesOf(l, n + 1, c) = Cardinality(T)
      /\ Cardinality(S) \in Nat
  BY TradesFinite DEF TradesOf
<1>2. 1..(n + 1) = (1..n) \cup {n + 1} /\ n + 1 \notin 1..n
  OBVIOUS
<1>3. CASE IsTrade(l[n + 1]) /\ l[n + 1].at >= c
  <2>1. T = S \cup {n + 1} /\ n + 1 \notin S
    BY <1>2, <1>3
  <2> HIDE DEF S, T
  <2> QED
    BY <1>1, <1>3, <2>1, FS_AddElement
<1>4. CASE ~(IsTrade(l[n + 1]) /\ l[n + 1].at >= c)
  <2>1. T = S
    BY <1>2, <1>4
  <2> HIDE DEF S, T
  <2> QED
    BY <1>1, <1>4, <2>1
<1> QED
  BY <1>3, <1>4

\* Later events do not matter.
LEMMA TradesKept ==
    ASSUME NEW l, NEW m, NEW n \in Nat, \A i \in 1..n : m[i] = l[i], NEW c \in Int
    PROVE  TradesOf(m, n, c) = TradesOf(l, n, c)
<1>1. {i \in 1..n : IsTrade(m[i]) /\ m[i].at >= c} = {i \in 1..n : IsTrade(l[i]) /\ l[i].at >= c}
  OBVIOUS
<1> QED
  BY <1>1 DEF TradesOf

LEMMA FollowsKept ==
    ASSUME NEW win, NEW w, NEW l, NEW m, NEW n \in Nat, \A i \in 1..n : m[i] = l[i], NEW r,
           Follows(win, w, l, n, r)
    PROVE  Follows(win, w, m, n, r)
<1>1. \A c \in Int : TradesOf(m, n, c) = TradesOf(l, n, c)
  BY TradesKept
<1> QED
  BY <1>1 DEF Follows

\* The window expires at the time of an event, or as the health writer reads it.
LEMMA FollowsExpired ==
    ASSUME NEW win, NEW w \in Nat, NEW l, NEW n \in Nat,
           NEW r \in Nat, NEW s \in Nat, NEW t \in Nat,
           \A i \in 1..n : l[i].at \in Nat,
           Follows(win, w, l, n, r), r <= s, t <= s \/ \E i \in 1..n : t = l[i].at
    PROVE  Follows(Expire(win, t, w), w, l, n, s)
<1> DEFINE new == Expire(win, t, w)
<1>1. /\ IsWindow(win)
      /\ \A k \in DOMAIN win.rows : \E i \in 1..n : win.rows[k] = l[i].at
      /\ \A c \in Int : RowsSince(win.rows, c) <= TradesOf(l, n, c)
      /\ \A c \in Int : r <= c + w /\ (\A i \in 1..n : l[i].at <= c + w)
                          => RowsSince(win.rows, c) = TradesOf(l, n, c)
  BY DEF Follows
<1>2. /\ IsWindow(new)
      /\ Among(new.rows, win.rows)
      /\ \A c \in Int : RowsSince(new.rows, c) <= RowsSince(win.rows, c)
      /\ \A c \in Int : t <= c + w => RowsSince(new.rows, c) = RowsSince(win.rows, c)
  <2>1. IsWindow(win) /\ w \in Nat /\ t \in Nat
    BY <1>1
  <2>2. IsWindow(Expire(win, t, w))
    BY <2>1, ExpireWindow
  <2>5. Among(Expire(win, t, w).rows, win.rows)
    BY <2>1, ExpireWindow
  <2>3. \A c \in Int : RowsSince(Expire(win, t, w).rows, c) <= RowsSince(win.rows, c)
    BY <2>1, ExpireWindow
  <2>4. \A c \in Int : t <= c + w =>
          RowsSince(Expire(win, t, w).rows, c) = RowsSince(win.rows, c)
    BY <2>1, ExpireWindow
  <2> QED
    BY <2>2, <2>3, <2>4, <2>5
<1> HIDE DEF new
<1>3. win.rows \in Seq(Nat) /\ new.rows \in Seq(Nat)
  BY <1>1, <1>2 DEF IsWindow
<1>4. ASSUME NEW c \in Int PROVE RowsSince(new.rows, c) <= TradesOf(l, n, c)
  <2>1. /\ RowsSince(new.rows, c) \in Nat /\ RowsSince(win.rows, c) \in Nat
        /\ TradesOf(l, n, c) \in Nat
    BY <1>3, RowsFinite, TradesFinite
  <2>2. /\ RowsSince(new.rows, c) <= RowsSince(win.rows, c)
        /\ RowsSince(win.rows, c) <= TradesOf(l, n, c)
    BY <1>1, <1>2
  <2> QED
    BY <2>1, <2>2
<1>5. ASSUME NEW c \in Int, s <= c + w, \A i \in 1..n : l[i].at <= c + w
      PROVE  RowsSince(new.rows, c) = TradesOf(l, n, c)
  <2>1. r <= c + w /\ t <= c + w
    BY <1>5
  <2> QED
    BY <1>1, <1>2, <1>5, <2>1
<1>6. \A k \in DOMAIN new.rows : \E i \in 1..n : new.rows[k] = l[i].at
  BY <1>1, <1>2 DEF Among
<1> QED
  BY <1>2, <1>4, <1>5, <1>6 DEF Follows, new

\* The next event is no trade.
LEMMA FollowsPassed ==
    ASSUME NEW win, NEW w, NEW l, NEW n \in Nat, NEW r, Follows(win, w, l, n, r),
           ~IsTrade(l[n + 1])
    PROVE  Follows(win, w, l, n + 1, r)
<1>1. \A c \in Int : TradesOf(l, n + 1, c) = TradesOf(l, n, c)
  <2> SUFFICES ASSUME NEW c \in Int PROVE TradesOf(l, n + 1, c) = TradesOf(l, n, c)
    OBVIOUS
  <2>1. TradesOf(l, n, c) \in Nat
    BY TradesFinite
  <2> QED
    BY <2>1, TradesMore
<1>2. \A i \in 1..n : i \in 1..(n + 1)
  OBVIOUS
<1> QED
  BY <1>1, <1>2 DEF Follows

\* The next event is a trade, and the window gets it.
LEMMA FollowsAdded ==
    ASSUME NEW win, NEW w \in Nat, NEW l, NEW n \in Nat, NEW r \in Nat, Follows(win, w, l, n, r),
           \A i \in 1..(n + 1) : l[i].at \in Nat /\ l[i].at <= l[n + 1].at,
           IsTrade(l[n + 1])
    PROVE  Follows(Added(win, l[n + 1].at, w), w, l, n + 1, r)
<1> DEFINE t == l[n + 1].at
           new == [rows |-> Append(win.rows, t), total |-> win.total + 1]
<1>0. /\ n + 1 \in 1..(n + 1) /\ \A i \in 1..n : i \in 1..(n + 1)
      /\ t \in Nat
  OBVIOUS
<1>1. /\ IsWindow(win)
      /\ \A k \in DOMAIN win.rows : \E i \in 1..n : win.rows[k] = l[i].at
      /\ \A c \in Int : RowsSince(win.rows, c) <= TradesOf(l, n, c)
      /\ \A c \in Int : r <= c + w /\ (\A i \in 1..n : l[i].at <= c + w)
                          => RowsSince(win.rows, c) = TradesOf(l, n, c)
  BY DEF Follows
<1>2. \A k \in DOMAIN win.rows : win.rows[k] <= t
  BY <1>0, <1>1
<1>3. /\ IsWindow(new)
      /\ \A k \in DOMAIN new.rows : new.rows[k] = t
                                    \/ \E j \in DOMAIN win.rows : new.rows[k] = win.rows[j]
      /\ \A c \in Int : RowsSince(new.rows, c) =
                          RowsSince(win.rows, c) + (IF t >= c THEN 1 ELSE 0)
  BY <1>0, <1>1, <1>2, AddWindow
<1>4. Added(win, t, w) = Expire(new, t, w)
  BY DEF Added
<1>5. Follows(new, w, l, n + 1, r)
  <2> HIDE DEF new
  <2>1. ASSUME NEW c \in Int
        PROVE  /\ RowsSince(win.rows, c) \in Nat /\ TradesOf(l, n, c) \in Nat
               /\ TradesOf(l, n + 1, c) = TradesOf(l, n, c) + (IF t >= c THEN 1 ELSE 0)
    <3>1. win.rows \in Seq(Nat)
      BY <1>1 DEF IsWindow
    <3> QED
      BY <3>1, RowsFinite, TradesFinite, TradesMore
  <2>2. ASSUME NEW c \in Int PROVE RowsSince(new.rows, c) <= TradesOf(l, n + 1, c)
    BY <1>1, <1>3, <2>1
  <2>3. ASSUME NEW c \in Int, r <= c + w, \A i \in 1..(n + 1) : l[i].at <= c + w
        PROVE  RowsSince(new.rows, c) = TradesOf(l, n + 1, c)
    <3>1. RowsSince(win.rows, c) = TradesOf(l, n, c)
      BY <1>0, <1>1, <2>3
    <3> QED
      BY <1>3, <2>1, <3>1
  <2>4. \A k \in DOMAIN new.rows : \E i \in 1..(n + 1) : new.rows[k] = l[i].at
    BY <1>0, <1>1, <1>3
  <2> QED
    BY <1>3, <2>2, <2>3, <2>4 DEF Follows
<1> HIDE DEF new
<1>6. Follows(Expire(new, t, w), w, l, n + 1, r)
  <2>1. n + 1 \in Nat /\ r <= r /\ (\A i \in 1..(n + 1) : l[i].at \in Nat)
        /\ \E i \in 1..(n + 1) : t = l[i].at
    BY <1>0
  <2> HIDE DEF t
  <2> QED
    BY <1>0, <1>5, <2>1, FollowsExpired
<1> QED
  BY <1>4, <1>6

\* What a snapshot says of a window that has been expired at its time
LEMMA FollowsSays ==
    ASSUME NEW win, IsWindow(win), NEW w \in Nat, NEW l, NEW n \in Nat,
           NEW r \in Nat, NEW t \in Nat,
           Follows(Expire(win, t, w), w, l, n, r), \A i \in 1..n : l[i].at \in Nat /\ l[i].at <= t
    PROVE  /\ Expire(win, t, w).total <= TradesOf(l, n, t - w)
           /\ r <= t => Expire(win, t, w).total = TradesOf(l, n, t - w)
<1>1. Expire(win, t, w).total = RowsSince(Expire(win, t, w).rows, t - w)
  BY ExpireWindow
<1>2. t - w \in Int /\ (t - w) + w = t
  OBVIOUS
<1> DEFINE new == Expire(win, t, w)
<1>3. /\ \A c \in Int : RowsSince(new.rows, c) <= TradesOf(l, n, c)
      /\ \A c \in Int : r <= c + w /\ (\A i \in 1..n : l[i].at <= c + w)
                          => RowsSince(new.rows, c) = TradesOf(l, n, c)
  BY DEF Follows
<1> HIDE DEF new
<1>4. RowsSince(new.rows, t - w) <= TradesOf(l, n, t - w)
  BY <1>2, <1>3
<1>5. ASSUME r <= t PROVE RowsSince(new.rows, t - w) = TradesOf(l, n, t - w)
  BY <1>2, <1>3, <1>5
<1> QED
  BY <1>1, <1>4, <1>5 DEF new

LEMMA AppliedWindows ==
    ASSUME NEW st, IsStore(st), NEW e \in LogEvent, e.kind # "tick",
           st.window = [w \in Seconds |-> st.window[w]]
    PROVE  /\ Applied(st, e).window = [w \in Seconds |-> Applied(st, e).window[w]]
           /\ \A w \in Seconds :
                Applied(st, e).window[w] = IF IsTrade(e) THEN Added(st.window[w], e.at, w)
                                           ELSE st.window[w]
<1>1. CASE e.kind = "price" /\ e.source = "binance"
  <2>1. Applied(st, e).window = [w \in Seconds |-> Added(st.window[w], e.at, w)]
    BY <1>1 DEF IsStore, Applied
  <2> QED
    BY <1>1, <2>1 DEF IsTrade
<1>2. CASE e.kind = "price" /\ e.source = "chainlink"
  <2>1. Applied(st, e).window = st.window
    BY <1>2 DEF IsStore, Applied
  <2> QED
    BY <1>2, <2>1 DEF IsTrade
<1>3. CASE e.kind = "status"
  <2>1. Applied(st, e).window = st.window
    BY <1>3 DEF IsStore, Applied, StatusApplied
  <2> QED
    BY <1>3, <2>1 DEF IsTrade
<1> QED
  BY <1>1, <1>2, <1>3 DEF LogEvent, Direct

LEMMA ReadWindows ==
    ASSUME NEW st, IsStore(st), NEW t
    PROVE  Read(st, t).window = [w \in Seconds |-> Expire(st.window[w], t, w)]
BY DEF IsStore, Read

\* The sources and the scheduler do not touch the windows; what they publish has
\* the time of its publication.
LEMMA OnlyLog ==
    ASSUME Types, SourcesRun \/ Schedules
    PROVE  /\ UNCHANGED <<now, reduced, read, replayed, compared>>
           /\ store'.window = store.window
           /\ UNCHANGED log \/ \E e \in LogEvent : e.at = now /\ Publish(e)
<1>f. ASSUME NEW s \in Sources, NEW up, Flag(s, up)
      PROVE  store'.window = store.window /\ UNCHANGED <<replayed, compared, read>>
  BY <1>f DEF Flag, Types, IsStore
<1>s. \A s \in Direct : s \in Sources
  BY DEF Sources
<1>n. now \in Nat
  BY DEF Types
<1>1. ASSUME NEW s \in Direct, PriceConnects(s, Flag) \/ PriceClears(s, Flag)
      PROVE  /\ UNCHANGED <<now, reduced, read, replayed, compared, log>>
             /\ store'.window = store.window
  <2>1. Flag(s, TRUE) \/ Flag(s, FALSE)
    BY <1>1 DEF PriceConnects, PriceClears
  <2>2. UNCHANGED <<now, reduced, log>>
    BY <1>1 DEF PriceConnects, PriceClears
  <2> QED
    BY <1>f, <1>s, <2>1, <2>2
<1>2. ASSUME ClobFlags(Flag)
      PROVE  /\ UNCHANGED <<now, reduced, read, replayed, compared, log>>
             /\ store'.window = store.window
  <2>1. Flag(Clob, TRUE) \/ Flag(Clob, FALSE)
    BY <1>2 DEF ClobFlags
  <2>2. UNCHANGED <<now, reduced, log>>
    BY <1>2 DEF ClobFlags
  <2>3. Clob \in Sources
    BY DEF Sources
  <2> QED
    BY <1>f, <2>1, <2>2, <2>3
<1>3. ASSUME NEW s \in Direct, PriceArrives(s)
      PROVE  /\ UNCHANGED <<now, reduced>>
             /\ UNCHANGED log \/ \E e \in LogEvent : e.at = now /\ Publish(e)
  <2>1. PICK n \in 1..MaxMessage, t \in Sent(s) :
          Publish([kind |-> "price", source |-> s, number |-> n, sent |-> t, at |-> now]) \/ Refuse
    BY <1>3 DEF PriceArrives
  <2>2. UNCHANGED <<now, reduced>>
    BY <1>3 DEF PriceArrives
  <2> DEFINE e == [kind |-> "price", source |-> s, number |-> n, sent |-> t, at |-> now]
  <2>3. e \in LogEvent /\ e.at = now
    BY <1>n, SentType DEF LogEvent
  <2> HIDE DEF e
  <2>4. Publish(e) \/ UNCHANGED log
    BY <2>1 DEF e, Refuse
  <2> QED
    BY <2>2, <2>3, <2>4
<1>4. ASSUME NEW s \in Direct, PriceLost(s) PROVE UNCHANGED <<now, reduced, log>>
  BY <1>4 DEF PriceLost
<1>5. ASSUME ClobAnnounces \/ ClobLost \/ ClobRetracts
      PROVE  /\ UNCHANGED <<now, reduced>>
             /\ UNCHANGED log \/ \E e \in LogEvent : e.at = now /\ Publish(e)
  <2>1. UNCHANGED <<now, reduced>>
    BY <1>5 DEF ClobAnnounces, ClobLost, ClobRetracts
  <2>2. UNCHANGED log \/ \E up \in BOOLEAN : Publish(Status(up))
    BY <1>5 DEF ClobAnnounces, ClobLost, ClobRetracts, Refuse
  <2>3. \A up \in BOOLEAN : Status(up) \in LogEvent /\ Status(up).at = now
    BY <1>n DEF Status, LogEvent
  <2> QED
    BY <2>1, <2>2, <2>3
<1>6. ASSUME Schedules
      PROVE  /\ UNCHANGED <<now, reduced, storeVars>>
             /\ UNCHANGED log \/ \E e \in LogEvent : e.at = now /\ Publish(e)
  <2> DEFINE e == [kind |-> "tick", at |-> now]
  <2>1. e \in LogEvent /\ e.at = now
    BY <1>n DEF LogEvent
  <2>2. UNCHANGED <<now, reduced, storeVars>> /\ (Publish(e) \/ UNCHANGED log)
    BY <1>6 DEF Schedules, Refuse
  <2> HIDE DEF e
  <2> QED
    BY <2>1, <2>2
<1> QED
  BY <1>1, <1>2, <1>3, <1>4, <1>5, <1>6, SourceCases DEF storeVars

\* The times and the windows at the first n events
LEMMA ClocksAt ==
    ASSUME Types, Clocks
    PROVE  /\ DOMAIN log = 1..Len(log) /\ Len(log) \in Nat /\ reduced \in Nat /\ reduced <= Len(log)
           /\ \A i \in 1..Len(log) : log[i] \in LogEvent /\ log[i].at \in Nat
           /\ read \in Nat /\ now \in Nat
<1>1. \A e \in LogEvent : e.at \in Nat
  BY DEF LogEvent
<1> QED
  BY <1>1 DEF Types, Clocks

LEMMA LogGrows ==
    ASSUME Types, WindowsInv, NEW e \in LogEvent, e.at = now, Publish(e),
           UNCHANGED <<now, reduced, read, replayed, compared>>, store'.window = store.window
    PROVE  WindowsInv'
<1>1. /\ log' \in Seq(LogEvent) /\ Len(log') = Len(log) + 1 /\ Len(log) \in Nat
      /\ DOMAIN log = 1..Len(log) /\ DOMAIN log' = 1..Len(log) + 1
      /\ \A i \in 1..Len(log) : log'[i] = log[i]
      /\ log'[Len(log) + 1] = e
  BY PublishType
<1>2. /\ reduced \in Nat /\ reduced <= Len(log) /\ read \in Nat /\ now \in Nat
      /\ \A i \in 1..Len(log) : log[i].at \in Nat
  BY ClocksAt DEF WindowsInv
<1>3. \A i \in DOMAIN log' : i \in DOMAIN log \/ i = Len(log) + 1
  BY <1>1
<1>4. Clocks'
  <2>1. \A i \in DOMAIN log' : log'[i].at <= now
    BY <1>1, <1>2, <1>3 DEF WindowsInv, Clocks
  <2>2. \A i, j \in DOMAIN log' : i <= j => log'[i].at <= log'[j].at
    <3> SUFFICES ASSUME NEW i \in DOMAIN log', NEW j \in DOMAIN log', i <= j
                 PROVE  log'[i].at <= log'[j].at
      OBVIOUS
    <3>1. CASE j = Len(log) + 1
      BY <1>1, <2>1, <3>1
    <3>2. CASE j \in DOMAIN log
      <4>1. i \in DOMAIN log
        BY <1>1, <3>2
      <4> QED
        BY <1>1, <3>2, <4>1 DEF WindowsInv, Clocks
    <3> QED
      BY <1>3, <3>1, <3>2
  <2> QED
    BY <2>1, <2>2 DEF WindowsInv, Clocks
<1>5. WindowsFollow'
  <2>1. \A i \in 1..reduced : log'[i] = log[i]
    BY <1>1, <1>2
  <2>2. ASSUME NEW w \in Seconds
        PROVE  /\ Follows(store.window[w], w, log', reduced, read)
               /\ Follows(replayed.window[w], w, log', reduced, 0)
    <3>1. /\ Follows(store.window[w], w, log, reduced, read)
          /\ Follows(replayed.window[w], w, log, reduced, 0)
      BY DEF WindowsInv, WindowsFollow
    <3>2. PICK m : m = log'
      OBVIOUS
    <3>3. \A i \in 1..reduced : m[i] = log[i]
      BY <2>1, <3>2
    <3>4. /\ Follows(store.window[w], w, m, reduced, read)
          /\ Follows(replayed.window[w], w, m, reduced, 0)
      BY <1>2, <3>1, <3>3, FollowsKept
    <3> QED
      BY <3>2, <3>4
  <2> QED
    BY <2>2 DEF WindowsInv, WindowsFollow
<1>6. Compared'
  <2>1. compared.count \in Nat /\ compared.count <= Len(log) /\ compared.live.at \in Nat
    BY <1>1 DEF WindowsInv, Compared
  <2>2. compared'.count \in 0..Len(log')
    BY <1>1, <2>1
  <2>3. \A w \in Seconds : (TradesSince(compared.count, compared.live.at - w))' =
                           TradesSince(compared.count, compared.live.at - w)
    <3> SUFFICES ASSUME NEW w \in Seconds
                 PROVE  (TradesSince(compared.count, compared.live.at - w))' =
                        TradesSince(compared.count, compared.live.at - w)
      OBVIOUS
    <3>1. \A i \in 1..compared.count : log'[i] = log[i]
      BY <1>1, <2>1
    <3> QED
      BY <3>1 DEF TradesSince
  <2> QED
    BY <2>1, <2>2, <2>3 DEF WindowsInv, Compared, WindowsAreExact
<1> QED
  BY <1>4, <1>5, <1>6 DEF WindowsInv

LEMMA HealthFollows ==
    ASSUME Types, WindowsInv, HealthReads
    PROVE  WindowsInv'
<1>1. /\ store' = Read(store, now) /\ read' = now /\ IsStore(store)
      /\ UNCHANGED <<now, log, reduced, replayed, compared>>
  BY DEF HealthReads, sourceVars, Types
<1>2. /\ DOMAIN log = 1..Len(log) /\ Len(log) \in Nat /\ reduced \in Nat /\ reduced <= Len(log)
      /\ \A i \in 1..Len(log) : log[i].at \in Nat
      /\ read \in Nat /\ now \in Nat /\ read <= now
  BY ClocksAt DEF WindowsInv, Clocks
<1>3. Clocks'
  BY <1>1, <1>2 DEF WindowsInv, Clocks
<1>4. WindowsFollow'
  <2>1. store'.window = [w \in Seconds |-> Expire(store.window[w], now, w)]
    BY <1>1, ReadWindows
  <2>2. ASSUME NEW w \in Seconds
        PROVE  Follows(Expire(store.window[w], now, w), w, log, reduced, now)
    <3>1. w \in Nat /\ \A i \in 1..reduced : log[i].at \in Nat
      BY <1>2, SnapshotsAssumption
    <3>2. Follows(store.window[w], w, log, reduced, read)
      BY DEF WindowsInv, WindowsFollow
    <3>3. now <= now
      BY <1>2
    <3> QED
      BY <1>2, <3>1, <3>2, <3>3, FollowsExpired
  <2>3. store'.window = [w \in Seconds |-> store'.window[w]]
    BY <2>1
  <2>4. \A w \in Seconds : Follows(store'.window[w], w, log, reduced, now)
    BY <2>1, <2>2
  <2> QED
    BY <1>1, <2>3, <2>4 DEF WindowsInv, WindowsFollow
<1>5. Compared'
  <2>1. compared.live.at \in Nat
    BY DEF WindowsInv, Compared
  <2>2. WindowsAreExact'
    <3> SUFFICES ASSUME NEW w \in Seconds
                 PROVE  /\ compared.replayed.totals[w] =
                             TradesSince(compared.count, compared.live.at - w)
                        /\ compared.live.totals[w] <= compared.replayed.totals[w]
                        /\ compared.live.totals[w] < compared.replayed.totals[w] =>
                             read' > compared.live.at
      BY <1>1 DEF WindowsAreExact, TradesSince
    <3>1. /\ compared.replayed.totals[w] = TradesSince(compared.count, compared.live.at - w)
          /\ compared.live.totals[w] <= compared.replayed.totals[w]
          /\ compared.live.totals[w] < compared.replayed.totals[w] => read > compared.live.at
      BY DEF WindowsInv, Compared, WindowsAreExact
    <3>2. read > compared.live.at => read' > compared.live.at
      BY <1>1, <1>2, <2>1
    <3> QED
      BY <3>1, <3>2
  <2> QED
    BY <1>1, <2>2 DEF WindowsInv, Compared
<1> QED
  BY <1>1, <1>3, <1>4, <1>5 DEF WindowsInv

\* What the reducer takes: times and numbers
LEMMA Taken ==
    ASSUME Types, WindowsInv, Reduces
    PROVE  /\ reduced \in Nat /\ reduced' = reduced + 1 /\ reduced + 1 \in 1..Len(log)
           /\ log[reduced + 1] \in LogEvent /\ log[reduced + 1].at \in Nat
           /\ \A i \in 1..(reduced + 1) : log[i].at \in Nat /\ log[i].at <= log[reduced + 1].at
           /\ UNCHANGED <<now, log, read>>
           /\ read \in Nat /\ Len(log) \in Nat
<1>1. /\ DOMAIN log = 1..Len(log) /\ Len(log) \in Nat /\ reduced \in Nat
      /\ \A i \in 1..Len(log) : log[i] \in LogEvent /\ log[i].at \in Nat
      /\ read \in Nat
  BY ClocksAt DEF WindowsInv
<1>2. reduced' = reduced + 1 /\ reduced < Len(log) /\ UNCHANGED <<now, log, read>>
  BY DEF Reduces
<1>3. /\ reduced + 1 \in 1..Len(log)
      /\ \A i \in 1..(reduced + 1) : i \in 1..Len(log) /\ i <= reduced + 1
  BY <1>1, <1>2
<1>4. \A i \in 1..(reduced + 1) : log[i].at <= log[reduced + 1].at
  BY <1>1, <1>3 DEF WindowsInv, Clocks
<1> QED
  BY <1>1, <1>2, <1>3, <1>4

LEMMA EventFollows ==
    ASSUME Types, WindowsInv, Reduces, log[reduced'].kind # "tick"
    PROVE  WindowsInv'
<1>1. /\ reduced \in Nat /\ reduced' = reduced + 1 /\ reduced + 1 \in 1..Len(log)
      /\ log[reduced + 1] \in LogEvent /\ log[reduced + 1].at \in Nat
      /\ \A i \in 1..(reduced + 1) : log[i].at \in Nat /\ log[i].at <= log[reduced + 1].at
      /\ UNCHANGED <<now, log, read>> /\ read \in Nat
  BY Taken
<1> DEFINE e == log[reduced + 1]
<1>2. /\ store' = Applied(store, e) /\ replayed' = Applied(replayed, e) /\ UNCHANGED compared
      /\ IsStore(store) /\ IsStore(replayed) /\ e.kind # "tick"
  BY <1>1 DEF Reduces, Types, WindowsInv
<1>3. /\ store.window = [w \in Seconds |-> store.window[w]]
      /\ replayed.window = [w \in Seconds |-> replayed.window[w]]
  BY DEF WindowsInv, WindowsFollow
<1>4. ASSUME NEW st, IsStore(st), st.window = [w \in Seconds |-> st.window[w]], NEW r \in Nat,
             \A w \in Seconds : Follows(st.window[w], w, log, reduced, r)
      PROVE  \A w \in Seconds : Follows(Applied(st, e).window[w], w, log, reduced + 1, r)
  <2> SUFFICES ASSUME NEW w \in Seconds
               PROVE  Follows(Applied(st, e).window[w], w, log, reduced + 1, r)
    OBVIOUS
  <2>1. w \in Nat /\ Follows(st.window[w], w, log, reduced, r)
    BY <1>4, SnapshotsAssumption
  <2>2. Applied(st, e).window[w] = IF IsTrade(e) THEN Added(st.window[w], e.at, w)
                                   ELSE st.window[w]
    BY <1>1, <1>2, <1>4, AppliedWindows
  <2>3. CASE IsTrade(e)
    <3>1. Follows(Added(st.window[w], e.at, w), w, log, reduced + 1, r)
      BY <1>1, <1>4, <2>1, <2>3, FollowsAdded
    <3> QED
      BY <2>2, <2>3, <3>1
  <2>4. CASE ~IsTrade(e)
    <3>1. Follows(st.window[w], w, log, reduced + 1, r)
      BY <1>1, <2>1, <2>4, FollowsPassed
    <3> QED
      BY <2>2, <2>4, <3>1
  <2> QED
    BY <2>3, <2>4
<1>5. WindowsFollow'
  <2>1. /\ store'.window = [w \in Seconds |-> store'.window[w]]
        /\ replayed'.window = [w \in Seconds |-> replayed'.window[w]]
    <3> HIDE DEF e
    <3>1. e \in LogEvent /\ e.kind # "tick"
      BY <1>1, <1>2 DEF e
    <3>2. Applied(store, e).window = [w \in Seconds |-> Applied(store, e).window[w]]
      BY <1>2, <1>3, <3>1, AppliedWindows
    <3>3. Applied(replayed, e).window = [w \in Seconds |-> Applied(replayed, e).window[w]]
      BY <1>2, <1>3, <3>1, AppliedWindows
    <3> QED
      BY <1>2, <3>2, <3>3
  <2>2. \A w \in Seconds : Follows(Applied(store, e).window[w], w, log, reduced + 1, read)
    BY <1>1, <1>2, <1>3, <1>4 DEF WindowsInv, WindowsFollow
  <2>3. \A w \in Seconds : Follows(Applied(replayed, e).window[w], w, log, reduced + 1, 0)
    BY <1>1, <1>2, <1>3, <1>4 DEF WindowsInv, WindowsFollow
  <2> QED
    BY <1>1, <1>2, <2>1, <2>2, <2>3 DEF WindowsFollow
<1>6. Clocks'
  BY <1>1 DEF WindowsInv, Clocks
<1>7. Compared'
  BY <1>1, <1>2 DEF WindowsInv, Compared, WindowsAreExact, TradesSince
<1>8. IsStore(replayed')
  BY <1>1, <1>2, AppliedUp
<1> QED
  BY <1>5, <1>6, <1>7, <1>8 DEF WindowsInv

LEMMA TickFollows ==
    ASSUME Types, WindowsInv, Reduces, log[reduced'].kind = "tick"
    PROVE  WindowsInv'
<1>1. /\ reduced \in Nat /\ reduced' = reduced + 1 /\ reduced + 1 \in 1..Len(log)
      /\ log[reduced + 1] \in LogEvent /\ log[reduced + 1].at \in Nat
      /\ \A i \in 1..(reduced + 1) : log[i].at \in Nat /\ log[i].at <= log[reduced + 1].at
      /\ UNCHANGED <<now, log, read>> /\ read \in Nat /\ Len(log) \in Nat
  BY Taken
<1> DEFINE n == reduced + 1
           t == log[reduced + 1].at
<1>2. /\ store' = Read(store, t) /\ replayed' = Read(replayed, t)
      /\ compared' = [live |-> Snapshot(store', t), replayed |-> Snapshot(replayed', t),
                      count |-> n]
      /\ IsStore(store) /\ IsStore(replayed) /\ log[n].kind = "tick"
  BY <1>1 DEF Reduces, Types, WindowsInv
<1>3. n \in Nat /\ n \in 1..n /\ t \in Nat /\ ~IsTrade(log[n]) /\ n \in 0..Len(log)
  BY <1>1, <1>2 DEF IsTrade
<1>4. ASSUME NEW st, IsStore(st), NEW r \in Nat, NEW w \in Seconds,
             Follows(st.window[w], w, log, reduced, r)
      PROVE  LET win == Expire(st.window[w], t, w) IN
             /\ Read(st, t).window[w] = win
             /\ Follows(win, w, log, n, r)
             /\ win.total <= TradesOf(log, n, t - w)
             /\ r <= t => win.total = TradesOf(log, n, t - w)
  <2>1. w \in Nat /\ IsWindow(st.window[w])
    BY <1>4, SnapshotsAssumption DEF Follows
  <2>2. Follows(st.window[w], w, log, n, r)
    BY <1>1, <1>3, <1>4, FollowsPassed
  <2>3. r <= r /\ (\A i \in 1..n : log[i].at \in Nat) /\ \E i \in 1..n : t = log[i].at
    BY <1>1, <1>3
  <2>4. Follows(Expire(st.window[w], t, w), w, log, n, r)
    <3> HIDE DEF n, t
    <3> QED
      BY <1>3, <2>1, <2>2, <2>3, FollowsExpired
  <2>5. \A i \in 1..n : log[i].at \in Nat /\ log[i].at <= t
    BY <1>1
  <2>6. /\ Expire(st.window[w], t, w).total <= TradesOf(log, n, t - w)
        /\ r <= t => Expire(st.window[w], t, w).total = TradesOf(log, n, t - w)
    <3> HIDE DEF n, t
    <3>1. PICK win : win = st.window[w]
      OBVIOUS
    <3>2. IsWindow(win) /\ Follows(Expire(win, t, w), w, log, n, r)
      BY <2>1, <2>4, <3>1
    <3>3. Expire(win, t, w).total <= TradesOf(log, n, t - w)
      BY <1>3, <2>1, <2>5, <3>2, FollowsSays
    <3>4. r <= t => Expire(win, t, w).total = TradesOf(log, n, t - w)
      BY <1>3, <2>1, <2>5, <3>2, FollowsSays
    <3> QED
      BY <3>1, <3>3, <3>4
  <2>7. Read(st, t).window[w] = Expire(st.window[w], t, w)
    <3> HIDE DEF t
    <3>1. Read(st, t).window = [v \in Seconds |-> Expire(st.window[v], t, v)]
      BY <1>4, ReadWindows
    <3> QED
      BY <3>1
  <2> QED
    BY <2>4, <2>6, <2>7
<1>5. ASSUME NEW w \in Seconds
      PROVE  /\ Follows(store'.window[w], w, log, n, read)
             /\ Follows(replayed'.window[w], w, log, n, 0)
             /\ store'.window[w].total <= TradesOf(log, n, t - w)
             /\ read <= t => store'.window[w].total = TradesOf(log, n, t - w)
             /\ replayed'.window[w].total = TradesOf(log, n, t - w)
  <2>1. /\ Follows(store.window[w], w, log, reduced, read)
        /\ Follows(replayed.window[w], w, log, reduced, 0)
    BY DEF WindowsInv, WindowsFollow
  <2>2. 0 \in Nat /\ 0 <= t
    BY <1>3
  <2> HIDE DEF n, t
  <2>3. /\ Follows(store'.window[w], w, log, n, read)
        /\ store'.window[w].total <= TradesOf(log, n, t - w)
        /\ read <= t => store'.window[w].total = TradesOf(log, n, t - w)
    BY <1>1, <1>2, <1>4, <2>1
  <2>4. /\ Follows(replayed'.window[w], w, log, n, 0)
        /\ 0 <= t => replayed'.window[w].total = TradesOf(log, n, t - w)
    BY <1>2, <1>4, <2>1, <2>2
  <2> QED
    BY <2>2, <2>3, <2>4
<1>6. WindowsFollow'
  <2>1. /\ store'.window = [w \in Seconds |-> store'.window[w]]
        /\ replayed'.window = [w \in Seconds |-> replayed'.window[w]]
    <3> HIDE DEF t
    <3>1. /\ Read(store, t).window = [w \in Seconds |-> Expire(store.window[w], t, w)]
          /\ Read(replayed, t).window = [w \in Seconds |-> Expire(replayed.window[w], t, w)]
      BY <1>2, ReadWindows
    <3> QED
      BY <1>2, <3>1
  <2> QED
    BY <1>1, <1>5, <2>1 DEF WindowsFollow
<1>7. Clocks'
  BY <1>1 DEF WindowsInv, Clocks
<1>8. Compared'
  <2>1. /\ compared'.count = n /\ compared'.live.at = t
        /\ compared'.live.totals = [w \in Seconds |-> store'.window[w].total]
        /\ compared'.replayed.totals = [w \in Seconds |-> replayed'.window[w].total]
    BY <1>2 DEF Snapshot
  <2>2. ASSUME NEW w \in Seconds
        PROVE  /\ compared'.replayed.totals[w] = TradesOf(log, n, t - w)
               /\ compared'.live.totals[w] <= compared'.replayed.totals[w]
               /\ compared'.live.totals[w] < compared'.replayed.totals[w] => read > t
    <3>1. TradesOf(log, n, t - w) \in Nat
      <4>1. t - w \in Int
        BY <1>3, SnapshotsAssumption
      <4> QED
        BY <1>3, <4>1, TradesFinite
    <3>2. /\ compared'.live.totals[w] = store'.window[w].total
          /\ compared'.replayed.totals[w] = replayed'.window[w].total
      BY <2>1
    <3>3. ~(read <= t) => read > t
      BY <1>1, <1>3
    <3> HIDE DEF n, t
    <3> QED
      BY <1>5, <3>1, <3>2, <3>3
  <2>3. \A w \in Seconds : (TradesSince(compared.count, compared.live.at - w))' =
                           TradesOf(log, n, t - w)
    BY <1>1, <2>1 DEF TradesSince, TradesOf, IsTrade
  <2>4. WindowsAreExact'
    <3> HIDE DEF n, t
    <3> QED
      BY <1>1, <2>1, <2>2, <2>3 DEF WindowsAreExact
  <2> QED
    BY <1>1, <1>3, <2>1, <2>4 DEF Compared
<1>9. IsStore(replayed')
  BY <1>2, ReadUp
<1> QED
  BY <1>6, <1>7, <1>8, <1>9 DEF WindowsInv

LEMMA WindowsStep == Types /\ WindowsInv /\ [Next]_vars => WindowsInv'
<1> SUFFICES ASSUME Types, WindowsInv, [Next]_vars PROVE WindowsInv'
  OBVIOUS
<1>1. CASE SourcesRun \/ Schedules
  <2>1. /\ UNCHANGED <<now, reduced, read, replayed, compared>> /\ store'.window = store.window
        /\ UNCHANGED log \/ \E e \in LogEvent : e.at = now /\ Publish(e)
    BY <1>1, OnlyLog
  <2>2. CASE UNCHANGED log
    BY <2>1, <2>2 DEF WindowsInv, Clocks, WindowsFollow, Compared, WindowsAreExact, TradesSince
  <2>3. CASE \E e \in LogEvent : e.at = now /\ Publish(e)
    BY <2>1, <2>3, LogGrows
  <2> QED
    BY <2>1, <2>2, <2>3
<1>2. CASE HealthReads
  BY <1>2, HealthFollows
<1>3. CASE Reduces
  BY <1>3, EventFollows, TickFollows
<1>4. CASE Passes
  <2>1. /\ UNCHANGED <<log, reduced, store, replayed, compared, read>> /\ now' = now + 1
        /\ now \in Nat
    BY <1>4 DEF Passes, storeVars, Types
  <2>2. Clocks'
    <3>1. read \in Nat /\ \A i \in DOMAIN log : log[i].at \in Nat
      BY ClocksAt DEF WindowsInv
    <3> QED
      BY <2>1, <3>1 DEF WindowsInv, Clocks
  <2> QED
    BY <2>1, <2>2 DEF WindowsInv, WindowsFollow, Compared, WindowsAreExact, TradesSince
<1>5. ASSUME NEW i \in Subscribers, Subscribes(i) \/ Takes(i) \/ Asks(i) \/ TimesOut(i)
      PROVE  UNCHANGED <<sourceVars, storeVars>>
  BY <1>5 DEF Subscribes, Takes, Asks, TimesOut, Sub
<1>6. ASSUME StopsPublisher \/ StopsAll \/ UNCHANGED vars
      PROVE  UNCHANGED <<sourceVars, storeVars>>
  BY <1>6 DEF StopsPublisher, StopsAll, vars
<1>7. CASE UNCHANGED <<sourceVars, storeVars>>
  BY <1>7 DEF WindowsInv, Clocks, WindowsFollow, Compared, WindowsAreExact, TradesSince, sourceVars,
              storeVars
<1> QED
  BY <1>1, <1>2, <1>3, <1>4, <1>5, <1>6, <1>7 DEF Next

LEMMA WindowsInit == Init => WindowsInv
<1> SUFFICES ASSUME Init PROVE WindowsInv
  OBVIOUS
<1>1. /\ log = <<>> /\ reduced = 0 /\ DOMAIN log = {} /\ Len(log) = 0 /\ read = 0 /\ now = 0
      /\ store = FreshStore /\ replayed = FreshStore
      /\ compared.count = 0 /\ compared.live.at = 0
      /\ \A w \in Seconds : compared.live.totals[w] = 0 /\ compared.replayed.totals[w] = 0
  BY DEF Init, SourceInit, NoSnapshot
<1>2. Clocks
  BY <1>1 DEF Clocks
<1>3. IsStore(replayed)
  BY <1>1 DEF FreshStore, IsStore
<1>4. ASSUME NEW l, NEW c \in Int PROVE RowsSince(<<>>, c) = 0 /\ TradesOf(l, 0, c) = 0
  <2>1. /\ {k \in DOMAIN <<>> : <<>>[k] >= c} = {}
        /\ {i \in 1..0 : IsTrade(l[i]) /\ l[i].at >= c} = {}
    OBVIOUS
  <2> QED
    BY <2>1, FS_EmptySet DEF RowsSince, TradesOf
<1>5. ASSUME NEW w \in Seconds PROVE Follows(NoWindow, w, log, 0, 0)
  <2>1. IsWindow(NoWindow) /\ NoWindow.rows = <<>> /\ DOMAIN NoWindow.rows = {}
    BY DEF IsWindow, NoWindow
  <2>2. \A c \in Int : RowsSince(NoWindow.rows, c) = 0 /\ TradesOf(log, 0, c) = 0
    BY <1>4, <2>1
  <2> QED
    BY <2>1, <2>2 DEF Follows
<1>6. WindowsFollow
  <2>1. /\ store.window = [w \in Seconds |-> NoWindow]
        /\ replayed.window = [w \in Seconds |-> NoWindow]
    BY <1>1 DEF FreshStore
  <2> QED
    BY <1>1, <1>5, <2>1 DEF WindowsFollow
<1>7. WindowsAreExact
  <2>1. ASSUME NEW w \in Seconds PROVE TradesSince(0, 0 - w) = 0
    <3>1. {i \in 1..0 : log[i].kind = "price" /\ log[i].source = "binance" /\ log[i].at >= 0 - w} = {}
      OBVIOUS
    <3> QED
      BY <3>1, FS_EmptySet DEF TradesSince
  <2> QED
    BY <1>1, <2>1 DEF WindowsAreExact
<1>8. Compared
  BY <1>1, <1>7 DEF Compared
<1> QED
  BY <1>2, <1>3, <1>6, <1>8 DEF WindowsInv

-----------------------------------------------------------------------------
LEMMA InitInvariant == Init => IInv
<1> SUFFICES ASSUME Init PROVE IInv
  OBVIOUS
<1>0. log = <<>> /\ reduced = 0 /\ DOMAIN log = {} /\ log \in Seq(LogEvent) /\ Len(log) = 0
  BY DEF Init, SourceInit
<1>1. Types
  <2>1. IsStore(store)
    BY DEF Init, FreshStore, IsStore
  <2>2. subs \in [Subscribers -> Subscriber]
    BY DEF Init, Subscriber
  <2>3. reduced \in 0..Len(log)
    BY <1>0
  <2> QED
    BY <1>0, <2>1, <2>2, <2>3 DEF Types, Init, SourceInit
<1>2. PricesSeen /\ PricesInOrder
  BY <1>0 DEF Init, SourceInit, PricesSeen, PricesInOrder
<1>3. ClobFlag /\ DirectFlags
  BY <1>0 DEF Init, SourceInit, FreshStore, ClobFlag, DirectFlags, Sources
<1>4. \A i \in Subscribers : Good(subs[i], published)
  BY DEF Init, Good
<1>5. Bounds
  <2>1. MaxTime \in Nat /\ MaxMessage \in Nat /\ StateCap \in Nat /\ SubscriberCap \in Nat
    BY SnapshotsAssumption
  <2>2. \A i \in Subscribers : Len(subs[i].queue) <= SubscriberCap
    BY <2>1 DEF Init
  <2>3. active \in Active /\ now <= MaxTime /\ {stop, stopping} \subseteq BOOLEAN
    <3>1. active \in Active /\ stop \in BOOLEAN /\ stopping \in BOOLEAN
      BY DEF Init, SourceInit
    <3>2. now <= MaxTime
      <4>1. now = 0
        BY DEF Init, SourceInit
      <4> QED
        BY <2>1, <4>1
    <3> QED
      BY <3>1, <3>2
  <2>4. last \in [Direct -> 0..MaxMessage] /\ seen \subseteq (1..MaxMessage) \X (1..MaxMessage)
    BY <2>1 DEF Init, SourceInit
  <2>5. Len(log) - reduced <= StateCap
    <3>1. Len(log) = 0 /\ reduced = 0
      BY <1>0
    <3> QED
      BY <2>1, <3>1
  <2> QED
    BY <2>2, <2>3, <2>4, <2>5 DEF Bounds
<1> QED
  BY <1>1, <1>2, <1>3, <1>4, <1>5, AllGood, WindowsInit DEF IInv

\* The invariant of the proofs: types, what the Chainlink source remembers, what
\* the CLOB source wants its flag to be, the numbers in a subscriber's queue, and
\* how many trades a rolling window has lost since any time.
THEOREM Invariance == Spec => []IInv
<1>1. IInv /\ [Next]_vars => IInv'
  BY TypesStep, BoundsStep, PricesStep, ClobFlagStep, DirectFlagsStep, SubscribersStep,
     WindowsStep DEF IInv
<1> QED
  BY <1>1, InitInvariant, PTL DEF Spec

\* TypeOK, for any bounds on messages, events and time.
THEOREM TypeCorrect == Spec => []TypeOK
<1>1. IInv => TypeOK
  <2>1. SUFFICES ASSUME IInv PROVE TypeOK
    OBVIOUS
  <2>2. \A i \in Subscribers :
          /\ subs[i].pc \in {"none", "waiting", "busy", "ended", "raised"}
          /\ Len(subs[i].queue) <= SubscriberCap
    BY <2>1 DEF IInv, Types, Bounds, Subscriber
  <2>3. now \in 0..MaxTime
    BY <2>1, SnapshotsAssumption DEF IInv, Types, Bounds
  <2> QED
    BY <2>1, <2>2, <2>3 DEF IInv, Types, Bounds, TypeOK
<1> QED
  BY <1>1, Invariance, PTL

\* Messages of Chainlink are in the log once and in the order of their payload times,
\* whatever connections are lost and events refused.
THEOREM PriceOrderHolds == Spec => []PricesInOrder
<1>1. IInv => PricesInOrder
  BY DEF IInv
<1> QED
  BY <1>1, Invariance, PTL

\* When the log has been reduced, the flag of each source is what its loop says,
\* although the CLOB source's flag is set from two sides.
THEOREM FlagsHold == Spec => []FlagsSettle
<1>1. IInv => FlagsSettle
  <2>1. SUFFICES ASSUME IInv, reduced = Len(log), NEW s \in Sources
                 PROVE  /\ conn[s] = "reading" => store.up[s]
                        /\ conn[s] = "idle" => ~store.up[s]
    BY DEF FlagsSettle
  <2>2. CASE s \in Direct
    BY <2>1, <2>2 DEF IInv, DirectFlags
  <2>3. CASE s = Clob
    <3>1. \A i \in DOMAIN log : ~Pending(i)
      BY <2>1 DEF Pending, IInv, Types
    <3> QED
      BY <2>1, <2>3, <3>1 DEF IInv, ClobFlag
  <2> QED
    BY <2>1, <2>2, <2>3 DEF Sources
<1> QED
  BY <1>1, Invariance, PTL

\* A replayed snapshot has exactly the trades of its window, for any lengths of the
\* windows, and a live one misses some only when the health writer has read the
\* store after the time of the snapshot.
THEOREM WindowsHold == Spec => []WindowsAreExact
<1>1. IInv => WindowsAreExact
  BY DEF IInv, WindowsInv, Compared
<1> QED
  BY <1>1, Invariance, PTL

\* A subscriber gets consecutive snapshots from its subscription on, for any
\* capacity and number of subscribers.
THEOREM SubscribersHold == Spec => []SubscribersInOrder
<1>1. IInv => SubscribersInOrder
  BY DEF IInv
<1> QED
  BY <1>1, Invariance, PTL

=============================================================================
