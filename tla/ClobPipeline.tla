----------------------------- MODULE ClobPipeline -----------------------------
(***************************************************************************)
(* The order books from the exchange to the snapshot: market discovery,    *)
(* the market manager of the gateway, the CLOB source, the queue of        *)
(* published events and the reducer with its StateStore.                   *)
(*                                                                         *)
(* Markets are numbered in the order in which discovery finds them; what   *)
(* it may report is MarketWindows, which the module Discovery implements.  *)
(***************************************************************************)
EXTENDS ClobSource

CONSTANTS Streams, NoContext, NoBook, Empty, Wrong

VARIABLES
    window,          \* per timeframe, what discovery last reported
    latest,          \* per timeframe, the newest market it has reported
    manager,         \* _market_manager: running, or dead
    told,            \* per timeframe, the last window whose event was accepted
    contexts, books, session, feed                 \* of the StateStore

NoMarket == 0
NoSession == 0
Sessions == 1..MaxSessions

Store == INSTANCE StateStore

Discovery == INSTANCE MarketWindows
    WITH MarketsOf <- [tf \in Timeframes |-> {m \in Markets : TimeframeOf[m] = tf}]

\* Markets are numbers from 1 on; the values that stand for no context, no book,
\* no levels and wrong levels are not contexts, books and versions.
ASSUME PipelineAssumption ==
    /\ Markets \subseteq Nat \ {NoMarket}
    /\ TimeframeOf \in [Markets -> Timeframes]
    /\ IsFiniteSet(Outcomes)
    /\ NoContext \notin Store!Context
    /\ NoBook \notin Store!Book
    /\ Empty \notin Versions /\ Wrong \notin Versions /\ Empty # Wrong

managerVars == <<window, latest, manager, told>>
storeVars == <<contexts, books, session, feed>>
vars == <<sourceVars, managerVars, storeVars>>

Init ==
    /\ SourceInit
    /\ Discovery!Init
    /\ manager = "running" /\ told = window
    /\ contexts = [tf \in Timeframes |-> NoContext]
    /\ books = [a \in Assets |-> NoBook]
    /\ session = NoSession
    /\ feed = [s \in Streams |-> "fresh"]

-----------------------------------------------------------------------------
(* Discovery and the market manager.                                       *)

\* Mutant of WindowEvent: the reducer is not told of the next market.
WindowEventWithoutNext(tf, w) ==
    [kind |-> "window", timeframe |-> tf, context |-> [w EXCEPT !.next = NoMarket]]

\* The MARKET_WINDOW_STATE event of a window
WindowEvent(tf, w) == [kind |-> "window", timeframe |-> tf, context |-> w]

\* _market_manager: on_market_snapshot(), and the call of publish() for the event
\* that tells the reducer.  There is no await between the two.
Snapshot(tf, w) ==
    /\ manager = "running"
    /\ Discovery!Report(tf, w)
    /\ OnMarketSnapshot(tf, w.current, w.next)
    /\ UNCHANGED <<runVars, frame, subs, netVars, connected, storeVars>>

Manage(tf) ==
    \E w \in Discovery!Following(tf, window[tf]) :
        /\ Snapshot(tf, w)
        /\ Publish(WindowEvent(tf, w))
        /\ told' = [told EXCEPT ![tf] = w]
        /\ UNCHANGED manager

\* The queues stay full beyond the deadline.  The assets are desired, the reducer
\* is never told, and the manager is dead; the sources go on until the shutdown
\* that follows reaches them.
ManageFails(tf) ==
    \E w \in Discovery!Following(tf, window[tf]) :
        /\ Snapshot(tf, w)
        /\ PublishFails
        /\ manager' = "dead"
        /\ UNCHANGED told

-----------------------------------------------------------------------------
(* The reducer.                                                            *)

ReduceStatus(e) == e.kind = "status" /\ Store!ApplyStatus(e.up, e.session)

ReduceWindow(e) == e.kind = "window" /\ Store!ApplyWindow(e.timeframe, e.context)

ReduceBook(e) ==
    /\ e.kind = "book"
    /\ \/ Store!Ignore(e.asset, e.session)
       \/ Store!ApplyBook(e.asset, e.session, e.version)

ReduceChange(e) ==
    /\ e.kind = "change"
    /\ \/ Store!Ignore(e.asset, e.session)
       \/ Store!ApplyPriceChange(e.asset, e.session, e.version)

Reduce ==
    /\ line # <<>>
    /\ line' = Tail(line)
    /\ LET e == Head(line) IN
         ReduceStatus(e) \/ ReduceWindow(e) \/ ReduceBook(e) \/ ReduceChange(e)
    /\ UNCHANGED <<runVars, assetVars, frame, subs, netVars, managerVars>>

-----------------------------------------------------------------------------
Alone(A) == A /\ UNCHANGED <<managerVars, storeVars>>

Next ==
    \/ Alone(Run)
    \/ Alone(Subscriptions)
    \/ Alone(Exchange)
    \/ Reduce
    \/ \E tf \in Timeframes : Manage(tf) \/ ManageFails(tf)

Spec == Init /\ [][Next]_vars

\* The event loop runs every task that can run; a connection that is asked for
\* again and again is accepted some time; and grace periods come to an end.
FairSpec ==
    /\ Spec
    /\ WF_vars(Reduce)
    /\ WF_vars(Alone(Run)) /\ SF_vars(Alone(Connect))
    /\ WF_vars(Alone(SubsAdd)) /\ WF_vars(Alone(SubsRemove))
    /\ SF_vars(Alone(SubsWake(retiring)))

-----------------------------------------------------------------------------
(* Properties.                                                             *)

Initialized(a) == books[a] # NoBook /\ books[a].initialized

\* Nothing is under way: what was sent has been read, and what was published
\* has been reduced.
Settled == /\ pc = "reading" /\ link = "up"
           /\ frame = <<>> /\ inbox = <<>> /\ line = <<>>

TypeOK ==
    /\ pc \in {"start", "connecting", "announcing", "subscribing", "reading",
               "backoff", "closing", "dead"}
    /\ sid \in 0..MaxSessions /\ opened \in BOOLEAN
    /\ initial \subseteq Assets
    /\ desired \subseteq Assets /\ subscribed \subseteq Assets
    /\ assets \subseteq Assets /\ retiring \subseteq Assets
    /\ link \in {"down", "up", "lost"} /\ listed \subseteq Assets
    /\ version \in [Assets -> Versions]
    /\ Len(line) <= MaxLine /\ manager \in {"running", "dead"}
    /\ Store!TypeOK

\* The local book of an asset always equals some book the exchange had: lost
\* connections, lost frames, refused events, late events of an old session and
\* repeated subscriptions never leave a book that misses a change.
NeverAWrongBook == \A a \in Assets : Initialized(a) => books[a].content # Wrong

\* Once everything under way has arrived, a book that the exchange keeps
\* sending is the exchange's book.  The exception: after a refused window the
\* store may keep the book of an asset that the source has retired.
SettledBooksAgree ==
    Settled => \A a \in listed :
        Initialized(a) => \/ books[a].content = version[a]
                          \/ manager = "dead" /\ a \notin desired

\* The assets that such windows, one per timeframe, ask for
AskedBy(windows) == {a \in Assets : \E tf \in Timeframes :
                                       a[1] \in {windows[tf].current, windows[tf].next}}

\* The reducer hears of a market before it sees the first event of one of its
\* assets, so no full book is thrown away for coming too early.  The exception is
\* a market of which it never hears: that of the one window whose event was
\* refused, unless the window before has named it.
WindowBeforeBooks ==
    \A i \in DOMAIN line :
        line[i].kind \in {"book", "change"} =>
          LET a == line[i].asset IN
          a \in desired \ retiring =>
            \/ Store!Referenced(a)
            \/ manager = "dead" /\ a \notin AskedBy(told)
            \/ \E j \in 1..(i - 1) : /\ line[j].kind = "window"
                                     /\ a[1] \in {line[j].context.current, line[j].context.next}

\* The source knows what it subscribes to: a message of a desired asset is
\* never taken for a message of an unknown one.
DesiredIsKnown == desired \cup retiring \subseteq assets

\* The assets that the windows reported last ask for
Wanted == AskedBy(window)

\* A publication that was refused has ended a task for good; the service stops.
Stopping == pc = "dead" \/ manager = "dead"

\* When connections are no longer lost, the exchange comes to send exactly what
\* the windows ask for: nothing is left out after a change that races with a
\* connection, and nothing stays subscribed.
SubscriptionsConverge ==
    \/ <>[]Stopping
    \/ []<>(Wanted = {})
    \/ <>[](pc = "reading" /\ listed = Wanted)

\* And every asset that stays wanted gets its book, and keeps it.
BooksArrive ==
    \A a \in Assets :
        \/ <>[]Stopping
        \/ []<>(a \notin Wanted)
        \/ <>[](Store!Usable(a))

\* What the documentation says of ready_for_strategy: a required source is
\* connected.  The code does not keep to it: the flag is cleared only after
\* the back-off.
ReadyMeansConnected == Store!Ready => pc # "backoff"

=============================================================================
