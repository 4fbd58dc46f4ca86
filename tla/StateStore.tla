------------------------------ MODULE StateStore ------------------------------
(***************************************************************************)
(* The live state (market_data/state.py): the discovery context of each    *)
(* timeframe, the local CLOB order books, the CLOB session the reducer is  *)
(* in, and what the readiness of a snapshot is computed from.              *)
(*                                                                         *)
(* One action is one call of StateStore.apply(), which never suspends.     *)
(*                                                                         *)
(* An asset <<m, o>> is the token of outcome o of market m, so it carries  *)
(* its market, condition, timeframe and outcome.  The levels of a book are *)
(* abstracted to the version of the exchange's book they equal: a full     *)
(* book brings version v, a price change leads from v - 1 to v, and a book *)
(* that equals no version is Wrong.                                        *)
(***************************************************************************)
EXTENDS Naturals

CONSTANTS
    Timeframes,
    Markets,         \* the markets discovery may report
    Outcomes,        \* {up, down}
    TimeframeOf,     \* the timeframe of each market
    Sessions,        \* CLOB session identifiers
    Versions,        \* versions of an exchange book, a set of naturals
    Streams,         \* the price streams a snapshot needs
    NoMarket, NoContext, NoBook, NoSession, Empty, Wrong

ASSUME TimeframeOfAssumption == TimeframeOf \in [Markets -> Timeframes]
ASSUME VersionsAssumption == Versions \subseteq Nat
ASSUME NullsAssumption ==
    /\ NoMarket \notin Markets
    /\ NoSession \notin Sessions
    /\ Empty \notin Versions /\ Wrong \notin Versions /\ Empty # Wrong

VARIABLES
    contexts,        \* _contexts: the last window state of each timeframe
    books,           \* _books_by_asset
    session,         \* _current_clob_session_id
    connected,       \* HealthRegistry: the CLOB source is connected
    feed             \* per stream: never received, fresh or stale

stateVars == <<contexts, books, session, connected, feed>>

Assets == Markets \X Outcomes
DivergenceLimit == 3

Contents == Versions \cup {Empty, Wrong}
Context == [active : BOOLEAN, current : Markets \cup {NoMarket},
            next : Markets \cup {NoMarket}]
Book == [initialized : BOOLEAN, coherent : BOOLEAN, resolved : BOOLEAN,
         divergence : 0..DivergenceLimit, session : Sessions \cup {NoSession},
         content : Contents]

ASSUME NoBookAssumption == NoBook \notin Book

Init ==
    /\ contexts = [tf \in Timeframes |-> NoContext]
    /\ books = [a \in Assets |-> NoBook]
    /\ session = NoSession
    /\ connected = FALSE
    /\ feed = [s \in Streams |-> "missing"]

-----------------------------------------------------------------------------
(* Helpers.                                                                *)

\* _asset_is_referenced, for the contexts ctx
ReferencedBy(ctx, a) ==
    \E tf \in Timeframes :
        ctx[tf] # NoContext /\ a[1] \in {ctx[tf].current, ctx[tf].next}

Referenced(a) == ReferencedBy(contexts, a)

\* The values _coherent() can have: an exchange book is not crossed.
Coherent(content) == IF content = Wrong THEN BOOLEAN ELSE {TRUE}

\* Mutant of NewBook: the levels of a new book are not set.
NewBookUnset(s) ==
    [initialized |-> FALSE, coherent |-> TRUE, resolved |-> FALSE,
     divergence |-> 0, session |-> s, content |-> NoBook]

\* A new _Book, as apply() creates it for the first event of an asset.
NewBook(s) ==
    [initialized |-> FALSE, coherent |-> TRUE, resolved |-> FALSE,
     divergence |-> 0, session |-> s, content |-> Empty]

BookFor(a, s) == IF books[a] = NoBook THEN NewBook(s) ELSE books[a]

\* Mutant of Invalidated: a reconnect forgets that the market is resolved.
InvalidatedAfresh(b) == IF b = NoBook THEN NoBook ELSE NewBook(NoSession)

\* Mutant of Invalidated: a reconnect keeps the levels as a book to go on from.
InvalidatedKeepingLevels(b) ==
    IF b = NoBook THEN NoBook
    ELSE [b EXCEPT !.coherent = FALSE, !.divergence = 0, !.session = NoSession]

\* _invalidate_clob_books, for one book
Invalidated(b) ==
    IF b = NoBook THEN NoBook
    ELSE [b EXCEPT !.initialized = FALSE, !.coherent = FALSE,
                   !.divergence = 0, !.session = NoSession, !.content = Empty]

\* Mutant of Stale: an event of another session is applied.
StaleNever(s) == FALSE

\* The session filter of apply()
Stale(s) == session # NoSession /\ s # session

-----------------------------------------------------------------------------
(* One operator per kind of event.                                         *)

\* SOURCE_STATUS of the CLOB source
ApplyStatus(up, s) ==
    /\ connected' = up
    /\ books' = IF ~up \/ s # session
                  THEN [a \in Assets |-> Invalidated(books[a])]
                  ELSE books
    /\ session' = IF up THEN s ELSE session
    /\ UNCHANGED <<contexts, feed>>

\* Mutant of Pruned: books of markets that are over are kept.
PrunedNever(ctx) == books

\* Mutant of Pruned: the books of next markets go too.
PrunedToCurrent(ctx) ==
    [a \in Assets |-> IF \E tf \in Timeframes : ctx[tf] # NoContext /\ ctx[tf].current = a[1]
                        THEN books[a] ELSE NoBook]

\* The books left when the contexts are ctx
Pruned(ctx) == [a \in Assets |-> IF ReferencedBy(ctx, a) THEN books[a] ELSE NoBook]

\* MARKET_WINDOW_STATE: a new context, and the books nobody refers to go.
ApplyWindow(tf, context) ==
    /\ contexts' = [contexts EXCEPT ![tf] = context]
    /\ books' = Pruned(contexts')
    /\ UNCHANGED <<session, connected, feed>>

\* A CLOB event that gets as far as the book of asset a, which becomes b.
SetBook(a, s, b) ==
    /\ ~Stale(s)
    /\ Referenced(a)
    /\ books' = [books EXCEPT ![a] = b]
    /\ UNCHANGED <<contexts, session, connected, feed>>

\* A CLOB event that apply() ignores: of another session, or of an asset that
\* no context refers to.
Ignore(a, s) ==
    /\ Stale(s) \/ ~Referenced(a)
    /\ UNCHANGED stateVars

ApplyBook(a, s, v) ==
    \E c \in Coherent(v) :
        SetBook(a, s, [BookFor(a, s) EXCEPT !.initialized = TRUE, !.coherent = c,
                           !.divergence = 0, !.session = s, !.content = v])

\* What the change to version v can make of a book.  Levels are absolute: a
\* change that the book already contains is harmless, and a change to the one
\* level that is wrong corrects the book.
Changed(content, v) == IF content \in {v, v - 1} THEN {v} ELSE {v, content, Wrong}

ApplyPriceChange(a, s, v) ==
    LET b == BookFor(a, s) IN
    IF ~b.initialized
      THEN SetBook(a, s, b)
      ELSE \E w \in Changed(b.content, v) : \E c \in Coherent(w) :
               SetBook(a, s, [b EXCEPT !.content = w, !.coherent = c])

\* A third mismatch, and any later one, makes the book incoherent.
Diverged(b) ==
    LET count == IF b.divergence < DivergenceLimit THEN b.divergence + 1
                                                   ELSE DivergenceLimit IN
    [b EXCEPT !.divergence = count,
              !.coherent = IF count = DivergenceLimit THEN FALSE ELSE @]

\* The best prices of an other book than v may be those of v all the same.
ApplyBestBidAsk(a, s, v) ==
    LET b == BookFor(a, s) IN
    \/ /\ ~b.initialized
       /\ SetBook(a, s, b)
    \/ /\ b.initialized
       /\ b.content # v
       /\ SetBook(a, s, Diverged(b))
    \/ /\ b.initialized
       /\ SetBook(a, s, IF b.coherent THEN [b EXCEPT !.divergence = 0] ELSE b)

ApplyResolved(a, s) == SetBook(a, s, [BookFor(a, s) EXCEPT !.resolved = TRUE])

\* Last trade and tick size: no part in readiness, but the book is created.
ApplyOther(a, s) == SetBook(a, s, BookFor(a, s))

\* A Chainlink or Binance event; and the time that makes it stale.  The book
\* ticker has no threshold: it is required, never stale.
ApplyFeed(s) ==
    /\ feed' = [feed EXCEPT ![s] = "fresh"]
    /\ UNCHANGED <<contexts, books, session, connected>>

FeedAges(s) ==
    /\ feed[s] = "fresh"
    /\ s # "ticker"
    /\ feed' = [feed EXCEPT ![s] = "stale"]
    /\ UNCHANGED <<contexts, books, session, connected>>

-----------------------------------------------------------------------------
(* What snapshot() says.                                                   *)

\* _timeframe_snapshot is not None
Exposed(tf) == contexts[tf] # NoContext /\ contexts[tf].current # NoMarket

ExposedAssets(tf) == {contexts[tf].current} \X Outcomes

Usable(a) == books[a] # NoBook /\ books[a].initialized /\ books[a].coherent
Resolved(a) == books[a] # NoBook /\ books[a].resolved

MarketReady(tf) ==
    /\ contexts[tf].active
    /\ \A a \in ExposedAssets(tf) : Usable(a) /\ ~Resolved(a)

\* ready_for_strategy.  (The connection flags of Chainlink and Binance come
\* with their streams: a source that is down is modelled as stale.)
Ready ==
    /\ connected
    /\ \A s \in Streams : feed[s] = "fresh"
    /\ \E tf \in Timeframes : Exposed(tf)
    /\ \A tf \in Timeframes : Exposed(tf) => MarketReady(tf)

-----------------------------------------------------------------------------
(* The reducer fed with any events whatever.                               *)

Windows(tf) ==
    LET ms == {m \in Markets : TimeframeOf[m] = tf} \cup {NoMarket} IN
    {c \in Context : /\ c.current \in ms /\ c.next \in ms
                     /\ c.current = c.next => c.current = NoMarket
                     /\ c.active => c.current # NoMarket}

ClobEvent(a, s) ==
    \/ Ignore(a, s)
    \/ \E v \in Versions : \/ ApplyBook(a, s, v)
                           \/ ApplyPriceChange(a, s, v)
                           \/ ApplyBestBidAsk(a, s, v)
    \/ ApplyResolved(a, s)
    \/ ApplyOther(a, s)

Next ==
    \/ \E s \in Sessions, up \in BOOLEAN : ApplyStatus(up, s)
    \/ \E tf \in Timeframes : \E c \in Windows(tf) : ApplyWindow(tf, c)
    \/ \E a \in Assets, s \in Sessions : ClobEvent(a, s)
    \/ \E s \in Streams : ApplyFeed(s) \/ FeedAges(s)

Spec == Init /\ [][Next]_stateVars

-----------------------------------------------------------------------------
(* Properties, of any sequence of events.                                  *)

TypeOK ==
    /\ contexts \in [Timeframes -> Context \cup {NoContext}]
    /\ books \in [Assets -> Book \cup {NoBook}]
    /\ session \in Sessions \cup {NoSession}
    /\ connected \in BOOLEAN
    /\ feed \in [Streams -> {"missing", "fresh", "stale"}]

\* Once a session is announced, every initialized book was filled by a full
\* book of that very session, whatever late events of others arrive.
SessionIsolation ==
    \A a \in Assets :
        books[a] # NoBook /\ books[a].initialized /\ session # NoSession
            => books[a].session = session

\* The store holds books of current and next markets only, so a stream of
\* markets that come and go cannot make it grow.
OnlyReferencedBooks == \A a \in Assets : books[a] # NoBook => Referenced(a)

\* A book marked as resolved stays so while its market is listed: no
\* reconnection, full book or later event brings the market back.
ResolvedForGood ==
    [][\A a \in Assets : Resolved(a) /\ Referenced(a)' => Resolved(a)']_stateVars

\* The book of a next market, collected before its time, is still there when
\* the market becomes the current one, whatever windows of any timeframe came
\* in between.
EarlyBooksKept ==
    [][\A a \in Assets : books[a] # NoBook /\ Referenced(a)' => books'[a] # NoBook]_stateVars

\* What the documentation says of book_incoherent: after the third divergence a
\* fresh full book is required.  The code does not keep to it: the next price
\* change recomputes coherent from the levels alone.
FullBookAfterDivergence ==
    \A a \in Assets :
        books[a] # NoBook /\ books[a].divergence = DivergenceLimit => ~Usable(a)

=============================================================================
