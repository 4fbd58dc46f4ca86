--------------------------- MODULE StateStoreProofs ---------------------------
(***************************************************************************)
(* Proofs about StateStore, for any timeframes, markets, sessions and      *)
(* versions: the store is well typed, no book outlives its session and no  *)
(* book outlives its market.                                               *)
(*                                                                         *)
(* Every event that reaches a book does so through SetBook, so the proof   *)
(* has one lemma on the book each kind of event makes (BookEvents), and    *)
(* treats all of them at once after that.                                  *)
(***************************************************************************)
EXTENDS StateStore, TLAPS

\* What an event of session s may make of the book of asset a: a book that is
\* initialized was so before, in the session it was, or has just been filled;
\* and a resolved book stays resolved.
Permitted(a, s, b) ==
    /\ b \in Book
    /\ b.initialized =>
         \/ b.session = s
         \/ books[a] # NoBook /\ books[a].initialized /\ b.session = books[a].session
    /\ books[a] # NoBook /\ books[a].resolved => b.resolved

\* A step that gives asset a a permitted book and changes nothing else.
Permits(a, s) == \E b \in Book : Permitted(a, s, b) /\ SetBook(a, s, b)

IInv == TypeOK /\ SessionIsolation /\ OnlyReferencedBooks

-----------------------------------------------------------------------------
\* The book an event works on is a book.
LEMMA BookForType ==
    ASSUME TypeOK, NEW a \in Assets, NEW s \in Sessions
    PROVE  /\ BookFor(a, s) \in Book
           /\ BookFor(a, s).initialized => books[a] # NoBook
           /\ books[a] # NoBook => BookFor(a, s) = books[a]
  <1>1. books[a] \in Book \cup {NoBook}
    BY DEF TypeOK
  <1>2. NewBook(s) \in Book
    BY DEF NewBook, Book, Contents, DivergenceLimit
  <1>3. NewBook(s).initialized = FALSE
    BY DEF NewBook
  <1>4. CASE books[a] = NoBook
    BY <1>2, <1>3, <1>4 DEF BookFor
  <1>5. CASE books[a] # NoBook
    BY <1>1, <1>5 DEF BookFor
  <1> QED
    BY <1>4, <1>5

\* Coherence is a Boolean.
LEMMA CoherentType == \A content : Coherent(content) \subseteq BOOLEAN
  <1> SUFFICES ASSUME NEW content PROVE Coherent(content) \subseteq BOOLEAN
    OBVIOUS
  <1>1. Coherent(content) \in {BOOLEAN, {TRUE}}
    BY Zenon DEF Coherent
  <1> QED
    BY <1>1

\* A change leaves a book with a content.
LEMMA ChangedType ==
    ASSUME NEW content \in Contents, NEW v \in Versions, NEW w \in Changed(content, v)
    PROVE  w \in Contents
  BY DEF Changed, Contents

\* Every event that is not ignored makes a permitted book.
LEMMA BookEvents ==
    ASSUME TypeOK, NEW a \in Assets, NEW s \in Sessions, ClobEvent(a, s)
    PROVE  Ignore(a, s) \/ Permits(a, s)
  <1> DEFINE b == BookFor(a, s)
  <1>1. /\ b \in Book
        /\ b.initialized => books[a] # NoBook
        /\ books[a] # NoBook => b = books[a]
    BY BookForType
  <1> HIDE DEF b
  <1>2. /\ b.initialized \in BOOLEAN /\ b.coherent \in BOOLEAN /\ b.resolved \in BOOLEAN
        /\ b.divergence \in 0..DivergenceLimit /\ b.content \in Contents
        /\ b.session \in Sessions \cup {NoSession}
    BY <1>1 DEF Book
  <1>3. ASSUME NEW v \in Versions, ApplyBook(a, s, v)
        PROVE  Permits(a, s)
    <2>1. PICK c \in Coherent(v) :
             SetBook(a, s, [b EXCEPT !.initialized = TRUE, !.coherent = c,
                                !.divergence = 0, !.session = s, !.content = v])
      BY <1>3 DEF ApplyBook, b
    <2> DEFINE new == [b EXCEPT !.initialized = TRUE, !.coherent = c,
                           !.divergence = 0, !.session = s, !.content = v]
    <2>2. c \in BOOLEAN /\ v \in Contents /\ 0 \in 0..DivergenceLimit
      BY CoherentType DEF Contents, DivergenceLimit
    <2>3. new \in Book /\ new.session = s /\ new.resolved = b.resolved
      BY <1>1, <2>2 DEF Book
    <2> QED
      BY <1>1, <2>1, <2>3 DEF Permits, Permitted
  <1>4. ASSUME NEW v \in Versions, ApplyPriceChange(a, s, v)
        PROVE  Permits(a, s)
    <2>1. CASE ~b.initialized
      <3>1. SetBook(a, s, b)
        BY <1>4, <2>1 DEF ApplyPriceChange, b
      <3> QED
        BY <1>1, <2>1, <3>1 DEF Permits, Permitted
    <2>2. CASE b.initialized
      <3>1. PICK w \in Changed(b.content, v) : \E c \in Coherent(w) :
               SetBook(a, s, [b EXCEPT !.content = w, !.coherent = c])
        BY <1>4, <2>2 DEF ApplyPriceChange, b
      <3>2. PICK c \in Coherent(w) : SetBook(a, s, [b EXCEPT !.content = w, !.coherent = c])
        BY <3>1
      <3> DEFINE new == [b EXCEPT !.content = w, !.coherent = c]
      <3>3. w \in Contents /\ c \in BOOLEAN
        BY <1>2, ChangedType, CoherentType
      <3>4. new \in Book /\ new.session = b.session /\ new.initialized = b.initialized
            /\ new.resolved = b.resolved
        BY <1>1, <3>3 DEF Book
      <3> QED
        BY <1>1, <2>2, <3>2, <3>4 DEF Permits, Permitted
    <2> QED
      BY <1>2, <2>1, <2>2
  <1>5. ASSUME NEW v \in Versions, ApplyBestBidAsk(a, s, v)
        PROVE  Permits(a, s)
    <2>1. \/ SetBook(a, s, b)
          \/ SetBook(a, s, Diverged(b))
          \/ SetBook(a, s, [b EXCEPT !.divergence = 0])
      BY <1>5 DEF ApplyBestBidAsk, b
    <2>2. /\ Diverged(b) \in Book
          /\ Diverged(b).session = b.session /\ Diverged(b).initialized = b.initialized
          /\ Diverged(b).resolved = b.resolved
      <3> DEFINE count == IF b.divergence < DivergenceLimit THEN b.divergence + 1
                                                            ELSE DivergenceLimit
                 down == IF count = DivergenceLimit THEN FALSE ELSE b.coherent
      <3>1. Diverged(b) = [b EXCEPT !.divergence = count, !.coherent = down]
        BY DEF Diverged
      <3>2. count \in 0..DivergenceLimit
        BY <1>2 DEF DivergenceLimit
      <3>3. down \in BOOLEAN
        BY <1>2
      <3> HIDE DEF count, down
      <3> QED
        BY <1>1, <3>1, <3>2, <3>3 DEF Book
    <2> DEFINE new == [b EXCEPT !.divergence = 0]
    <2>3. new \in Book /\ new.session = b.session /\ new.initialized = b.initialized
          /\ new.resolved = b.resolved
      BY <1>1, <1>2 DEF Book, DivergenceLimit
    <2> QED
      BY <1>1, <2>1, <2>2, <2>3 DEF Permits, Permitted
  <1>6. ASSUME ApplyResolved(a, s)
        PROVE  Permits(a, s)
    <2> DEFINE new == [b EXCEPT !.resolved = TRUE]
    <2>1. new \in Book /\ new.session = b.session /\ new.initialized = b.initialized
          /\ new.resolved = TRUE
      BY <1>1 DEF Book
    <2>2. SetBook(a, s, new)
      BY <1>6 DEF ApplyResolved, b
    <2> QED
      BY <1>1, <2>1, <2>2 DEF Permits, Permitted
  <1>7. ASSUME ApplyOther(a, s)
        PROVE  Permits(a, s)
    <2>1. SetBook(a, s, b)
      BY <1>7 DEF ApplyOther, b
    <2> QED
      BY <1>1, <2>1 DEF Permits, Permitted
  <1> QED
    BY <1>3, <1>4, <1>5, <1>6, <1>7 DEF ClobEvent

\* An invalidated book is a book that is not initialized.
LEMMA InvalidatedType ==
    ASSUME NEW b \in Book \cup {NoBook}
    PROVE  /\ Invalidated(b) \in Book \cup {NoBook}
           /\ b # NoBook => ~Invalidated(b).initialized
           /\ b # NoBook => Invalidated(b).resolved = b.resolved
           /\ b # NoBook => Invalidated(b) # NoBook
           /\ b = NoBook => Invalidated(b) = NoBook
  <1>1. CASE b = NoBook
    BY <1>1 DEF Invalidated
  <1>2. CASE b # NoBook
    <2> DEFINE new == [b EXCEPT !.initialized = FALSE, !.coherent = FALSE,
                           !.divergence = 0, !.session = NoSession, !.content = Empty]
    <2>1. Invalidated(b) = new /\ b \in Book
      BY <1>2 DEF Invalidated
    <2>2. new \in Book
      <3>1. /\ 0 \in 0..DivergenceLimit
            /\ Empty \in Contents
            /\ NoSession \in Sessions \cup {NoSession}
        BY DEF Contents, DivergenceLimit
      <3> QED
        BY <2>1, <3>1 DEF Book
    <2>3. new.initialized = FALSE /\ new.resolved = b.resolved
      BY <2>1 DEF Book
    <2> QED
      BY <1>2, <2>1, <2>2, <2>3, NoBookAssumption DEF NoBookAssumption
  <1> QED
    BY <1>1, <1>2

-----------------------------------------------------------------------------
\* The invariant holds of the empty store.
LEMMA IInvInit == Init => IInv
  <1> SUFFICES ASSUME Init PROVE IInv
    OBVIOUS
  <1>1. TypeOK
    BY DEF Init, TypeOK
  <1>2. \A a \in Assets : books[a] = NoBook
    BY DEF Init
  <1> QED
    BY <1>1, <1>2 DEF IInv, SessionIsolation, OnlyReferencedBooks

\* A CLOB event of any kind keeps the invariant.
LEMMA ClobEventStep ==
    ASSUME IInv, NEW a \in Assets, NEW s \in Sessions, ClobEvent(a, s)
    PROVE  IInv'
  <1>1. TypeOK /\ SessionIsolation /\ OnlyReferencedBooks
    BY DEF IInv
  <1>2. CASE Ignore(a, s)
    BY <1>1, <1>2 DEF Ignore, stateVars, IInv, TypeOK, SessionIsolation,
                      OnlyReferencedBooks, Referenced, ReferencedBy
  <1>3. CASE Permits(a, s)
    <2>1. PICK b \in Book : Permitted(a, s, b) /\ SetBook(a, s, b)
      BY <1>3 DEF Permits
    <2>2. /\ books' = [books EXCEPT ![a] = b]
          /\ UNCHANGED <<contexts, session, connected, feed>>
          /\ Referenced(a)
          /\ session = NoSession \/ s = session
      BY <2>1 DEF SetBook, Stale
    <2>3. TypeOK'
      BY <1>1, <2>2 DEF TypeOK
    <2>4. books'[a] = b /\ \A x \in Assets \ {a} : books'[x] = books[x]
      BY <1>1, <2>2 DEF TypeOK
    <2>5. SessionIsolation'
      <3> SUFFICES ASSUME NEW x \in Assets, books'[x] # NoBook, books'[x].initialized,
                          session' # NoSession
                   PROVE  books'[x].session = session'
        BY DEF SessionIsolation
      <3>1. CASE x # a
        BY <1>1, <2>2, <2>4, <3>1 DEF SessionIsolation
      <3>2. CASE x = a
        <4>1. \/ b.session = s
              \/ books[a] # NoBook /\ books[a].initialized /\ b.session = books[a].session
          BY <2>1, <2>4, <3>2 DEF Permitted
        <4> QED
          BY <1>1, <2>2, <2>4, <3>2, <4>1 DEF SessionIsolation
      <3> QED
        BY <3>1, <3>2
    <2>6. OnlyReferencedBooks'
      <3>1. \A x \in Assets : Referenced(x)' <=> Referenced(x)
        BY <2>2 DEF Referenced, ReferencedBy
      <3> QED
        BY <1>1, <2>2, <2>4, <3>1 DEF OnlyReferencedBooks
    <2> QED
      BY <2>3, <2>5, <2>6 DEF IInv
  <1> QED
    BY <1>1, <1>2, <1>3, BookEvents

\* A status of the CLOB source keeps the invariant.
LEMMA StatusStep ==
    ASSUME IInv, NEW s \in Sessions, NEW up \in BOOLEAN, ApplyStatus(up, s)
    PROVE  IInv'
  <1>1. TypeOK /\ SessionIsolation /\ OnlyReferencedBooks
    BY DEF IInv
  <1>2. /\ connected' = up
        /\ session' = IF up THEN s ELSE session
        /\ UNCHANGED <<contexts, feed>>
    BY DEF ApplyStatus
  <1>3. \A x \in Assets : books[x] \in Book \cup {NoBook}
    BY <1>1 DEF TypeOK
  <1>4. \A x \in Assets : Referenced(x)' <=> Referenced(x)
    BY <1>2 DEF Referenced, ReferencedBy
  <1>5. CASE ~up \/ s # session
    <2>1. books' = [x \in Assets |-> Invalidated(books[x])]
      BY <1>5 DEF ApplyStatus
    <2>2. \A x \in Assets :
             /\ books'[x] \in Book \cup {NoBook}
             /\ books'[x] # NoBook => books[x] # NoBook /\ ~books'[x].initialized
      BY <1>3, <2>1, InvalidatedType
    <2>3. TypeOK'
      BY <1>1, <1>2, <2>1, <2>2 DEF TypeOK
    <2>4. SessionIsolation' /\ OnlyReferencedBooks'
      BY <1>1, <1>4, <2>2 DEF SessionIsolation, OnlyReferencedBooks
    <2> QED
      BY <2>3, <2>4 DEF IInv
  <1>6. CASE up /\ s = session
    <2>1. books' = books /\ session' = session
      BY <1>2, <1>6 DEF ApplyStatus
    <2> QED
      BY <1>1, <1>2, <1>4, <2>1 DEF IInv, TypeOK, SessionIsolation, OnlyReferencedBooks
  <1> QED
    BY <1>5, <1>6

\* A window state keeps the invariant.
LEMMA WindowStep ==
    ASSUME IInv, NEW tf \in Timeframes, NEW c \in Windows(tf), ApplyWindow(tf, c)
    PROVE  IInv'
  <1>1. TypeOK /\ SessionIsolation /\ OnlyReferencedBooks
    BY DEF IInv
  <1>2. /\ contexts' = [contexts EXCEPT ![tf] = c]
        /\ UNCHANGED <<session, connected, feed>>
        /\ c \in Context
    BY DEF ApplyWindow, Windows
  <1>3. books' = [a \in Assets |-> IF Referenced(a)' THEN books[a] ELSE NoBook]
    BY DEF ApplyWindow, Pruned, Referenced
  <1>4. \A a \in Assets : books'[a] \in Book \cup {NoBook}
    BY <1>1, <1>3 DEF TypeOK
  <1>5. \A a \in Assets : books'[a] # NoBook => books'[a] = books[a] /\ Referenced(a)'
    BY <1>3
  <1>6. TypeOK'
    BY <1>1, <1>2, <1>3, <1>4 DEF TypeOK
  <1>7. SessionIsolation' /\ OnlyReferencedBooks'
    BY <1>1, <1>2, <1>5 DEF SessionIsolation, OnlyReferencedBooks
  <1> QED
    BY <1>6, <1>7 DEF IInv

\* Every step keeps the invariant.
LEMMA IInvStep == IInv /\ [Next]_stateVars => IInv'
  <1> SUFFICES ASSUME IInv, [Next]_stateVars PROVE IInv'
    OBVIOUS
  <1>1. TypeOK /\ SessionIsolation /\ OnlyReferencedBooks
    BY DEF IInv
  <1>2. ASSUME NEW s \in Sessions, NEW up \in BOOLEAN, ApplyStatus(up, s)
        PROVE  IInv'
    BY <1>2, StatusStep
  <1>3. ASSUME NEW tf \in Timeframes, NEW c \in Windows(tf), ApplyWindow(tf, c)
        PROVE  IInv'
    BY <1>3, WindowStep
  <1>4. ASSUME NEW a \in Assets, NEW s \in Sessions, ClobEvent(a, s)
        PROVE  IInv'
    BY <1>4, ClobEventStep
  <1>5. ASSUME NEW s \in Streams, ApplyFeed(s) \/ FeedAges(s)
        PROVE  IInv'
    <2>1. feed' \in [Streams -> {"missing", "fresh", "stale"}]
      BY <1>1, <1>5 DEF TypeOK, ApplyFeed, FeedAges
    <2>2. UNCHANGED <<contexts, books, session, connected>>
      BY <1>5 DEF ApplyFeed, FeedAges
    <2> QED
      BY <1>1, <2>1, <2>2 DEF IInv, TypeOK, SessionIsolation, OnlyReferencedBooks,
                              Referenced, ReferencedBy
  <1>6. CASE UNCHANGED stateVars
    BY <1>1, <1>6 DEF stateVars, IInv, TypeOK, SessionIsolation, OnlyReferencedBooks,
                      Referenced, ReferencedBy
  <1> QED
    BY <1>2, <1>3, <1>4, <1>5, <1>6 DEF Next

\* The invariant holds of every state of the store.
THEOREM Invariance == Spec => []IInv
  <1>1. Init => IInv
    BY IInvInit
  <1>2. IInv /\ [Next]_stateVars => IInv'
    BY IInvStep
  <1> QED
    BY <1>1, <1>2, PTL DEF Spec

-----------------------------------------------------------------------------
\* The store is well typed.
THEOREM TypeCorrect == Spec => []TypeOK
  <1>1. IInv => TypeOK
    BY DEF IInv
  <1> QED
    BY <1>1, Invariance, PTL

\* No book that is initialized comes from another session than the announced
\* one, whatever the order in which late events and statuses are applied.
THEOREM SessionsAreIsolated == Spec => []SessionIsolation
  <1>1. IInv => SessionIsolation
    BY DEF IInv
  <1> QED
    BY <1>1, Invariance, PTL

\* No book outlives the window that lists its market.
THEOREM BooksAreReferenced == Spec => []OnlyReferencedBooks
  <1>1. IInv => OnlyReferencedBooks
    BY DEF IInv
  <1> QED
    BY <1>1, Invariance, PTL

\* No step but the end of its listing takes the book of an asset away, and
\* while it is there a resolved market stays resolved.
LEMMA BooksStay ==
    ASSUME IInv, [Next]_stateVars, NEW a \in Assets, books[a] # NoBook, Referenced(a)'
    PROVE  /\ books'[a] # NoBook
           /\ books[a].resolved => books'[a].resolved
  <1>1. TypeOK /\ books[a] \in Book
    BY DEF IInv, TypeOK
  <1>2. ASSUME NEW s \in Sessions, NEW up \in BOOLEAN, ApplyStatus(up, s)
        PROVE  /\ books'[a] # NoBook
               /\ books[a].resolved => books'[a].resolved
    <2>1. books'[a] \in {books[a], Invalidated(books[a])}
      BY <1>2 DEF ApplyStatus
    <2> QED
      BY <1>1, <2>1, InvalidatedType
  <1>3. ASSUME NEW tf \in Timeframes, NEW c \in Windows(tf), ApplyWindow(tf, c)
        PROVE  books'[a] = books[a]
    BY <1>3 DEF ApplyWindow, Pruned, Referenced
  <1>4. ASSUME NEW x \in Assets, NEW s \in Sessions, ClobEvent(x, s)
        PROVE  /\ books'[a] # NoBook
               /\ books[a].resolved => books'[a].resolved
    <2>1. CASE Ignore(x, s)
      BY <2>1 DEF Ignore, stateVars
    <2>2. CASE Permits(x, s)
      <3>1. PICK b \in Book : Permitted(x, s, b) /\ SetBook(x, s, b)
        BY <2>2 DEF Permits
      <3>2. books' = [books EXCEPT ![x] = b] /\ b # NoBook
        BY <3>1, NoBookAssumption DEF SetBook, NoBookAssumption
      <3>3. CASE x = a
        <4>1. books'[a] = b
          BY <1>1, <3>2, <3>3 DEF TypeOK
        <4> QED
          BY <3>1, <3>2, <3>3, <4>1 DEF Permitted
      <3>4. CASE x # a
        BY <1>1, <3>2, <3>4 DEF TypeOK
      <3> QED
        BY <3>3, <3>4
    <2> QED
      BY <1>1, <1>4, <2>1, <2>2, BookEvents
  <1>5. ASSUME NEW s \in Streams, ApplyFeed(s) \/ FeedAges(s)
        PROVE  books' = books
    BY <1>5 DEF ApplyFeed, FeedAges
  <1>6. CASE UNCHANGED stateVars
    BY <1>6 DEF stateVars
  <1> QED
    BY <1>2, <1>3, <1>4, <1>5, <1>6 DEF Next

\* A market that is resolved is not brought back by any later event.
THEOREM ResolvedStays == Spec => ResolvedForGood
  <1>1. IInv /\ [Next]_stateVars =>
          [\A a \in Assets : Resolved(a) /\ Referenced(a)' => Resolved(a)']_stateVars
    BY BooksStay DEF Resolved
  <1> QED
    BY <1>1, Invariance, PTL DEF Spec, ResolvedForGood

\* The early book of a next market is kept until its market is delisted.
THEOREM EarlyBooksStay == Spec => EarlyBooksKept
  <1>1. IInv /\ [Next]_stateVars =>
          [\A a \in Assets : books[a] # NoBook /\ Referenced(a)' => books'[a] # NoBook]_stateVars
    BY BooksStay
  <1> QED
    BY <1>1, Invariance, PTL DEF Spec, EarlyBooksKept

=============================================================================
