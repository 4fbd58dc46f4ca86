---------------------------- MODULE ReplayProofs ------------------------------
(***************************************************************************)
(* What ReadRawEvents computes, for any streams and segments: if it does   *)
(* not refuse them it returns every event once and in order, and it does   *)
(* not refuse the segments of a log that is whole.                         *)
(*                                                                         *)
(* Chains and merges are recursive functions on the number of rounds, so   *)
(* their properties go by induction, with sets instead of predicates       *)
(* (Induction): of the rounds at which a property does not hold there is   *)
(* none that is the least.                                                 *)
(***************************************************************************)
EXTENDS Replay, SequenceTheorems, FiniteSetTheorems, TLAPS

-----------------------------------------------------------------------------
(* Induction.                                                              *)

LEMMA LeastNumber ==
    ASSUME NEW S \in SUBSET Nat, S # {}
    PROVE  \E x \in S : \A y \in S : x <= y
<1>1. PICK x \in S : \A y \in S : ~ (<<y, x>> \in OpToRel(<, Nat))
  BY NatLessThanWellFounded, WFMin
<1>2. \A y \in S : x <= y
  <2> SUFFICES ASSUME NEW y \in S PROVE x <= y
    OBVIOUS
  <2>1. <<y, x>> \in Nat \X Nat /\ <<y, x>>[1] = y /\ <<y, x>>[2] = x
    OBVIOUS
  <2>2. ~ (y < x)
    BY <1>1, <2>1 DEF OpToRel
  <2> QED
    BY <2>2
<1> QED
  BY <1>2

\* A set that has 0, and the successor of each of its members up to N
LEMMA Induction ==
    ASSUME NEW N \in Nat, NEW S, 0 \in S, \A n \in 0..N : n \in S /\ n < N => n + 1 \in S
    PROVE  \A n \in 0..N : n \in S
<1> DEFINE Bad == {n \in 0..N : n \notin S}
<1> SUFFICES ASSUME Bad # {} PROVE FALSE
  OBVIOUS
<1>1. Bad \in SUBSET Nat
  OBVIOUS
<1>2. PICK x \in Bad : \A y \in Bad : x <= y
  <2> HIDE DEF Bad
  <2> QED
    BY <1>1, LeastNumber
<1>3. x \in 0..N /\ x \notin S /\ x # 0 /\ x \in Int
  OBVIOUS
<1>4. x - 1 \in 0..N /\ x - 1 < N /\ (x - 1) + 1 = x /\ ~(x <= x - 1)
  BY <1>3
<1>5. x - 1 \in S
  BY <1>2, <1>4
<1> QED
  BY <1>3, <1>4, <1>5

-----------------------------------------------------------------------------
(* Chains.                                                                 *)

NewChain(segments) == [events |-> <<>>, last |-> 0, refused |-> FALSE, rest |-> segments]

\* The function that Chaining chooses exists.
LEMMA ChainingIs ==
    ASSUME NEW segments, Cardinality(segments) \in Nat
    PROVE  /\ Chaining(segments)[0] = NewChain(segments)
           /\ \A n \in 1..Cardinality(segments) :
                Chaining(segments)[n] = Linked(Chaining(segments)[n - 1])
<1> DEFINE N == Cardinality(segments)
           Rec(f, m) == f = [n \in 0..m |-> IF n = 0 THEN NewChain(segments) ELSE Linked(f[n - 1])]
           S == {m \in 0..N : \E f : Rec(f, m)}
<1>1. 0 \in S
  <2> DEFINE f == [n \in 0..0 |-> NewChain(segments)]
  <2>1. Rec(f, 0)
    OBVIOUS
  <2>2. \E e : Rec(e, 0)
    <3> HIDE DEF f
    <3> QED
      BY <2>1
  <2>3. 0 \in 0..N
    OBVIOUS
  <2> HIDE DEF Rec
  <2> QED
    BY <2>2, <2>3
<1>2. ASSUME NEW m \in 0..N, m \in S, m < N PROVE m + 1 \in S
  <2>1. PICK f : Rec(f, m)
    BY <1>2
  <2> DEFINE g == [n \in 0..(m + 1) |-> IF n <= m THEN f[n] ELSE Linked(f[m])]
  <2>2. \A n \in 0..(m + 1) : g[n] = IF n = 0 THEN NewChain(segments) ELSE Linked(g[n - 1])
    <3> SUFFICES ASSUME NEW n \in 0..(m + 1)
                 PROVE  g[n] = IF n = 0 THEN NewChain(segments) ELSE Linked(g[n - 1])
      OBVIOUS
    <3>1. CASE n = 0
      BY <2>1, <3>1
    <3>2. CASE n # 0 /\ n <= m
      <4>1. n - 1 \in 0..(m + 1) /\ n - 1 <= m /\ n \in 0..m
        BY <3>2
      <4>2. g[n] = f[n] /\ g[n - 1] = f[n - 1]
        BY <3>2, <4>1
      <4> QED
        BY <2>1, <3>2, <4>1, <4>2
    <3>3. CASE n = m + 1
      <4>1. n - 1 = m /\ m \in 0..(m + 1) /\ ~(n <= m) /\ n # 0
        BY <3>3
      <4>2. g[n] = Linked(f[m]) /\ g[m] = f[m]
        BY <4>1
      <4> QED
        BY <4>1, <4>2
    <3> QED
      BY <3>1, <3>2, <3>3
  <2>3. Rec(g, m + 1)
    <3> DEFINE h == [n \in 0..(m + 1) |-> IF n = 0 THEN NewChain(segments) ELSE Linked(g[n - 1])]
    <3>1. \A n \in 0..(m + 1) : h[n] = g[n]
      <4> HIDE DEF g
      <4> QED
        BY <2>2
    <3>2. g = [n \in 0..(m + 1) |-> g[n]] /\ h = [n \in 0..(m + 1) |-> h[n]]
      OBVIOUS
    <3> HIDE DEF g, h
    <3>3. g = h
      BY <3>1, <3>2
    <3> QED
      BY <3>3 DEF h
  <2>4. \E e : Rec(e, m + 1)
    <3> HIDE DEF g
    <3> QED
      BY <2>3
  <2> HIDE DEF Rec
  <2> QED
    BY <1>2, <2>4
<1>3. N \in S
  <2>1. \A n \in 0..N : n \in S /\ n < N => n + 1 \in S
    BY <1>2
  <2> HIDE DEF S
  <2> QED
    BY <1>1, <2>1, Induction
<1>4. \E f : Rec(f, N)
  BY <1>3
<1>5. Rec(Chaining(segments), N)
  BY <1>4 DEF Chaining, NewChain
<1> QED
  BY <1>5

Increasing(s) == \A i, j \in DOMAIN s : i < j => s[i] < s[j]

\* A segment holds events, with increasing ingest sequences.
IsSegment(g) == g.events \in Seq(Nat \ {0}) /\ g.events # <<>> /\ Increasing(g.events)

IsStream(segments) == IsFiniteSet(segments) /\ \A g \in segments : IsSegment(g)

EventsOf(segments) == UNION {ToSet(g.events) : g \in segments}

Disjoint(segments) ==
    \A g, h \in segments : g # h => ToSet(g.events) \cap ToSet(h.events) = {}

\* A chain of some of these segments: unless it is refused, it holds their
\* events, in order.
ChainOf(c, segments) ==
    /\ c \in [events : Seq(Nat \ {0}), last : Nat, refused : BOOLEAN, rest : SUBSET segments]
    /\ c.last > 0 => c.events # <<>>
    /\ c.refused => c.events # <<>>
    /\ ~c.refused =>
          /\ Increasing(c.events)
          /\ \A i \in DOMAIN c.events : c.events[i] <= c.last
          /\ ToSet(c.events) = EventsOf(segments \ c.rest)
          /\ Disjoint(segments \ c.rest)

LEMMA EarliestIs ==
    ASSUME NEW rest, rest # {}, \A g \in rest : IsSegment(g)
    PROVE  /\ Earliest(rest) \in rest
           /\ \A b \in rest : Earliest(rest).events[1] <= b.events[1]
<1> DEFINE Firsts == {g.events[1] : g \in rest}
<1>1. \A g \in rest : 1 \in DOMAIN g.events /\ g.events[1] \in Nat
  BY DEF IsSegment
<1>2. Firsts \in SUBSET Nat /\ Firsts # {}
  BY <1>1
<1>3. PICK x \in Firsts : \A y \in Firsts : x <= y
  <2> HIDE DEF Firsts
  <2> QED
    BY <1>2, LeastNumber
<1>4. PICK a \in rest : a.events[1] = x
  BY <1>3
<1>5. \A b \in rest : a.events[1] <= b.events[1]
  BY <1>3, <1>4
<1> QED
  BY <1>5 DEF Earliest

LEMMA MinIs ==
    ASSUME NEW S \in SUBSET Nat, S # {}
    PROVE  Min(S) \in S /\ \A y \in S : Min(S) <= y
BY LeastNumber DEF Min

LEMMA JoinedIncreasing ==
    ASSUME NEW s \in Seq(Nat \ {0}), NEW t \in Seq(Nat \ {0}), Increasing(s), Increasing(t),
           \A i \in DOMAIN s, j \in DOMAIN t : s[i] < t[j]
    PROVE  Increasing(s \o t)
<1> SUFFICES ASSUME NEW i \in DOMAIN (s \o t), NEW j \in DOMAIN (s \o t), i < j
             PROVE  (s \o t)[i] < (s \o t)[j]
  BY DEF Increasing
<1>1. i \in 1..(Len(s) + Len(t)) /\ j \in 1..(Len(s) + Len(t)) /\ Len(s) \in Nat /\ Len(t) \in Nat
      /\ DOMAIN s = 1..Len(s) /\ DOMAIN t = 1..Len(t)
  OBVIOUS
<1>2. \A k \in 1..(Len(s) + Len(t)) : (s \o t)[k] = IF k <= Len(s) THEN s[k] ELSE t[k - Len(s)]
  OBVIOUS
<1>3. CASE j <= Len(s)
  BY <1>1, <1>2, <1>3 DEF Increasing
<1>4. CASE i > Len(s)
  BY <1>1, <1>2, <1>4 DEF Increasing
<1>5. CASE i <= Len(s) /\ j > Len(s)
  BY <1>1, <1>2, <1>5
<1> QED
  BY <1>1, <1>3, <1>4, <1>5

LEMMA JoinedToSet ==
    ASSUME NEW T, NEW s \in Seq(T), NEW t \in Seq(T)
    PROVE  ToSet(s \o t) = ToSet(s) \cup ToSet(t)
<1>1. Len(s) \in Nat /\ Len(t) \in Nat /\ DOMAIN s = 1..Len(s) /\ DOMAIN t = 1..Len(t)
      /\ DOMAIN (s \o t) = 1..(Len(s) + Len(t))
  OBVIOUS
<1>2. \A k \in 1..(Len(s) + Len(t)) : (s \o t)[k] = IF k <= Len(s) THEN s[k] ELSE t[k - Len(s)]
  OBVIOUS
<1>3. \A k \in DOMAIN s : k \in DOMAIN (s \o t) /\ (s \o t)[k] = s[k]
  BY <1>1, <1>2
<1>4. \A k \in DOMAIN t : k + Len(s) \in DOMAIN (s \o t) /\ (s \o t)[k + Len(s)] = t[k]
  BY <1>1, <1>2
<1>5. \A k \in DOMAIN (s \o t) : (s \o t)[k] \in ToSet(s) \cup ToSet(t)
  <2> SUFFICES ASSUME NEW k \in DOMAIN (s \o t) PROVE (s \o t)[k] \in ToSet(s) \cup ToSet(t)
    OBVIOUS
  <2>1. CASE k <= Len(s)
    BY <1>1, <1>2, <2>1 DEF ToSet
  <2>2. CASE k > Len(s)
    <3>1. k - Len(s) \in DOMAIN t /\ (s \o t)[k] = t[k - Len(s)]
      BY <1>1, <1>2, <2>2
    <3> QED
      BY <3>1 DEF ToSet
  <2> QED
    BY <1>1, <2>1, <2>2
<1>6. ToSet(s) \subseteq ToSet(s \o t)
  <2> SUFFICES ASSUME NEW k \in DOMAIN s PROVE s[k] \in ToSet(s \o t)
    BY DEF ToSet
  <2> QED
    BY <1>3 DEF ToSet
<1>7. ToSet(t) \subseteq ToSet(s \o t)
  <2> SUFFICES ASSUME NEW k \in DOMAIN t PROVE t[k] \in ToSet(s \o t)
    BY DEF ToSet
  <2> QED
    BY <1>4 DEF ToSet
<1>8. ToSet(s \o t) \subseteq ToSet(s) \cup ToSet(t)
  <2> SUFFICES ASSUME NEW k \in DOMAIN (s \o t) PROVE (s \o t)[k] \in ToSet(s) \cup ToSet(t)
    BY DEF ToSet
  <2> QED
    BY <1>5
<1> QED
  BY <1>6, <1>7, <1>8

\* Nothing more is taken by a chain that is refused or has all its segments.
LEMMA LinkedOver ==
    ASSUME NEW c, c.refused \/ c.rest = {}
    PROVE  Linked(c) = c
BY DEF Linked

\* A segment that does not overlap the chain is added to it.
LEMMA LinkedAdds ==
    ASSUME NEW segments, IsStream(segments), NEW c, ChainOf(c, segments), ~c.refused,
           c.rest # {}, \A i \in DOMAIN Earliest(c.rest).events : Earliest(c.rest).events[i] > c.last
    PROVE  /\ ChainOf(Linked(c), segments)
           /\ ~Linked(c).refused
           /\ Linked(c).rest = c.rest \ {Earliest(c.rest)}
           /\ Linked(c).last = Last(Earliest(c.rest).events)
<1> DEFINE next == Earliest(c.rest)
           e == next.events
           d == Linked(c)
<1>1. next \in c.rest /\ IsSegment(next) /\ next \in segments
  BY EarliestIs DEF ChainOf, IsStream
<1> HIDE DEF next
<1>2. /\ e \in Seq(Nat \ {0}) /\ Len(e) \in Nat \ {0} /\ Len(e) \in DOMAIN e
      /\ Last(e) \in Nat \ {0} /\ e # <<>> /\ Increasing(e) /\ e[Len(e)] = Last(e)
  BY <1>1 DEF IsSegment, Last
<1>3. {i \in DOMAIN e : e[i] <= c.last} = {}
  <2>1. \A i \in DOMAIN e : e[i] > c.last /\ e[i] \in Nat /\ c.last \in Nat
    BY <1>2 DEF next, ChainOf
  <2> QED
    BY <2>1
<1>4. d = [events |-> c.events \o e, last |-> Last(e), refused |-> FALSE,
           rest |-> c.rest \ {next}]
  BY <1>3 DEF Linked, next
<1> HIDE DEF e
<1>5. d.events = c.events \o e /\ d.last = Last(e) /\ d.refused = FALSE
      /\ d.rest = c.rest \ {next}
  BY <1>4
<1> HIDE DEF d
<1>6. c.events \in Seq(Nat \ {0}) /\ c.last \in Nat /\ c.rest \subseteq segments
      /\ Increasing(c.events) /\ (\A i \in DOMAIN c.events : c.events[i] <= c.last)
      /\ ToSet(c.events) = EventsOf(segments \ c.rest) /\ Disjoint(segments \ c.rest)
  BY DEF ChainOf
<1>7. d.events \in Seq(Nat \ {0}) /\ d.events # <<>>
  BY <1>2, <1>5, <1>6
<1>8. \A i \in DOMAIN c.events, j \in DOMAIN e :
         c.events[i] <= c.last /\ c.last < e[j] /\ c.events[i] \in Nat /\ e[j] \in Nat
         /\ c.last \in Nat
  BY <1>2, <1>3, <1>6
<1>9. Increasing(d.events)
  <2>1. \A i \in DOMAIN c.events, j \in DOMAIN e : c.events[i] < e[j]
    BY <1>8
  <2> QED
    BY <1>2, <1>5, <1>6, <2>1, JoinedIncreasing
<1>10. \A i \in DOMAIN d.events : d.events[i] <= d.last
  <2>1. Len(d.events) \in DOMAIN d.events /\ d.events[Len(d.events)] = d.last
    BY <1>2, <1>5, <1>6
  <2>2. \A i \in DOMAIN d.events : i <= Len(d.events) /\ i \in Nat /\ Len(d.events) \in Nat
    BY <1>7
  <2> QED
    BY <1>7, <1>9, <2>1, <2>2 DEF Increasing
<1>11. segments \ d.rest = (segments \ c.rest) \cup {next}
  BY <1>1, <1>5
<1>12. ToSet(d.events) = EventsOf(segments \ d.rest)
  <2>1. ToSet(d.events) = ToSet(c.events) \cup ToSet(e)
    BY <1>2, <1>5, <1>6, JoinedToSet
  <2>2. EventsOf((segments \ c.rest) \cup {next}) = EventsOf(segments \ c.rest) \cup ToSet(e)
    BY DEF EventsOf, e
  <2> QED
    BY <1>6, <1>11, <2>1, <2>2
<1>13. Disjoint(segments \ d.rest)
  <2>1. \A g \in segments \ c.rest : ToSet(g.events) \cap ToSet(e) = {}
    <3> SUFFICES ASSUME NEW g \in segments \ c.rest, NEW x \in ToSet(g.events), x \in ToSet(e)
                 PROVE  FALSE
      OBVIOUS
    <3>1. x \in ToSet(c.events)
      BY <1>6 DEF EventsOf
    <3>2. PICK i \in DOMAIN c.events : x = c.events[i]
      BY <3>1 DEF ToSet
    <3>3. PICK j \in DOMAIN e : x = e[j]
      BY DEF ToSet
    <3>4. c.events[i] <= c.last /\ c.last < e[j] /\ c.last \in Nat /\ e[j] \in Nat
      BY <1>8
    <3> QED
      BY <3>2, <3>3, <3>4
  <2>2. \A g \in segments \ c.rest : ToSet(e) \cap ToSet(g.events) = {}
    BY <2>1
  <2> QED
    BY <1>6, <1>11, <2>1, <2>2 DEF Disjoint, e
<1>14. d.rest \subseteq segments /\ d.last \in Nat /\ d.refused \in BOOLEAN
  BY <1>2, <1>5, <1>6
<1>15. ChainOf(d, segments)
  <2>1. d \in [events : Seq(Nat \ {0}), last : Nat, refused : BOOLEAN, rest : SUBSET segments]
    BY <1>4, <1>5, <1>7, <1>14
  <2> QED
    BY <1>7, <1>9, <1>10, <1>12, <1>13, <1>5, <2>1 DEF ChainOf
<1> QED
  BY <1>5, <1>15 DEF d, e, next

\* A segment that does overlap it ends the chain.
LEMMA LinkedRefuses ==
    ASSUME NEW segments, IsStream(segments), NEW c, ChainOf(c, segments), ~c.refused,
           c.rest # {},
           ~ \A i \in DOMAIN Earliest(c.rest).events : Earliest(c.rest).events[i] > c.last
    PROVE  ChainOf(Linked(c), segments) /\ Linked(c).refused
<1> DEFINE next == Earliest(c.rest)
           e == next.events
           O == {i \in DOMAIN e : e[i] <= c.last}
           d == Linked(c)
           t == SubSeq(e, 1, Min(O) - 1)
<1>1. next \in c.rest /\ IsSegment(next)
  BY EarliestIs DEF ChainOf, IsStream
<1>2. e \in Seq(Nat \ {0})
  BY <1>1 DEF IsSegment
<1>3. O # {} /\ O \in SUBSET Nat /\ c.last > 0
  <2>1. PICK i \in DOMAIN e : ~(e[i] > c.last)
    OBVIOUS
  <2>2. e[i] \in Nat \ {0} /\ c.last \in Nat
    BY <1>2 DEF ChainOf
  <2> QED
    BY <2>1, <2>2, <1>2
<1>4. Min(O) \in DOMAIN e /\ Min(O) \in Nat
  <2> HIDE DEF O
  <2>1. Min(O) \in O
    BY <1>3, MinIs
  <2> QED
    BY <1>3, <2>1 DEF O
<1>5. d = [c EXCEPT !.events = c.events \o t, !.refused = TRUE]
  BY <1>3 DEF Linked
<1>6. t \in Seq(Nat \ {0})
  <2>1. t = [i \in 1..(Min(O) - 1) |-> e[i]]
    <3> HIDE DEF O, e
    <3>1. Min(O) - 1 \in Nat /\ Min(O) - 1 <= Len(e)
      BY <1>2, <1>4
    <3> QED
      BY <1>2, <3>1
  <2>2. \A i \in 1..(Min(O) - 1) : e[i] \in Nat \ {0}
    <3> HIDE DEF O, e
    <3> QED
      BY <1>2, <1>4
  <2>3. Min(O) - 1 \in Nat
    <3> HIDE DEF O, e
    <3> QED
      BY <1>2, <1>4
  <2> HIDE DEF O, e, t
  <2> QED
    BY <2>1, <2>2, <2>3
<1>7. ChainOf(d, segments)
  <2> HIDE DEF t, O, e, next
  <2>1. c \in [events : Seq(Nat \ {0}), last : Nat, refused : BOOLEAN, rest : SUBSET segments]
    BY DEF ChainOf
  <2>2. c.events \o t \in Seq(Nat \ {0})
    BY <1>6, <2>1
  <2>3. d = [events |-> c.events \o t, last |-> c.last, refused |-> TRUE, rest |-> c.rest]
    <3> HIDE DEF d
    <3> QED
      BY <1>5, <2>1
  <2>4. c.events # <<>> => c.events \o t # <<>>
    BY <1>6, <2>1
  <2>5. c.events \o t # <<>>
    BY <1>3, <2>4 DEF ChainOf
  <2>6. d \in [events : Seq(Nat \ {0}), last : Nat, refused : BOOLEAN, rest : SUBSET segments]
    BY <2>1, <2>2, <2>3
  <2>7. d.events # <<>> /\ d.refused
    BY <2>3, <2>5
  <2> HIDE DEF d
  <2> QED
    BY <2>6, <2>7 DEF ChainOf
<1> QED
  BY <1>5, <1>7

\* A chain holds all segments or is refused.
LEMMA ChainedIs ==
    ASSUME NEW segments, IsStream(segments)
    PROVE  /\ ChainOf(Chained(segments), segments)
           /\ ~Chained(segments).refused => Chained(segments).rest = {}
<1> DEFINE N == Cardinality(segments)
           c(n) == Chaining(segments)[n]
           S == {n \in 0..N : /\ ChainOf(c(n), segments)
                              /\ ~c(n).refused => Cardinality(c(n).rest) = N - n}
<1>1. N \in Nat /\ IsFiniteSet(segments)
  BY FS_CardinalityType DEF IsStream
<1>2. c(0) = NewChain(segments) /\ \A n \in 1..N : c(n) = Linked(c(n - 1))
  BY <1>1, ChainingIs
<1>3. 0 \in S
  <2>1. ChainOf(NewChain(segments), segments)
    BY DEF ChainOf, NewChain, Increasing, EventsOf, Disjoint, ToSet
  <2>2. NewChain(segments).rest = segments
    BY DEF NewChain
  <2> HIDE DEF c
  <2> QED
    BY <1>1, <1>2, <2>1, <2>2
<1>4. ASSUME NEW n \in 0..N, n \in S, n < N PROVE n + 1 \in S
  <2> DEFINE a == c(n)
             b == c(n + 1)
  <2>1. b = Linked(a)
    <3>1. n + 1 \in 1..N /\ (n + 1) - 1 = n
      BY <1>1, <1>4
    <3> HIDE DEF c
    <3> QED
      BY <1>2, <3>1
  <2>2. ChainOf(a, segments) /\ (~a.refused => Cardinality(a.rest) = N - n)
    BY <1>4
  <2> HIDE DEF a
  <2>3. a.rest \subseteq segments /\ IsFiniteSet(a.rest)
    BY <1>1, <2>2, FS_Subset DEF ChainOf
  <2>4. ChainOf(b, segments) /\ (~b.refused => Cardinality(b.rest) = N - (n + 1))
    <3>1. CASE a.refused
      BY <2>1, <2>2, <3>1, LinkedOver
    <3>2. CASE ~a.refused
      <4>1. a.rest # {}
        <5>1. N - n # 0
          BY <1>1, <1>4
        <5> QED
          BY <2>2, <3>2, <5>1, FS_EmptySet
      <4>2. CASE \A i \in DOMAIN Earliest(a.rest).events : Earliest(a.rest).events[i] > a.last
        <5>1. ChainOf(b, segments) /\ b.rest = a.rest \ {Earliest(a.rest)}
          BY <2>1, <2>2, <3>2, <4>1, <4>2, LinkedAdds
        <5>2. Earliest(a.rest) \in a.rest
          BY <2>3, <4>1, EarliestIs DEF IsStream
        <5>3. Cardinality(b.rest) = Cardinality(a.rest) - 1
          BY <2>3, <5>1, <5>2, FS_RemoveElement
        <5> QED
          BY <1>1, <2>2, <3>2, <5>1, <5>3
      <4>3. CASE ~ \A i \in DOMAIN Earliest(a.rest).events :
                     Earliest(a.rest).events[i] > a.last
        BY <2>1, <2>2, <3>2, <4>1, <4>3, LinkedRefuses
      <4> QED
        BY <4>2, <4>3
    <3> QED
      BY <3>1, <3>2
  <2> QED
    BY <1>1, <1>4, <2>4
<1>5. N \in S
  <2>1. \A n \in 0..N : n \in S /\ n < N => n + 1 \in S
    BY <1>4
  <2>2. N \in 0..N
    BY <1>1
  <2> HIDE DEF S
  <2> QED
    BY <1>1, <1>3, <2>1, <2>2, Induction
<1> DEFINE d == c(N)
<1>6. ChainOf(d, segments) /\ (~d.refused => Cardinality(d.rest) = N - N)
  BY <1>5
<1>7. d = Chained(segments)
  BY DEF Chained
<1> HIDE DEF d
<1>8. ~d.refused => d.rest = {}
  BY <1>1, <1>6, FS_EmptySet, FS_Subset DEF ChainOf
<1> QED
  BY <1>6, <1>7, <1>8

\* All events of one segment are older than all of the other.
Precedes(g, h) == \A i \in DOMAIN g.events, j \in DOMAIN h.events : g.events[i] < h.events[j]

Apart(segments) == \A g, h \in segments : g # h => Precedes(g, h) \/ Precedes(h, g)

\* Segments that are apart are not refused.
LEMMA ChainedWhole ==
    ASSUME NEW segments, IsStream(segments), Apart(segments)
    PROVE  ~Chained(segments).refused
<1> DEFINE N == Cardinality(segments)
           c(n) == Chaining(segments)[n]
           S == {n \in 0..N : /\ ChainOf(c(n), segments)
                              /\ ~c(n).refused
                              /\ \A g \in c(n).rest : \A i \in DOMAIN g.events :
                                    g.events[i] > c(n).last}
<1>1. N \in Nat /\ IsFiniteSet(segments)
  BY FS_CardinalityType DEF IsStream
<1>2. c(0) = NewChain(segments) /\ \A n \in 1..N : c(n) = Linked(c(n - 1))
  BY <1>1, ChainingIs
<1>3. 0 \in S
  <2>1. ChainOf(NewChain(segments), segments)
    BY DEF ChainOf, NewChain, Increasing, EventsOf, Disjoint, ToSet
  <2>2. \A g \in segments : \A i \in DOMAIN g.events : g.events[i] > 0
    <3> SUFFICES ASSUME NEW g \in segments, NEW i \in DOMAIN g.events PROVE g.events[i] > 0
      OBVIOUS
    <3>1. g.events[i] \in Nat \ {0}
      BY DEF IsStream, IsSegment
    <3> QED
      BY <3>1
  <2>3. /\ NewChain(segments).rest = segments /\ NewChain(segments).last = 0
        /\ ~NewChain(segments).refused
    BY DEF NewChain
  <2> HIDE DEF c
  <2> QED
    BY <1>1, <1>2, <2>1, <2>2, <2>3
<1>4. ASSUME NEW n \in 0..N, n \in S, n < N PROVE n + 1 \in S
  <2> DEFINE a == c(n)
             b == c(n + 1)
             Goal == /\ ChainOf(b, segments)
                     /\ ~b.refused
                     /\ \A g \in b.rest : \A i \in DOMAIN g.events : g.events[i] > b.last
  <2>1. b = Linked(a)
    <3>1. n + 1 \in 1..N /\ (n + 1) - 1 = n
      BY <1>1, <1>4
    <3> HIDE DEF c
    <3> QED
      BY <1>2, <3>1
  <2>2. /\ ChainOf(a, segments) /\ ~a.refused
        /\ \A g \in a.rest : \A i \in DOMAIN g.events : g.events[i] > a.last
    BY <1>4
  <2> HIDE DEF a
  <2>3. CASE a.rest = {}
    <3>1. b = a
      BY <2>1, <2>3, LinkedOver
    <3> QED
      BY <1>1, <1>4, <2>2, <3>1
  <2>4. CASE a.rest # {}
    <3> DEFINE next == Earliest(a.rest)
    <3>1. a.rest \subseteq segments
      BY <2>2 DEF ChainOf
    <3>2. next \in a.rest /\ \A g \in a.rest : next.events[1] <= g.events[1]
      BY <2>4, <3>1, EarliestIs DEF IsStream
    <3>3. \A i \in DOMAIN next.events : next.events[i] > a.last
      BY <2>2, <3>2
    <3>4. ChainOf(b, segments) /\ ~b.refused /\ b.rest = a.rest \ {next}
          /\ b.last = Last(next.events)
      BY <2>1, <2>2, <2>4, <3>3, LinkedAdds
    <3> HIDE DEF next, b
    <3>5. \A g \in b.rest : \A i \in DOMAIN g.events : g.events[i] > b.last
      <4> SUFFICES ASSUME NEW g \in b.rest, NEW i \in DOMAIN g.events
                   PROVE  g.events[i] > b.last
        OBVIOUS
      <4>1. g \in segments /\ next \in segments /\ g # next /\ g \in a.rest
        BY <3>1, <3>2, <3>4
      <4>2. IsSegment(g) /\ IsSegment(next)
        BY <4>1 DEF IsStream
      <4>3. 1 \in DOMAIN g.events /\ 1 \in DOMAIN next.events
            /\ g.events[1] \in Nat /\ next.events[1] \in Nat /\ g.events[i] \in Nat
            /\ Len(next.events) \in DOMAIN next.events
            /\ next.events[Len(next.events)] \in Nat
        BY <4>2 DEF IsSegment
      <4>4. ~(g.events[1] < next.events[1])
        BY <3>2, <4>1, <4>3
      <4>5. ~Precedes(g, next)
        BY <4>3, <4>4 DEF Precedes
      <4>6. Precedes(next, g)
        BY <4>1, <4>5 DEF Apart
      <4>7. next.events[Len(next.events)] < g.events[i]
        BY <4>3, <4>6 DEF Precedes
      <4> QED
        BY <3>4, <4>3, <4>7 DEF Last
    <3> QED
      BY <1>1, <1>4, <3>4, <3>5 DEF b
  <2> QED
    BY <2>3, <2>4
<1>5. N \in S
  <2>1. \A n \in 0..N : n \in S /\ n < N => n + 1 \in S
    BY <1>4
  <2>2. N \in 0..N
    BY <1>1
  <2> HIDE DEF S
  <2> QED
    BY <1>1, <1>3, <2>1, <2>2, Induction
<1>6. ~c(N).refused
  BY <1>5
<1> QED
  BY <1>6 DEF Chained

-----------------------------------------------------------------------------
(* Merges.                                                                 *)

NewMerge(chains) ==
    [at |-> [i \in DOMAIN chains |-> 1], expected |-> 0, events |-> <<>>, refused |-> FALSE]

\* The function that Merging chooses exists.
LEMMA MergingIs ==
    ASSUME NEW chains, Cardinality(Places(chains)) \in Nat
    PROVE  /\ Merging(chains)[0] = NewMerge(chains)
           /\ \A n \in 1..Cardinality(Places(chains)) :
                Merging(chains)[n] = Popped(chains, Merging(chains)[n - 1])
<1> DEFINE N == Cardinality(Places(chains))
           Rec(f, m) == f = [n \in 0..m |-> IF n = 0 THEN NewMerge(chains)
                                             ELSE Popped(chains, f[n - 1])]
           S == {m \in 0..N : \E f : Rec(f, m)}
<1>1. 0 \in S
  <2> DEFINE f == [n \in 0..0 |-> NewMerge(chains)]
  <2>1. Rec(f, 0)
    OBVIOUS
  <2>2. \E e : Rec(e, 0)
    <3> HIDE DEF f
    <3> QED
      BY <2>1
  <2>3. 0 \in 0..N
    OBVIOUS
  <2> HIDE DEF Rec
  <2> QED
    BY <2>2, <2>3
<1>2. ASSUME NEW m \in 0..N, m \in S, m < N PROVE m + 1 \in S
  <2>1. PICK f : Rec(f, m)
    BY <1>2
  <2> DEFINE g == [n \in 0..(m + 1) |-> IF n <= m THEN f[n] ELSE Popped(chains, f[m])]
  <2>2. \A n \in 0..(m + 1) : g[n] = IF n = 0 THEN NewMerge(chains) ELSE Popped(chains, g[n - 1])
    <3> SUFFICES ASSUME NEW n \in 0..(m + 1)
                 PROVE  g[n] = IF n = 0 THEN NewMerge(chains) ELSE Popped(chains, g[n - 1])
      OBVIOUS
    <3>1. CASE n = 0
      BY <2>1, <3>1
    <3>2. CASE n # 0 /\ n <= m
      <4>1. n - 1 \in 0..(m + 1) /\ n - 1 <= m /\ n \in 0..m
        BY <3>2
      <4>2. g[n] = f[n] /\ g[n - 1] = f[n - 1]
        BY <3>2, <4>1
      <4> QED
        BY <2>1, <3>2, <4>1, <4>2
    <3>3. CASE n = m + 1
      <4>1. n - 1 = m /\ m \in 0..(m + 1) /\ ~(n <= m) /\ n # 0
        BY <3>3
      <4>2. g[n] = Popped(chains, f[m]) /\ g[m] = f[m]
        BY <4>1
      <4> QED
        BY <4>1, <4>2
    <3> QED
      BY <3>1, <3>2, <3>3
  <2>3. Rec(g, m + 1)
    <3> DEFINE h == [n \in 0..(m + 1) |-> IF n = 0 THEN NewMerge(chains)
                                          ELSE Popped(chains, g[n - 1])]
    <3>1. \A n \in 0..(m + 1) : h[n] = g[n]
      <4> HIDE DEF g
      <4> QED
        BY <2>2
    <3>2. g = [n \in 0..(m + 1) |-> g[n]] /\ h = [n \in 0..(m + 1) |-> h[n]]
      OBVIOUS
    <3> HIDE DEF g, h
    <3>3. g = h
      BY <3>1, <3>2
    <3> QED
      BY <3>3 DEF h
  <2>4. \E e : Rec(e, m + 1)
    <3> HIDE DEF g
    <3> QED
      BY <2>3
  <2> HIDE DEF Rec
  <2> QED
    BY <1>2, <2>4
<1>3. N \in S
  <2>1. \A n \in 0..N : n \in S /\ n < N => n + 1 \in S
    BY <1>2
  <2> HIDE DEF S
  <2> QED
    BY <1>1, <2>1, Induction
<1>4. \E f : Rec(f, N)
  BY <1>3
<1>5. Rec(Merging(chains), N)
  BY <1>4 DEF Merging, NewMerge
<1> QED
  BY <1>5

\* The chains of the streams, in some order
AreChains(chains) ==
    /\ DOMAIN chains \subseteq Nat /\ IsFiniteSet(DOMAIN chains)
    /\ \A i \in DOMAIN chains :
          /\ chains[i].events \in Seq(Nat \ {0})
          /\ chains[i].refused => chains[i].events # <<>>

EventAt(chains, p) == chains[p[1]].events[p[2]]

\* The places whose events a merge has taken
PlacesBefore(chains, at) == {p \in Places(chains) : p[2] < at[p[1]]}

Consecutive(s) == \A i \in DOMAIN s : s[i] = s[1] + i - 1

\* A merge of the events at the beginning of some of these chains: they are
\* consecutive, and each one occurs at one place.
MergeOf(m, chains) ==
    /\ m \in [at : [DOMAIN chains -> Nat], expected : Nat, events : Seq(Nat \ {0}),
              refused : BOOLEAN]
    /\ \A i \in DOMAIN chains : m.at[i] \in 1..(Len(chains[i].events) + 1)
    /\ m.expected = IF m.events = <<>> THEN 0 ELSE m.events[1] + Len(m.events)
    /\ Consecutive(m.events)
    /\ ToSet(m.events) = {EventAt(chains, p) : p \in PlacesBefore(chains, m.at)}
    /\ \A p, q \in PlacesBefore(chains, m.at) :
          p # q => EventAt(chains, p) # EventAt(chains, q)
    /\ Cardinality(PlacesBefore(chains, m.at)) = Len(m.events)
    /\ ~m.refused => \A i \in DOMAIN chains :
                        m.at[i] = Len(chains[i].events) + 1 => ~chains[i].refused

LEMMA PlacesFinite ==
    ASSUME NEW chains, AreChains(chains)
    PROVE  IsFiniteSet(Places(chains)) /\ Cardinality(Places(chains)) \in Nat
<1> DEFINE f == [i \in DOMAIN chains |-> {i} \X DOMAIN chains[i].events]
           T == {{i} \X DOMAIN chains[i].events : i \in DOMAIN chains}
<1>1. f \in Surjection(DOMAIN chains, T)
  BY DEF Surjection
<1>2. IsFiniteSet(T)
  <2> HIDE DEF f, T
  <2> QED
    BY <1>1, FS_Surjection DEF AreChains
<1>3. \A t \in T : IsFiniteSet(t)
  <2> SUFFICES ASSUME NEW i \in DOMAIN chains
               PROVE  IsFiniteSet({i} \X DOMAIN chains[i].events)
    OBVIOUS
  <2>1. DOMAIN chains[i].events = 1..Len(chains[i].events) /\ Len(chains[i].events) \in Int
    BY DEF AreChains
  <2>2. IsFiniteSet(DOMAIN chains[i].events)
    BY <2>1, FS_Interval
  <2>3. IsFiniteSet({i})
    BY FS_Singleton
  <2> QED
    BY <2>2, <2>3, FS_Product
<1>4. IsFiniteSet(UNION T)
  <2> HIDE DEF T
  <2> QED
    BY <1>2, <1>3, FS_UNION
<1> QED
  BY <1>4, FS_CardinalityType DEF Places

LEMMA LeastIs ==
    ASSUME NEW heads \in SUBSET Nat, heads # {}, NEW head, \A i \in heads : head[i] \in Nat
    PROVE  Least(heads, head) \in heads /\ \A j \in heads : head[Least(heads, head)] <= head[j]
<1> DEFINE V == {head[i] : i \in heads}
<1>1. PICK v \in V : \A w \in V : v <= w
  <2>1. V \in SUBSET Nat /\ V # {}
    OBVIOUS
  <2> HIDE DEF V
  <2> QED
    BY <2>1, LeastNumber
<1> DEFINE I == {i \in heads : head[i] = v}
<1>2. PICK i \in I : \A j \in I : i <= j
  <2>1. I \in SUBSET Nat /\ I # {}
    BY <1>1
  <2> HIDE DEF I
  <2> QED
    BY <2>1, LeastNumber
<1>3. i \in heads /\ \A j \in heads : head[i] < head[j] \/ (head[i] = head[j] /\ i <= j)
  <2>1. head[i] = v /\ v \in Nat
    BY <1>1, <1>2
  <2> SUFFICES ASSUME NEW j \in heads PROVE head[i] < head[j] \/ (head[i] = head[j] /\ i <= j)
    BY <1>2
  <2>2. v <= head[j] /\ head[j] \in Nat
    BY <1>1
  <2>3. CASE head[j] = v
    BY <1>2, <2>1, <2>3
  <2> QED
    BY <2>1, <2>2, <2>3
<1> DEFINE L == Least(heads, head)
<1>4. L \in heads /\ \A j \in heads : head[L] < head[j] \/ (head[L] = head[j] /\ L <= j)
  BY <1>3 DEF Least
<1> HIDE DEF L
<1>5. \A j \in heads : head[L] <= head[j]
  BY <1>4
<1> QED
  BY <1>4, <1>5 DEF L

Heads(chains, m) == {i \in DOMAIN chains : m.at[i] <= Len(chains[i].events)}

HeadOf(chains, m, i) == chains[i].events[m.at[i]]

Top(chains, m) ==
    Least(Heads(chains, m), [i \in Heads(chains, m) |-> chains[i].events[m.at[i]]])

LEMMA TopIs ==
    ASSUME NEW chains, AreChains(chains), NEW m, MergeOf(m, chains), Heads(chains, m) # {}
    PROVE  /\ Top(chains, m) \in Heads(chains, m)
           /\ \A j \in Heads(chains, m) :
                HeadOf(chains, m, Top(chains, m)) <= HeadOf(chains, m, j)
<1> DEFINE H == Heads(chains, m)
           head == [i \in H |-> chains[i].events[m.at[i]]]
<1>1. H \in SUBSET Nat
  BY DEF Heads, AreChains
<1>2. \A i \in H : head[i] \in Nat /\ head[i] = HeadOf(chains, m, i)
  <2> SUFFICES ASSUME NEW i \in H PROVE head[i] \in Nat /\ head[i] = HeadOf(chains, m, i)
    OBVIOUS
  <2>1. i \in DOMAIN chains /\ m.at[i] \in 1..Len(chains[i].events)
        /\ chains[i].events \in Seq(Nat \ {0})
    BY DEF Heads, AreChains, MergeOf
  <2> QED
    BY <2>1 DEF HeadOf
<1>3. Top(chains, m) = Least(H, head)
  BY DEF Top
<1> HIDE DEF H, head
<1>4. H # {}
  BY DEF H
<1>5. Least(H, head) \in H /\ \A j \in H : head[Least(H, head)] <= head[j]
  BY <1>1, <1>2, <1>4, LeastIs
<1> QED
  BY <1>2, <1>3, <1>5 DEF H

\* Nothing is taken when the merge is refused or has all events.
LEMMA PoppedOver ==
    ASSUME NEW chains, NEW m, m.refused \/ Heads(chains, m) = {}
    PROVE  Popped(chains, m) = m
BY DEF Popped, Heads

\* A head that is not the expected event ends the merge.
LEMMA PoppedRefuses ==
    ASSUME NEW chains, NEW m, MergeOf(m, chains), ~m.refused, Heads(chains, m) # {},
           m.expected \notin {0, HeadOf(chains, m, Top(chains, m))},
           Top(chains, m) \in Heads(chains, m)
    PROVE  MergeOf(Popped(chains, m), chains) /\ Popped(chains, m).refused
<1> DEFINE n == Popped(chains, m)
<1>1. n = [m EXCEPT !.refused = TRUE]
  BY DEF Popped, Heads, HeadOf, Top
<1>2. m \in [at : [DOMAIN chains -> Nat], expected : Nat, events : Seq(Nat \ {0}),
             refused : BOOLEAN]
  BY DEF MergeOf
<1> HIDE DEF n
<1>3. n = [at |-> m.at, expected |-> m.expected, events |-> m.events, refused |-> TRUE]
  BY <1>1, <1>2
<1>4. MergeOf(n, chains)
  BY <1>2, <1>3 DEF MergeOf
<1> QED
  BY <1>3, <1>4 DEF n

\* Otherwise it is taken.
LEMMA PoppedIs ==
    ASSUME NEW chains, NEW m, ~m.refused, Heads(chains, m) # {},
           m.expected \in {0, HeadOf(chains, m, Top(chains, m))},
           Top(chains, m) \in Heads(chains, m)
    PROVE  LET top == Top(chains, m)
               x == HeadOf(chains, m, top)
           IN
           Popped(chains, m) =
             [at |-> [m.at EXCEPT ![top] = m.at[top] + 1],
              expected |-> x + 1,
              events |-> Append(m.events, x),
              refused |-> m.at[top] = Len(chains[top].events) /\ chains[top].refused]
BY DEF Popped, Heads, HeadOf, Top

LEMMA PoppedTakes ==
    ASSUME NEW chains, AreChains(chains), NEW m, MergeOf(m, chains), ~m.refused,
           Heads(chains, m) # {},
           m.expected \in {0, HeadOf(chains, m, Top(chains, m))},
           Top(chains, m) \in Heads(chains, m)
    PROVE  /\ MergeOf(Popped(chains, m), chains)
           /\ Len(Popped(chains, m).events) = Len(m.events) + 1
           /\ Popped(chains, m).events = Append(m.events, HeadOf(chains, m, Top(chains, m)))
           /\ ~chains[Top(chains, m)].refused => ~Popped(chains, m).refused
<1> DEFINE n == Popped(chains, m)
           top == Top(chains, m)
           x == HeadOf(chains, m, top)
           p == <<top, m.at[top]>>
           at == [m.at EXCEPT ![top] = m.at[top] + 1]
           e == Append(m.events, x)
<1>1. n = [at |-> at, expected |-> x + 1, events |-> e,
           refused |-> m.at[top] = Len(chains[top].events) /\ chains[top].refused]
  BY PoppedIs
<1>2. /\ top \in DOMAIN chains /\ m.at[top] \in 1..Len(chains[top].events)
      /\ chains[top].events \in Seq(Nat \ {0})
  BY DEF Heads, AreChains, MergeOf
<1> HIDE DEF n, top
<1>3. x \in Nat \ {0} /\ x = EventAt(chains, p) /\ p[1] = top /\ p[2] = m.at[top]
  BY <1>2 DEF HeadOf, EventAt
<1>4. p \in Places(chains) /\ p \notin PlacesBefore(chains, m.at)
  BY <1>2 DEF Places, PlacesBefore
<1>5. /\ m.at \in [DOMAIN chains -> Nat] /\ m.expected \in Nat /\ m.events \in Seq(Nat \ {0})
      /\ \A i \in DOMAIN chains : m.at[i] \in 1..(Len(chains[i].events) + 1)
      /\ m.expected = IF m.events = <<>> THEN 0 ELSE m.events[1] + Len(m.events)
      /\ Consecutive(m.events)
      /\ ToSet(m.events) = {EventAt(chains, q) : q \in PlacesBefore(chains, m.at)}
      /\ Cardinality(PlacesBefore(chains, m.at)) = Len(m.events)
  BY DEF MergeOf
<1>6. \A i \in DOMAIN chains : at[i] = IF i = top THEN m.at[i] + 1 ELSE m.at[i]
  BY <1>2, <1>5
<1>7. at \in [DOMAIN chains -> Nat]
  BY <1>2, <1>5
<1> HIDE DEF at, x, p
<1>8. \A i \in DOMAIN chains : at[i] \in 1..(Len(chains[i].events) + 1)
  <2> SUFFICES ASSUME NEW i \in DOMAIN chains PROVE at[i] \in 1..(Len(chains[i].events) + 1)
    OBVIOUS
  <2>1. CASE i = top
    BY <1>2, <1>6, <2>1
  <2>2. CASE i # top
    BY <1>5, <1>6, <2>2
  <2> QED
    BY <2>1, <2>2
<1>9. PlacesBefore(chains, at) = PlacesBefore(chains, m.at) \cup {p}
  <2>1. \A q \in Places(chains) : q[1] \in DOMAIN chains /\ q[2] \in Nat /\ q = <<q[1], q[2]>>
    <3> SUFFICES ASSUME NEW i \in DOMAIN chains, NEW k \in DOMAIN chains[i].events
                 PROVE  k \in Nat
      BY DEF Places
    <3> QED
      BY DEF AreChains
  <2>2. \A q \in Places(chains) : q[2] < at[q[1]] <=> q[2] < m.at[q[1]] \/ q = p
    <3> SUFFICES ASSUME NEW q \in Places(chains)
                 PROVE  q[2] < at[q[1]] <=> q[2] < m.at[q[1]] \/ q = p
      OBVIOUS
    <3>1. q[1] \in DOMAIN chains /\ q[2] \in Nat /\ q = <<q[1], q[2]>> /\ m.at[q[1]] \in Nat
      BY <1>5, <2>1
    <3>2. CASE q[1] = top
      <4>1. q[2] < at[q[1]] <=> q[2] < m.at[q[1]] \/ q[2] = m.at[q[1]]
        BY <1>6, <3>1, <3>2
      <4>2. q[2] = m.at[q[1]] <=> q = p
        BY <3>1, <3>2, <1>3 DEF p
      <4> QED
        BY <4>1, <4>2
    <3>3. CASE q[1] # top
      BY <1>3, <1>6, <3>1, <3>3
    <3> QED
      BY <3>2, <3>3
  <2> QED
    BY <1>4, <2>2 DEF PlacesBefore
<1>10. m.events = <<>> \/ x = m.events[1] + Len(m.events)
  BY <1>5 DEF x, top
<1>11. e \in Seq(Nat \ {0}) /\ Len(e) = Len(m.events) + 1 /\ e # <<>> /\ Len(m.events) \in Nat
       /\ e[Len(m.events) + 1] = x /\ \A i \in 1..Len(m.events) : e[i] = m.events[i]
  <2>1. e \in Seq(Nat \ {0}) /\ Len(e) = Len(m.events) + 1 /\ Len(m.events) \in Nat
    BY <1>3, <1>5
  <2>2. e[Len(m.events) + 1] = x /\ \A i \in 1..Len(m.events) : e[i] = m.events[i]
    BY <1>3, <1>5
  <2>3. e # <<>>
    <3> HIDE DEF e
    <3> QED
      BY <2>1
  <2> QED
    BY <2>1, <2>2, <2>3
<1>12. /\ x = e[1] + Len(m.events)
       /\ Consecutive(e)
       /\ \A i \in DOMAIN m.events : m.events[i] < x
  <2>1. DOMAIN e = 1..(Len(m.events) + 1) /\ DOMAIN m.events = 1..Len(m.events)
    BY <1>5, <1>11
  <2>2. CASE m.events = <<>>
    <3>1. Len(m.events) = 0
      BY <2>2
    <3>2. e[1] = x /\ DOMAIN e = 1..1 /\ DOMAIN m.events = {}
      BY <1>11, <2>1, <3>1
    <3> HIDE DEF e
    <3> QED
      BY <1>3, <3>1, <3>2 DEF Consecutive
  <2>3. CASE m.events # <<>>
    <3>1. 1 \in 1..Len(m.events) /\ m.events[1] \in Nat /\ e[1] = m.events[1]
      BY <1>5, <1>11, <2>3
    <3>2. \A i \in 1..Len(m.events) : m.events[i] = m.events[1] + i - 1
      BY <1>5, <2>1 DEF Consecutive
    <3> HIDE DEF e
    <3>3. \A i \in 1..(Len(m.events) + 1) : e[i] = e[1] + i - 1
      <4> SUFFICES ASSUME NEW i \in 1..(Len(m.events) + 1) PROVE e[i] = e[1] + i - 1
        OBVIOUS
      <4>1. CASE i = Len(m.events) + 1
        BY <1>10, <1>11, <2>3, <3>1, <4>1
      <4>2. CASE i # Len(m.events) + 1
        <5>1. i \in 1..Len(m.events)
          BY <1>11, <4>2
        <5> QED
          BY <1>11, <3>1, <3>2, <5>1
      <4> QED
        BY <4>1, <4>2
    <3> QED
      BY <1>10, <1>11, <2>1, <2>3, <3>1, <3>2, <3>3 DEF Consecutive
  <2> QED
    BY <2>2, <2>3
<1>13. ToSet(e) = {EventAt(chains, q) : q \in PlacesBefore(chains, at)}
  <2>1. ToSet(e) = ToSet(m.events) \cup {x}
    <3>1. DOMAIN e = 1..(Len(m.events) + 1) /\ DOMAIN m.events = 1..Len(m.events)
      BY <1>5, <1>11
    <3> HIDE DEF e
    <3>2. Len(m.events) + 1 \in DOMAIN e /\ \A i \in DOMAIN m.events : i \in DOMAIN e
      BY <1>11, <3>1
    <3>3. ToSet(m.events) \cup {x} \subseteq ToSet(e)
      BY <1>11, <3>1, <3>2 DEF ToSet
    <3>4. \A i \in DOMAIN e : i = Len(m.events) + 1 \/ i \in DOMAIN m.events
      BY <1>11, <3>1
    <3>5. ToSet(e) \subseteq ToSet(m.events) \cup {x}
      BY <1>11, <3>1, <3>4 DEF ToSet
    <3> QED
      BY <3>3, <3>5
  <2> QED
    BY <1>3, <1>5, <1>9, <2>1
<1>14. \A q, r \in PlacesBefore(chains, at) :
          q # r => EventAt(chains, q) # EventAt(chains, r)
  <2>1. \A q \in PlacesBefore(chains, m.at) : EventAt(chains, q) # EventAt(chains, p)
    <3> SUFFICES ASSUME NEW q \in PlacesBefore(chains, m.at), EventAt(chains, q) = x
                 PROVE  FALSE
      BY <1>3
    <3>1. x \in ToSet(m.events)
      BY <1>5
    <3>2. PICK i \in DOMAIN m.events : m.events[i] = x
      BY <3>1 DEF ToSet
    <3> QED
      BY <1>3, <1>12, <3>2
  <2> QED
    BY <1>9, <2>1 DEF MergeOf
<1>15. Cardinality(PlacesBefore(chains, at)) = Len(e)
  <2>1. IsFiniteSet(PlacesBefore(chains, m.at))
    BY PlacesFinite, FS_Subset DEF PlacesBefore
  <2>2. Cardinality(PlacesBefore(chains, m.at) \cup {p}) = Cardinality(PlacesBefore(chains, m.at)) + 1
    BY <1>4, <2>1, FS_AddElement
  <2> QED
    BY <1>5, <1>9, <1>11, <2>2
<1>16. ~n.refused => \A i \in DOMAIN chains :
                       at[i] = Len(chains[i].events) + 1 => ~chains[i].refused
  <2> SUFFICES ASSUME ~n.refused, NEW i \in DOMAIN chains, at[i] = Len(chains[i].events) + 1
               PROVE  ~chains[i].refused
    OBVIOUS
  <2>1. CASE i = top
    <3>1. m.at[top] = Len(chains[top].events)
      BY <1>2, <1>6, <2>1
    <3>2. n.refused = (m.at[top] = Len(chains[top].events) /\ chains[top].refused)
      BY <1>1
    <3> QED
      BY <2>1, <3>1, <3>2
  <2>2. CASE i # top
    BY <1>6, <2>2 DEF MergeOf
  <2> QED
    BY <2>1, <2>2
<1>17. n \in [at : [DOMAIN chains -> Nat], expected : Nat, events : Seq(Nat \ {0}),
              refused : BOOLEAN]
  <2>1. x + 1 \in Nat
    BY <1>3
  <2> HIDE DEF e
  <2> QED
    BY <1>1, <1>7, <1>11, <2>1
<1>18. n.expected = IF n.events = <<>> THEN 0 ELSE n.events[1] + Len(n.events)
  <2>1. x + 1 = e[1] + Len(e)
    <3>1. e[1] \in Nat
      BY <1>11
    <3> HIDE DEF e
    <3> QED
      BY <1>3, <1>11, <1>12, <3>1
  <2> HIDE DEF e
  <2> QED
    BY <1>1, <1>11, <2>1
<1> HIDE DEF e
<1>19. n.at = at /\ n.events = e
  BY <1>1
<1>20. MergeOf(n, chains)
  BY <1>8, <1>12, <1>13, <1>14, <1>15, <1>16, <1>17, <1>18, <1>19 DEF MergeOf
<1>21. ~chains[top].refused => ~n.refused
  BY <1>1
<1> QED
  BY <1>11, <1>19, <1>20, <1>21 DEF n, e, x, top

LEMMA HeadsLeft ==
    ASSUME NEW chains, AreChains(chains), NEW m, MergeOf(m, chains), Heads(chains, m) = {}
    PROVE  PlacesBefore(chains, m.at) = Places(chains)
<1> SUFFICES ASSUME NEW i \in DOMAIN chains, NEW k \in DOMAIN chains[i].events
             PROVE  <<i, k>> \in PlacesBefore(chains, m.at)
  BY DEF Places, PlacesBefore
<1>1. <<i, k>> \in Places(chains) /\ <<i, k>>[1] = i /\ <<i, k>>[2] = k
  BY DEF Places
<1>2. k \in 1..Len(chains[i].events) /\ Len(chains[i].events) \in Nat
  BY DEF AreChains
<1>3. m.at[i] \in Nat /\ ~(m.at[i] <= Len(chains[i].events))
  BY DEF MergeOf, Heads
<1> QED
  BY <1>1, <1>2, <1>3 DEF PlacesBefore

LEMMA NewMergeIs ==
    ASSUME NEW chains, AreChains(chains)
    PROVE  MergeOf(NewMerge(chains), chains) /\ Len(NewMerge(chains).events) = 0
<1> DEFINE m == NewMerge(chains)
<1>1. /\ m = [at |-> [i \in DOMAIN chains |-> 1], expected |-> 0, events |-> <<>>,
              refused |-> FALSE]
      /\ m.events = <<>> /\ m.expected = 0 /\ \A i \in DOMAIN chains : m.at[i] = 1
  BY DEF NewMerge
<1> HIDE DEF m
<1>2. PlacesBefore(chains, m.at) = {}
  <2> SUFFICES ASSUME NEW i \in DOMAIN chains, NEW k \in DOMAIN chains[i].events
               PROVE  ~(k < m.at[i])
    BY DEF Places, PlacesBefore
  <2>1. k \in 1..Len(chains[i].events)
    BY DEF AreChains
  <2> QED
    BY <1>1, <2>1
<1>3. m \in [at : [DOMAIN chains -> Nat], expected : Nat, events : Seq(Nat \ {0}),
             refused : BOOLEAN]
  BY <1>1
<1>4. \A i \in DOMAIN chains : m.at[i] \in 1..(Len(chains[i].events) + 1)
  <2> SUFFICES ASSUME NEW i \in DOMAIN chains PROVE 1 \in 1..(Len(chains[i].events) + 1)
    BY <1>1
  <2>1. Len(chains[i].events) \in Nat
    BY DEF AreChains
  <2> QED
    BY <2>1
<1>5. \A i \in DOMAIN chains : m.at[i] = Len(chains[i].events) + 1 => ~chains[i].refused
  <2> SUFFICES ASSUME NEW i \in DOMAIN chains, 1 = Len(chains[i].events) + 1
               PROVE  ~chains[i].refused
    BY <1>1
  <2>1. chains[i].events \in Seq(Nat \ {0})
    BY DEF AreChains
  <2>2. chains[i].events = <<>>
    BY <2>1
  <2> QED
    BY <2>2 DEF AreChains
<1>6. ToSet(m.events) = {} /\ Consecutive(m.events) /\ Len(m.events) = 0 /\ Cardinality({}) = 0
  BY <1>1, FS_EmptySet DEF ToSet, Consecutive
<1> QED
  BY <1>1, <1>2, <1>3, <1>4, <1>5, <1>6 DEF MergeOf, m

\* What Popped makes of a merge is a merge, with one event more or refused.
LEMMA PoppedOne ==
    ASSUME NEW chains, AreChains(chains), NEW m, MergeOf(m, chains),
           NEW r \in Nat, r < Cardinality(Places(chains)), ~m.refused => Len(m.events) = r
    PROVE  /\ MergeOf(Popped(chains, m), chains)
           /\ ~Popped(chains, m).refused => Len(Popped(chains, m).events) = r + 1
<1>1. CASE m.refused
  BY <1>1, PoppedOver
<1>2. CASE ~m.refused
  <2>1. PlacesBefore(chains, m.at) # Places(chains)
    BY <1>2 DEF MergeOf
  <2>2. Heads(chains, m) # {}
    BY <2>1, HeadsLeft
  <2>3. Top(chains, m) \in Heads(chains, m)
    BY <2>2, TopIs
  <2>4. CASE m.expected \in {0, HeadOf(chains, m, Top(chains, m))}
    BY <1>2, <2>2, <2>3, <2>4, PoppedTakes
  <2>5. CASE m.expected \notin {0, HeadOf(chains, m, Top(chains, m))}
    BY <1>2, <2>2, <2>3, <2>5, PoppedRefuses
  <2> QED
    BY <2>4, <2>5
<1> QED
  BY <1>1, <1>2

\* A merge takes all events or is refused.
LEMMA MergedIs ==
    ASSUME NEW chains, AreChains(chains)
    PROVE  /\ MergeOf(Merged(chains), chains)
           /\ ~Merged(chains).refused =>
                /\ PlacesBefore(chains, Merged(chains).at) = Places(chains)
                /\ \A i \in DOMAIN chains : ~chains[i].refused
<1> DEFINE N == Cardinality(Places(chains))
           m(r) == Merging(chains)[r]
           S == {r \in 0..N : /\ MergeOf(m(r), chains)
                              /\ ~m(r).refused => Len(m(r).events) = r}
<1>1. N \in Nat /\ IsFiniteSet(Places(chains))
  BY PlacesFinite
<1>2. m(0) = NewMerge(chains) /\ \A r \in 1..N : m(r) = Popped(chains, m(r - 1))
  BY <1>1, MergingIs
<1>3. 0 \in S
  <2>1. MergeOf(NewMerge(chains), chains) /\ Len(NewMerge(chains).events) = 0
    BY NewMergeIs
  <2> HIDE DEF m
  <2> QED
    BY <1>1, <1>2, <2>1
<1>4. ASSUME NEW r \in 0..N, r \in S, r < N PROVE r + 1 \in S
  <2>1. r + 1 \in 1..N /\ (r + 1) - 1 = r /\ r + 1 \in 0..N /\ r \in Nat
    BY <1>1, <1>4
  <2>2. MergeOf(m(r), chains) /\ (~m(r).refused => Len(m(r).events) = r)
    BY <1>4
  <2> HIDE DEF m
  <2>3. m(r + 1) = Popped(chains, m(r))
    BY <1>2, <2>1
  <2>4. MergeOf(m(r + 1), chains) /\ (~m(r + 1).refused => Len(m(r + 1).events) = r + 1)
    <3> DEFINE a == m(r)
    <3>1. MergeOf(a, chains) /\ (~a.refused => Len(a.events) = r)
      BY <2>2
    <3> HIDE DEF a, N
    <3>2. r < Cardinality(Places(chains))
      BY <1>4 DEF N
    <3>3. MergeOf(Popped(chains, a), chains)
          /\ (~Popped(chains, a).refused => Len(Popped(chains, a).events) = r + 1)
      BY <2>1, <3>1, <3>2, PoppedOne
    <3> QED
      BY <2>3, <3>3 DEF a
  <2> QED
    BY <2>1, <2>4
<1>5. N \in S
  <2>1. \A r \in 0..N : r \in S /\ r < N => r + 1 \in S
    BY <1>4
  <2>2. N \in 0..N
    BY <1>1
  <2> HIDE DEF S
  <2> QED
    BY <1>1, <1>3, <2>1, <2>2, Induction
<1> DEFINE d == m(N)
<1>6. MergeOf(d, chains) /\ (~d.refused => Len(d.events) = N)
  BY <1>5
<1>7. d = Merged(chains)
  BY DEF Merged
<1> HIDE DEF d
<1>8. ~d.refused => PlacesBefore(chains, d.at) = Places(chains)
  <2>1. PlacesBefore(chains, d.at) \in SUBSET Places(chains)
    BY DEF PlacesBefore
  <2>2. ~d.refused => Cardinality(PlacesBefore(chains, d.at)) = N
    BY <1>6 DEF MergeOf
  <2> QED
    BY <1>1, <2>1, <2>2, FS_Subset
<1>9. ASSUME ~d.refused, NEW i \in DOMAIN chains PROVE ~chains[i].refused
  <2>1. SUFFICES ASSUME chains[i].refused PROVE FALSE
    OBVIOUS
  <2>2. chains[i].events \in Seq(Nat \ {0}) /\ chains[i].events # <<>>
    BY <2>1 DEF AreChains
  <2> DEFINE k == Len(chains[i].events)
  <2>3. k \in DOMAIN chains[i].events /\ k \in Nat
    BY <2>2
  <2>4. <<i, k>> \in Places(chains)
    BY <2>3 DEF Places
  <2>5. <<i, k>>[1] = i /\ <<i, k>>[2] = k
    OBVIOUS
  <2> HIDE DEF k
  <2>6. k < d.at[i]
    BY <1>8, <1>9, <2>4, <2>5 DEF PlacesBefore
  <2>7. d.at[i] \in 1..(k + 1)
    BY <1>6 DEF MergeOf, k
  <2>8. d.at[i] = k + 1
    BY <2>3, <2>6, <2>7
  <2> QED
    BY <1>6, <1>9, <2>1, <2>8 DEF MergeOf, k
<1> QED
  BY <1>6, <1>7, <1>8, <1>9

\* The events of these chains are 1 to N, each at one place, and none is refused.
WholeChains(chains, N) ==
    /\ \A i \in DOMAIN chains : ~chains[i].refused /\ Increasing(chains[i].events)
    /\ \A p, q \in Places(chains) : p # q => EventAt(chains, p) # EventAt(chains, q)
    /\ {EventAt(chains, p) : p \in Places(chains)} = 1..N

FromOne(s) == s # <<>> => s[1] = 1

\* The smallest head is the next number.
LEMMA TopIsNext ==
    ASSUME NEW chains, AreChains(chains), NEW N \in Nat, WholeChains(chains, N),
           NEW m, MergeOf(m, chains), FromOne(m.events), Heads(chains, m) # {}
    PROVE  HeadOf(chains, m, Top(chains, m)) = Len(m.events) + 1
<1> DEFINE top == Top(chains, m)
           x == HeadOf(chains, m, top)
           p == <<top, m.at[top]>>
           k == Len(m.events)
<1>1. top \in Heads(chains, m) /\ \A j \in Heads(chains, m) : x <= HeadOf(chains, m, j)
  BY TopIs
<1> HIDE DEF top
<1>2. /\ top \in DOMAIN chains /\ m.at[top] \in DOMAIN chains[top].events /\ m.at[top] \in Nat
  BY <1>1 DEF Heads, AreChains, MergeOf
<1>3. p \in Places(chains) /\ p \notin PlacesBefore(chains, m.at) /\ x = EventAt(chains, p)
  BY <1>2 DEF Places, PlacesBefore, HeadOf, EventAt
<1> HIDE DEF p, x
<1>4. x \in 1..N
  BY <1>3 DEF WholeChains
<1>5. k \in Nat /\ \A i \in 1..k : m.events[i] = i
  <2>1. m.events \in Seq(Nat \ {0}) /\ Consecutive(m.events) /\ k \in Nat /\ DOMAIN m.events = 1..k
    BY DEF MergeOf
  <2>2. k > 0 => m.events # <<>>
    OBVIOUS
  <2> HIDE DEF k
  <2>3. ASSUME NEW i \in 1..k PROVE m.events[i] = i
    <3>1. m.events[1] = 1 /\ i \in Nat
      BY <2>1, <2>2, <2>3 DEF FromOne
    <3>2. m.events[i] = m.events[1] + i - 1
      BY <2>1, <2>3 DEF Consecutive
    <3> QED
      BY <3>1, <3>2
  <2> QED
    BY <2>1, <2>3
<1>6. \A q \in PlacesBefore(chains, m.at) : EventAt(chains, q) \in 1..k
  <2>1. DOMAIN m.events = 1..k
    BY DEF MergeOf
  <2>2. ToSet(m.events) \subseteq 1..k
    BY <1>5, <2>1 DEF ToSet
  <2> QED
    BY <2>2 DEF MergeOf
<1>7. ToSet(m.events) = 1..k
  <2>1. DOMAIN m.events = 1..k
    BY DEF MergeOf
  <2> QED
    BY <1>5, <2>1 DEF ToSet
<1> HIDE DEF k
<1>8. x > k
  <2> SUFFICES ASSUME ~(x > k) PROVE FALSE
    OBVIOUS
  <2>1. x \in 1..k
    BY <1>4, <1>5
  <2>2. PICK q \in PlacesBefore(chains, m.at) : EventAt(chains, q) = x
    BY <1>7, <2>1 DEF MergeOf
  <2>3. q \in Places(chains) /\ q # p
    BY <1>3, <2>2 DEF PlacesBefore
  <2> QED
    BY <1>3, <2>2, <2>3 DEF WholeChains
<1>9. k + 1 \in 1..N
  BY <1>4, <1>5, <1>8
<1>10. PICK q \in Places(chains) : EventAt(chains, q) = k + 1
  BY <1>9 DEF WholeChains
<1>11. q \notin PlacesBefore(chains, m.at)
  BY <1>5, <1>6, <1>10
<1>12a. PICK i \in DOMAIN chains : \E j \in DOMAIN chains[i].events : q = <<i, j>>
  BY DEF Places
<1>12. PICK j \in DOMAIN chains[i].events : q = <<i, j>>
  BY <1>12a
<1>13. /\ j \in 1..Len(chains[i].events) /\ Len(chains[i].events) \in Nat
       /\ m.at[i] \in 1..(Len(chains[i].events) + 1) /\ ~(j < m.at[i])
       /\ \A n \in 1..Len(chains[i].events) : chains[i].events[n] \in Nat
       /\ DOMAIN chains[i].events = 1..Len(chains[i].events)
  <2>1. chains[i].events \in Seq(Nat \ {0})
    BY <1>12a DEF AreChains
  <2>2. q[1] = i /\ q[2] = j
    BY <1>12
  <2>3. ~(j < m.at[i])
    BY <1>11, <2>2 DEF PlacesBefore
  <2>4. m.at[i] \in 1..(Len(chains[i].events) + 1)
    BY <1>12a DEF MergeOf
  <2> QED
    BY <1>12, <2>1, <2>3, <2>4
<1>14. i \in Heads(chains, m) /\ m.at[i] <= j /\ m.at[i] \in 1..Len(chains[i].events)
  BY <1>13 DEF Heads
<1>15. HeadOf(chains, m, i) <= k + 1
  <2>1. chains[i].events[j] = k + 1
    BY <1>10, <1>12 DEF EventAt
  <2>2. m.at[i] = j \/ m.at[i] < j
    BY <1>13, <1>14
  <2>3. m.at[i] < j => chains[i].events[m.at[i]] < chains[i].events[j]
    BY <1>13, <1>14 DEF WholeChains, Increasing
  <2>4. chains[i].events[m.at[i]] \in Nat /\ k + 1 \in Nat
    BY <1>5, <1>13, <1>14
  <2> QED
    BY <2>1, <2>2, <2>3, <2>4 DEF HeadOf
<1>16. x <= HeadOf(chains, m, i) /\ HeadOf(chains, m, i) \in Nat
  BY <1>1, <1>13, <1>14 DEF HeadOf, x
<1>17. x = k + 1
  BY <1>4, <1>5, <1>8, <1>15, <1>16
<1> QED
  BY <1>17 DEF x, k, top

\* A merge of the numbers from 1 to Len(m.events)
Whole(m, chains) == MergeOf(m, chains) /\ ~m.refused /\ FromOne(m.events)

LEMMA PoppedWhole ==
    ASSUME NEW chains, AreChains(chains), NEW N \in Nat, WholeChains(chains, N),
           NEW m, Whole(m, chains)
    PROVE  Whole(Popped(chains, m), chains)
<1>1. CASE Heads(chains, m) = {}
  BY <1>1, PoppedOver
<1>2. CASE Heads(chains, m) # {}
  <2> DEFINE x == HeadOf(chains, m, Top(chains, m))
             n == Popped(chains, m)
  <2>1. x = Len(m.events) + 1
    BY <1>2, TopIsNext DEF Whole
  <2>2. Top(chains, m) \in Heads(chains, m) /\ Top(chains, m) \in DOMAIN chains
    BY <1>2, TopIs DEF Whole, Heads
  <2>3. m.expected \in {0, x}
    <3>1. m.expected = IF m.events = <<>> THEN 0 ELSE m.events[1] + Len(m.events)
      BY DEF Whole, MergeOf
    <3>2. m.events \in Seq(Nat \ {0})
      BY DEF Whole, MergeOf
    <3>3. Len(m.events) \in Nat /\ 1 + Len(m.events) = Len(m.events) + 1
      BY <3>2
    <3> HIDE DEF x
    <3> QED
      BY <2>1, <3>1, <3>3 DEF Whole, FromOne
  <2>4. ~chains[Top(chains, m)].refused
    BY <2>2 DEF WholeChains
  <2>5. MergeOf(n, chains) /\ n.events = Append(m.events, x) /\ ~n.refused
    BY <1>2, <2>2, <2>3, <2>4, PoppedTakes DEF Whole
  <2>6. FromOne(n.events)
    <3>1. m.events \in Seq(Nat \ {0}) /\ Len(m.events) \in Nat
      BY DEF Whole, MergeOf
    <3>2. x \in Nat \ {0}
      BY <2>1, <3>1
    <3> HIDE DEF x
    <3>3. CASE m.events = <<>>
      <4>1. x = 1 /\ Append(m.events, x)[1] = x
        BY <2>1, <3>1, <3>2, <3>3
      <4> QED
        BY <2>5, <4>1 DEF FromOne
    <3>4. CASE m.events # <<>>
      <4>1. Append(m.events, x)[1] = m.events[1]
        BY <3>1, <3>2, <3>4
      <4> QED
        BY <2>5, <3>4, <4>1 DEF FromOne, Whole
    <3> QED
      BY <3>3, <3>4
  <2> QED
    BY <2>5, <2>6 DEF Whole
<1> QED
  BY <1>1, <1>2

\* The merge of these chains is the sequence of the numbers.
LEMMA MergedWhole ==
    ASSUME NEW chains, AreChains(chains), NEW N \in Nat, WholeChains(chains, N)
    PROVE  ~Merged(chains).refused /\ Merged(chains).events = [i \in 1..N |-> i]
<1> DEFINE K == Cardinality(Places(chains))
           m(r) == Merging(chains)[r]
           S == {r \in 0..K : Whole(m(r), chains)}
<1>1. K \in Nat /\ IsFiniteSet(Places(chains))
  BY PlacesFinite
<1>2. m(0) = NewMerge(chains) /\ \A r \in 1..K : m(r) = Popped(chains, m(r - 1))
  BY <1>1, MergingIs
<1>3. 0 \in S
  <2>1. Whole(NewMerge(chains), chains)
    BY NewMergeIs DEF Whole, NewMerge, FromOne
  <2> HIDE DEF m
  <2> QED
    BY <1>1, <1>2, <2>1
<1>4. ASSUME NEW r \in 0..K, r \in S, r < K PROVE r + 1 \in S
  <2>1. r + 1 \in 1..K /\ (r + 1) - 1 = r /\ r + 1 \in 0..K
    BY <1>1, <1>4
  <2>2. Whole(m(r), chains)
    BY <1>4
  <2> HIDE DEF m
  <2>3. m(r + 1) = Popped(chains, m(r))
    BY <1>2, <2>1
  <2>4. Whole(Popped(chains, m(r)), chains)
    BY <2>2, PoppedWhole
  <2> QED
    BY <2>1, <2>3, <2>4
<1>5. K \in S
  <2>1. \A r \in 0..K : r \in S /\ r < K => r + 1 \in S
    BY <1>4
  <2>2. K \in 0..K
    BY <1>1
  <2> HIDE DEF S
  <2> QED
    BY <1>1, <1>3, <2>1, <2>2, Induction
<1> DEFINE d == Merged(chains)
<1>6. Whole(d, chains)
  BY <1>5 DEF Merged
<1>7. ToSet(d.events) = 1..N
  <2>1. PlacesBefore(chains, d.at) = Places(chains)
    BY <1>6, MergedIs DEF Whole
  <2> HIDE DEF d
  <2> QED
    BY <1>6, <2>1 DEF Whole, MergeOf, WholeChains
<1> HIDE DEF d
<1> DEFINE k == Len(d.events)
<1>8. k \in Nat /\ d.events \in Seq(Nat \ {0}) /\ \A i \in 1..k : d.events[i] = i
  <2>1. d.events \in Seq(Nat \ {0}) /\ Consecutive(d.events) /\ k \in Nat /\ DOMAIN d.events = 1..k
    BY <1>6 DEF MergeOf, Whole
  <2>2. k > 0 => d.events # <<>>
    OBVIOUS
  <2> QED
    BY <1>6, <2>1, <2>2 DEF Consecutive, FromOne, Whole
<1>9. ToSet(d.events) = 1..k
  <2>1. DOMAIN d.events = 1..k
    BY <1>8
  <2> QED
    BY <1>8, <2>1 DEF ToSet
<1>10. k = N
  <2> HIDE DEF k
  <2>1. 1..k = 1..N
    BY <1>7, <1>9
  <2>2. k > 0 => k \in 1..N
    BY <1>8, <2>1
  <2>3. N > 0 => N \in 1..k
    <3>1. N > 0 => N \in 1..N
      OBVIOUS
    <3> QED
      BY <2>1, <3>1
  <2> QED
    BY <1>8, <2>2, <2>3
<1>11. d.events = [i \in 1..N |-> i]
  <2>1. d.events = [i \in 1..k |-> d.events[i]]
    BY <1>8
  <2>2. \A i \in 1..N : d.events[i] = i
    BY <1>8, <1>10
  <2> HIDE DEF k
  <2> QED
    BY <1>10, <2>1, <2>2
<1> QED
  BY <1>6, <1>11 DEF Whole, d

-----------------------------------------------------------------------------
(* ReadRawEvents.                                                          *)

Named(streams) == {st \in DOMAIN streams : streams[st] # {}}

\* The names of the streams are each taken once.
LEMMA NamesAre ==
    ASSUME NEW D, IsFiniteSet(D)
    PROVE  /\ SetToSeq(D) \in [1..Cardinality(D) -> D] /\ Cardinality(D) \in Nat
           /\ \A i, j \in 1..Cardinality(D) : SetToSeq(D)[i] = SetToSeq(D)[j] => i = j
           /\ \A st \in D : \E i \in 1..Cardinality(D) : SetToSeq(D)[i] = st
<1> DEFINE N == Cardinality(D)
           s == SetToSeq(D)
<1>1. N \in Nat /\ ExistsBijection(1..N, D)
  BY FS_CardinalityType
<1>2. \E f \in [1..N -> D] : IsInjective(f)
  <2>1. PICK f \in Bijection(1..N, D) : TRUE
    BY <1>1 DEF ExistsBijection
  <2> QED
    BY <2>1 DEF Bijection, Injection, IsInjective
<1>3. s \in [1..N -> D] /\ IsInjective(s)
  BY <1>2 DEF SetToSeq
<1> HIDE DEF s
<1>4. \A i, j \in 1..N : s[i] = s[j] => i = j
  BY <1>3 DEF IsInjective
<1>5. s \in Injection(1..N, D)
  BY <1>3, <1>4 DEF Injection, IsInjective
<1>6. Cardinality(1..N) = N
  BY <1>1, FS_Interval
<1>7. s \in Surjection(1..N, D)
  <2> HIDE DEF N
  <2>1. Cardinality(D) = N
    BY DEF N
  <2> QED
    BY <1>5, <1>6, <2>1, FS_Injection
<1>8. \A st \in D : \E i \in 1..N : s[i] = st
  BY <1>7 DEF Surjection
<1> QED
  BY <1>1, <1>3, <1>4, <1>8 DEF s

\* The chains that are merged
ChainsOf(streams) ==
    LET names == SetToSeq(Named(streams)) IN [i \in DOMAIN names |-> Chained(streams[names[i]])]

\* Finitely many streams, of segments
AreStreams(streams) ==
    IsFiniteSet(DOMAIN streams) /\ \A st \in DOMAIN streams : IsStream(streams[st])

\* Each chain is the one of a stream, and each stream with a segment has one.
LEMMA ChainsAre ==
    ASSUME NEW streams, AreStreams(streams)
    PROVE  \E K \in Nat : \E name \in [1..K -> Named(streams)] :
             /\ DOMAIN ChainsOf(streams) = 1..K
             /\ \A i \in 1..K : ChainsOf(streams)[i] = Chained(streams[name[i]])
             /\ \A i, j \in 1..K : name[i] = name[j] => i = j
             /\ \A st \in Named(streams) : \E i \in 1..K : name[i] = st
<1> DEFINE D == Named(streams)
           K == Cardinality(D)
           name == SetToSeq(D)
<1>1. IsFiniteSet(D)
  BY FS_Subset DEF Named, AreStreams
<1>2. /\ name \in [1..K -> D] /\ K \in Nat
      /\ \A i, j \in 1..K : name[i] = name[j] => i = j
      /\ \A st \in D : \E i \in 1..K : name[i] = st
  <2> HIDE DEF D
  <2> QED
    BY <1>1, NamesAre
<1>3. ChainsOf(streams) = [i \in DOMAIN name |-> Chained(streams[name[i]])]
  BY DEF ChainsOf
<1> HIDE DEF D, K, name
<1>4. DOMAIN name = 1..K
  BY <1>2
<1>5. DOMAIN ChainsOf(streams) = 1..K
      /\ \A i \in 1..K : ChainsOf(streams)[i] = Chained(streams[name[i]])
  BY <1>3, <1>4
<1>6. name \in [1..K -> Named(streams)]
  BY <1>2 DEF D
<1>7. \A st \in Named(streams) : \E i \in 1..K : name[i] = st
  BY <1>2 DEF D
<1> QED
  BY <1>2, <1>5, <1>6, <1>7

LEMMA ChainsOfAre ==
    ASSUME NEW streams, AreStreams(streams)
    PROVE  AreChains(ChainsOf(streams))
<1>1. PICK K \in Nat : \E name \in [1..K -> Named(streams)] :
             /\ DOMAIN ChainsOf(streams) = 1..K
             /\ \A i \in 1..K : ChainsOf(streams)[i] = Chained(streams[name[i]])
  BY ChainsAre
<1>2. PICK name \in [1..K -> Named(streams)] :
             /\ DOMAIN ChainsOf(streams) = 1..K
             /\ \A i \in 1..K : ChainsOf(streams)[i] = Chained(streams[name[i]])
  BY <1>1
<1>3. IsFiniteSet(1..K)
  BY FS_Interval
<1>4. ASSUME NEW i \in 1..K
      PROVE  /\ ChainsOf(streams)[i].events \in Seq(Nat \ {0})
             /\ ChainsOf(streams)[i].refused => ChainsOf(streams)[i].events # <<>>
  <2>1. IsStream(streams[name[i]])
    BY DEF Named, AreStreams
  <2>2. ChainOf(Chained(streams[name[i]]), streams[name[i]])
    BY <2>1, ChainedIs
  <2> QED
    BY <1>2, <2>2 DEF ChainOf
<1> QED
  BY <1>2, <1>3, <1>4 DEF AreChains

\* The events at the places of a chain are those of the chain.
LEMMA PlacesHold ==
    ASSUME NEW chains, AreChains(chains)
    PROVE  /\ \A p \in Places(chains) : /\ p[1] \in DOMAIN chains
                                        /\ p[2] \in DOMAIN chains[p[1]].events
                                        /\ p = <<p[1], p[2]>>
                                        /\ EventAt(chains, p) \in ToSet(chains[p[1]].events)
           /\ \A i \in DOMAIN chains : \A x \in ToSet(chains[i].events) :
                 \E p \in Places(chains) : p[1] = i /\ EventAt(chains, p) = x
<1>1. ASSUME NEW i \in DOMAIN chains, NEW k \in DOMAIN chains[i].events
      PROVE  /\ <<i, k>> \in Places(chains) /\ <<i, k>>[1] = i /\ <<i, k>>[2] = k
             /\ EventAt(chains, <<i, k>>) = chains[i].events[k]
             /\ chains[i].events[k] \in ToSet(chains[i].events)
  BY DEF Places, EventAt, ToSet
<1>2. ASSUME NEW p \in Places(chains)
      PROVE  /\ p[1] \in DOMAIN chains
             /\ p[2] \in DOMAIN chains[p[1]].events
             /\ p = <<p[1], p[2]>>
             /\ EventAt(chains, p) \in ToSet(chains[p[1]].events)
  <2>1. PICK i \in DOMAIN chains : \E k \in DOMAIN chains[i].events : p = <<i, k>>
    BY DEF Places
  <2>2. PICK k \in DOMAIN chains[i].events : p = <<i, k>>
    BY <2>1
  <2> QED
    BY <1>1, <2>2
<1>3. ASSUME NEW i \in DOMAIN chains, NEW x \in ToSet(chains[i].events)
      PROVE  \E p \in Places(chains) : p[1] = i /\ EventAt(chains, p) = x
  <2>1. PICK k \in DOMAIN chains[i].events : x = chains[i].events[k]
    BY DEF ToSet
  <2> QED
    BY <1>1, <2>1
<1> QED
  BY <1>2, <1>3

AllSegments(streams) == UNION {streams[st] : st \in DOMAIN streams}

\* The events of a chain that is not refused are those of its stream, and the
\* streams with a chain are all those with a segment.
LEMMA ChainsHold ==
    ASSUME NEW streams, AreStreams(streams),
           \A i \in DOMAIN ChainsOf(streams) : ~ChainsOf(streams)[i].refused
    PROVE  \E K \in Nat : \E name \in [1..K -> DOMAIN streams] :
             /\ DOMAIN ChainsOf(streams) = 1..K
             /\ \A i \in 1..K : /\ ToSet(ChainsOf(streams)[i].events) = EventsOf(streams[name[i]])
                                /\ Increasing(ChainsOf(streams)[i].events)
                                /\ Disjoint(streams[name[i]])
             /\ \A i, j \in 1..K : name[i] = name[j] => i = j
             /\ \A st \in DOMAIN streams : streams[st] # {} => \E i \in 1..K : name[i] = st
<1>1. PICK K \in Nat : \E name \in [1..K -> Named(streams)] :
             /\ DOMAIN ChainsOf(streams) = 1..K
             /\ \A i \in 1..K : ChainsOf(streams)[i] = Chained(streams[name[i]])
             /\ \A i, j \in 1..K : name[i] = name[j] => i = j
             /\ \A st \in Named(streams) : \E i \in 1..K : name[i] = st
  BY ChainsAre
<1>2. PICK name \in [1..K -> Named(streams)] :
             /\ DOMAIN ChainsOf(streams) = 1..K
             /\ \A i \in 1..K : ChainsOf(streams)[i] = Chained(streams[name[i]])
             /\ \A i, j \in 1..K : name[i] = name[j] => i = j
             /\ \A st \in Named(streams) : \E i \in 1..K : name[i] = st
  BY <1>1
<1>3. ASSUME NEW i \in 1..K
      PROVE  /\ ToSet(ChainsOf(streams)[i].events) = EventsOf(streams[name[i]])
             /\ Increasing(ChainsOf(streams)[i].events)
             /\ Disjoint(streams[name[i]])
  <2> DEFINE g == streams[name[i]]
             c == ChainsOf(streams)[i]
  <2>1. IsStream(g)
    BY DEF Named, AreStreams
  <2>2. c = Chained(g) /\ ~c.refused
    BY <1>2
  <2> HIDE DEF g, c
  <2>3. ChainOf(c, g) /\ c.rest = {}
    BY <2>1, <2>2, ChainedIs
  <2>4. g \ c.rest = g
    BY <2>3
  <2> QED
    BY <2>2, <2>3, <2>4 DEF ChainOf, g, c
<1>4. name \in [1..K -> DOMAIN streams]
  BY DEF Named
<1>5. \A st \in DOMAIN streams : streams[st] # {} => \E i \in 1..K : name[i] = st
  BY <1>2 DEF Named
<1> QED
  BY <1>2, <1>3, <1>4, <1>5

\* Replay refuses a log, of whatever segments, or gives back every event of every
\* segment once, without a gap (read_raw_events).
THEOREM ReplayIsSound ==
    ASSUME NEW streams, AreStreams(streams), ~ReadRawEvents(streams).refused
    PROVE  /\ ReadRawEvents(streams).events \in Seq(Nat \ {0})
           /\ ToSet(ReadRawEvents(streams).events) = EventsOf(AllSegments(streams))
           /\ Consecutive(ReadRawEvents(streams).events)
           /\ Disjoint(AllSegments(streams))
<1> DEFINE chains == ChainsOf(streams)
           m == Merged(chains)
<1>1. m = ReadRawEvents(streams)
  BY DEF ReadRawEvents, ChainsOf, Named
<1>2. AreChains(chains)
  BY ChainsOfAre
<1> HIDE DEF chains
<1>3. /\ MergeOf(m, chains) /\ PlacesBefore(chains, m.at) = Places(chains)
      /\ \A i \in DOMAIN chains : ~chains[i].refused
  BY <1>1, <1>2, MergedIs
<1> HIDE DEF m
<1>4. PICK K \in Nat : \E name \in [1..K -> DOMAIN streams] :
             /\ DOMAIN chains = 1..K
             /\ \A i \in 1..K : /\ ToSet(chains[i].events) = EventsOf(streams[name[i]])
                                /\ Disjoint(streams[name[i]])
             /\ \A st \in DOMAIN streams : streams[st] # {} => \E i \in 1..K : name[i] = st
  BY <1>3, ChainsHold DEF chains
<1>5. PICK name \in [1..K -> DOMAIN streams] :
             /\ DOMAIN chains = 1..K
             /\ \A i \in 1..K : /\ ToSet(chains[i].events) = EventsOf(streams[name[i]])
                                /\ Disjoint(streams[name[i]])
             /\ \A st \in DOMAIN streams : streams[st] # {} => \E i \in 1..K : name[i] = st
  BY <1>4
<1>6. ToSet(m.events) = {EventAt(chains, p) : p \in Places(chains)}
      /\ \A p, q \in Places(chains) : p # q => EventAt(chains, p) # EventAt(chains, q)
  BY <1>3 DEF MergeOf
<1>7. ASSUME NEW g \in AllSegments(streams)
      PROVE  \E i \in 1..K : g \in streams[name[i]]
  BY <1>5 DEF AllSegments
<1>8. ASSUME NEW i \in 1..K, NEW g \in streams[name[i]], NEW x \in ToSet(g.events)
      PROVE  x \in ToSet(chains[i].events)
  BY <1>5 DEF EventsOf
<1>9. ToSet(m.events) \subseteq EventsOf(AllSegments(streams))
  <2> SUFFICES ASSUME NEW p \in Places(chains)
               PROVE  EventAt(chains, p) \in EventsOf(AllSegments(streams))
    BY <1>6
  <2>1. p[1] \in 1..K /\ EventAt(chains, p) \in ToSet(chains[p[1]].events)
    BY <1>2, <1>5, PlacesHold
  <2>2. EventAt(chains, p) \in EventsOf(streams[name[p[1]]])
    BY <1>5, <2>1
  <2>3. name[p[1]] \in DOMAIN streams
    BY <2>1
  <2> QED
    BY <2>2, <2>3 DEF EventsOf, AllSegments
<1>10. EventsOf(AllSegments(streams)) \subseteq ToSet(m.events)
  <2> SUFFICES ASSUME NEW g \in AllSegments(streams), NEW x \in ToSet(g.events)
               PROVE  x \in ToSet(m.events)
    BY DEF EventsOf
  <2>1. PICK i \in 1..K : g \in streams[name[i]]
    BY <1>7
  <2>2. x \in ToSet(chains[i].events)
    BY <1>8, <2>1
  <2>3. PICK p \in Places(chains) : EventAt(chains, p) = x
    BY <1>2, <1>5, <2>2, PlacesHold
  <2> QED
    BY <1>6, <2>3
<1>11. Disjoint(AllSegments(streams))
  <2> SUFFICES ASSUME NEW g \in AllSegments(streams), NEW h \in AllSegments(streams), g # h,
                      NEW x \in ToSet(g.events), x \in ToSet(h.events)
               PROVE  FALSE
    BY DEF Disjoint
  <2>1. PICK i \in 1..K : g \in streams[name[i]]
    BY <1>7
  <2>2. PICK j \in 1..K : h \in streams[name[j]]
    BY <1>7
  <2>3. CASE i = j
    BY <1>5, <2>1, <2>2, <2>3 DEF Disjoint
  <2>4. CASE i # j
    <3>1. /\ x \in ToSet(chains[i].events) /\ x \in ToSet(chains[j].events)
          /\ i \in DOMAIN chains /\ j \in DOMAIN chains
      BY <1>5, <1>8, <2>1, <2>2
    <3>2. PICK p \in Places(chains) : p[1] = i /\ EventAt(chains, p) = x
      BY <1>2, <3>1, PlacesHold
    <3>3. PICK q \in Places(chains) : q[1] = j /\ EventAt(chains, q) = x
      BY <1>2, <3>1, PlacesHold
    <3>4. p # q
      BY <2>4, <3>2, <3>3
    <3> QED
      BY <1>6, <3>2, <3>3, <3>4
  <2> QED
    BY <2>3, <2>4
<1> QED
  BY <1>1, <1>3, <1>9, <1>10, <1>11 DEF MergeOf

\* Replay gives back a log that is whole: segments of each stream that do not
\* overlap in their ranges, and that hold each number from 1 to N in one of them.
THEOREM ReplayIsComplete ==
    ASSUME NEW streams, AreStreams(streams), NEW N \in Nat,
           \A st \in DOMAIN streams : Apart(streams[st]),
           \A st, su \in DOMAIN streams :
              st # su => EventsOf(streams[st]) \cap EventsOf(streams[su]) = {},
           EventsOf(AllSegments(streams)) = 1..N
    PROVE  /\ ~ReadRawEvents(streams).refused
           /\ ReadRawEvents(streams).events = [i \in 1..N |-> i]
<1> DEFINE chains == ChainsOf(streams)
<1>1. Merged(chains) = ReadRawEvents(streams)
  BY DEF ReadRawEvents, ChainsOf, Named
<1>2. AreChains(chains)
  BY ChainsOfAre
<1>3. \A i \in DOMAIN chains : ~chains[i].refused
  <2>1. PICK K \in Nat : \E name \in [1..K -> Named(streams)] :
               /\ DOMAIN chains = 1..K
               /\ \A i \in 1..K : chains[i] = Chained(streams[name[i]])
    BY ChainsAre
  <2>2. PICK name \in [1..K -> Named(streams)] :
               /\ DOMAIN chains = 1..K
               /\ \A i \in 1..K : chains[i] = Chained(streams[name[i]])
    BY <2>1
  <2>3. ASSUME NEW i \in 1..K PROVE ~chains[i].refused
    <3>1. IsStream(streams[name[i]]) /\ Apart(streams[name[i]])
      BY DEF Named, AreStreams
    <3>2. ~Chained(streams[name[i]]).refused
      BY <3>1, ChainedWhole
    <3> QED
      BY <2>2, <3>2
  <2> QED
    BY <2>2, <2>3
<1>4. PICK K \in Nat : \E name \in [1..K -> DOMAIN streams] :
             /\ DOMAIN chains = 1..K
             /\ \A i \in 1..K : /\ ToSet(chains[i].events) = EventsOf(streams[name[i]])
                                /\ Increasing(chains[i].events)
             /\ \A i, j \in 1..K : name[i] = name[j] => i = j
             /\ \A st \in DOMAIN streams : streams[st] # {} => \E i \in 1..K : name[i] = st
  BY <1>3, ChainsHold
<1>5. PICK name \in [1..K -> DOMAIN streams] :
             /\ DOMAIN chains = 1..K
             /\ \A i \in 1..K : /\ ToSet(chains[i].events) = EventsOf(streams[name[i]])
                                /\ Increasing(chains[i].events)
             /\ \A i, j \in 1..K : name[i] = name[j] => i = j
             /\ \A st \in DOMAIN streams : streams[st] # {} => \E i \in 1..K : name[i] = st
  BY <1>4
<1> HIDE DEF chains
<1>6. \A p, q \in Places(chains) : p # q => EventAt(chains, p) # EventAt(chains, q)
  <2> SUFFICES ASSUME NEW p \in Places(chains), NEW q \in Places(chains), p # q,
                      EventAt(chains, p) = EventAt(chains, q)
               PROVE  FALSE
    OBVIOUS
  <2> DEFINE i == p[1]
             j == q[1]
             x == EventAt(chains, p)
  <2>1. /\ i \in 1..K /\ j \in 1..K /\ x \in ToSet(chains[i].events)
        /\ x \in ToSet(chains[j].events)
        /\ p = <<i, p[2]>> /\ q = <<j, q[2]>>
        /\ p[2] \in DOMAIN chains[i].events /\ q[2] \in DOMAIN chains[j].events
    BY <1>2, <1>5, PlacesHold
  <2>2. chains[i].events[p[2]] = chains[j].events[q[2]]
    BY DEF EventAt
  <2> HIDE DEF i, j, x
  <2>3. CASE i = j
    <3> DEFINE e == chains[i].events
    <3>1. e \in Seq(Nat \ {0}) /\ Increasing(e)
      BY <1>2, <1>5, <2>1 DEF AreChains
    <3>2. p[2] # q[2] /\ p[2] \in DOMAIN e /\ q[2] \in DOMAIN e /\ e[p[2]] = e[q[2]]
      BY <2>1, <2>2, <2>3
    <3> HIDE DEF e
    <3>3. p[2] \in Nat /\ q[2] \in Nat /\ e[p[2]] \in Nat /\ e[q[2]] \in Nat
      BY <3>1, <3>2
    <3>4. p[2] < q[2] \/ q[2] < p[2]
      BY <3>2, <3>3
    <3> QED
      BY <3>1, <3>2, <3>3, <3>4 DEF Increasing
  <2>4. CASE i # j
    <3>1. name[i] # name[j] /\ name[i] \in DOMAIN streams /\ name[j] \in DOMAIN streams
      BY <1>5, <2>1, <2>4
    <3>2. x \in EventsOf(streams[name[i]]) /\ x \in EventsOf(streams[name[j]])
      BY <1>5, <2>1
    <3> QED
      BY <3>1, <3>2
  <2> QED
    BY <2>3, <2>4
<1>7. {EventAt(chains, p) : p \in Places(chains)} = 1..N
  <2>1. ASSUME NEW p \in Places(chains) PROVE EventAt(chains, p) \in 1..N
    <3>1. p[1] \in 1..K /\ EventAt(chains, p) \in ToSet(chains[p[1]].events)
      BY <1>2, <1>5, PlacesHold
    <3>2. EventAt(chains, p) \in EventsOf(streams[name[p[1]]]) /\ name[p[1]] \in DOMAIN streams
      BY <1>5, <3>1
    <3>3. EventAt(chains, p) \in EventsOf(AllSegments(streams))
      BY <3>2 DEF EventsOf, AllSegments
    <3> QED
      BY <3>3
  <2>2. ASSUME NEW x \in 1..N PROVE \E p \in Places(chains) : EventAt(chains, p) = x
    <3>1. x \in EventsOf(AllSegments(streams))
      OBVIOUS
    <3>2. PICK st \in DOMAIN streams : x \in EventsOf(streams[st])
      BY <3>1 DEF EventsOf, AllSegments
    <3>3. streams[st] # {}
      BY <3>2 DEF EventsOf
    <3>4. PICK i \in 1..K : name[i] = st
      BY <1>5, <3>3
    <3>5. x \in ToSet(chains[i].events)
      BY <1>5, <3>2, <3>4
    <3> QED
      BY <1>2, <1>5, <3>5, PlacesHold
  <2> QED
    BY <2>1, <2>2
<1>8. WholeChains(chains, N)
  BY <1>3, <1>5, <1>6, <1>7 DEF WholeChains
<1>9. ~Merged(chains).refused /\ Merged(chains).events = [i \in 1..N |-> i]
  BY <1>2, <1>8, MergedWhole
<1> QED
  BY <1>1, <1>9

=============================================================================
