-------------------------- MODULE ClobPipelineProofs --------------------------
(***************************************************************************)
(* Proofs about ClobPipeline, for any markets, bounds and kinds of reply.  *)
(*                                                                         *)
(* What has to be shown is that a book of the store misses no change.  The *)
(* invariant therefore looks at all places where the versions of a book    *)
(* are between the exchange and the store (Path): they have no hole, they  *)
(* come in order (Lines, FrameInOrder, InboxInOrder), a full book among    *)
(* them comes first, and the last is the exchange's book while the         *)
(* exchange sends it (Paths).  A price change then always finds the        *)
(* version before it (NextVersion).                                        *)
(*                                                                         *)
(* That this is so rests on three things.  What is left of an old session  *)
(* comes before the status of the new one, which is in force when the      *)
(* first of its own events comes (SessionsInOrder, Announced).  A message  *)
(* that is dropped as unknown or as seen before leaves no hole: the assets *)
(* the source desires are known (Ownership) and a change under way has not *)
(* been seen (NothingSeen).  And an asset that is to be subscribed has     *)
(* nothing under way (Paths), so the full book sent in reply is the first. *)
(*                                                                         *)
(* Windows are followed in the same way (Windows, Introduced): the last    *)
(* one under way is the one accepted last, which is the one discovery      *)
(* reported last while the market manager runs; and a market of it is in   *)
(* all of them since it was first mentioned.                               *)
(***************************************************************************)
EXTENDS ClobPipeline, FiniteSetTheorems, TLAPS

-----------------------------------------------------------------------------
(* Types.                                                                  *)

Kinds == {"book", "change"}

\* What the exchange sends: a price change has the identity of its version.
Message == {m \in [kind : Kinds, asset : Assets, version : Versions, stamp : 0..MaxSessions] :
              m.kind = "change" => m.stamp = 0}
Identities == Kinds \X Versions \X (0..MaxSessions)

StatusEvents == [kind : {"status"}, up : BOOLEAN, session : Sessions]
WindowEvents == [kind : {"window"}, timeframe : Timeframes, context : Store!Context]
BookEvents == [kind : Kinds, asset : Assets, version : Versions, session : Sessions]
Event == StatusEvents \cup WindowEvents \cup BookEvents

Places == {"start", "connecting", "announcing", "subscribing", "reading",
           "backoff", "closing", "dead"}

RunTypes ==
    /\ pc \in Places
    /\ sid \in 0..MaxSessions /\ opened \in BOOLEAN
    /\ opened => sid \in Sessions
    /\ pc \in {"announcing", "subscribing", "reading"} => sid \in Sessions
    /\ initial \subseteq Assets

AssetTypes ==
    /\ desired \subseteq Assets /\ subscribed \subseteq Assets
    /\ assets \subseteq Assets /\ retiring \subseteq Assets
    /\ cache \in [Assets -> SUBSET Identities]
    /\ subs \in [at : {"none", "waiting", "adding", "removing"},
                 added : SUBSET Assets, removed : SUBSET Assets]

NetTypes ==
    /\ link \in {"down", "up", "lost"} /\ listed \subseteq Assets
    /\ version \in [Assets -> Versions]
    /\ frame \in Seq(Message)
    /\ inbox \in Seq(Seq(Message))

LineTypes ==
    /\ connected \in BOOLEAN
    /\ line \in Seq(Event) /\ Len(line) <= MaxLine

StoreTypes ==
    /\ window \in [Timeframes -> Store!Context]
    /\ latest \in [Timeframes -> Nat]
    /\ told \in [Timeframes -> Store!Context] /\ manager \in {"running", "dead"}
    /\ contexts \in [Timeframes -> Store!Context \cup {NoContext}]
    /\ books \in [Assets -> Store!Book \cup {NoBook}]
    /\ session \in Sessions \cup {NoSession}
    /\ feed \in [Streams -> {"missing", "fresh", "stale"}]

Types == RunTypes /\ AssetTypes /\ NetTypes /\ LineTypes /\ StoreTypes

-----------------------------------------------------------------------------
(* The invariant: windows and assets.                                      *)

Mentions(w, m) == m \in {w.current, w.next}
IsWindow(e, tf) == e.kind = "window" /\ e.timeframe = tf
NoWindow == [active |-> FALSE, current |-> NoMarket, next |-> NoMarket]

\* The markets of timeframe tf which discovery has reported.
Reported(tf) == {NoMarket} \cup {m \in Markets : TimeframeOf[m] = tf /\ m <= latest[tf]}
Sound(tf, w) == w.current \in Reported(tf) /\ w.next \in Reported(tf)

\* Windows show markets of their timeframe that have been reported, wherever
\* they have come to.
WindowsSound(tf) ==
    /\ latest[tf] = Discovery!Newest(window[tf], latest[tf])
    /\ Sound(tf, window[tf]) /\ Sound(tf, told[tf])
    /\ contexts[tf] # NoContext => Sound(tf, contexts[tf])
    /\ \A i \in DOMAIN line : IsWindow(line[i], tf) => Sound(tf, line[i].context)

\* A market of the window told last is in all windows under way from the first
\* that mentions it.
MarketsKept(tf) ==
    \A m \in Markets : Mentions(told[tf], m) =>
        /\ contexts[tf] # NoContext /\ Mentions(contexts[tf], m) =>
             \A i \in DOMAIN line : IsWindow(line[i], tf) => Mentions(line[i].context, m)
        /\ \A i, j \in DOMAIN line :
             i < j /\ IsWindow(line[i], tf) /\ IsWindow(line[j], tf)
                   /\ Mentions(line[i].context, m) => Mentions(line[j].context, m)

\* The last window under way, or the one the store has, is the one told last.
LastTold(tf) ==
    \/ /\ \A i \in DOMAIN line : ~IsWindow(line[i], tf)
       /\ \/ contexts[tf] = told[tf]
          \/ contexts[tf] = NoContext /\ told[tf] = NoWindow
    \/ \E i \in DOMAIN line :
         /\ IsWindow(line[i], tf) /\ line[i].context = told[tf]
         /\ \A j \in DOMAIN line : i < j => ~IsWindow(line[j], tf)

Windows ==
    /\ manager = "running" => told = window
    /\ \A tf \in Timeframes : WindowsSound(tf) /\ MarketsKept(tf) /\ LastTold(tf)

\* The market of asset a has been reported.
Known(a) == a[1] <= latest[TimeframeOf[a[1]]]

\* The source desires what windows want, and what it has not retired yet.
Ownership ==
    /\ assets = desired /\ IsFiniteSet(desired)
    /\ Wanted \subseteq desired
    /\ retiring = desired \ Wanted
    /\ \A a \in desired \cup initial \cup subscribed \cup subs.removed \cup listed : Known(a)
    /\ pc \in {"connecting", "announcing", "subscribing"} => initial \subseteq desired

-----------------------------------------------------------------------------
(* The invariant: sessions and connections.                                *)

IsUp(e) == e.kind = "status" /\ e.up
Tagged(e) == e.kind # "window"

\* When the store comes to position i of the line, its session is s.
InForceIn(now, l, s, i) == now = s \/ \E j \in DOMAIN l : j < i /\ IsUp(l[j]) /\ l[j].session = s
InForce(s, i) == InForceIn(session, line, s, i)

\* Sessions do not decrease along the line, and each is announced before its
\* events.
SessionsInOrder ==
    /\ session <= sid
    /\ \A i \in DOMAIN line : Tagged(line[i]) => session <= line[i].session /\ line[i].session <= sid
    /\ \A i, j \in DOMAIN line : i < j /\ Tagged(line[i]) /\ Tagged(line[j]) =>
           /\ line[i].session <= line[j].session
           /\ IsUp(line[j]) => line[i].session < line[j].session
    /\ \A i \in DOMAIN line : IsUp(line[i]) => session < line[i].session
    /\ \A i \in DOMAIN line : line[i].kind \in Kinds => InForce(line[i].session, i)

Announced ==
    /\ pc \in {"subscribing", "reading"} => InForce(sid, Len(line) + 1)
    /\ pc = "announcing" =>
         session < sid /\ \A i \in DOMAIN line : Tagged(line[i]) => line[i].session < sid

Connection ==
    /\ pc \in {"start", "connecting", "announcing", "subscribing"} => subs = NoSubs
    /\ link # "down" => pc \in {"announcing", "subscribing", "reading"}
    /\ pc # "reading" => frame = <<>> /\ inbox = <<>> /\ listed = {}
    /\ link = "up" => listed \subseteq subscribed
    /\ subs.removed \cap desired = {}
    /\ subs.added \subseteq desired
    /\ pc = "reading" => subs.added \cap subscribed = {}

-----------------------------------------------------------------------------
(* The invariant: versions.                                                *)

\* Where the versions of a book are in session s: in the store, in the line,
\* in the frame the source has, in frames under way.
OfBook(e, a, s) == e.kind \in Kinds /\ e.asset = a /\ e.session = s

Live(a, s) == {v \in Versions : Initialized(a) /\ session = s /\ books[a].content = v}
Lined(a, s) == {v \in Versions : \E i \in DOMAIN line : OfBook(line[i], a, s) /\ line[i].version = v}
Framed(a) == {v \in Versions : \E i \in DOMAIN frame : frame[i].asset = a /\ frame[i].version = v}
Boxed(a) == {v \in Versions : \E k \in DOMAIN inbox : \E i \in DOMAIN inbox[k] :
                inbox[k][i].asset = a /\ inbox[k][i].version = v}

Held(a, s) == Live(a, s) \cup Lined(a, s)
Path(a) == Held(a, sid) \cup Framed(a) \cup Boxed(a)

\* Message or event m may follow versions A: it is a change and later than all
\* of them, or there are none.
After(m, A) == \A v \in A : m.kind = "change" /\ v < m.version

NoHoles(A) == \A x, z \in A : \A y \in Versions : x < y /\ y < z => y \in A

\* The store has books of markets in its contexts, and each is of a version.
Contents ==
    \A a \in Assets : books[a] # NoBook =>
        /\ Store!Referenced(a)
        /\ books[a].initialized => books[a].content \in Versions

LineInOrder(a, s) ==
    /\ \A i, j \in DOMAIN line :
         i < j /\ OfBook(line[i], a, s) /\ OfBook(line[j], a, s) => After(line[j], {line[i].version})
    /\ \A i \in DOMAIN line : OfBook(line[i], a, s) => After(line[i], Live(a, s))
    /\ NoHoles(Held(a, s))

FrameInOrder ==
    /\ \A i, j \in DOMAIN frame :
         frame[i].asset = frame[j].asset \/ frame[i].kind = "change" => i = j
    /\ \A i \in DOMAIN frame : After(frame[i], Held(frame[i].asset, sid))

InboxInOrder ==
    /\ \A k \in DOMAIN inbox : \A i, j \in DOMAIN inbox[k] :
         inbox[k][i].asset = inbox[k][j].asset \/ inbox[k][i].kind = "change" => i = j
    /\ \A k, l \in DOMAIN inbox : k < l =>
         \A i \in DOMAIN inbox[k], j \in DOMAIN inbox[l] :
            inbox[k][i].asset = inbox[l][j].asset => After(inbox[l][j], {inbox[k][i].version})
    /\ \A k \in DOMAIN inbox : \A i \in DOMAIN inbox[k] :
         After(inbox[k][i], Held(inbox[k][i].asset, sid) \cup Framed(inbox[k][i].asset))

\* No version is missing on the way of an asset the source knows; the last one
\* is the exchange's book as long as the exchange sends it.  An asset that is
\* not subscribed has nothing on its way.
PathOf(a) ==
    /\ \A v \in Path(a) : v <= version[a]
    /\ a \in assets => NoHoles(Path(a))
    /\ a \in assets \cap listed /\ link = "up" /\ Path(a) # {} => version[a] \in Path(a)
    /\ Path(a) # {} => Known(a) /\ pc \notin {"announcing", "subscribing"}
    /\ pc = "reading" /\ a \in desired \ subscribed => Path(a) = {}

ChangeIdentity(v) == <<"change", v, 0>>

\* Changes under way have not been seen before.
Unseen(a) ==
    /\ \A v \in Versions : ChangeIdentity(v) \in cache[a] => v <= version[a]
    /\ a \in assets =>
         /\ \A i \in DOMAIN frame : frame[i].asset = a /\ frame[i].kind = "change" =>
              ChangeIdentity(frame[i].version) \notin cache[a]
         /\ \A k \in DOMAIN inbox : \A i \in DOMAIN inbox[k] :
              inbox[k][i].asset = a /\ inbox[k][i].kind = "change" =>
                ChangeIdentity(inbox[k][i].version) \notin cache[a]

Lines == \A a \in Assets, s \in 0..MaxSessions : LineInOrder(a, s)
Paths == \A a \in Assets : PathOf(a)
NothingSeen == \A a \in Assets : Unseen(a)

\* The assets that the windows told last ask for
Promised == AskedBy(told)

\* An asset of a window that has been told has been mentioned before its first
\* event, and the market of any event has been reported.
MentionedBefore(a, i) ==
    \/ Store!Referenced(a)
    \/ \E j \in DOMAIN line : j < i /\ line[j].kind = "window" /\ Mentions(line[j].context, a[1])

Introduced ==
    \A i \in DOMAIN line : line[i].kind \in Kinds =>
        /\ Known(line[i].asset)
        /\ line[i].asset \in Promised => MentionedBefore(line[i].asset, i)

Versioned == Contents /\ Lines /\ FrameInOrder /\ InboxInOrder /\ Paths /\ NothingSeen

IInv == /\ Types /\ Windows /\ Ownership
        /\ SessionsInOrder /\ Announced /\ Connection
        /\ Versioned /\ Introduced

-----------------------------------------------------------------------------
(* Events and messages.                                                    *)

\* The events there are.
LEMMA EventsAre ==
    ASSUME NEW e \in Event
    PROVE  /\ e.kind \in {"status", "window", "book", "change"}
           /\ e.kind = "status" => e.up \in BOOLEAN /\ e.session \in Sessions
           /\ e.kind = "window" => e.timeframe \in Timeframes /\ e.context \in Store!Context
           /\ e.kind \in Kinds => /\ e.asset \in Assets /\ e.version \in Versions
                                  /\ e.session \in Sessions
  <1>1. CASE e \in StatusEvents
    BY <1>1 DEF StatusEvents, Kinds
  <1>2. CASE e \in WindowEvents
    BY <1>2 DEF WindowEvents, Kinds
  <1>3. CASE e \in BookEvents
    BY <1>3 DEF BookEvents, Kinds
  <1> QED
    BY <1>1, <1>2, <1>3 DEF Event

\* What an event published becomes part of.
LEMMA EventTypes ==
    /\ \A up \in BOOLEAN : sid \in Sessions => StatusEvent(up) \in Event
    /\ \A m \in Message : sid \in Sessions => MessageEvent(m) \in Event
    /\ \A tf \in Timeframes, w \in Store!Context : WindowEvent(tf, w) \in Event
  <1>1. \A up \in BOOLEAN : sid \in Sessions => StatusEvent(up) \in StatusEvents
    BY DEF StatusEvent, StatusEvents
  <1>2. \A m \in Message : sid \in Sessions => MessageEvent(m) \in BookEvents
    BY DEF Message, MessageEvent, BookEvents
  <1>3. \A tf \in Timeframes, w \in Store!Context : WindowEvent(tf, w) \in WindowEvents
    BY DEF WindowEvent, WindowEvents
  <1> QED
    BY <1>1, <1>2, <1>3 DEF Event

\* Messages have the parts they are made of.
LEMMA MessagesAre ==
    ASSUME NEW m \in Message
    PROVE  /\ m.kind \in Kinds /\ m.asset \in Assets /\ m.version \in Versions
           /\ m.kind = "change" => m.stamp = 0
           /\ Identity(m) \in Identities
  BY DEF Message, Identity, Identities

\* The messages the exchange makes.
LEMMA MessageTypes ==
    ASSUME SourceAssumption, RunTypes, NetTypes, NEW a \in Assets
    PROVE  /\ BookMessage(a) \in Message
           /\ \A v \in Versions : ChangeMessage(a, v) \in Message
  <1>1. 0 \in 0..MaxSessions /\ sid \in 0..MaxSessions /\ version[a] \in Versions
    BY DEF SourceAssumption, RunTypes, NetTypes
  <1> QED
    BY <1>1 DEF BookMessage, ChangeMessage, Message, Kinds

-----------------------------------------------------------------------------
(* Sequences.                                                              *)

\* Indices of a sequence.
LEMMA Indices ==
    ASSUME NEW S, NEW s \in Seq(S)
    PROVE  /\ Len(s) \in Nat /\ DOMAIN s = 1..Len(s)
           /\ \A i \in DOMAIN s : i \in Nat /\ i >= 1 /\ i <= Len(s) /\ s[i] \in S
           /\ s # <<>> => 1 \in DOMAIN s /\ Head(s) = s[1]
           /\ s = <<>> <=> DOMAIN s = {}
  OBVIOUS

\* A sequence with one more element.
LEMMA OneMore ==
    ASSUME NEW S, NEW s \in Seq(S), NEW e \in S
    PROVE  /\ Append(s, e) \in Seq(S) /\ Len(Append(s, e)) = Len(s) + 1
           /\ DOMAIN Append(s, e) = DOMAIN s \cup {Len(s) + 1}
           /\ \A i \in DOMAIN s : Append(s, e)[i] = s[i] /\ i < Len(s) + 1
           /\ Append(s, e)[Len(s) + 1] = e
           /\ Len(s) + 1 \notin DOMAIN s
  OBVIOUS

\* A sequence without its head.
LEMMA OneLess ==
    ASSUME NEW S, NEW s \in Seq(S), s # <<>>
    PROVE  /\ Tail(s) \in Seq(S) /\ Len(Tail(s)) = Len(s) - 1
           /\ \A i \in DOMAIN Tail(s) : /\ i + 1 \in DOMAIN s /\ i + 1 > 1 /\ i \in Nat
                                        /\ Tail(s)[i] = s[i + 1]
           /\ \A i \in DOMAIN s : i > 1 => i - 1 \in DOMAIN Tail(s) /\ Tail(s)[i - 1] = s[i]
           /\ 1 \in DOMAIN s /\ Head(s) = s[1] /\ Head(s) \in S
  OBVIOUS

-----------------------------------------------------------------------------
(* What the exchange answers.                                              *)

\* The answer to a subscription to assets A: a book of each asset, in frames
\* of one or in one frame, and no two of the same asset.
Answers(R, A) ==
    /\ R \in Seq(Seq(Message))
    /\ \A k \in DOMAIN R : \A i \in DOMAIN R[k] : \E a \in A : R[k][i] = BookMessage(a)
    /\ \A k, l \in DOMAIN R : \A i \in DOMAIN R[k], j \in DOMAIN R[l] :
         R[k][i].asset = R[l][j].asset => k = l /\ i = j

LEMMA Replies ==
    ASSUME SourceAssumption, RunTypes, NetTypes,
           NEW A \in SUBSET Assets, IsFiniteSet(A), NEW order \in SetToSeqs(A)
    PROVE  Answers(Reply(order), A)
  <1> DEFINE n == Cardinality(A)
  <1>1. n \in Nat
    BY FS_CardinalityType
  <1>2. order \in [1..n -> A] /\ \A i, j \in 1..n : i # j => order[i] # order[j]
    BY DEF SetToSeqs
  <1> HIDE DEF n
  <1>3. \A i \in 1..n : order[i] \in A /\ BookMessage(order[i]) \in Message
    BY <1>2, MessageTypes
  <1>4. \A a : BookMessage(a).asset = a
    BY DEF BookMessage
  <1>5. DOMAIN order = 1..n
    BY <1>2
  <1>6. CASE ArrayReplies
    <2> DEFINE f == [i \in 1..n |-> BookMessage(order[i])]
    <2>1. Reply(order) = <<f>>
      BY <1>5, <1>6 DEF Reply
    <2>2. f \in Seq(Message) /\ DOMAIN f = 1..n /\ \A i \in 1..n : f[i] = BookMessage(order[i])
      BY <1>1, <1>3
    <2> HIDE DEF f
    <2>3. <<f>> \in Seq(Seq(Message)) /\ DOMAIN <<f>> = {1} /\ <<f>>[1] = f
      BY <2>2
    <2>4. \A i \in DOMAIN f : \E a \in A : f[i] = BookMessage(a)
      BY <1>3, <2>2
    <2>5. \A i, j \in DOMAIN f : f[i].asset = f[j].asset => i = j
      BY <1>2, <1>4, <2>2
    <2> QED
      BY <2>1, <2>3, <2>4, <2>5 DEF Answers
  <1>7. CASE ~ArrayReplies
    <2> DEFINE R == [i \in 1..n |-> <<BookMessage(order[i])>>]
    <2>1. Reply(order) = R
      BY <1>5, <1>7 DEF Reply
    <2>2. \A i \in 1..n : <<BookMessage(order[i])>> \in Seq(Message)
      BY <1>3
    <2>3. R \in Seq(Seq(Message)) /\ DOMAIN R = 1..n
          /\ \A i \in 1..n : R[i] = <<BookMessage(order[i])>>
      BY <1>1, <2>2
    <2> HIDE DEF R
    <2>4. \A k \in 1..n : DOMAIN R[k] = {1} /\ R[k][1] = BookMessage(order[k])
      BY <2>3
    <2>5. \A k \in DOMAIN R : \A i \in DOMAIN R[k] : \E a \in A : R[k][i] = BookMessage(a)
      BY <1>3, <2>3, <2>4
    <2>6. \A k, l \in DOMAIN R : \A i \in DOMAIN R[k], j \in DOMAIN R[l] :
            R[k][i].asset = R[l][j].asset => k = l /\ i = j
      BY <1>2, <1>4, <2>3, <2>4
    <2> QED
      BY <2>1, <2>3, <2>5, <2>6 DEF Answers
  <1> QED
    BY <1>6, <1>7

\* Frames that follow others.
LEMMA Concatenation ==
    ASSUME NEW S, NEW s \in Seq(S), NEW t \in Seq(S)
    PROVE  /\ s \o t \in Seq(S)
           /\ \A i \in DOMAIN s : i \in DOMAIN (s \o t) /\ (s \o t)[i] = s[i]
           /\ \A j \in DOMAIN t : Len(s) + j \in DOMAIN (s \o t) /\ (s \o t)[Len(s) + j] = t[j]
           /\ \A i \in DOMAIN (s \o t) : i \in DOMAIN s \/ (i - Len(s) \in DOMAIN t /\ i > Len(s))
  OBVIOUS

-----------------------------------------------------------------------------
(* Types are preserved.                                                    *)

\* Publishing an event, or not.
LEMMA Published ==
    ASSUME SourceAssumption, LineTypes, connected' \in BOOLEAN,
           line' = line \/ \E e \in Event : Publish(e)
    PROVE  LineTypes'
  <1>1. CASE line' = line
    BY <1>1 DEF LineTypes
  <1>2. ASSUME NEW e \in Event, Publish(e)
        PROVE  LineTypes'
    BY <1>2, OneMore DEF LineTypes, Publish, SourceAssumption
  <1> QED
    BY <1>1, <1>2

Connecting ==
    \/ Start \/ Connect \/ ConnectFails \/ Announce \/ AnnounceFails
    \/ ConnectionFails \/ ConnectionEnds \/ BackedOff \/ Close \/ CloseFails

Handling == HandleUnknown \/ HandleDuplicate \/ HandleMessage \/ MessageFails

\* What is put into the line by the source.
LEMMA SourceLine ==
    ASSUME SourceAssumption, Types, Run \/ Subscriptions \/ Exchange
    PROVE  line' = line \/ \E e \in StatusEvents \cup BookEvents : Publish(e)
  <1>1. ASSUME Announce PROVE \E e \in StatusEvents : Publish(e)
    <2>1. StatusEvent(TRUE) \in StatusEvents
      BY <1>1 DEF Announce, Types, RunTypes, StatusEvent, StatusEvents
    <2> QED
      BY <1>1, <2>1 DEF Announce
  <1>2. ASSUME Close PROVE line' = line \/ \E e \in StatusEvents : Publish(e)
    <2>1. opened => StatusEvent(FALSE) \in StatusEvents
      BY DEF Types, RunTypes, StatusEvent, StatusEvents
    <2> QED
      BY <1>2, <2>1 DEF Close
  <1>3. ASSUME HandleMessage PROVE \E e \in BookEvents : Publish(e)
    <2>1. Head(frame) \in Message
      BY <1>3, Indices DEF HandleMessage, Types, NetTypes
    <2>2. MessageEvent(Head(frame)) \in BookEvents
      BY <1>3, <2>1, MessagesAre DEF HandleMessage, Types, RunTypes, MessageEvent, BookEvents
    <2> QED
      BY <1>3, <2>2 DEF HandleMessage
  <1>4. ASSUME Start \/ Connect \/ ConnectFails \/ AnnounceFails \/ Subscribe \/ Receive
               \/ HandleUnknown \/ HandleDuplicate \/ MessageFails \/ ConnectionFails
               \/ ConnectionEnds \/ BackedOff \/ CloseFails
        PROVE  line' = line
    BY <1>4 DEF Start, Connect, ConnectFails, AnnounceFails, Subscribe, Receive, HandleUnknown,
       HandleDuplicate, MessageFails, ConnectionFails, ConnectionEnds, BackedOff, CloseFails,
       PublishFails
  <1>5. ASSUME Subscriptions PROVE line' = line
    BY <1>5 DEF Subscriptions, SubsWake, SubsAdd, SubsRemove, SubsFails
  <1>6. ASSUME Exchange PROVE line' = line
    BY <1>6 DEF Exchange, Lose, Trade
  <1> QED
    BY <1>1, <1>2, <1>3, <1>4, <1>5, <1>6 DEF Run

\* The ways through run() which do not look at a message.
LEMMA ConnectingTypes ==
    ASSUME SourceAssumption, Types, Connecting
    PROVE  RunTypes' /\ AssetTypes' /\ NetTypes' /\ connected' \in BOOLEAN
  <1> USE DEF Types, RunTypes, AssetTypes, NetTypes, LineTypes
  <1>1. ASSUME Start PROVE RunTypes' /\ AssetTypes' /\ NetTypes' /\ connected' \in BOOLEAN
    BY <1>1 DEF Start, Places, assetVars, netVars
  <1>2. ASSUME Connect PROVE RunTypes' /\ AssetTypes' /\ NetTypes' /\ connected' \in BOOLEAN
    <2>1. sid' \in Sessions /\ sid' \in 0..MaxSessions
      BY <1>2 DEF Connect, Sessions, SourceAssumption
    <2> QED
      BY <1>2, <2>1 DEF Connect, Places, assetVars, netVars
  <1>3. ASSUME ConnectFails \/ AnnounceFails \/ ConnectionFails
        PROVE  RunTypes' /\ AssetTypes' /\ NetTypes' /\ connected' \in BOOLEAN
    <2>1. Fail /\ cache' = cache
      BY <1>3 DEF ConnectFails, AnnounceFails, ConnectionFails
    <2>2. <<>> \in Seq(Message) /\ <<>> \in Seq(Seq(Message))
      OBVIOUS
    <2>3. RunTypes' /\ connected' \in BOOLEAN
      BY <2>1 DEF Fail, Places
    <2>4. AssetTypes'
      BY <2>1 DEF Fail
    <2>5. NetTypes'
      BY <2>1, <2>2 DEF Fail
    <2> QED
      BY <2>3, <2>4, <2>5
  <1>4. ASSUME Announce PROVE RunTypes' /\ AssetTypes' /\ NetTypes' /\ connected' \in BOOLEAN
    BY <1>4 DEF Announce, Places, assetVars, netVars
  <1>5. ASSUME ConnectionEnds \/ BackedOff
        PROVE  RunTypes' /\ AssetTypes' /\ NetTypes' /\ connected' \in BOOLEAN
    BY <1>5 DEF ConnectionEnds, BackedOff, Places, assetVars, netVars
  <1>6. ASSUME Close PROVE RunTypes' /\ AssetTypes' /\ NetTypes' /\ connected' \in BOOLEAN
    BY <1>6 DEF Close, Places, assetVars, netVars, NoSubs
  <1>7. ASSUME CloseFails PROVE RunTypes' /\ AssetTypes' /\ NetTypes' /\ connected' \in BOOLEAN
    BY <1>7 DEF CloseFails, Places, assetVars, netVars
  <1> QED
    BY <1>1, <1>2, <1>3, <1>4, <1>5, <1>6, <1>7 DEF Connecting

LEMMA HandlingTypes ==
    ASSUME SourceAssumption, Types, Receive \/ Handling
    PROVE  RunTypes' /\ AssetTypes' /\ NetTypes' /\ connected' \in BOOLEAN
  <1>1. ASSUME Receive PROVE RunTypes' /\ AssetTypes' /\ NetTypes' /\ connected' \in BOOLEAN
    <2>1. Head(inbox) \in Seq(Message) /\ Tail(inbox) \in Seq(Seq(Message))
      BY <1>1, OneLess DEF Receive, Types, NetTypes
    <2> QED
      BY <1>1, <2>1 DEF Receive, Types, RunTypes, AssetTypes, NetTypes, LineTypes, runVars, assetVars
  <1>2. ASSUME Handling PROVE RunTypes' /\ AssetTypes' /\ NetTypes' /\ connected' \in BOOLEAN
    <2> DEFINE m == Head(frame)
    <2>1. m \in Message /\ Tail(frame) \in Seq(Message) /\ <<>> \in Seq(Message)
          /\ <<>> \in Seq(Seq(Message))
      BY <1>2, OneLess DEF Handling, HandleUnknown, HandleDuplicate, HandleMessage, MessageFails,
         Types, NetTypes
    <2>2. m.asset \in Assets /\ Identity(m) \in Identities
      BY <2>1, MessagesAre
    <2> HIDE DEF m
    <2>3. frame' \in {<<>>, Tail(frame)} /\ inbox' \in {<<>>, inbox} /\ listed' \in {{}, listed}
          /\ link' \in {"down", link} /\ version' = version /\ connected' = connected
      BY <1>2 DEF Handling, HandleUnknown, HandleDuplicate, HandleMessage, MessageFails, Discard,
         Fail, netVars
    <2>4. /\ pc' \in {"backoff", pc} /\ sid' = sid /\ opened' = opened /\ initial' = initial
          /\ desired' = desired /\ assets' = assets /\ retiring' = retiring /\ subs' = subs
          /\ subscribed' \in {{}, subscribed}
          /\ cache' = cache \/ cache' = [cache EXCEPT ![m.asset] = @ \cup {Identity(m)}]
      BY <1>2 DEF Handling, HandleUnknown, HandleDuplicate, HandleMessage, MessageFails, Discard,
         Fail, Remember, runVars, assetVars, m
    <2>5. cache' \in [Assets -> SUBSET Identities]
      BY <2>2, <2>4 DEF Types, AssetTypes
    <2>6. AssetTypes'
      BY <2>4, <2>5 DEF Types, AssetTypes
    <2>7. NetTypes'
      BY <2>1, <2>3 DEF Types, NetTypes
    <2>8. RunTypes'
      BY <2>4 DEF Types, RunTypes, Places
    <2> QED
      BY <2>3, <2>6, <2>7, <2>8 DEF Types, LineTypes
  <1> QED
    BY <1>1, <1>2

\* A subscription to assets of which there are finitely many.
LEMMA SubscribedTypes ==
    ASSUME SourceAssumption, Types, NEW A \in SUBSET Assets, IsFiniteSet(A), Subscribed(A)
    PROVE  /\ link' = link /\ version' = version /\ listed' \subseteq Assets
           /\ inbox' \in Seq(Seq(Message))
           /\ \/ inbox' = inbox /\ listed' = listed
              \/ /\ link = "up" /\ listed' = listed \cup A
                 /\ \E R \in Seq(Seq(Message)) : Answers(R, A) /\ inbox' = inbox \o R
  <1>1. CASE link = "up"
    <2>1. PICK order \in SetToSeqs(A) : inbox' = inbox \o Reply(order)
      BY <1>1 DEF Subscribed
    <2>2. Answers(Reply(order), A)
      BY Replies DEF Types
    <2>3. Reply(order) \in Seq(Seq(Message)) /\ inbox \in Seq(Seq(Message)) /\ listed \subseteq Assets
      BY <2>2 DEF Answers, Types, NetTypes
    <2>4. inbox' \in Seq(Seq(Message))
      BY <2>1, <2>3, Concatenation
    <2>5. link' = link /\ version' = version /\ listed' = listed \cup A
      BY <1>1 DEF Subscribed
    <2> QED
      BY <1>1, <2>1, <2>2, <2>3, <2>4, <2>5
  <1>2. CASE link # "up"
    BY <1>2 DEF Subscribed, netVars, Types, NetTypes
  <1> QED
    BY <1>1, <1>2

\* Subsets of what is desired are finite.
LEMMA FiniteParts ==
    ASSUME Ownership, NEW A, A \subseteq desired
    PROVE  IsFiniteSet(A)
  BY FS_Subset DEF Ownership

\* The initial subscription, and the task that keeps it up to date.
LEMMA SubscribingTypes ==
    ASSUME SourceAssumption, Types, Ownership, Connection, Subscribe \/ Subscriptions
    PROVE  RunTypes' /\ AssetTypes' /\ NetTypes' /\ connected' \in BOOLEAN
  <1>1. ASSUME Subscribe PROVE RunTypes' /\ AssetTypes' /\ NetTypes' /\ connected' \in BOOLEAN
    <2>1. Subscribed(initial) /\ initial \subseteq Assets /\ IsFiniteSet(initial)
      BY <1>1, FiniteParts DEF Subscribe, Types, RunTypes, Ownership
    <2>2. link' = link /\ version' = version /\ listed' \subseteq Assets /\ inbox' \in Seq(Seq(Message))
      BY <2>1, SubscribedTypes
    <2>3. NetTypes'
      BY <1>1, <2>2 DEF Subscribe, Types, NetTypes
    <2> QED
      BY <1>1, <2>3 DEF Subscribe, Types, RunTypes, AssetTypes, LineTypes, Places, IdleSubs, NoSubs
  <1>2. ASSUME NEW X \in SUBSET retiring, SubsWake(X)
        PROVE  RunTypes' /\ AssetTypes' /\ NetTypes' /\ connected' \in BOOLEAN
    <2>1. cache' \in [Assets -> SUBSET Identities]
      BY <1>2 DEF SubsWake, Expired, Types, AssetTypes
    <2>2. desired' \subseteq Assets /\ assets' \subseteq Assets /\ retiring' \subseteq Assets
          /\ subscribed' = subscribed
      BY <1>2 DEF SubsWake, Expired, Types, AssetTypes
    <2>3. subs' \in [at : {"none", "waiting", "adding", "removing"},
                 added : SUBSET Assets, removed : SUBSET Assets]
      BY <1>2, <2>2 DEF SubsWake, Types, AssetTypes
    <2>4. AssetTypes'
      BY <2>1, <2>2, <2>3 DEF Types, AssetTypes
    <2> QED
      BY <1>2, <2>4 DEF SubsWake, runVars, netVars, Types, RunTypes, NetTypes, LineTypes
  <1>3. ASSUME SubsAdd PROVE RunTypes' /\ AssetTypes' /\ NetTypes' /\ connected' \in BOOLEAN
    <2>1. subs.added \subseteq Assets /\ IsFiniteSet(subs.added)
      BY FiniteParts DEF Types, AssetTypes, Connection
    <2>2. /\ link' = link /\ version' = version /\ listed' \subseteq Assets
          /\ inbox' \in Seq(Seq(Message)) /\ subscribed' \subseteq Assets
      <3>1. CASE subs.added = {}
        BY <1>3, <3>1 DEF SubsAdd, netVars, Types, NetTypes, AssetTypes
      <3>2. CASE subs.added # {}
        <4>1. Subscribed(subs.added) /\ subscribed' = subscribed \cup subs.added
          BY <1>3, <3>2 DEF SubsAdd
        <4> QED
          BY <2>1, <4>1, SubscribedTypes DEF Types, AssetTypes
      <3> QED
        BY <3>1, <3>2
    <2>3. NetTypes'
      BY <1>3, <2>2 DEF SubsAdd, Types, NetTypes
    <2>4. AssetTypes'
      BY <1>3, <2>2 DEF SubsAdd, Types, AssetTypes
    <2> QED
      BY <1>3, <2>3, <2>4 DEF SubsAdd, runVars, Types, RunTypes, LineTypes
  <1>4. ASSUME SubsRemove PROVE RunTypes' /\ AssetTypes' /\ NetTypes' /\ connected' \in BOOLEAN
    <2>1. /\ link' = link /\ version' = version /\ inbox' = inbox /\ frame' = frame
          /\ listed' \subseteq listed /\ subscribed' \subseteq subscribed
      BY <1>4 DEF SubsRemove, netVars
    <2>2. NetTypes'
      BY <2>1 DEF Types, NetTypes
    <2>3. AssetTypes'
      BY <1>4, <2>1 DEF SubsRemove, IdleSubs, NoSubs, Types, AssetTypes
    <2> QED
      BY <1>4, <2>2, <2>3 DEF SubsRemove, runVars, Types, RunTypes, LineTypes
  <1>5. ASSUME SubsFails PROVE RunTypes' /\ AssetTypes' /\ NetTypes' /\ connected' \in BOOLEAN
    <2>1. AssetTypes'
      BY <1>5 DEF SubsFails, NoSubs, assetVars, Types, AssetTypes
    <2> QED
      BY <1>5, <2>1 DEF SubsFails, runVars, netVars, Types, RunTypes, NetTypes, LineTypes
  <1> QED
    BY <1>1, <1>2, <1>3, <1>4, <1>5 DEF Subscriptions

\* The exchange and the network.
LEMMA ExchangeTypes ==
    ASSUME SourceAssumption, Types, Exchange
    PROVE  RunTypes' /\ AssetTypes' /\ NetTypes' /\ connected' \in BOOLEAN
  <1>1. ASSUME Lose PROVE RunTypes' /\ AssetTypes' /\ NetTypes' /\ connected' \in BOOLEAN
    <2>1. inbox' \in Seq(Seq(Message))
      BY <1>1 DEF Lose, Types, NetTypes
    <2> QED
      BY <1>1, <2>1 DEF Lose, runVars, assetVars, Types, RunTypes, AssetTypes, NetTypes, LineTypes
  <1>2. ASSUME NEW a \in Assets, Trade(a)
        PROVE RunTypes' /\ AssetTypes' /\ NetTypes' /\ connected' \in BOOLEAN
    <2>1. version[a] + 1 \in Versions
      BY <1>2 DEF Trade, Types, NetTypes, Versions, SourceAssumption
    <2>2. version' \in [Assets -> Versions]
      BY <1>2, <2>1 DEF Trade, Types, NetTypes
    <2>3. <<ChangeMessage(a, version[a] + 1)>> \in Seq(Message)
      BY <2>1, MessageTypes DEF Types
    <2>4. inbox' \in Seq(Seq(Message))
      <3>1. inbox' = inbox \/ inbox' = Append(inbox, <<ChangeMessage(a, version[a] + 1)>>)
        BY <1>2 DEF Trade
      <3>2. inbox \in Seq(Seq(Message))
        BY DEF Types, NetTypes
      <3> DEFINE f == <<ChangeMessage(a, version[a] + 1)>>
      <3>3. f \in Seq(Message)
        BY <2>3
      <3> HIDE DEF f
      <3>4. Append(inbox, f) \in Seq(Seq(Message))
        BY <3>2, <3>3, OneMore
      <3> QED
        BY <3>1, <3>2, <3>4 DEF f
    <2> QED
      BY <1>2, <2>2, <2>4 DEF Trade, runVars, assetVars, Types, RunTypes, AssetTypes, NetTypes, LineTypes
  <1> QED
    BY <1>1, <1>2 DEF Exchange

SourceStep == Run \/ Subscriptions \/ Exchange

\* A step of the source or the exchange, with what it leaves alone.
LEMMA SourceSteps ==
    ASSUME Alone(Run) \/ Alone(Subscriptions) \/ Alone(Exchange)
    PROVE  SourceStep /\ UNCHANGED <<window, latest, manager, told, storeVars>>
  BY DEF Alone, SourceStep, managerVars

LEMMA SourceTypes ==
    ASSUME SourceAssumption, Types, Ownership, Connection,
           SourceStep, UNCHANGED <<window, latest, manager, told, storeVars>>
    PROVE  Types'
  <1>1. RunTypes' /\ AssetTypes' /\ NetTypes' /\ connected' \in BOOLEAN
    BY ConnectingTypes, HandlingTypes, SubscribingTypes, ExchangeTypes
       DEF SourceStep, Run, Connecting, Handling
  <1>2. line' = line \/ \E e \in Event : Publish(e)
    BY SourceLine DEF SourceStep, Event
  <1>3. LineTypes'
    BY <1>1, <1>2, Published DEF Types
  <1>4. StoreTypes'
    BY DEF storeVars, Types, StoreTypes
  <1> QED
    BY <1>1, <1>3, <1>4 DEF Types

-----------------------------------------------------------------------------
(* What the market manager and the reducer do.                             *)

\* The market manager handles window w of timeframe tf: the assets it asks for
\* become desired, and its event is accepted, or refused for good.
Accepted(tf, w) ==
    /\ Publish(WindowEvent(tf, w))
    /\ told' = [told EXCEPT ![tf] = w] /\ manager' = manager

Refused == line' = line /\ told' = told /\ manager' = "dead"

Managed(tf, w) ==
    /\ w \in Store!Context /\ manager = "running"
    /\ window' = [window EXCEPT ![tf] = w]
    /\ latest' \in [Timeframes -> Nat]
    /\ \A t \in Timeframes : t # tf => latest'[t] = latest[t]
    /\ latest[tf] <= latest'[tf]
    /\ latest'[tf] = Discovery!Newest(w, latest'[tf])
    /\ \A m \in {w.current, w.next} :
         \/ m = NoMarket
         \/ /\ m \in Markets /\ TimeframeOf[m] = tf /\ m <= latest'[tf]
            /\ Mentions(window[tf], m) \/ m > latest[tf]
    /\ OnMarketSnapshot(tf, w.current, w.next)
    /\ Accepted(tf, w) \/ Refused
    /\ UNCHANGED <<runVars, frame, subs, netVars, connected, storeVars>>

\* Windows follow each other so that markets shown were shown before, or are new.
LEMMA ManagedWindow ==
    ASSUME PipelineAssumption, Types, Windows, NEW tf \in Timeframes,
           Manage(tf) \/ ManageFails(tf)
    PROVE  \E w \in Store!Context : Managed(tf, w)
  <1> DEFINE old == window[tf]
             New == {m \in Markets : TimeframeOf[m] = tf /\ m > latest[tf]}
  <1>1. PICK w \in Discovery!Following(tf, window[tf]) :
            /\ manager = "running"
            /\ Discovery!Report(tf, w)
            /\ OnMarketSnapshot(tf, w.current, w.next)
            /\ Accepted(tf, w) \/ Refused
            /\ UNCHANGED <<runVars, frame, subs, netVars, connected, storeVars>>
    BY DEF Manage, ManageFails, Snapshot, Accepted, Refused, PublishFails
  <1>2. Discovery!NewMarkets(tf) = New
    BY DEF Discovery!NewMarkets
  <1>3. w \in (IF old.next # NoMarket
                 THEN {[active |-> TRUE, current |-> old.next, next |-> NoMarket]}
                 ELSE [active : {TRUE}, current : New, next : {NoMarket}]
                        \cup [active : {FALSE}, current : {old.current, NoMarket},
                              next : {NoMarket} \cup New])
    BY <1>1, <1>2 DEF Discovery!Following, Discovery!NoMarket, NoMarket
  <1>4. /\ old \in Store!Context /\ latest[tf] \in Nat /\ Sound(tf, old)
        /\ latest[tf] = Discovery!Newest(old, latest[tf])
    BY DEF Types, StoreTypes, Windows, WindowsSound
  <1> HIDE DEF old
  <1>5. /\ old.current \in Markets \cup {NoMarket} /\ old.next \in Markets \cup {NoMarket}
        /\ \A m \in {old.current, old.next} : m = NoMarket \/ (TimeframeOf[m] = tf /\ m <= latest[tf])
    <2>1. old.current \in Reported(tf) /\ old.next \in Reported(tf)
      BY <1>4 DEF Sound
    <2> QED
      BY <2>1 DEF Reported
  <1>6. New \subseteq Markets /\ Markets \subseteq Nat \ {NoMarket} /\ NoMarket = 0
    BY DEF PipelineAssumption, NoMarket
  <1>7. /\ w \in Store!Context
        /\ \/ old.next # NoMarket /\ w.current = old.next /\ w.next = NoMarket
           \/ old.next = NoMarket /\ w.current \in New /\ w.next = NoMarket
           \/ old.next = NoMarket /\ w.current \in {old.current, NoMarket} /\ w.next \in New \cup {NoMarket}
    <2>1. CASE old.next # NoMarket
      <3>1. w = [active |-> TRUE, current |-> old.next, next |-> NoMarket]
        BY <1>3, <2>1
      <3> QED
        BY <1>5, <2>1, <3>1 DEF Store!Context
    <2>2. CASE old.next = NoMarket /\ w \in [active : {TRUE}, current : New, next : {NoMarket}]
      BY <1>6, <2>2 DEF Store!Context
    <2>3. CASE old.next = NoMarket /\ w \in [active : {FALSE}, current : {old.current, NoMarket},
                                             next : {NoMarket} \cup New]
      BY <1>5, <1>6, <2>3 DEF Store!Context
    <2> QED
      BY <1>3, <2>1, <2>2, <2>3
  <1> DEFINE l == Discovery!Newest(w, latest[tf])
  <1>8. window' = [window EXCEPT ![tf] = w] /\ latest' = [latest EXCEPT ![tf] = l]
    BY <1>1, <1>4 DEF Discovery!Report, Types, StoreTypes
  <1>9. latest[tf] = IF old.next # NoMarket THEN old.next
                     ELSE IF old.current # NoMarket THEN old.current ELSE latest[tf]
    BY <1>4 DEF Discovery!Newest, Discovery!NoMarket, NoMarket
  <1>10. l = IF w.next # NoMarket THEN w.next
             ELSE IF w.current # NoMarket THEN w.current ELSE latest[tf]
    BY DEF Discovery!Newest, Discovery!NoMarket, NoMarket
  <1>11. \A m \in New : m \in Nat /\ m > latest[tf] /\ TimeframeOf[m] = tf
    BY <1>6
  <1> HIDE DEF New, l
  <1> DEFINE Right(m) == m = NoMarket \/ (m \in Markets /\ TimeframeOf[m] = tf /\ m <= l)
  <1>12. l \in Nat /\ latest[tf] <= l /\ Right(w.current) /\ Right(w.next)
    <2>1. CASE old.next # NoMarket /\ w.current = old.next /\ w.next = NoMarket
      BY <1>4, <1>5, <1>6, <1>9, <1>10, <2>1
    <2>2. CASE old.next = NoMarket /\ w.current \in New /\ w.next = NoMarket
      <3>1. w.current \in Markets /\ w.current \in Nat /\ w.current # NoMarket
            /\ w.current > latest[tf] /\ TimeframeOf[w.current] = tf
        BY <1>6, <1>11, <2>2 DEF New
      <3>2. l = w.current
        BY <1>10, <2>2, <3>1
      <3> QED
        BY <1>4, <2>2, <3>1, <3>2
    <2>3. CASE old.next = NoMarket /\ w.current \in {old.current, NoMarket} /\ w.next = NoMarket
      <3>1. CASE w.current = NoMarket
        BY <1>4, <1>10, <2>3, <3>1
      <3>2. CASE w.current # NoMarket
        <4>1. w.current = old.current /\ w.current = latest[tf] /\ l = w.current
          BY <1>9, <1>10, <2>3, <3>2
        <4> QED
          BY <1>4, <1>5, <1>6, <2>3, <3>2, <4>1
      <3> QED
        BY <3>1, <3>2
    <2>4. CASE old.next = NoMarket /\ w.current \in {old.current, NoMarket} /\ w.next \in New
      <3>1. w.next \in Markets /\ w.next \in Nat /\ w.next # NoMarket
            /\ w.next > latest[tf] /\ TimeframeOf[w.next] = tf
        BY <1>6, <1>11, <2>4 DEF New
      <3>2. l = w.next
        BY <1>10, <2>4, <3>1
      <3>3. Right(w.current)
        <4>1. CASE w.current = NoMarket
          BY <4>1
        <4>2. CASE w.current # NoMarket
          <5>1. w.current = old.current /\ w.current = latest[tf]
            BY <1>9, <2>4, <4>2
          <5> QED
            BY <1>4, <1>5, <3>1, <3>2, <4>2, <5>1
        <4> QED
          BY <4>1, <4>2
      <3> QED
        BY <1>4, <3>1, <3>2, <3>3
    <2> QED
      BY <1>7, <2>1, <2>2, <2>3, <2>4
  <1>13. \A m \in {w.current, w.next} : m = NoMarket \/ Mentions(old, m) \/ m > latest[tf]
    BY <1>7, <1>11 DEF Mentions
  <1>14. latest' \in [Timeframes -> Nat] /\ latest'[tf] = l
         /\ \A t \in Timeframes : t # tf => latest'[t] = latest[t]
    BY <1>8, <1>12 DEF Types, StoreTypes
  <1>15. l = Discovery!Newest(w, l)
    BY <1>10 DEF Discovery!Newest, Discovery!NoMarket, NoMarket
  <1>16. \A m \in {w.current, w.next} :
         \/ m = NoMarket
         \/ /\ m \in Markets /\ TimeframeOf[m] = tf /\ m <= latest'[tf]
            /\ Mentions(window[tf], m) \/ m > latest[tf]
    BY <1>12, <1>13, <1>14 DEF old
  <1> QED
    BY <1>1, <1>7, <1>8, <1>12, <1>14, <1>15, <1>16 DEF Managed

LEMMA ManagedTypes ==
    ASSUME SourceAssumption, PipelineAssumption, Types, NEW tf \in Timeframes,
           NEW w \in Store!Context, Managed(tf, w)
    PROVE  Types'
  <1>1. Required(w.current, w.next) \subseteq Assets
    BY DEF Required
  <1>2. AssetTypes'
    BY <1>1 DEF Managed, OnMarketSnapshot, Types, AssetTypes
  <1>3. WindowEvent(tf, w) \in Event
    BY EventTypes
  <1>4. LineTypes'
    BY <1>3, Published DEF Managed, Accepted, Refused, Types, LineTypes
  <1>5. /\ window' \in [Timeframes -> Store!Context] /\ latest' \in [Timeframes -> Nat]
        /\ told' \in [Timeframes -> Store!Context] /\ manager' \in {"running", "dead"}
    BY DEF Managed, Accepted, Refused, Types, StoreTypes
  <1>6. UNCHANGED storeVars /\ UNCHANGED runVars /\ UNCHANGED netVars /\ frame' = frame
    BY DEF Managed
  <1>7. StoreTypes'
    BY <1>5, <1>6 DEF storeVars, Types, StoreTypes
  <1>8. RunTypes' /\ NetTypes'
    BY <1>6 DEF runVars, netVars, Types, RunTypes, NetTypes
  <1> QED
    BY <1>2, <1>4, <1>7, <1>8 DEF Types

\* An event that the store ignores.
Ignored(a, s) ==
    /\ Store!Stale(s) \/ ~Store!Referenced(a)
    /\ UNCHANGED <<contexts, books, session, connected, feed>>

\* An event of asset a in session s makes its book b.
MakesBook(a, s, b) ==
    /\ ~Store!Stale(s)
    /\ Store!Referenced(a)
    /\ b \in Store!Book
    /\ books' = [books EXCEPT ![a] = b]
    /\ UNCHANGED <<contexts, session, connected, feed>>

LEMMA FullBook ==
    ASSUME PipelineAssumption, StoreTypes, NEW a \in Assets, NEW s \in Sessions, NEW v \in Versions,
           Store!ApplyBook(a, s, v)
    PROVE  \E b \in Store!Book : b.initialized /\ b.content = v /\ MakesBook(a, s, b)
  <1> DEFINE old == Store!BookFor(a, s)
  <1>1. old \in Store!Book
    BY DEF Store!BookFor, Store!NewBook, Store!Book, Store!Contents, Store!DivergenceLimit, StoreTypes
  <1>2. PICK c \in Store!Coherent(v) :
          Store!SetBook(a, s, [old EXCEPT !.initialized = TRUE, !.coherent = c,
                                 !.divergence = 0, !.session = s, !.content = v])
    BY DEF Store!ApplyBook
  <1>3. c \in BOOLEAN
    BY <1>2 DEF Store!Coherent
  <1> DEFINE b == [old EXCEPT !.initialized = TRUE, !.coherent = c,
                                 !.divergence = 0, !.session = s, !.content = v]
  <1> HIDE DEF old
  <1>4. b \in Store!Book /\ b.initialized /\ b.content = v
    <2>1. v \in Store!Contents /\ 0 \in 0..Store!DivergenceLimit
      BY DEF Store!Contents, Store!DivergenceLimit
    <2> QED
      BY <1>1, <1>3, <2>1 DEF Store!Book
  <1>5. MakesBook(a, s, b)
    BY <1>2, <1>4 DEF Store!SetBook, MakesBook
  <1> QED
    BY <1>4, <1>5

LEMMA PriceChange ==
    ASSUME PipelineAssumption, StoreTypes, NEW a \in Assets, NEW s \in Sessions, NEW v \in Versions,
           Store!ApplyPriceChange(a, s, v)
    PROVE  \E b \in Store!Book :
             /\ MakesBook(a, s, b)
             /\ b.initialized => /\ Initialized(a)
                                 /\ b.content \in Store!Changed(books[a].content, v)
             /\ Initialized(a) => b.initialized
  <1> DEFINE old == Store!BookFor(a, s)
  <1>1. old \in Store!Book /\ old.initialized \in BOOLEAN
        /\ (old.initialized <=> Initialized(a))
        /\ (Initialized(a) => old = books[a])
    <2>1. Store!NewBook(s) \in Store!Book /\ Store!NewBook(s).initialized = FALSE
      BY DEF Store!NewBook, Store!Book, Store!Contents, Store!DivergenceLimit
    <2>2. books[a] \in Store!Book \cup {NoBook}
      BY DEF StoreTypes
    <2>3. CASE books[a] = NoBook
      BY <2>1, <2>3 DEF Store!BookFor, Initialized
    <2>4. CASE books[a] # NoBook
      <3>1. old = books[a] /\ old \in Store!Book
        BY <2>2, <2>4 DEF Store!BookFor
      <3>2. old.initialized \in BOOLEAN
        BY <3>1 DEF Store!Book
      <3> HIDE DEF old
      <3> QED
        BY <2>4, <3>1, <3>2 DEF Initialized
    <2> QED
      BY <2>3, <2>4
  <1>2. CASE ~old.initialized
    <2>1. Store!SetBook(a, s, old)
      BY <1>2 DEF Store!ApplyPriceChange
    <2> QED
      BY <1>1, <1>2, <2>1 DEF Store!SetBook, MakesBook
  <1>3. CASE old.initialized
    <2>1. PICK w \in Store!Changed(old.content, v) : \E c \in Store!Coherent(w) :
             Store!SetBook(a, s, [old EXCEPT !.content = w, !.coherent = c])
      BY <1>3 DEF Store!ApplyPriceChange
    <2>2. PICK c \in Store!Coherent(w) : Store!SetBook(a, s, [old EXCEPT !.content = w, !.coherent = c])
      BY <2>1
    <2>3. c \in BOOLEAN
      BY <2>2 DEF Store!Coherent
    <2>4. w \in Store!Contents
      BY <1>1, <2>1 DEF Store!Changed, Store!Contents, Store!Book
    <2> HIDE DEF old
    <2> DEFINE b == [old EXCEPT !.content = w, !.coherent = c]
    <2>5. b \in Store!Book /\ b.initialized /\ b.content = w
      BY <1>1, <1>3, <2>3, <2>4 DEF Store!Book
    <2>6. MakesBook(a, s, b)
      BY <2>2, <2>5 DEF Store!SetBook, MakesBook
    <2> QED
      BY <1>1, <1>3, <2>1, <2>5, <2>6
  <1> QED
    BY <1>1, <1>2, <1>3

\* The four kinds of event.
StatusReduced(e) ==
    /\ e.kind = "status"
    /\ books' = IF ~e.up \/ e.session # session
                  THEN [a \in Assets |-> Store!Invalidated(books[a])]
                  ELSE books
    /\ session' = IF e.up THEN e.session ELSE session
    /\ connected' = e.up
    /\ UNCHANGED <<contexts, feed>>

WindowReduced(e) ==
    /\ e.kind = "window"
    /\ contexts' = [contexts EXCEPT ![e.timeframe] = e.context]
    /\ books' = Store!Pruned(contexts')
    /\ UNCHANGED <<session, connected, feed>>

FullBookReduced(e) ==
    /\ e.kind = "book"
    /\ \/ Ignored(e.asset, e.session)
       \/ \E b \in Store!Book :
            b.initialized /\ b.content = e.version /\ MakesBook(e.asset, e.session, b)

ChangeReduced(e) ==
    /\ e.kind = "change"
    /\ \/ Ignored(e.asset, e.session)
       \/ \E b \in Store!Book :
             /\ MakesBook(e.asset, e.session, b)
             /\ b.initialized => /\ Initialized(e.asset)
                                 /\ b.content \in Store!Changed(books[e.asset].content, e.version)
             /\ Initialized(e.asset) => b.initialized

Reduced(e) ==
    /\ e \in Event /\ line # <<>> /\ e = Head(line) /\ line' = Tail(line)
    /\ UNCHANGED <<runVars, assetVars, frame, subs, netVars, window, latest, manager, told>>
    /\ StatusReduced(e) \/ WindowReduced(e) \/ FullBookReduced(e) \/ ChangeReduced(e)

LEMMA Reductions ==
    ASSUME PipelineAssumption, Types, Reduce
    PROVE  Reduced(Head(line))
  <1> DEFINE e == Head(line)
  <1>1. line # <<>> /\ line' = Tail(line) /\ line \in Seq(Event)
    BY DEF Reduce, Types, LineTypes
  <1>2. e \in Event
    BY <1>1, OneLess
  <1>3. UNCHANGED <<runVars, assetVars, frame, subs, netVars, window, latest, manager, told>>
    BY DEF Reduce, managerVars
  <1>4. ReduceStatus(e) \/ ReduceWindow(e) \/ ReduceBook(e) \/ ReduceChange(e)
    BY DEF Reduce
  <1> HIDE DEF e
  <1>5. e.kind \in Kinds => e.asset \in Assets /\ e.version \in Versions /\ e.session \in Sessions
    BY <1>2, EventsAre
  <1>6. CASE ReduceStatus(e)
    <2>1. StatusReduced(e)
      BY <1>6 DEF ReduceStatus, Store!ApplyStatus, StatusReduced, Assets, Store!Assets
    <2> QED
      BY <1>1, <1>2, <1>3, <2>1 DEF Reduced, e
  <1>7. CASE ReduceWindow(e)
    <2>1. WindowReduced(e)
      BY <1>7 DEF ReduceWindow, Store!ApplyWindow, WindowReduced
    <2> QED
      BY <1>1, <1>2, <1>3, <2>1 DEF Reduced, e
  <1>8. CASE ReduceBook(e)
    <2>1. e.kind = "book" /\ e.kind \in Kinds
      BY <1>8 DEF ReduceBook, Kinds
    <2>2. FullBookReduced(e)
      <3>1. CASE Store!Ignore(e.asset, e.session)
        BY <2>1, <3>1 DEF Store!Ignore, Store!stateVars, Ignored, FullBookReduced
      <3>2. CASE Store!ApplyBook(e.asset, e.session, e.version)
        BY <1>5, <2>1, <3>2, FullBook DEF Types, FullBookReduced
      <3> QED
        BY <1>8, <3>1, <3>2 DEF ReduceBook
    <2> QED
      BY <1>1, <1>2, <1>3, <2>2 DEF Reduced, e
  <1>9. CASE ReduceChange(e)
    <2>1. e.kind = "change" /\ e.kind \in Kinds
      BY <1>9 DEF ReduceChange, Kinds
    <2>2. ChangeReduced(e)
      <3>1. CASE Store!Ignore(e.asset, e.session)
        BY <2>1, <3>1 DEF Store!Ignore, Store!stateVars, Ignored, ChangeReduced
      <3>2. CASE Store!ApplyPriceChange(e.asset, e.session, e.version)
        BY <1>5, <2>1, <3>2, PriceChange DEF Types, ChangeReduced
      <3> QED
        BY <1>9, <3>1, <3>2 DEF ReduceChange
    <2> QED
      BY <1>1, <1>2, <1>3, <2>2 DEF Reduced, e
  <1> QED
    BY <1>4, <1>6, <1>7, <1>8, <1>9 DEF e

\* The books of the store are books.
LEMMA ReducedTypes ==
    ASSUME SourceAssumption, PipelineAssumption, Types, NEW e, Reduced(e)
    PROVE  Types'
  <1>1. /\ e.kind = "status" => e.up \in BOOLEAN /\ e.session \in Sessions
        /\ e.kind = "window" => e.timeframe \in Timeframes /\ e.context \in Store!Context
        /\ e.kind \in Kinds => e.asset \in Assets
    BY EventsAre DEF Reduced
  <1>2. /\ line' \in Seq(Event) /\ Len(line') <= MaxLine
    <2>1. line \in Seq(Event) /\ Len(line) <= MaxLine /\ Len(line) \in Nat /\ line # <<>>
      BY DEF Types, LineTypes, Reduced
    <2>2. line' \in Seq(Event) /\ Len(line') = Len(line) - 1
      BY <2>1, OneLess DEF Reduced
    <2>3. MaxLine \in Nat
      BY DEF SourceAssumption
    <2> QED
      BY <2>1, <2>2, <2>3
  <1>3. RunTypes' /\ AssetTypes' /\ NetTypes'
        /\ UNCHANGED <<window, latest, manager, told>>
    BY DEF Reduced, runVars, assetVars, netVars, Types, RunTypes, AssetTypes, NetTypes
  <1>4. CASE StatusReduced(e)
    <2>1. \A b \in Store!Book \cup {NoBook} : Store!Invalidated(b) \in Store!Book \cup {NoBook}
      <3> SUFFICES ASSUME NEW b \in Store!Book PROVE Store!Invalidated(b) \in Store!Book \cup {NoBook}
        BY DEF Store!Invalidated
      <3>1. Empty \in Store!Contents /\ 0 \in 0..Store!DivergenceLimit
        BY DEF Store!Contents, Store!DivergenceLimit
      <3> QED
        BY <3>1 DEF Store!Invalidated, Store!Book
    <2>2. books' \in [Assets -> Store!Book \cup {NoBook}]
      BY <1>4, <2>1 DEF StatusReduced, Types, StoreTypes
    <2>3. session' \in Sessions \cup {NoSession} /\ connected' \in BOOLEAN
      BY <1>1, <1>4 DEF StatusReduced, Types, StoreTypes
    <2> QED
      BY <1>2, <1>3, <1>4, <2>2, <2>3 DEF StatusReduced, Types, StoreTypes, LineTypes
  <1>5. CASE WindowReduced(e)
    <2>1. books' \in [Assets -> Store!Book \cup {NoBook}]
      BY <1>5 DEF WindowReduced, Store!Pruned, Types, StoreTypes, Store!Assets, Assets
    <2>2. contexts' \in [Timeframes -> Store!Context \cup {NoContext}]
      BY <1>1, <1>5 DEF WindowReduced, Types, StoreTypes
    <2> QED
      BY <1>2, <1>3, <1>5, <2>1, <2>2 DEF WindowReduced, Types, StoreTypes, LineTypes
  <1>6. ASSUME Ignored(e.asset, e.session) \/ \E b \in Store!Book : MakesBook(e.asset, e.session, b),
               e.kind \in Kinds
        PROVE  Types'
    <2>1. books' \in [Assets -> Store!Book \cup {NoBook}]
      BY <1>1, <1>6 DEF Ignored, MakesBook, Types, StoreTypes
    <2>2. UNCHANGED <<contexts, session, connected, feed>>
      BY <1>6 DEF Ignored, MakesBook
    <2> QED
      BY <1>2, <1>3, <2>1, <2>2 DEF Types, StoreTypes, LineTypes
  <1> QED
    BY <1>4, <1>5, <1>6 DEF Reduced, FullBookReduced, ChangeReduced, Kinds

-----------------------------------------------------------------------------
(* The line as a whole.                                                    *)

\* An event is added to the line.
Adds(e) ==
    /\ e \in Event /\ line' = Append(line, e)
    /\ DOMAIN line' = DOMAIN line \cup {Len(line) + 1}
    /\ Len(line) + 1 \notin DOMAIN line /\ Len(line') = Len(line) + 1
    /\ \A i \in DOMAIN line : line'[i] = line[i] /\ i < Len(line) + 1 /\ i \in Nat
    /\ line'[Len(line) + 1] = e
    /\ Len(line) \in Nat

LEMMA Addition ==
    ASSUME LineTypes, NEW e \in Event, line' = Append(line, e)
    PROVE  Adds(e)
  <1>1. line \in Seq(Event)
    BY DEF LineTypes
  <1> QED
    BY <1>1, OneMore, Indices DEF Adds

\* The first event leaves the line.
Takes(e) ==
    /\ line # <<>> /\ e = Head(line) /\ 1 \in DOMAIN line /\ line[1] = e
    /\ \A i \in DOMAIN line' : /\ i + 1 \in DOMAIN line /\ i + 1 > 1 /\ i \in Nat /\ i >= 1
                               /\ line'[i] = line[i + 1]
    /\ \A i \in DOMAIN line : i \in Nat /\ i >= 1 /\
                              (i # 1 => i - 1 \in DOMAIN line' /\ line'[i - 1] = line[i])
    /\ Len(line') = Len(line) - 1 /\ Len(line) \in Nat

LEMMA Removal ==
    ASSUME LineTypes, NEW e, line # <<>>, e = Head(line), line' = Tail(line)
    PROVE  Takes(e)
  <1>1. line \in Seq(Event)
    BY DEF LineTypes
  <1>2. \A i \in DOMAIN Tail(line) : i \in Nat /\ i >= 1
    BY <1>1, OneLess, Indices
  <1>3. Len(line) \in Nat /\ (\A i \in DOMAIN line : i \in Nat /\ i >= 1)
    BY <1>1, Indices
  <1>4. \A i \in DOMAIN Tail(line) : i + 1 \in DOMAIN line /\ i + 1 > 1 /\ Tail(line)[i] = line[i + 1]
    BY <1>1, OneLess
  <1>5. \A i \in DOMAIN line : i > 1 => i - 1 \in DOMAIN Tail(line) /\ Tail(line)[i - 1] = line[i]
    BY <1>1, OneLess
  <1>6. \A i \in DOMAIN line : i # 1 => i > 1
    BY <1>3
  <1>7. 1 \in DOMAIN line /\ Head(line) = line[1] /\ Len(Tail(line)) = Len(line) - 1
    BY <1>1, OneLess
  <1> QED
    BY <1>2, <1>3, <1>4, <1>5, <1>6, <1>7 DEF Takes

\* Indices of the line are numbers.
LEMMA LineIndices ==
    ASSUME LineTypes
    PROVE  /\ \A i \in DOMAIN line : i \in Nat /\ i >= 1 /\ i < Len(line) + 1 /\ line[i] \in Event
           /\ Len(line) \in Nat
  <1>1. line \in Seq(Event)
    BY DEF LineTypes
  <1>2. Len(line) \in Nat /\ \A i \in DOMAIN line : i \in Nat /\ i >= 1 /\ i <= Len(line) /\ line[i] \in Event
    BY <1>1, Indices
  <1> QED
    BY <1>2

-----------------------------------------------------------------------------
(* Windows are preserved.                                                  *)

\* An event that is not a window, or no event, is added.
Unwindowed ==
    line' = line \/ \E e \in Event : e.kind # "window" /\ Adds(e)

LEMMA UnwindowedKeeps ==
    ASSUME LineTypes, Windows, Unwindowed, UNCHANGED <<window, latest, manager, told, contexts>>
    PROVE  Windows'
  <1>1. CASE line' = line
    BY <1>1 DEF Windows, WindowsSound, MarketsKept, LastTold, Sound, Reported
  <1>2. CASE \E e \in Event : e.kind # "window" /\ Adds(e)
    <2>1. PICK e \in Event : e.kind # "window" /\ Adds(e)
      BY <1>2
    <2> SUFFICES ASSUME NEW tf \in Timeframes
                 PROVE  WindowsSound(tf)' /\ MarketsKept(tf)' /\ LastTold(tf)'
      BY DEF Windows
    <2>2. WindowsSound(tf) /\ MarketsKept(tf) /\ LastTold(tf)
      BY DEF Windows
    <2>3. ~IsWindow(e, tf)
      BY <2>1 DEF IsWindow
    <2>4. \A i \in DOMAIN line' : IsWindow(line'[i], tf) => i \in DOMAIN line /\ line'[i] = line[i]
      BY <2>1, <2>3 DEF Adds
    <2>5. WindowsSound(tf)'
      BY <2>2, <2>4 DEF WindowsSound, Sound, Reported
    <2>6. MarketsKept(tf)'
      BY <2>2, <2>4 DEF MarketsKept
    <2>7. LastTold(tf)'
      BY <2>1, <2>2, <2>4 DEF LastTold, Adds
    <2> QED
      BY <2>5, <2>6, <2>7
  <1> QED
    BY <1>1, <1>2 DEF Unwindowed

\* What has been reported stays reported.
LEMMA ReportedStays ==
    ASSUME PipelineAssumption, Types, NEW tf \in Timeframes, NEW w \in Store!Context, Managed(tf, w)
    PROVE  /\ \A t \in Timeframes : Reported(t) \subseteq Reported(t)'
           /\ w.current \in Reported(tf)' /\ w.next \in Reported(tf)'
  <1>1. /\ latest \in [Timeframes -> Nat] /\ latest' \in [Timeframes -> Nat]
        /\ \A t \in Timeframes : t # tf => latest'[t] = latest[t]
        /\ latest[tf] <= latest'[tf]
        /\ Markets \subseteq Nat \ {NoMarket}
    BY DEF Managed, Types, StoreTypes, PipelineAssumption
  <1>2. \A t \in Timeframes : Reported(t) \subseteq Reported(t)'
    <2> SUFFICES ASSUME NEW t \in Timeframes, NEW m \in Markets, m <= latest[t]
                 PROVE  m <= latest'[t]
      BY DEF Reported
    <2>1. m \in Nat /\ latest[t] \in Nat /\ latest'[t] \in Nat
      BY <1>1
    <2>2. latest[t] <= latest'[t]
      BY <1>1, <2>1
    <2> QED
      BY <2>1, <2>2
  <1>3. \A m \in {w.current, w.next} :
          m = NoMarket \/ (m \in Markets /\ TimeframeOf[m] = tf /\ m <= latest'[tf])
    BY DEF Managed
  <1>4. w.current \in Reported(tf)' /\ w.next \in Reported(tf)'
    BY <1>3 DEF Reported
  <1> QED
    BY <1>2, <1>4

\* The event of a window of timeframe tf is refused: windows told stay as they are.
LEMMA RefusedKeeps ==
    ASSUME PipelineAssumption, Types, Windows, NEW tf \in Timeframes, NEW w \in Store!Context,
           Managed(tf, w), Refused
    PROVE  Windows'
  <1>1. /\ UNCHANGED <<contexts, line, told>> /\ manager' = "dead"
        /\ window' = [window EXCEPT ![tf] = w]
        /\ \A t \in Timeframes : t # tf => latest'[t] = latest[t]
        /\ latest'[tf] = Discovery!Newest(w, latest'[tf])
    BY DEF Managed, Refused, storeVars
  <1>2. window \in [Timeframes -> Store!Context]
    BY DEF Types, StoreTypes
  <1> SUFFICES ASSUME NEW t \in Timeframes
               PROVE  WindowsSound(t)' /\ MarketsKept(t)' /\ LastTold(t)'
    BY <1>1 DEF Windows
  <1>3. WindowsSound(t) /\ MarketsKept(t) /\ LastTold(t)
    BY DEF Windows
  <1>4. MarketsKept(t)' /\ LastTold(t)'
    BY <1>1, <1>3 DEF MarketsKept, LastTold
  <1>5. \A m : m \in Reported(t) => m \in Reported(t)'
    BY ReportedStays
  <1>6. /\ Sound(t, told[t])'
        /\ contexts'[t] # NoContext => Sound(t, contexts[t])'
        /\ \A i \in DOMAIN line' : IsWindow(line'[i], t) => Sound(t, line[i].context)'
    BY <1>1, <1>3, <1>5 DEF WindowsSound, Sound
  <1>7. Sound(t, window[t])' /\ latest'[t] = Discovery!Newest(window'[t], latest'[t])
    <2>1. CASE t = tf
      <3>1. window'[t] = w
        BY <1>1, <1>2, <2>1
      <3> QED
        BY <1>1, <2>1, <3>1, ReportedStays DEF Sound
    <2>2. CASE t # tf
      <3>1. window'[t] = window[t] /\ latest'[t] = latest[t]
        BY <1>1, <1>2, <2>2
      <3> QED
        BY <1>3, <1>5, <3>1 DEF WindowsSound, Sound, Discovery!Newest
    <2> QED
      BY <2>1, <2>2
  <1> QED
    BY <1>4, <1>6, <1>7 DEF WindowsSound, Discovery!Newest

\* It is accepted.
LEMMA AcceptedKeeps ==
    ASSUME PipelineAssumption, Types, Windows, NEW tf \in Timeframes, NEW w \in Store!Context,
           Managed(tf, w), Accepted(tf, w)
    PROVE  Windows'
  <1> DEFINE e == WindowEvent(tf, w)
             n == Len(line) + 1
  <1>0. told = window /\ told' = window'
    BY DEF Managed, Accepted, Windows
  <1>1. Adds(e)
    BY EventTypes, Addition DEF Accepted, Publish, Types
  <1>2. e.kind = "window" /\ e.timeframe = tf /\ e.context = w
    BY DEF WindowEvent
  <1> HIDE DEF e
  <1>3. UNCHANGED <<contexts, books, session>>
    BY DEF Managed, storeVars
  <1>4. /\ window' = [window EXCEPT ![tf] = w] /\ latest' \in [Timeframes -> Nat]
        /\ \A t \in Timeframes : t # tf => latest'[t] = latest[t]
        /\ latest[tf] <= latest'[tf]
        /\ latest'[tf] = Discovery!Newest(w, latest'[tf])
    BY DEF Managed
  <1>5. window \in [Timeframes -> Store!Context] /\ latest \in [Timeframes -> Nat]
    BY DEF Types, StoreTypes
  <1>6. Markets \subseteq Nat \ {NoMarket} /\ NoMarket = 0 /\ NoMarket \notin Markets
    BY DEF PipelineAssumption, NoMarket
  <1>7. \A t \in Timeframes : Reported(t) \subseteq Reported(t)'
    BY ReportedStays
  <1>8. \A m \in {w.current, w.next} :
          \/ m = NoMarket
          \/ /\ m \in Markets /\ TimeframeOf[m] = tf /\ m <= latest'[tf]
             /\ Mentions(window[tf], m) \/ m > latest[tf]
    BY DEF Managed
  <1>9. w.current \in Reported(tf)' /\ w.next \in Reported(tf)'
    BY ReportedStays
  <1>10. ASSUME NEW t \in Timeframes, t # tf
         PROVE  WindowsSound(t)' /\ MarketsKept(t)' /\ LastTold(t)'
    <2>1. window'[t] = window[t] /\ latest'[t] = latest[t]
      BY <1>4, <1>5, <1>10
    <2>2. ~IsWindow(e, t)
      BY <1>2, <1>10 DEF IsWindow
    <2>3. \A i \in DOMAIN line' : IsWindow(line'[i], t) => i \in DOMAIN line /\ line'[i] = line[i]
      BY <1>1, <2>2 DEF Adds
    <2>4. WindowsSound(t) /\ MarketsKept(t) /\ LastTold(t)
      BY DEF Windows
    <2>5. WindowsSound(t)'
      BY <1>0, <1>3, <2>1, <2>3, <2>4 DEF WindowsSound, Sound, Reported
    <2>6. MarketsKept(t)'
      BY <1>0, <1>3, <2>1, <2>3, <2>4 DEF MarketsKept
    <2>7. LastTold(t)'
      BY <1>0, <1>1, <1>3, <2>1, <2>2, <2>3, <2>4 DEF LastTold, Adds
    <2> QED
      BY <2>5, <2>6, <2>7
  <1>11. window'[tf] = w
    BY <1>4, <1>5
  <1>12. WindowsSound(tf) /\ MarketsKept(tf)
    BY DEF Windows
  <1>13. WindowsSound(tf)'
    <2>1. Sound(tf, window[tf])' /\ latest'[tf] = Discovery!Newest(window'[tf], latest'[tf])
      BY <1>4, <1>9, <1>11 DEF Sound
    <2>2. contexts'[tf] # NoContext => Sound(tf, contexts[tf])'
      BY <1>3, <1>7, <1>12 DEF WindowsSound, Sound
    <2>3. \A i \in DOMAIN line' : IsWindow(line'[i], tf) => Sound(tf, line[i].context)'
      <3> SUFFICES ASSUME NEW i \in DOMAIN line', IsWindow(line'[i], tf)
                   PROVE  line'[i].context.current \in Reported(tf)' /\ line'[i].context.next \in Reported(tf)'
        BY DEF Sound
      <3>1. CASE i \in DOMAIN line
        <4>1. line'[i] = line[i]
          BY <1>1, <3>1 DEF Adds
        <4> QED
          BY <1>7, <1>12, <3>1, <4>1 DEF WindowsSound, Sound
      <3>2. CASE i = n
        BY <1>1, <1>2, <1>9, <3>2 DEF Adds
      <3> QED
        BY <1>1, <3>1, <3>2 DEF Adds
    <2> QED
      BY <1>0, <2>1, <2>2, <2>3, <1>11 DEF WindowsSound, Sound, Discovery!Newest
  <1>14. MarketsKept(tf)'
    <2> SUFFICES ASSUME NEW m \in Markets, Mentions(w, m)
                 PROVE  /\ contexts[tf] # NoContext /\ Mentions(contexts[tf], m) =>
                             \A i \in DOMAIN line' : IsWindow(line'[i], tf) => Mentions(line'[i].context, m)
                        /\ \A i, j \in DOMAIN line' :
                             i < j /\ IsWindow(line'[i], tf) /\ IsWindow(line'[j], tf)
                                   /\ Mentions(line'[i].context, m) => Mentions(line'[j].context, m)
      BY <1>0, <1>3, <1>11 DEF MarketsKept
    <2>1. \A i \in DOMAIN line : line'[i] = line[i] /\ i < n /\ i \in Nat /\ i # n
      BY <1>1 DEF Adds
    <2>2. DOMAIN line' = DOMAIN line \cup {n} /\ line'[n] = e /\ n \in Nat
      BY <1>1 DEF Adds
    <2>3. CASE Mentions(window[tf], m)
      <3>1. /\ contexts[tf] # NoContext /\ Mentions(contexts[tf], m) =>
                 \A i \in DOMAIN line : IsWindow(line[i], tf) => Mentions(line[i].context, m)
            /\ \A i, j \in DOMAIN line :
                 i < j /\ IsWindow(line[i], tf) /\ IsWindow(line[j], tf)
                       /\ Mentions(line[i].context, m) => Mentions(line[j].context, m)
        BY <1>0, <1>12, <2>3 DEF MarketsKept
      <3>2. Mentions(line'[n].context, m)
        BY <1>2, <2>2
      <3> QED
        BY <2>1, <2>2, <3>1, <3>2
    <2>4. CASE ~Mentions(window[tf], m)
      <3>1. m > latest[tf] /\ m \in Nat /\ m # NoMarket /\ latest[tf] \in Nat
        BY <1>5, <1>6, <1>8, <2>4 DEF Mentions
      <3>2. m \notin Reported(tf)
        BY <3>1 DEF Reported
      <3>3. contexts[tf] # NoContext => ~Mentions(contexts[tf], m)
        BY <1>12, <3>2 DEF WindowsSound, Sound, Mentions
      <3>4. \A i \in DOMAIN line : IsWindow(line[i], tf) => ~Mentions(line[i].context, m)
        BY <1>12, <3>2 DEF WindowsSound, Sound, Mentions
      <3> QED
        BY <2>1, <2>2, <3>3, <3>4
    <2> QED
      BY <2>3, <2>4
  <1>15. LastTold(tf)'
    <2>1. n \in DOMAIN line' /\ IsWindow(line'[n], tf) /\ line'[n].context = window'[tf]
      BY <1>1, <1>2, <1>11 DEF Adds, IsWindow
    <2>2. \A j \in DOMAIN line' : ~(n < j)
      BY <1>1 DEF Adds
    <2> QED
      BY <1>0, <2>1, <2>2 DEF LastTold
  <1> QED
    BY <1>0, <1>10, <1>13, <1>14, <1>15 DEF Windows

\* The market manager handles a window of timeframe tf.
LEMMA ManagedKeeps ==
    ASSUME PipelineAssumption, Types, Windows, NEW tf \in Timeframes, NEW w \in Store!Context,
           Managed(tf, w)
    PROVE  Windows'
  BY AcceptedKeeps, RefusedKeeps DEF Managed

\* The reducer takes an event that is no window of timeframe tf.
LEMMA OtherTaken ==
    ASSUME NEW tf \in Timeframes, NEW e, Takes(e), ~IsWindow(e, tf),
           window'[tf] = window[tf], latest'[tf] = latest[tf], told'[tf] = told[tf],
           contexts'[tf] = contexts[tf],
           WindowsSound(tf), MarketsKept(tf), LastTold(tf)
    PROVE  WindowsSound(tf)' /\ MarketsKept(tf)' /\ LastTold(tf)'
  <1>1. WindowsSound(tf) /\ MarketsKept(tf) /\ LastTold(tf)
    OBVIOUS
  <1>2. \A i \in DOMAIN line' : i + 1 \in DOMAIN line /\ line'[i] = line[i + 1] /\ i \in Nat
    BY DEF Takes
  <1>3. \A i \in DOMAIN line : IsWindow(line[i], tf) =>
          i \in Nat /\ i - 1 \in DOMAIN line' /\ line'[i - 1] = line[i]
    BY DEF Takes, IsWindow
  <1>4. WindowsSound(tf)'
    BY <1>1, <1>2 DEF WindowsSound, Sound, Reported
  <1>5. MarketsKept(tf)'
    <2>1. \A i, j \in DOMAIN line' : i < j => i + 1 < j + 1
      BY <1>2
    <2> QED
      BY <1>1, <1>2, <2>1 DEF MarketsKept
  <1>6. LastTold(tf)'
    <2>1. CASE \E i \in DOMAIN line : /\ IsWindow(line[i], tf) /\ line[i].context = told[tf]
                                      /\ \A j \in DOMAIN line : i < j => ~IsWindow(line[j], tf)
      <3>1. PICK i \in DOMAIN line : /\ IsWindow(line[i], tf) /\ line[i].context = told[tf]
                                     /\ \A j \in DOMAIN line : i < j => ~IsWindow(line[j], tf)
        BY <2>1
      <3>2. i \in Nat /\ i - 1 \in DOMAIN line' /\ line'[i - 1] = line[i]
        BY <1>3, <3>1
      <3>3. \A j \in DOMAIN line' : i - 1 < j => ~IsWindow(line'[j], tf)
        <4> SUFFICES ASSUME NEW j \in DOMAIN line', i - 1 < j PROVE ~IsWindow(line'[j], tf)
          OBVIOUS
        <4>1. j \in Nat /\ j + 1 \in DOMAIN line /\ line'[j] = line[j + 1]
          BY <1>2
        <4>2. i < j + 1
          BY <3>2, <4>1
        <4> QED
          BY <3>1, <4>1, <4>2
      <3> QED
        BY <3>1, <3>2, <3>3 DEF LastTold
    <2>2. CASE \A i \in DOMAIN line : ~IsWindow(line[i], tf)
      BY <1>1, <1>2, <2>2 DEF LastTold
    <2> QED
      BY <1>1, <2>1, <2>2 DEF LastTold
  <1> QED
    BY <1>4, <1>5, <1>6

\* The reducer takes a window.
LEMMA WindowTakenKeeps ==
    ASSUME PipelineAssumption, Types, Windows, NEW e \in Event, Takes(e), WindowReduced(e),
           UNCHANGED <<window, latest, manager, told>>
    PROVE  Windows'
  <1>1. e.timeframe \in Timeframes /\ e.context \in Store!Context /\ e.kind = "window"
    BY EventsAre DEF WindowReduced
  <1>2. contexts' = [contexts EXCEPT ![e.timeframe] = e.context]
    BY DEF WindowReduced
  <1>3. contexts \in [Timeframes -> Store!Context \cup {NoContext}] /\ NoContext \notin Store!Context
    BY DEF Types, StoreTypes, PipelineAssumption
  <1>4. \A i \in DOMAIN line' : i + 1 \in DOMAIN line /\ line'[i] = line[i + 1] /\ i \in Nat /\ 1 < i + 1
    BY DEF Takes
  <1>5. 1 \in DOMAIN line /\ line[1] = e
        /\ \A i \in DOMAIN line : i \in Nat /\ i >= 1 /\
                              (i # 1 => i - 1 \in DOMAIN line' /\ line'[i - 1] = line[i])
    BY DEF Takes
  <1> SUFFICES ASSUME NEW tf \in Timeframes
               PROVE  WindowsSound(tf)' /\ MarketsKept(tf)' /\ LastTold(tf)'
    BY DEF Windows
  <1>6. WindowsSound(tf) /\ MarketsKept(tf) /\ LastTold(tf)
    BY DEF Windows
  <1>7. CASE tf # e.timeframe
    <2>1. contexts'[tf] = contexts[tf] /\ ~IsWindow(e, tf)
      BY <1>2, <1>3, <1>7 DEF IsWindow
    <2> QED
      BY <1>6, <2>1, OtherTaken
  <1>8. CASE tf = e.timeframe
    <2>1. contexts'[tf] = e.context /\ IsWindow(line[1], tf) /\ line[1].context = e.context
      BY <1>1, <1>2, <1>3, <1>5, <1>8 DEF IsWindow
    <2>2. WindowsSound(tf)'
      <3>1. Sound(tf, e.context)
        BY <1>5, <1>6, <2>1 DEF WindowsSound
      <3> QED
        BY <1>4, <1>6, <2>1, <3>1 DEF WindowsSound, Sound, Reported
    <2>3. MarketsKept(tf)'
      <3> SUFFICES ASSUME NEW m \in Markets, Mentions(told[tf], m)
                   PROVE  /\ contexts'[tf] # NoContext /\ Mentions(contexts'[tf], m) =>
                             \A i \in DOMAIN line' : IsWindow(line'[i], tf) => Mentions(line'[i].context, m)
                          /\ \A i, j \in DOMAIN line' :
                             i < j /\ IsWindow(line'[i], tf) /\ IsWindow(line'[j], tf)
                                   /\ Mentions(line'[i].context, m) => Mentions(line'[j].context, m)
        BY DEF MarketsKept
      <3>1. \A i, j \in DOMAIN line :
                 i < j /\ IsWindow(line[i], tf) /\ IsWindow(line[j], tf)
                       /\ Mentions(line[i].context, m) => Mentions(line[j].context, m)
        BY <1>6 DEF MarketsKept
      <3>2. \A i, j \in DOMAIN line' : i < j => i + 1 < j + 1
        BY <1>4
      <3> QED
        BY <1>4, <1>5, <2>1, <3>1, <3>2
    <2>4. LastTold(tf)'
      <3>1. PICK i \in DOMAIN line : /\ IsWindow(line[i], tf) /\ line[i].context = told[tf]
                                     /\ \A j \in DOMAIN line : i < j => ~IsWindow(line[j], tf)
        BY <1>5, <1>6, <2>1 DEF LastTold
      <3>2. CASE i = 1
        <4>1. contexts'[tf] = told'[tf]
          BY <2>1, <3>1, <3>2
        <4>2. \A j \in DOMAIN line' : ~IsWindow(line'[j], tf)
          BY <1>4, <3>1, <3>2
        <4> QED
          BY <4>1, <4>2 DEF LastTold
      <3>3. CASE i # 1
        <4>2. i \in Nat /\ i - 1 \in DOMAIN line' /\ line'[i - 1] = line[i]
          BY <1>5, <3>3
        <4>3. \A j \in DOMAIN line' : i - 1 < j => ~IsWindow(line'[j], tf)
          <5> SUFFICES ASSUME NEW j \in DOMAIN line', i - 1 < j PROVE ~IsWindow(line'[j], tf)
            OBVIOUS
          <5>1. j \in Nat /\ j + 1 \in DOMAIN line /\ line'[j] = line[j + 1]
            BY <1>4
          <5>2. i < j + 1
            BY <4>2, <5>1
          <5> QED
            BY <3>1, <5>1, <5>2
        <4> QED
          BY <3>1, <4>2, <4>3 DEF LastTold
      <3> QED
        BY <3>2, <3>3
    <2> QED
      BY <2>2, <2>3, <2>4
  <1> QED
    BY <1>7, <1>8

-----------------------------------------------------------------------------
(* What the source owns, and its connection, are preserved.                *)

\* The assets that windows want are those of the window of their timeframe.
WantedProperties(W, L) ==
    \A a \in Assets :
        /\ a[1] \in Markets /\ TimeframeOf[a[1]] \in Timeframes
        /\ (\E tf \in Timeframes : a[1] \in {W[tf].current, W[tf].next})
             <=> Mentions(W[TimeframeOf[a[1]]], a[1])
        /\ Mentions(W[TimeframeOf[a[1]]], a[1]) => a[1] <= L[TimeframeOf[a[1]]]

LEMMA WindowAssets ==
    ASSUME PipelineAssumption, NEW W, NEW L,
           \A tf \in Timeframes : \A m \in {W[tf].current, W[tf].next} :
             m = NoMarket \/ (m \in Markets /\ TimeframeOf[m] = tf /\ m <= L[tf])
    PROVE  WantedProperties(W, L)
  <1> SUFFICES ASSUME NEW a \in Assets
               PROVE  /\ a[1] \in Markets /\ TimeframeOf[a[1]] \in Timeframes
                      /\ (\E tf \in Timeframes : a[1] \in {W[tf].current, W[tf].next})
                           <=> Mentions(W[TimeframeOf[a[1]]], a[1])
                      /\ Mentions(W[TimeframeOf[a[1]]], a[1]) => a[1] <= L[TimeframeOf[a[1]]]
    BY DEF WantedProperties
  <1>1. a[1] \in Markets /\ TimeframeOf[a[1]] \in Timeframes /\ a[1] # NoMarket
    BY DEF Assets, PipelineAssumption
  <1> QED
    BY <1>1 DEF Mentions

LEMMA WantedAre ==
    /\ PipelineAssumption /\ Windows => WantedProperties(window, latest)
    /\ PipelineAssumption /\ Windows' => WantedProperties(window', latest')
    /\ PipelineAssumption /\ Windows => WantedProperties(told, latest)
    /\ \A a \in Assets : a \in Wanted <=>
         \E tf \in Timeframes : a[1] \in {window[tf].current, window[tf].next}
    /\ \A a \in Assets : a \in Wanted' <=>
         \E tf \in Timeframes : a[1] \in {window'[tf].current, window'[tf].next}
    /\ \A a \in Assets : a \in Promised <=>
         \E tf \in Timeframes : a[1] \in {told[tf].current, told[tf].next}
  <1>1. ASSUME PipelineAssumption, Windows PROVE WantedProperties(window, latest)
    <2>1. \A tf \in Timeframes : window[tf].current \in Reported(tf) /\ window[tf].next \in Reported(tf)
      BY <1>1 DEF Windows, WindowsSound, Sound
    <2>2. \A tf \in Timeframes : \A m \in {window[tf].current, window[tf].next} :
             m = NoMarket \/ (m \in Markets /\ TimeframeOf[m] = tf /\ m <= latest[tf])
      BY <2>1 DEF Reported
    <2> QED
      BY <1>1, <2>2, WindowAssets
  <1>2. ASSUME PipelineAssumption, Windows' PROVE WantedProperties(window', latest')
    <2>1. \A tf \in Timeframes : window'[tf].current \in Reported(tf)' /\ window'[tf].next \in Reported(tf)'
      BY <1>2 DEF Windows, WindowsSound, Sound
    <2>2. \A tf \in Timeframes : \A m \in {window'[tf].current, window'[tf].next} :
             m = NoMarket \/ (m \in Markets /\ TimeframeOf[m] = tf /\ m <= latest'[tf])
      BY <2>1 DEF Reported
    <2> QED
      BY <1>2, <2>2, WindowAssets
  <1>3. ASSUME PipelineAssumption, Windows PROVE WantedProperties(told, latest)
    <2>1. \A tf \in Timeframes : told[tf].current \in Reported(tf) /\ told[tf].next \in Reported(tf)
      BY <1>3 DEF Windows, WindowsSound, Sound
    <2>2. \A tf \in Timeframes : \A m \in {told[tf].current, told[tf].next} :
             m = NoMarket \/ (m \in Markets /\ TimeframeOf[m] = tf /\ m <= latest[tf])
      BY <2>1 DEF Reported
    <2> QED
      BY <1>3, <2>2, WindowAssets
  <1> QED
    BY <1>1, <1>2, <1>3 DEF Wanted, Promised, AskedBy

\* Steps that leave alone what is desired.
LEMMA CalmSteps ==
    ASSUME Ownership, UNCHANGED <<window, latest, desired, assets, retiring>>,
           initial' \cup subscribed' \cup subs'.removed \cup listed'
             \subseteq desired \cup initial \cup subscribed \cup subs.removed \cup listed,
           pc' \in {"connecting", "announcing", "subscribing"} => initial' \subseteq desired
    PROVE  Ownership'
  <1>1. Wanted' = Wanted
    BY DEF Wanted, AskedBy
  <1>2. \A a : Known(a) => Known(a)'
    BY DEF Known
  <1>3. \A a \in desired' \cup initial' \cup subscribed' \cup subs'.removed \cup listed' : Known(a)'
    BY <1>2 DEF Ownership
  <1> QED
    BY <1>1, <1>3 DEF Ownership

LEMMA ConnectingOwns ==
    ASSUME Ownership, Connection, Connecting, UNCHANGED <<window, latest>>
    PROVE  Ownership' /\ Connection'
  <1>1. Ownership'
    <2>1. UNCHANGED <<desired, assets, retiring>> /\ initial' \subseteq desired \cup initial
          /\ subscribed' \subseteq subscribed /\ subs'.removed \subseteq subs.removed
          /\ listed' \subseteq listed
      <3>1. CASE Start \/ Connect \/ Announce \/ ConnectionEnds \/ BackedOff
        BY <3>1 DEF Start, Connect, Announce, ConnectionEnds, BackedOff, assetVars, netVars
      <3>2. CASE Fail
        BY <3>2 DEF Fail
      <3>3. CASE Close
        <4>1. UNCHANGED assetVars /\ UNCHANGED netVars /\ initial' = initial /\ subs' = NoSubs
          BY <3>3 DEF Close
        <4> QED
          BY <4>1 DEF assetVars, netVars, NoSubs
      <3>4. CASE CloseFails
        BY <3>4 DEF CloseFails, assetVars, netVars
      <3> QED
        BY <3>1, <3>2, <3>3, <3>4 DEF Connecting, ConnectFails, AnnounceFails, ConnectionFails
    <2>2. pc' \in {"connecting", "announcing", "subscribing"} => initial' \subseteq desired
      BY DEF Connecting, Start, Connect, ConnectFails, Announce, AnnounceFails, ConnectionFails,
         ConnectionEnds, BackedOff, Close, CloseFails, Fail, Ownership
    <2> QED
      BY <2>1, <2>2, CalmSteps
  <1>2. ASSUME Start \/ Connect \/ Announce PROVE Connection'
    BY <1>2 DEF Start, Connect, Announce, Connection, assetVars, netVars
  <1>3. ASSUME Fail PROVE Connection'
    BY <1>3 DEF Fail, Connection
  <1>4. ASSUME ConnectionEnds \/ BackedOff PROVE Connection'
    BY <1>4 DEF ConnectionEnds, BackedOff, Connection, assetVars, netVars
  <1>5. ASSUME Close \/ CloseFails PROVE Connection'
    <2>1. /\ UNCHANGED <<desired, subscribed, link, inbox, listed, frame>> /\ pc = "closing"
          /\ (pc' = "start" /\ subs' = NoSubs) \/ (pc' = "dead" /\ subs' = subs)
      <3>1. CASE Close
        <4>1. UNCHANGED assetVars /\ UNCHANGED netVars /\ frame' = frame /\ subs' = NoSubs
              /\ pc = "closing" /\ pc' = "start"
          BY <3>1 DEF Close
        <4> QED
          BY <4>1 DEF assetVars, netVars
      <3>2. CASE CloseFails
        BY <3>2 DEF CloseFails, assetVars, netVars
      <3> QED
        BY <1>5, <3>1, <3>2
    <2>2. NoSubs.added = {} /\ NoSubs.removed = {}
      BY DEF NoSubs
    <2> QED
      BY <2>1, <2>2 DEF Connection
  <1> QED
    BY <1>1, <1>2, <1>3, <1>4, <1>5 DEF Connecting, ConnectFails, AnnounceFails, ConnectionFails

LEMMA HandlingOwns ==
    ASSUME Ownership, Connection, Receive \/ Handling, UNCHANGED <<window, latest>>
    PROVE  Ownership' /\ Connection'
  <1>1. Ownership'
    <2>1. UNCHANGED <<desired, assets, retiring, initial, subs>> /\ pc' \in {"reading", "backoff"}
          /\ subscribed' \subseteq subscribed /\ listed' \subseteq listed
      BY DEF Receive, Handling, HandleUnknown, HandleDuplicate, HandleMessage, MessageFails, Discard,
         Fail, assetVars, netVars, runVars
    <2> QED
      BY <2>1, CalmSteps
  <1>2. ASSUME MessageFails PROVE Connection'
    BY <1>2 DEF MessageFails, Fail, Connection
  <1>3. ASSUME Receive \/ HandleUnknown \/ HandleDuplicate \/ HandleMessage PROVE Connection'
    BY <1>3 DEF Receive, HandleUnknown, HandleDuplicate, HandleMessage, Connection, assetVars,
       netVars, runVars
  <1> QED
    BY <1>1, <1>2, <1>3 DEF Handling

LEMMA SubscribingOwns ==
    ASSUME SourceAssumption, Types, Ownership, Connection, Subscribe \/ Subscriptions,
           UNCHANGED <<window, latest>>
    PROVE  Ownership' /\ Connection'
  <1>1. ASSUME Subscribe PROVE Ownership' /\ Connection'
    <2>1. Subscribed(initial) /\ initial \subseteq desired /\ initial \subseteq Assets /\ IsFiniteSet(initial)
      BY <1>1, FiniteParts DEF Subscribe, Types, RunTypes, Ownership
    <2>2. link' = link /\ (listed' = listed \/ (listed' = listed \cup initial /\ link = "up"))
      BY <2>1, SubscribedTypes
    <2>3. listed = {}
      BY <1>1 DEF Subscribe, Connection
    <2>4. Ownership'
      BY <1>1, <2>1, <2>2, CalmSteps DEF Subscribe, IdleSubs, NoSubs
    <2>5. Connection'
      BY <1>1, <2>1, <2>2, <2>3 DEF Subscribe, Connection, IdleSubs, NoSubs
    <2> QED
      BY <2>4, <2>5
  <1>2. ASSUME NEW X \in SUBSET retiring, SubsWake(X) PROVE Ownership' /\ Connection'
    <2>1. /\ desired' = desired \ X /\ assets' = assets \ X /\ retiring' = retiring \ X
          /\ UNCHANGED <<pc, initial, subscribed, frame, link, inbox, listed>>
          /\ subs'.added = desired' \ subscribed /\ subs'.removed = subscribed \ desired'
          /\ subs'.at = "adding" /\ subs.at = "waiting"
      BY <1>2 DEF SubsWake, Expired, runVars, netVars
    <2>2. Wanted' = Wanted /\ \A a : Known(a) => Known(a)'
      BY DEF Wanted, AskedBy, Known
    <2>3. IsFiniteSet(desired')
      BY <2>1, FiniteParts
    <2>4. subs # NoSubs
      BY <2>1 DEF NoSubs
    <2>5. pc \notin {"connecting", "announcing", "subscribing", "start"}
      BY <2>4 DEF Connection
    <2>6. Ownership'
      BY <2>1, <2>2, <2>3, <2>5 DEF Ownership
    <2>7. Connection'
      BY <2>1, <2>5 DEF Connection
    <2> QED
      BY <2>6, <2>7
  <1>3. ASSUME SubsAdd PROVE Ownership' /\ Connection'
    <2>1. subs.added \subseteq desired /\ subs.added \subseteq Assets /\ IsFiniteSet(subs.added)
      BY FiniteParts DEF Types, AssetTypes, Connection
    <2>2. /\ link' = link /\ UNCHANGED <<pc, initial, desired, assets, retiring, frame>>
          /\ subs'.added = {} /\ subs'.removed = subs.removed /\ subs.at = "adding"
      <3>1. link' = link
        <4>1. CASE subs.added = {}
          BY <1>3, <4>1 DEF SubsAdd, netVars
        <4>2. CASE subs.added # {}
          BY <1>3, <2>1, <4>2, SubscribedTypes DEF SubsAdd
        <4> QED
          BY <4>1, <4>2
      <3> QED
        BY <1>3, <3>1 DEF SubsAdd, runVars, Types, AssetTypes
    <2>3. \/ /\ listed' = listed /\ inbox' = inbox
             /\ subscribed' = subscribed \/ subscribed' = subscribed \cup subs.added
          \/ /\ listed' = listed \cup subs.added /\ subscribed' = subscribed \cup subs.added
             /\ pc = "reading"
      <3>1. CASE subs.added = {}
        BY <1>3, <3>1 DEF SubsAdd, netVars
      <3>2. CASE subs.added # {}
        <4>1. Subscribed(subs.added) /\ subscribed' = subscribed \cup subs.added /\ link # "down"
          BY <1>3, <3>2 DEF SubsAdd
        <4>2. pc = "reading"
          <5>1. subs # NoSubs
            BY <2>2 DEF NoSubs
          <5> QED
            BY <4>1, <5>1 DEF Connection
        <4> QED
          BY <2>1, <4>1, <4>2, SubscribedTypes
      <3> QED
        BY <3>1, <3>2
    <2>4. Ownership'
      BY <2>1, <2>2, <2>3, CalmSteps DEF Ownership
    <2>5. subs' # NoSubs /\ pc' \notin {"start", "connecting", "announcing", "subscribing"}
      <3>1. subs # NoSubs
        BY <2>2 DEF NoSubs
      <3>2. subs'.at = "removing"
        BY <1>3 DEF SubsAdd, Types, AssetTypes
      <3> QED
        BY <2>2, <3>1, <3>2 DEF NoSubs, Connection
    <2>6. Connection'
      BY <2>1, <2>2, <2>3, <2>5 DEF Connection
    <2> QED
      BY <2>4, <2>6
  <1>4. ASSUME SubsRemove PROVE Ownership' /\ Connection'
    <2>1. /\ link' = link /\ inbox' = inbox /\ frame' = frame
          /\ UNCHANGED <<pc, initial, desired, assets, retiring>>
          /\ subs' = IdleSubs /\ subs.at = "removing"
          /\ \/ listed' = listed /\ subscribed' = subscribed
             \/ /\ listed' = IF link = "up" THEN listed \ subs.removed ELSE listed
                /\ subscribed' = subscribed \ subs.removed
      BY <1>4 DEF SubsRemove, netVars, runVars
    <2>2. subs # NoSubs
      BY <2>1 DEF NoSubs
    <2>3. Ownership'
      BY <2>1, CalmSteps DEF IdleSubs, NoSubs, Ownership
    <2>4. Connection'
      BY <2>1, <2>2 DEF Connection, IdleSubs, NoSubs
    <2> QED
      BY <2>3, <2>4
  <1>5. ASSUME SubsFails PROVE Ownership' /\ Connection'
    <2>1. subs' = NoSubs /\ UNCHANGED <<runVars, assetVars, frame, netVars>>
      BY <1>5 DEF SubsFails
    <2>2. Ownership'
      BY <2>1, CalmSteps DEF NoSubs, runVars, assetVars, netVars, Ownership
    <2>3. Connection'
      BY <2>1 DEF Connection, NoSubs, runVars, assetVars, netVars
    <2> QED
      BY <2>2, <2>3
  <1> QED
    BY <1>1, <1>2, <1>3, <1>4, <1>5 DEF Subscriptions

LEMMA ExchangeOwns ==
    ASSUME Ownership, Connection, Exchange, UNCHANGED <<window, latest>>
    PROVE  Ownership' /\ Connection'
  <1>1. UNCHANGED <<desired, assets, retiring, initial, subs, pc, subscribed, listed, frame>>
        /\ (link' = link \/ (link = "up" /\ link' = "lost"))
    BY DEF Exchange, Lose, Trade, assetVars, runVars
  <1>2. Ownership'
    BY <1>1, CalmSteps DEF Ownership
  <1>3. inbox' # inbox => link = "up"
    BY DEF Exchange, Lose, Trade
  <1>4. pc # "reading" => inbox' = <<>>
    <2>1. ASSUME Lose, pc # "reading" PROVE inbox' = <<>>
      BY <2>1 DEF Lose, Connection
    <2>2. ASSUME NEW a \in Assets, Trade(a), pc # "reading" PROVE inbox' = <<>>
      BY <2>2 DEF Trade, Connection
    <2> QED
      BY <2>1, <2>2 DEF Exchange
  <1>5. Connection'
    BY <1>1, <1>4 DEF Connection
  <1> QED
    BY <1>2, <1>5

LEMMA SourceOwns ==
    ASSUME SourceAssumption, Types, Ownership, Connection,
           SourceStep, UNCHANGED <<window, latest, manager, told, storeVars>>
    PROVE  Ownership' /\ Connection'
  BY ConnectingOwns, HandlingOwns, SubscribingOwns, ExchangeOwns
     DEF SourceStep, Run, Connecting, Handling

\* A new window makes new markets desired, and retires those that are over.
LEMMA ManagedOwns ==
    ASSUME SourceAssumption, PipelineAssumption, Types, Windows, Ownership, Connection,
           NEW tf \in Timeframes, NEW w \in Store!Context, Managed(tf, w)
    PROVE  /\ Ownership' /\ Connection'
           /\ desired \subseteq desired'
           /\ \A a \in desired' : a \in desired \/ ~Known(a)
           /\ \A a \in Assets : Known(a) => Known(a)'
           /\ \A a \in Wanted' : a \in Wanted \/ ~Known(a)
  <1> DEFINE required == Required(w.current, w.next)
             owned == {a \in assets \cup required : TimeframeOf[a[1]] = tf}
  <1>1. /\ assets' = assets \cup required /\ desired' = desired \cup required
        /\ retiring' = (retiring \cup owned) \ required
        /\ subscribed' = subscribed
        /\ UNCHANGED <<pc, initial, subs, frame, link, inbox, listed>>
    BY DEF Managed, OnMarketSnapshot, runVars, netVars
  <1>2. Types' /\ Windows'
    BY ManagedTypes, ManagedKeeps
  <1>3. /\ window' = [window EXCEPT ![tf] = w]
        /\ \A t \in Timeframes : t # tf => latest'[t] = latest[t]
        /\ latest[tf] <= latest'[tf]
    BY DEF Managed
  <1>4. window \in [Timeframes -> Store!Context] /\ latest \in [Timeframes -> Nat]
        /\ latest' \in [Timeframes -> Nat] /\ Markets \subseteq Nat \ {NoMarket}
    BY <1>2 DEF Types, StoreTypes, PipelineAssumption
  <1>5. /\ \A a \in Assets : a[1] \in Markets /\ TimeframeOf[a[1]] \in Timeframes
        /\ \A a \in Assets : a \in Wanted <=> Mentions(window[TimeframeOf[a[1]]], a[1])
    BY WantedAre DEF WantedProperties
  <1>6. \A a \in Assets : /\ a \in Wanted' <=> Mentions(window'[TimeframeOf[a[1]]], a[1])
                          /\ a \in Wanted' => Known(a)'
    <2>1. WantedProperties(window', latest')
      BY <1>2, WantedAre
    <2> QED
      BY <2>1, WantedAre DEF WantedProperties, Known
  <1>7. \A a \in Assets : Known(a) => Known(a)'
    <2> SUFFICES ASSUME NEW a \in Assets, a[1] <= latest[TimeframeOf[a[1]]]
                 PROVE  a[1] <= latest'[TimeframeOf[a[1]]]
      BY DEF Known
    <2>1. TimeframeOf[a[1]] \in Timeframes /\ a[1] \in Nat
      BY <1>4, <1>5
    <2>2. latest[TimeframeOf[a[1]]] <= latest'[TimeframeOf[a[1]]]
      BY <1>3, <1>4, <2>1
    <2> QED
      BY <1>4, <2>1, <2>2
  <1>8. \A a \in Assets : a \in required <=> Mentions(w, a[1])
    BY DEF Required, Mentions
  <1>9. required \subseteq Assets
    BY DEF Required
  <1>10. \A a \in required : TimeframeOf[a[1]] = tf /\ (Mentions(window[tf], a[1]) \/ a[1] > latest[tf])
    <2> SUFFICES ASSUME NEW a \in required
                 PROVE  TimeframeOf[a[1]] = tf /\ (Mentions(window[tf], a[1]) \/ a[1] > latest[tf])
      OBVIOUS
    <2>1. a[1] \in {w.current, w.next} /\ a[1] # NoMarket
      BY <1>4, <1>5, <1>8, <1>9 DEF Mentions
    <2> QED
      BY <2>1 DEF Managed
  <1> HIDE DEF required
  <1>11. \A a \in Assets : a \in Wanted' <=> IF TimeframeOf[a[1]] = tf THEN a \in required ELSE a \in Wanted
    BY <1>3, <1>4, <1>5, <1>6, <1>8
  <1>12. \A a \in required : a \in Wanted \/ ~Known(a)
    <2> SUFFICES ASSUME NEW a \in required, Known(a) PROVE a \in Wanted
      OBVIOUS
    <2>1. a[1] <= latest[tf] /\ a[1] \in Nat /\ latest[tf] \in Nat
      BY <1>4, <1>5, <1>9, <1>10 DEF Known
    <2> QED
      BY <1>5, <1>9, <1>10, <2>1
  <1>13. desired \subseteq Assets /\ initial \subseteq Assets /\ subscribed \subseteq Assets
         /\ subs.removed \subseteq Assets /\ listed \subseteq Assets /\ Wanted' \subseteq Assets
         /\ Wanted \subseteq Assets
    BY DEF Types, RunTypes, AssetTypes, NetTypes, Wanted, AskedBy
  <1>14. Wanted' \subseteq desired' /\ retiring' = desired' \ Wanted' /\ assets' = desired'
    <2>1. assets = desired /\ Wanted \subseteq desired /\ retiring = desired \ Wanted
      BY DEF Ownership
    <2>2. \A a \in required : TimeframeOf[a[1]] = tf
      BY <1>10
    <2>3. Wanted' \subseteq desired' /\ assets' = desired'
      BY <1>1, <1>11, <1>13, <2>1
    <2>4. \A a : a \in retiring' <=> a \in desired' /\ a \notin Wanted'
      <3> SUFFICES ASSUME NEW a \in Assets PROVE a \in retiring' <=> a \in desired' /\ a \notin Wanted'
        BY <1>1, <1>2, <1>9, <1>13 DEF Types, AssetTypes
      <3>1. CASE TimeframeOf[a[1]] = tf
        BY <1>1, <1>11, <2>1, <3>1
      <3>2. CASE TimeframeOf[a[1]] # tf
        BY <1>1, <1>11, <2>1, <2>2, <3>2
      <3> QED
        BY <3>1, <3>2
    <2> QED
      BY <2>3, <2>4
  <1>15. IsFiniteSet(desired')
    <2>1. IsFiniteSet({w.current, w.next})
      <3>1. {w.current, w.next} = {w.current} \cup {w.next}
        OBVIOUS
      <3>2. IsFiniteSet({w.current}) /\ IsFiniteSet({w.next})
        BY FS_Singleton
      <3>3. IsFiniteSet({w.current} \cup {w.next})
        BY <3>2, FS_Union
      <3> QED
        BY <3>1, <3>3
    <2>2. IsFiniteSet({w.current, w.next} \X Outcomes)
      BY <2>1, FS_Product DEF PipelineAssumption
    <2>3. required \subseteq {w.current, w.next} \X Outcomes
      BY DEF required, Required, Assets
    <2>4. IsFiniteSet(required)
      BY <2>2, <2>3, FS_Subset
    <2> QED
      BY <1>1, <2>4, FS_Union DEF Ownership
  <1>16. \A a \in desired' : Known(a)'
    <2> SUFFICES ASSUME NEW a \in desired' PROVE Known(a)'
      OBVIOUS
    <2>1. CASE a \in desired
      BY <1>7, <1>13, <2>1 DEF Ownership
    <2>2. CASE a \in required
      <3>1. a \in Wanted'
        BY <1>9, <1>10, <1>11, <2>2
      <3> QED
        BY <1>6, <1>13, <3>1
    <2> QED
      BY <1>1, <2>1, <2>2
  <1>17. \A a \in initial' \cup subscribed' \cup subs'.removed \cup listed' : Known(a)'
    BY <1>1, <1>7, <1>13 DEF Ownership
  <1>18. Ownership'
    BY <1>1, <1>14, <1>15, <1>16, <1>17 DEF Ownership
  <1>19. subs.removed \cap desired' = {}
    <2>1. \A a \in subs.removed : Known(a) /\ a \notin desired
      BY DEF Ownership, Connection
    <2>2. Wanted \subseteq desired
      BY DEF Ownership
    <2> QED
      BY <1>1, <1>12, <2>1, <2>2
  <1>20. Connection'
    BY <1>1, <1>19 DEF Connection
  <1>21. /\ \A a \in desired' : a \in desired \/ ~Known(a)
         /\ \A a \in Wanted' : a \in Wanted \/ ~Known(a)
    BY <1>1, <1>11, <1>12, <1>13 DEF Ownership
  <1> QED
    BY <1>1, <1>7, <1>18, <1>20, <1>21

LEMMA ReducedOwns ==
    ASSUME Ownership, Connection, NEW e, Reduced(e)
    PROVE  Ownership' /\ Connection'
  <1>1. UNCHANGED <<runVars, assetVars, frame, subs, netVars, window, latest>>
    BY DEF Reduced
  <1>2. Ownership'
    BY <1>1, CalmSteps DEF runVars, assetVars, netVars, Ownership
  <1>3. Connection'
    BY <1>1 DEF runVars, assetVars, netVars, Connection
  <1> QED
    BY <1>2, <1>3

-----------------------------------------------------------------------------
(* Sessions are preserved.                                                 *)

\* Sessions are numbers.
LEMMA SessionNumbers ==
    ASSUME SourceAssumption, Types
    PROVE  /\ sid \in Nat /\ session \in Nat
           /\ \A i \in DOMAIN line : Tagged(line[i]) => line[i].session \in Nat
           /\ \A i \in DOMAIN line : i \in Nat /\ i >= 1 /\ i < Len(line) + 1
           /\ Len(line) \in Nat
  <1>1. MaxSessions \in Nat /\ Sessions \subseteq Nat
    BY DEF SourceAssumption, Sessions
  <1>2. sid \in Nat /\ session \in Nat
    BY <1>1 DEF Types, RunTypes, StoreTypes, NoSession
  <1>3. \A i \in DOMAIN line : line[i] \in Event /\ i \in Nat /\ i >= 1 /\ i < Len(line) + 1
    BY LineIndices DEF Types
  <1>4. \A i \in DOMAIN line : Tagged(line[i]) => line[i].session \in Nat
    <2> SUFFICES ASSUME NEW i \in DOMAIN line, Tagged(line[i]) PROVE line[i].session \in Nat
      OBVIOUS
    <2>1. line[i] \in Event
      BY <1>3
    <2>2. line[i].session \in Sessions
      BY <2>1, EventsAre DEF Tagged, Kinds
    <2> QED
      BY <1>1, <2>2
  <1> QED
    BY <1>2, <1>3, <1>4, LineIndices DEF Types

\* An event of the present session, or a window, is added to the line.
LEMMA AdditionInOrder ==
    ASSUME SourceAssumption, Types, SessionsInOrder, NEW e, Adds(e), UNCHANGED <<sid, session>>,
           Tagged(e) => e.session = sid,
           IsUp(e) => session < sid /\ \A i \in DOMAIN line : Tagged(line[i]) => line[i].session < sid,
           e.kind \in Kinds => InForce(sid, Len(line) + 1)
    PROVE  /\ SessionsInOrder'
           /\ InForce(sid, Len(line) + 1) => InForceIn(session', line', sid', Len(line') + 1)
           /\ IsUp(e) => InForceIn(session', line', sid', Len(line') + 1)
  <1> DEFINE n == Len(line) + 1
  <1>1. /\ DOMAIN line' = DOMAIN line \cup {n} /\ line'[n] = e /\ n \notin DOMAIN line /\ n \in Nat
        /\ \A i \in DOMAIN line : line'[i] = line[i] /\ i < n /\ i \in Nat
        /\ Len(line') = n /\ e \in Event
    BY DEF Adds
  <1>2. /\ sid \in Nat /\ session \in Nat
        /\ \A i \in DOMAIN line : Tagged(line[i]) => line[i].session \in Nat
    BY SessionNumbers
  <1>3. /\ session <= sid
        /\ \A i \in DOMAIN line : Tagged(line[i]) => session <= line[i].session /\ line[i].session <= sid
    BY DEF SessionsInOrder
  <1>4. \A i \in DOMAIN line' : Tagged(line'[i]) => session <= line'[i].session /\ line'[i].session <= sid
    BY <1>1, <1>2, <1>3
  <1>5. \A i, j \in DOMAIN line' : i < j /\ Tagged(line'[i]) /\ Tagged(line'[j]) =>
           /\ line'[i].session <= line'[j].session
           /\ IsUp(line'[j]) => line'[i].session < line'[j].session
    <2> SUFFICES ASSUME NEW i \in DOMAIN line', NEW j \in DOMAIN line', i < j,
                        Tagged(line'[i]), Tagged(line'[j])
                 PROVE  /\ line'[i].session <= line'[j].session
                        /\ IsUp(line'[j]) => line'[i].session < line'[j].session
      OBVIOUS
    <2>1. i \in DOMAIN line /\ line'[i] = line[i]
      BY <1>1
    <2>2. CASE j \in DOMAIN line
      BY <1>1, <2>1, <2>2 DEF SessionsInOrder
    <2>3. CASE j = n
      BY <1>1, <1>3, <2>1, <2>3
    <2> QED
      BY <1>1, <2>2, <2>3
  <1>6. \A i \in DOMAIN line' : IsUp(line'[i]) => session < line'[i].session
    <2>1. IsUp(e) => Tagged(e)
      BY DEF IsUp, Tagged
    <2> QED
      BY <1>1, <2>1 DEF SessionsInOrder
  <1>7. \A s : InForce(s, n) => InForceIn(session', line', s, n)
    BY <1>1 DEF InForce, InForceIn
  <1>8. \A i \in DOMAIN line' : line'[i].kind \in Kinds => InForceIn(session', line', line'[i].session, i)
    <2> SUFFICES ASSUME NEW i \in DOMAIN line', line'[i].kind \in Kinds
                 PROVE  InForceIn(session', line', line'[i].session, i)
      OBVIOUS
    <2>1. CASE i \in DOMAIN line
      <3>1. InForce(line[i].session, i) /\ line'[i] = line[i]
        BY <1>1, <2>1 DEF SessionsInOrder
      <3> QED
        BY <1>1, <3>1 DEF InForce, InForceIn
    <2>2. CASE i = n
      <3>1. Tagged(e) /\ e.session = sid /\ InForce(sid, n)
        BY <1>1, <2>2 DEF Tagged, Kinds
      <3>2. InForceIn(session', line', sid, n)
        BY <1>1, <3>1 DEF InForce, InForceIn
      <3> QED
        BY <1>1, <2>2, <3>1, <3>2 DEF InForce, InForceIn
    <2> QED
      BY <1>1, <2>1, <2>2
  <1>9. SessionsInOrder'
    BY <1>3, <1>4, <1>5, <1>6, <1>8 DEF SessionsInOrder, InForce
  <1>10. InForce(sid, n) => InForceIn(session', line', sid', Len(line') + 1)
    BY <1>1 DEF InForce, InForceIn
  <1>11. IsUp(e) => InForceIn(session', line', sid', Len(line') + 1)
    <2>1. IsUp(e) => e.session = sid
      BY DEF IsUp, Tagged
    <2>2. n \in DOMAIN line' /\ n < Len(line') + 1
      BY <1>1
    <2> QED
      BY <1>1, <2>1, <2>2 DEF InForce, InForceIn
  <1> QED
    BY <1>9, <1>10, <1>11

\* The ways on through run(), as far as sessions are concerned.
LEMMA SourceSessions ==
    ASSUME SourceAssumption, Types, Ownership, Connection, SourceStep
    PROVE  \/ /\ line' = line /\ sid' = sid
              /\ \/ pc' = pc
                 \/ pc' \notin {"announcing", "subscribing", "reading"}
                 \/ pc = "subscribing" /\ pc' = "reading"
           \/ /\ line' = line /\ sid' = sid + 1 /\ pc' = "announcing"
           \/ /\ Adds(StatusEvent(TRUE)) /\ sid' = sid /\ pc = "announcing" /\ pc' = "subscribing"
           \/ /\ Adds(StatusEvent(FALSE)) /\ sid' = sid /\ pc' = "start"
           \/ /\ frame # <<>> /\ Head(frame) \in Message /\ Adds(MessageEvent(Head(frame))) /\ HandleMessage
              /\ sid' = sid /\ pc = "reading" /\ pc' = "reading"
  <1>1. CASE Connect
    BY <1>1 DEF Connect
  <1>2. CASE Announce
    <2>1. StatusEvent(TRUE) \in Event
      BY <1>2, EventTypes DEF Announce, Types, RunTypes
    <2>2. Adds(StatusEvent(TRUE))
      BY <1>2, <2>1, Addition DEF Announce, Publish, Types
    <2> QED
      BY <1>2, <2>2 DEF Announce
  <1>3. CASE Close
    <2>1. CASE opened
      <3>1. StatusEvent(FALSE) \in Event
        BY <2>1, EventTypes DEF Types, RunTypes
      <3>2. line' = Append(line, StatusEvent(FALSE))
        BY <1>3, <2>1 DEF Close, Publish
      <3>3. Adds(StatusEvent(FALSE))
        BY <3>1, <3>2, Addition DEF Types
      <3> QED
        BY <1>3, <3>3 DEF Close
    <2>2. CASE ~opened
      BY <1>3, <2>2 DEF Close
    <2> QED
      BY <2>1, <2>2
  <1>4. CASE HandleMessage
    <2>1. Head(frame) \in Message /\ sid \in Sessions /\ frame # <<>>
      BY <1>4, Indices DEF HandleMessage, Types, RunTypes, NetTypes
    <2>2. MessageEvent(Head(frame)) \in Event
      BY <2>1, EventTypes
    <2>3. Adds(MessageEvent(Head(frame)))
      BY <1>4, <2>2, Addition DEF HandleMessage, Publish, Types
    <2> QED
      BY <1>4, <2>1, <2>3 DEF HandleMessage, runVars
  <1>5. CASE Start \/ ConnectionEnds \/ BackedOff \/ CloseFails
    BY <1>5 DEF Start, ConnectionEnds, BackedOff, CloseFails, PublishFails
  <1>6. CASE ConnectFails \/ AnnounceFails \/ ConnectionFails \/ MessageFails
    BY <1>6 DEF ConnectFails, AnnounceFails, ConnectionFails, MessageFails, Fail, PublishFails
  <1>7. CASE Subscribe
    BY <1>7 DEF Subscribe
  <1>8. CASE Receive \/ HandleUnknown \/ HandleDuplicate
    BY <1>8 DEF Receive, HandleUnknown, HandleDuplicate, runVars
  <1>9. CASE Subscriptions
    BY <1>9 DEF Subscriptions, SubsWake, SubsAdd, SubsRemove, SubsFails, runVars
  <1>10. CASE Exchange
    BY <1>10 DEF Exchange, Trade, Lose, runVars
  <1> QED
    BY <1>1, <1>2, <1>3, <1>4, <1>5, <1>6, <1>7, <1>8, <1>9, <1>10 DEF SourceStep, Run

LEMMA SourceInOrder ==
    ASSUME SourceAssumption, Types, Ownership, Connection, SessionsInOrder, Announced,
           SourceStep, UNCHANGED <<window, latest, manager, told, storeVars>>
    PROVE  SessionsInOrder' /\ Announced'
  <1>1. session' = session
    BY DEF storeVars
  <1>2. /\ sid \in Nat /\ session \in Nat
        /\ \A i \in DOMAIN line : Tagged(line[i]) => line[i].session \in Nat
    BY SessionNumbers
  <1>3. /\ session <= sid
        /\ \A i \in DOMAIN line : Tagged(line[i]) => session <= line[i].session /\ line[i].session <= sid
    BY DEF SessionsInOrder
  <1>4. CASE /\ line' = line /\ sid' = sid
             /\ \/ pc' = pc
                \/ pc' \notin {"announcing", "subscribing", "reading"}
                \/ pc = "subscribing" /\ pc' = "reading"
    <2>1. SessionsInOrder'
      BY <1>1, <1>4 DEF SessionsInOrder, InForce, InForceIn
    <2>2. Announced'
      BY <1>1, <1>4 DEF Announced, InForce, InForceIn
    <2> QED
      BY <2>1, <2>2
  <1>5. CASE line' = line /\ sid' = sid + 1 /\ pc' = "announcing"
    <2>1. SessionsInOrder'
      <3>1. session' <= sid' /\ \A i \in DOMAIN line' : Tagged(line'[i]) =>
                                  session' <= line'[i].session /\ line'[i].session <= sid'
        BY <1>1, <1>2, <1>3, <1>5
      <3> QED
        BY <1>1, <1>5, <3>1 DEF SessionsInOrder, InForce, InForceIn
    <2>2. session' < sid' /\ \A i \in DOMAIN line' : Tagged(line'[i]) => line'[i].session < sid'
      BY <1>1, <1>2, <1>3, <1>5
    <2>3. Announced'
      BY <1>5, <2>2 DEF Announced
    <2> QED
      BY <2>1, <2>3
  <1>6. CASE Adds(StatusEvent(TRUE)) /\ sid' = sid /\ pc = "announcing" /\ pc' = "subscribing"
    <2>1. StatusEvent(TRUE).kind = "status" /\ StatusEvent(TRUE).session = sid /\ StatusEvent(TRUE).up
      BY DEF StatusEvent
    <2>2. session < sid /\ \A i \in DOMAIN line : Tagged(line[i]) => line[i].session < sid
      BY <1>6 DEF Announced
    <2>3. IsUp(StatusEvent(TRUE)) /\ StatusEvent(TRUE).kind \notin Kinds
      BY <2>1 DEF IsUp, Kinds
    <2>4. SessionsInOrder' /\ InForceIn(session', line', sid', Len(line') + 1)
      BY <1>1, <1>6, <2>1, <2>2, <2>3, AdditionInOrder
    <2>5. Announced'
      BY <1>6, <2>4 DEF Announced, InForce, InForceIn
    <2> QED
      BY <2>4, <2>5
  <1>7. CASE Adds(StatusEvent(FALSE)) /\ sid' = sid /\ pc' = "start"
    <2>1. StatusEvent(FALSE).kind = "status" /\ StatusEvent(FALSE).session = sid
          /\ StatusEvent(FALSE).up = FALSE
      BY DEF StatusEvent
    <2>2. ~IsUp(StatusEvent(FALSE)) /\ StatusEvent(FALSE).kind \notin Kinds
      BY <2>1 DEF IsUp, Kinds
    <2>3. SessionsInOrder'
      BY <1>1, <1>7, <2>1, <2>2, AdditionInOrder
    <2> QED
      BY <1>7, <2>3 DEF Announced
  <1>8. CASE /\ frame # <<>> /\ Head(frame) \in Message /\ Adds(MessageEvent(Head(frame))) /\ HandleMessage
             /\ sid' = sid /\ pc = "reading" /\ pc' = "reading"
    <2> DEFINE e == MessageEvent(Head(frame))
    <2>1. e.kind \in Kinds /\ e.session = sid
      BY <1>8, MessagesAre DEF MessageEvent
    <2>2. ~IsUp(e)
      BY <2>1 DEF IsUp, Kinds
    <2>3. InForce(sid, Len(line) + 1)
      BY <1>8 DEF Announced
    <2> HIDE DEF e
    <2>4. SessionsInOrder' /\ InForceIn(session', line', sid', Len(line') + 1)
      BY <1>1, <1>8, <2>1, <2>2, <2>3, AdditionInOrder DEF e
    <2>5. Announced'
      BY <1>8, <2>4 DEF Announced, InForce, InForceIn
    <2> QED
      BY <2>4, <2>5
  <1> QED
    BY <1>4, <1>5, <1>6, <1>7, <1>8, SourceSessions

LEMMA ManagedInOrder ==
    ASSUME SourceAssumption, PipelineAssumption, Types, SessionsInOrder, Announced,
           NEW tf \in Timeframes, NEW w \in Store!Context, Managed(tf, w)
    PROVE  SessionsInOrder' /\ Announced'
  <1> DEFINE e == WindowEvent(tf, w)
  <1>1. UNCHANGED <<sid, session, pc>>
    BY DEF Managed, runVars, storeVars
  <1>2. CASE Accepted(tf, w)
    <2>1. Adds(e)
      BY <1>2, EventTypes, Addition DEF Accepted, Publish, Types
    <2>2. e.kind = "window"
      BY DEF WindowEvent
    <2> HIDE DEF e
    <2>3. ~Tagged(e) /\ ~IsUp(e) /\ e.kind \notin Kinds
      BY <2>2 DEF Tagged, IsUp, Kinds
    <2>4. /\ SessionsInOrder'
          /\ InForce(sid, Len(line) + 1) => InForceIn(session', line', sid', Len(line') + 1)
      BY <1>1, <2>1, <2>3, AdditionInOrder
    <2>5. \A i \in DOMAIN line' : Tagged(line'[i]) => i \in DOMAIN line /\ line'[i] = line[i]
      BY <2>1, <2>3 DEF Adds
    <2>6. Announced'
      BY <1>1, <2>4, <2>5 DEF Announced, InForce, InForceIn
    <2> QED
      BY <2>4, <2>6
  <1>3. CASE Refused
    BY <1>1, <1>3 DEF Refused, SessionsInOrder, Announced, InForce, InForceIn
  <1> QED
    BY <1>2, <1>3 DEF Managed

\* The session of the store moves on with the line.
LEMMA ReducedInOrder ==
    ASSUME SourceAssumption, PipelineAssumption, Types, SessionsInOrder, Announced, NEW e, Reduced(e)
    PROVE  /\ SessionsInOrder' /\ Announced' /\ Takes(e)
           /\ IsUp(e) => session' = e.session /\ session < e.session
           /\ ~IsUp(e) => session' = session
           /\ e.kind \in Kinds => e.session = session
  <1>1. Takes(e)
    BY Removal DEF Reduced, Types
  <1>2. \A i \in DOMAIN line' : i + 1 \in DOMAIN line /\ line'[i] = line[i + 1] /\ i \in Nat /\ 1 < i + 1
    BY <1>1 DEF Takes
  <1>3. 1 \in DOMAIN line /\ line[1] = e
        /\ \A i \in DOMAIN line : i \in Nat /\ i >= 1 /\
                              (i # 1 => i - 1 \in DOMAIN line' /\ line'[i - 1] = line[i])
    BY <1>1 DEF Takes
  <1>4. UNCHANGED <<sid, pc>>
    BY DEF Reduced, runVars
  <1>5. /\ sid \in Nat /\ session \in Nat
        /\ \A i \in DOMAIN line : Tagged(line[i]) => line[i].session \in Nat
    BY SessionNumbers
  <1>6. IsUp(e) => session' = e.session /\ session < e.session
    BY <1>3 DEF SessionsInOrder, Reduced, StatusReduced, WindowReduced, FullBookReduced, ChangeReduced, IsUp
  <1>7. ~IsUp(e) => session' = session
    BY DEF Reduced, StatusReduced, WindowReduced, FullBookReduced, ChangeReduced, IsUp, Ignored, MakesBook
  <1>8. e.kind \in Kinds => e.session = session
    BY <1>3 DEF SessionsInOrder, InForce, InForceIn
  <1>9. IsUp(e) => Tagged(e)
    BY DEF IsUp, Tagged
  <1>10. session' <= sid'
    BY <1>3, <1>4, <1>6, <1>7, <1>9 DEF SessionsInOrder
  <1>11. \A i \in DOMAIN line' : Tagged(line'[i]) => session' <= line'[i].session /\ line'[i].session <= sid'
    BY <1>2, <1>3, <1>4, <1>6, <1>7, <1>9 DEF SessionsInOrder
  <1>12. \A i, j \in DOMAIN line' : i < j /\ Tagged(line'[i]) /\ Tagged(line'[j]) =>
           /\ line'[i].session <= line'[j].session
           /\ IsUp(line'[j]) => line'[i].session < line'[j].session
    <2>1. \A i, j \in DOMAIN line' : i < j => i + 1 < j + 1
      BY <1>2
    <2> QED
      BY <1>2, <2>1 DEF SessionsInOrder
  <1>13. \A i \in DOMAIN line' : IsUp(line'[i]) => session' < line'[i].session
    <2> SUFFICES ASSUME NEW i \in DOMAIN line', IsUp(line'[i]) PROVE session' < line'[i].session
      OBVIOUS
    <2>1. IsUp(line[i + 1]) /\ i + 1 \in DOMAIN line /\ line'[i] = line[i + 1] /\ Tagged(line[i + 1])
      BY <1>2 DEF IsUp, Tagged
    <2> QED
      BY <1>2, <1>3, <1>6, <1>7, <1>9, <2>1 DEF SessionsInOrder
  <1>14. ASSUME NEW s \in Nat, NEW k \in Nat, k >= 1, InForce(s, k + 1),
                session' <= s
         PROVE  InForceIn(session', line', s, k)
    <2>1. CASE session = s
      BY <1>3, <1>5, <1>6, <1>7, <1>9, <1>14, <2>1 DEF InForce, InForceIn
    <2>2. CASE session # s
      <3>1. PICK j \in DOMAIN line : j < k + 1 /\ IsUp(line[j]) /\ line[j].session = s
        BY <1>14, <2>2 DEF InForce, InForceIn
      <3>2. CASE j = 1
        BY <1>3, <1>6, <3>1, <3>2 DEF InForce, InForceIn
      <3>3. CASE j # 1
        <4>1. j - 1 \in DOMAIN line' /\ line'[j - 1] = line[j] /\ j - 1 < k
          BY <1>3, <3>1, <3>3
        <4> QED
          BY <3>1, <4>1 DEF InForce, InForceIn
      <3> QED
        BY <3>2, <3>3
    <2> QED
      BY <2>1, <2>2
  <1>15. \A i \in DOMAIN line' : line'[i].kind \in Kinds => InForceIn(session', line', line'[i].session, i)
    <2> SUFFICES ASSUME NEW i \in DOMAIN line', line'[i].kind \in Kinds
                 PROVE  InForceIn(session', line', line'[i].session, i)
      OBVIOUS
    <2>1. Tagged(line'[i]) /\ i \in Nat /\ i + 1 \in DOMAIN line /\ line'[i] = line[i + 1] /\ i >= 1
      BY <1>2 DEF Tagged, Kinds
    <2> DEFINE s == line'[i].session
    <2>2. s \in Nat /\ session' <= s /\ InForce(s, i + 1)
      BY <1>5, <1>11, <2>1 DEF SessionsInOrder
    <2> HIDE DEF s
    <2>3. InForceIn(session', line', s, i)
      BY <1>14, <2>1, <2>2
    <2> QED
      BY <2>3 DEF s, InForce, InForceIn
  <1>16. SessionsInOrder'
    BY <1>10, <1>11, <1>12, <1>13, <1>15 DEF SessionsInOrder, InForce
  <1>17. Announced'
    <2>1. ASSUME pc \in {"subscribing", "reading"} PROVE InForceIn(session', line', sid', Len(line') + 1)
      <3>1. Len(line') + 1 = Len(line) /\ Len(line) \in Nat /\ Len(line) >= 1
        BY <1>1, <1>3, SessionNumbers DEF Takes
      <3>2. InForce(sid, Len(line) + 1)
        BY <2>1 DEF Announced
      <3>3. InForceIn(session', line', sid', Len(line))
        BY <1>4, <1>5, <1>10, <1>14, <3>1, <3>2
      <3> QED
        BY <1>4, <3>1, <3>3 DEF InForce, InForceIn
    <2>2. ASSUME pc = "announcing"
          PROVE  session' < sid' /\ \A i \in DOMAIN line' : Tagged(line'[i]) => line'[i].session < sid'
      BY <1>2, <1>3, <1>4, <1>6, <1>7, <1>9, <2>2 DEF Announced
    <2> QED
      BY <1>4, <2>1, <2>2 DEF Announced, InForce, InForceIn
  <1> QED
    BY <1>1, <1>6, <1>7, <1>8, <1>16, <1>17

-----------------------------------------------------------------------------
(* Where versions are.                                                     *)

\* Events and messages are where their versions are.
LEMMA Members ==
    ASSUME Types
    PROVE  /\ \A i \in DOMAIN line : \A a, s : OfBook(line[i], a, s) =>
                line[i].version \in Lined(a, s) /\ line[i].version \in Versions /\ a \in Assets
           /\ \A i \in DOMAIN frame : /\ frame[i] \in Message /\ i \in Nat /\ i >= 1
                                      /\ frame[i].asset \in Assets
                                      /\ frame[i].version \in Framed(frame[i].asset)
           /\ \A k \in DOMAIN inbox : \A i \in DOMAIN inbox[k] :
                /\ inbox[k][i] \in Message /\ k \in Nat /\ k >= 1
                /\ inbox[k][i].asset \in Assets
                /\ inbox[k][i].version \in Boxed(inbox[k][i].asset)
  <1>1. \A i \in DOMAIN line : \A a, s : OfBook(line[i], a, s) =>
                line[i].version \in Lined(a, s) /\ line[i].version \in Versions /\ a \in Assets
    <2> SUFFICES ASSUME NEW i \in DOMAIN line, NEW a, NEW s, OfBook(line[i], a, s)
                 PROVE  line[i].version \in Lined(a, s) /\ line[i].version \in Versions /\ a \in Assets
      OBVIOUS
    <2>1. line[i] \in Event
      BY LineIndices DEF Types
    <2>2. line[i].version \in Versions /\ a \in Assets
      BY <2>1, EventsAre DEF OfBook
    <2> QED
      BY <2>2 DEF Lined
  <1>2. \A i \in DOMAIN frame : /\ frame[i] \in Message /\ i \in Nat /\ i >= 1
                                /\ frame[i].asset \in Assets
                                /\ frame[i].version \in Framed(frame[i].asset)
    <2> SUFFICES ASSUME NEW i \in DOMAIN frame
                 PROVE  /\ frame[i] \in Message /\ i \in Nat /\ i >= 1
                        /\ frame[i].asset \in Assets
                        /\ frame[i].version \in Framed(frame[i].asset)
      OBVIOUS
    <2>1. frame[i] \in Message /\ i \in Nat /\ i >= 1
      BY Indices DEF Types, NetTypes
    <2> QED
      BY <2>1, MessagesAre DEF Framed
  <1>3. \A k \in DOMAIN inbox : \A i \in DOMAIN inbox[k] :
                /\ inbox[k][i] \in Message /\ k \in Nat /\ k >= 1
                /\ inbox[k][i].asset \in Assets
                /\ inbox[k][i].version \in Boxed(inbox[k][i].asset)
    <2> SUFFICES ASSUME NEW k \in DOMAIN inbox, NEW i \in DOMAIN inbox[k]
                 PROVE  /\ inbox[k][i] \in Message /\ k \in Nat /\ k >= 1
                        /\ inbox[k][i].asset \in Assets
                        /\ inbox[k][i].version \in Boxed(inbox[k][i].asset)
      OBVIOUS
    <2>1. inbox[k] \in Seq(Message) /\ k \in Nat /\ k >= 1
      BY Indices DEF Types, NetTypes
    <2>2. inbox[k][i] \in Message
      BY <2>1, Indices
    <2> QED
      BY <2>1, <2>2, MessagesAre DEF Boxed
  <1> QED
    BY <1>1, <1>2, <1>3

\* Versions are numbers, and so are those of the path.
LEMMA PathNumbers ==
    ASSUME SourceAssumption, NEW a
    PROVE  /\ Versions \subseteq Nat
           /\ \A s : Live(a, s) \subseteq Versions /\ Lined(a, s) \subseteq Versions
                     /\ Held(a, s) \subseteq Versions
           /\ Framed(a) \subseteq Versions /\ Boxed(a) \subseteq Versions /\ Path(a) \subseteq Versions
           /\ \A s : Live(a, s)' \subseteq Versions /\ Lined(a, s)' \subseteq Versions
                     /\ Held(a, s)' \subseteq Versions
           /\ Framed(a)' \subseteq Versions /\ Boxed(a)' \subseteq Versions /\ Path(a)' \subseteq Versions
  <1>1. Versions \subseteq Nat
    BY DEF SourceAssumption, Versions
  <1>2. \A s : Live(a, s) \subseteq Versions /\ Lined(a, s) \subseteq Versions
               /\ Live(a, s)' \subseteq Versions /\ Lined(a, s)' \subseteq Versions
    BY DEF Live, Lined
  <1>3. Framed(a) \subseteq Versions /\ Boxed(a) \subseteq Versions
        /\ Framed(a)' \subseteq Versions /\ Boxed(a)' \subseteq Versions
    BY DEF Framed, Boxed
  <1>4. \A s : Held(a, s) \subseteq Versions /\ Held(a, s)' \subseteq Versions
    BY <1>2 DEF Held
  <1> QED
    BY <1>1, <1>2, <1>3, <1>4 DEF Path

\* What the source and the exchange do leaves the store and the line alone, or
\* adds an event to the line that is of no book.
Added == UNCHANGED <<books, session>> /\
         (line' = line \/ \E e \in Event : e.kind \notin Kinds /\ Adds(e))

LEMMA SameHeld ==
    ASSUME LineTypes, Added
    PROVE  /\ \A a, s : Live(a, s)' = Live(a, s) /\ Lined(a, s)' = Lined(a, s)
                        /\ Held(a, s)' = Held(a, s)
           /\ Lines => Lines'
           /\ Contents /\ contexts' = contexts => Contents'
  <1>1. \A a, s : Live(a, s)' = Live(a, s)
    BY DEF Added, Live, Initialized
  <1>2. \A i \in DOMAIN line' : \A a, s : OfBook(line'[i], a, s) => i \in DOMAIN line /\ line'[i] = line[i]
    BY DEF Added, Adds, OfBook
  <1>3. \A i \in DOMAIN line : i \in DOMAIN line' /\ line'[i] = line[i]
    BY DEF Added, Adds
  <1>4. \A a, s : Lined(a, s)' = Lined(a, s)
    BY <1>2, <1>3 DEF Lined
  <1>5. \A a, s : Held(a, s)' = Held(a, s)
    BY <1>1, <1>4 DEF Held
  <1>6. ASSUME Lines PROVE Lines'
    <2> SUFFICES ASSUME NEW a \in Assets, NEW s \in 0..MaxSessions PROVE LineInOrder(a, s)'
      BY DEF Lines
    <2>1. LineInOrder(a, s)
      BY <1>6 DEF Lines
    <2> QED
      BY <1>1, <1>2, <1>5, <2>1 DEF LineInOrder
  <1>7. Contents /\ contexts' = contexts => Contents'
    BY DEF Added, Contents, Store!Referenced, Store!ReferencedBy
  <1> QED
    BY <1>1, <1>4, <1>5, <1>6, <1>7

-----------------------------------------------------------------------------
(* Sets of versions.                                                       *)

\* B is what is left of A without its smallest versions.
Trims(A, B) == B \subseteq A /\ \A x \in A \ B : \A y \in B : x < y

LEMMA Trimmed ==
    ASSUME SourceAssumption, NEW A \in SUBSET Versions, NEW B, Trims(A, B)
    PROVE  /\ NoHoles(A) => NoHoles(B)
           /\ \A v \in A : (\A x \in A : x <= v) /\ B # {} => v \in B
  <1>1. Versions \subseteq Nat
    BY DEF SourceAssumption, Versions
  <1>2. ASSUME NoHoles(A) PROVE NoHoles(B)
    <2> SUFFICES ASSUME NEW x \in B, NEW z \in B, NEW y \in Versions, x < y, y < z PROVE y \in B
      BY DEF NoHoles
    <2>1. y \in A
      BY <1>2 DEF NoHoles, Trims
    <2>2. CASE y \notin B
      <3>1. y < x
        BY <2>1, <2>2 DEF Trims
      <3>2. x \in Nat /\ y \in Nat
        BY <1>1 DEF Trims
      <3> QED
        BY <3>1, <3>2
    <2> QED
      BY <2>2
  <1>3. ASSUME NEW v \in A, \A x \in A : x <= v, B # {} PROVE v \in B
    <2>1. PICK b \in B : TRUE
      BY <1>3
    <2>2. b \in A /\ b <= v /\ b \in Nat /\ v \in Nat
      BY <1>1, <1>3, <2>1 DEF Trims
    <2>3. v \notin B => v < b
      BY <1>3, <2>1 DEF Trims
    <2> QED
      BY <2>2, <2>3
  <1> QED
    BY <1>2, <1>3

\* A path that loses its smallest versions, if any.
LEMMA TrimmedPath ==
    ASSUME SourceAssumption, NEW a \in Assets, PathOf(a), Path(a)' \subseteq Path(a),
           a \in assets => Trims(Path(a), Path(a)'),
           version'[a] = version[a],
           a \in assets' => a \in assets,
           a \in listed' /\ link' = "up" => a \in listed /\ link = "up",
           Known(a) => Known(a)',
           pc' = pc \/ pc' \notin {"announcing", "subscribing"},
           pc' = "reading" /\ a \in desired' \ subscribed' =>
             pc = "reading" /\ a \in desired \ subscribed
    PROVE  PathOf(a)'
  <1>1. Path(a) \subseteq Versions /\ Path(a)' \subseteq Path(a)
    BY PathNumbers DEF Trims
  <1>2. \A v \in Path(a)' : v <= version'[a]
    BY <1>1 DEF PathOf
  <1>3. a \in assets' => NoHoles(Path(a)')
    BY <1>1, Trimmed DEF PathOf
  <1>4. a \in assets' \cap listed' /\ link' = "up" /\ Path(a)' # {} => version'[a] \in Path(a)'
    <2>1. ASSUME a \in assets', a \in listed', link' = "up", Path(a)' # {} PROVE version[a] \in Path(a)'
      <3>1. version[a] \in Path(a) /\ \A x \in Path(a) : x <= version[a]
        BY <1>1, <2>1 DEF PathOf
      <3> QED
        BY <1>1, <2>1, <3>1, Trimmed
    <2> QED
      BY <2>1
  <1>5. Path(a)' # {} => Known(a)' /\ pc' \notin {"announcing", "subscribing"}
    BY <1>1 DEF PathOf
  <1>6. pc' = "reading" /\ a \in desired' \ subscribed' => Path(a)' = {}
    BY <1>1 DEF PathOf
  <1> QED
    BY <1>2, <1>3, <1>4, <1>5, <1>6 DEF PathOf, NoHoles

-----------------------------------------------------------------------------
(* Versions: the ways from one connection to the next.                     *)

\* The store has nothing of a session to come.
LEMMA NothingAhead ==
    ASSUME SourceAssumption, Types, SessionsInOrder, NEW a, NEW s \in Nat, s > sid
    PROVE  Held(a, s) = {}
  <1>1. sid \in Nat /\ session \in Nat /\ session # s
    BY SessionNumbers DEF SessionsInOrder
  <1>2. \A i \in DOMAIN line : ~OfBook(line[i], a, s)
    <2> SUFFICES ASSUME NEW i \in DOMAIN line, OfBook(line[i], a, s) PROVE FALSE
      OBVIOUS
    <2>1. Tagged(line[i]) /\ line[i].session = s
      BY DEF OfBook, Tagged, Kinds
    <2>2. line[i].session <= sid
      BY <2>1 DEF SessionsInOrder
    <2> QED
      BY <1>1, <2>1, <2>2
  <1> QED
    BY <1>1, <1>2 DEF Held, Live, Lined

\* The connection is not there (yet), and nothing is under way.
Cleared ==
    /\ frame' = <<>> /\ inbox' = <<>> /\ listed' = {} /\ pc' # "reading"
    /\ UNCHANGED <<version, assets, contexts, latest>>
    /\ \A a \in Assets : \A v \in Versions : ChangeIdentity(v) \in cache'[a] => v <= version[a]
    /\ Added
    /\ \/ /\ sid' = sid
          /\ pc' \in {"announcing", "subscribing"} => pc \in {"announcing", "subscribing"}
       \/ sid' = sid + 1

LEMMA ClearedKeeps ==
    ASSUME SourceAssumption, Types, SessionsInOrder, Versioned, Cleared
    PROVE  Versioned'
  <1>1. /\ Contents /\ Lines /\ Paths
        /\ LineTypes /\ Added /\ contexts' = contexts
        /\ frame' = <<>> /\ inbox' = <<>> /\ listed' = {} /\ pc' # "reading"
    BY DEF Versioned, Types, Cleared
  <1>2. /\ Contents' /\ Lines' /\ \A a, s : Held(a, s)' = Held(a, s)
    BY <1>1, SameHeld
  <1>3. FrameInOrder' /\ InboxInOrder'
    BY <1>1 DEF FrameInOrder, InboxInOrder
  <1>4. NothingSeen'
    <2> SUFFICES ASSUME NEW a \in Assets PROVE Unseen(a)'
      BY DEF NothingSeen
    <2> QED
      BY <1>1 DEF Unseen, Cleared, ChangeIdentity
  <1>5. ASSUME NEW a \in Assets PROVE PathOf(a)'
    <2>1. Path(a)' = Held(a, sid)'
      BY <1>1 DEF Path, Framed, Boxed
    <2>2. PathOf(a)
      BY <1>1 DEF Paths
    <2>3. version' = version /\ assets' = assets /\ (Known(a)' <=> Known(a))
      BY DEF Cleared, Known
    <2>4. CASE /\ sid' = sid
               /\ pc' \in {"announcing", "subscribing"} => pc \in {"announcing", "subscribing"}
      <3>1. Path(a)' = Held(a, sid) /\ Held(a, sid) \subseteq Path(a)
        BY <1>2, <2>1, <2>4 DEF Path
      <3>2. NoHoles(Held(a, sid))
        BY <1>1 DEF Lines, LineInOrder, Types, RunTypes
      <3>3. NoHoles(Path(a)')
        BY <3>1, <3>2
      <3> QED
        BY <1>1, <2>2, <2>3, <2>4, <3>1, <3>3 DEF PathOf, NoHoles
    <2>5. CASE sid' = sid + 1
      <3>1. sid + 1 \in Nat /\ sid + 1 > sid
        BY SessionNumbers
      <3>2. Held(a, sid + 1) = {}
        BY <3>1, NothingAhead
      <3>3. Path(a)' = {}
        BY <1>2, <2>1, <2>5, <3>2
      <3> QED
        BY <1>1, <3>3 DEF PathOf, NoHoles
    <2> QED
      BY <2>4, <2>5 DEF Cleared
  <1>6. Paths'
    BY <1>5 DEF Paths
  <1> QED
    BY <1>2, <1>3, <1>4, <1>6 DEF Versioned

\* What the source knows of the identities it has seen.
LEMMA Remembered ==
    ASSUME Types, NothingSeen, Paths, frame # <<>>, Remember(Head(frame))
    PROVE  \A a \in Assets : \A v \in Versions : ChangeIdentity(v) \in cache'[a] => v <= version[a]
  <1> DEFINE m == Head(frame)
  <1>1. m = frame[1] /\ 1 \in DOMAIN frame
    BY Indices DEF Types, NetTypes
  <1>2. m.asset \in Assets /\ m.version \in Framed(m.asset)
    BY <1>1, Members
  <1>3. m.version <= version[m.asset]
    BY <1>2 DEF Paths, PathOf, Path
  <1>4. cache' = [cache EXCEPT ![m.asset] = @ \cup {Identity(m)}] /\ cache \in [Assets -> SUBSET Identities]
    BY DEF Remember, Types, AssetTypes
  <1>5. \A v : ChangeIdentity(v) = Identity(m) => v = m.version
    BY DEF ChangeIdentity, Identity
  <1> HIDE DEF m
  <1> SUFFICES ASSUME NEW a \in Assets, NEW v \in Versions, ChangeIdentity(v) \in cache'[a]
               PROVE  v <= version[a]
    OBVIOUS
  <1>6. CASE ChangeIdentity(v) \in cache[a]
    BY <1>6 DEF NothingSeen, Unseen
  <1>7. CASE ChangeIdentity(v) \notin cache[a]
    <2>1. a = m.asset /\ ChangeIdentity(v) = Identity(m)
      BY <1>2, <1>4, <1>7
    <2> QED
      BY <1>3, <1>5, <2>1
  <1> QED
    BY <1>6, <1>7

\* The failures, and the steps between two connections.
LEMMA ConnectingVersions ==
    ASSUME SourceAssumption, Types, Connection, SessionsInOrder, Versioned,
           Connecting \/ MessageFails, UNCHANGED <<window, latest, manager, told, storeVars>>
    PROVE  Versioned'
  <1>1. UNCHANGED <<books, session, contexts, latest>>
    BY DEF storeVars
  <1>2. \A a \in Assets : \A v \in Versions : ChangeIdentity(v) \in cache[a] => v <= version[a]
    BY DEF Versioned, NothingSeen, Unseen
  <1>3. \A up : StatusEvent(up).kind \notin Kinds
    BY DEF StatusEvent, Kinds
  <1>4. ASSUME Fail, line' = line,
               \A a \in Assets : \A v \in Versions : ChangeIdentity(v) \in cache'[a] => v <= version[a]
        PROVE  Cleared
    BY <1>1, <1>4 DEF Fail, Cleared, Added
  <1>5. CASE ConnectFails \/ AnnounceFails \/ ConnectionFails
    <2>1. Fail /\ line' = line /\ cache' = cache
      BY <1>5 DEF ConnectFails, AnnounceFails, ConnectionFails, PublishFails
    <2>2. Cleared
      BY <1>2, <1>4, <2>1
    <2> QED
      BY <2>2, ClearedKeeps
  <1>6. CASE MessageFails
    <2>1. Fail /\ line' = line /\ frame # <<>> /\ Remember(Head(frame))
      BY <1>6 DEF MessageFails, PublishFails
    <2>2. Cleared
      BY <1>4, <2>1, Remembered DEF Versioned
    <2> QED
      BY <2>2, ClearedKeeps
  <1>7. CASE Start \/ Connect \/ Announce \/ Close \/ BackedOff \/ CloseFails \/ ConnectionEnds
    <2>1. frame = <<>> /\ inbox = <<>>
      BY <1>7 DEF Start, Connect, Announce, Close, BackedOff, CloseFails, ConnectionEnds, Connection
    <2>2. Added
      <3>1. CASE Announce
        <4>1. Adds(StatusEvent(TRUE)) /\ StatusEvent(TRUE) \in Event
          <5>1. StatusEvent(TRUE) \in Event
            BY <3>1, EventTypes DEF Announce, Types, RunTypes
          <5> QED
            BY <3>1, <5>1, Addition DEF Announce, Publish, Types
        <4> QED
          BY <1>1, <1>3, <4>1 DEF Added
      <3>2. CASE Close
        <4>1. CASE opened
          <5>1. StatusEvent(FALSE) \in Event
            BY <4>1, EventTypes DEF Types, RunTypes
          <5>2. Adds(StatusEvent(FALSE))
            BY <3>2, <4>1, <5>1, Addition DEF Close, Publish, Types
          <5> QED
            BY <1>1, <1>3, <5>1, <5>2 DEF Added
        <4>2. CASE ~opened
          BY <1>1, <3>2, <4>2 DEF Close, Added
        <4> QED
          BY <4>1, <4>2
      <3>3. CASE Start \/ Connect \/ BackedOff \/ CloseFails \/ ConnectionEnds
        BY <1>1, <3>3 DEF Start, Connect, BackedOff, CloseFails, ConnectionEnds, PublishFails, Added
      <3> QED
        BY <1>7, <3>1, <3>2, <3>3
    <2>3. frame' = <<>> /\ inbox' = <<>> /\ listed' = {} /\ UNCHANGED <<version, assets, cache>>
      <3>1. CASE Start
        BY <2>1, <3>1 DEF Start, Connection, assetVars, netVars
      <3>2. CASE Connect
        BY <2>1, <3>2 DEF Connect, Connection, assetVars
      <3>3. CASE Announce \/ BackedOff
        BY <2>1, <3>3 DEF Announce, BackedOff, Connection, assetVars, netVars
      <3>4. CASE Close
        <4>1. UNCHANGED <<assetVars, frame, netVars>> /\ pc # "reading"
          BY <3>4 DEF Close
        <4> QED
          BY <2>1, <4>1 DEF Connection, assetVars, netVars
      <3>5. CASE CloseFails
        <4>1. UNCHANGED <<assetVars, frame, netVars>> /\ pc # "reading"
          BY <3>5 DEF CloseFails
        <4> QED
          BY <2>1, <4>1 DEF Connection, assetVars, netVars
      <3>6. CASE ConnectionEnds
        BY <2>1, <3>6 DEF ConnectionEnds, assetVars
      <3> QED
        BY <1>7, <3>1, <3>2, <3>3, <3>4, <3>5, <3>6
    <2>4. /\ pc' # "reading"
          /\ \/ /\ sid' = sid
                /\ pc' \in {"announcing", "subscribing"} => pc \in {"announcing", "subscribing"}
             \/ sid' = sid + 1
      BY <1>7 DEF Start, Connect, Announce, Close, BackedOff, CloseFails, ConnectionEnds
    <2>5. Cleared
      BY <1>1, <1>2, <2>2, <2>3, <2>4 DEF Cleared
    <2> QED
      BY <2>5, ClearedKeeps
  <1> QED
    BY <1>5, <1>6, <1>7 DEF Connecting

-----------------------------------------------------------------------------
(* Versions: what the source does with messages.                           *)

\* The next frame is taken: what follows it goes by what it holds.
LEMMA ReceiveVersions ==
    ASSUME SourceAssumption, Types, Versioned, Receive, UNCHANGED <<window, latest, manager, told, storeVars>>
    PROVE  Versioned'
  <1>1. /\ UNCHANGED <<books, session, contexts, latest, sid, pc, line, version, listed, link>>
        /\ UNCHANGED <<assets, cache, desired, subscribed>>
    BY DEF storeVars, Receive, runVars, assetVars
  <1>2. Added
    BY <1>1 DEF Added
  <1>3. Contents' /\ Lines' /\ \A a, s : Held(a, s)' = Held(a, s)
    BY <1>1, <1>2, SameHeld DEF Versioned, Types
  <1>4. frame = <<>> /\ frame' = inbox[1] /\ 1 \in DOMAIN inbox
        /\ \A k \in DOMAIN inbox' : k \in Nat /\ k + 1 \in DOMAIN inbox /\ 1 < k + 1 /\ inbox'[k] = inbox[k + 1]
    <2>1. inbox \in Seq(Seq(Message)) /\ inbox # <<>> /\ frame = <<>>
          /\ frame' = Head(inbox) /\ inbox' = Tail(inbox)
      BY DEF Receive, Types, NetTypes
    <2>2. \A k \in DOMAIN inbox' : k \in Nat /\ k + 1 \in DOMAIN inbox /\ k + 1 > 1 /\ inbox'[k] = inbox[k + 1]
      BY <2>1, OneLess
    <2>3. 1 \in DOMAIN inbox /\ frame' = inbox[1]
      BY <2>1, OneLess
    <2> QED
      BY <2>1, <2>2, <2>3
  <1>11. \A k \in DOMAIN inbox : k # 1 => k \in Nat /\ k - 1 \in DOMAIN inbox' /\ inbox'[k - 1] = inbox[k]
    <2>1. inbox \in Seq(Seq(Message)) /\ inbox # <<>> /\ inbox' = Tail(inbox)
      BY DEF Receive, Types, NetTypes
    <2>2. \A k \in DOMAIN inbox : k > 1 => k - 1 \in DOMAIN inbox' /\ inbox'[k - 1] = inbox[k]
      BY <2>1, OneLess
    <2>3. \A k \in DOMAIN inbox : k \in Nat /\ k >= 1
      BY <2>1, Indices
    <2>4. \A k \in DOMAIN inbox : k # 1 => k > 1
      BY <2>3
    <2> QED
      BY <2>2, <2>3, <2>4
  <1>5. \A a : Framed(a) = {} /\ Framed(a)' \cup Boxed(a)' = Boxed(a)
    <2>1. \A a : Framed(a) = {}
      BY <1>4 DEF Framed
    <2>2. ASSUME NEW a, NEW v \in Framed(a)' \cup Boxed(a)' PROVE v \in Boxed(a)
      BY <1>4, <2>2 DEF Framed, Boxed
    <2>3. ASSUME NEW a, NEW v \in Boxed(a) PROVE v \in Framed(a)' \cup Boxed(a)'
      <3>1. PICK k \in DOMAIN inbox : \E i \in DOMAIN inbox[k] :
                inbox[k][i].asset = a /\ inbox[k][i].version = v
        BY <2>3 DEF Boxed
      <3>2. v \in Versions
        BY <2>3 DEF Boxed
      <3>3. CASE k = 1
        BY <1>4, <3>1, <3>2, <3>3 DEF Framed
      <3>4. CASE k # 1
        <4>1. k - 1 \in DOMAIN inbox' /\ inbox'[k - 1] = inbox[k]
          BY <1>11, <3>4
        <4>2. v \in Boxed(a)'
          BY <3>1, <3>2, <4>1 DEF Boxed
        <4> QED
          BY <4>2
      <3> QED
        BY <3>3, <3>4
    <2> QED
      BY <2>1, <2>2, <2>3
  <1>6. \A a : Path(a)' = Path(a)
    <2> SUFFICES ASSUME NEW a PROVE Path(a)' = Path(a)
      OBVIOUS
    <2>1. Held(a, sid)' = Held(a, sid)
      BY <1>1, <1>3
    <2> QED
      BY <1>5, <2>1 DEF Path
  <1>7. FrameInOrder'
    <2>1. \A i, j \in DOMAIN frame' :
            frame'[i].asset = frame'[j].asset \/ frame'[i].kind = "change" => i = j
      BY <1>4 DEF Versioned, InboxInOrder
    <2>2. \A i \in DOMAIN frame' : After(frame'[i], Held(frame'[i].asset, sid))
      BY <1>4 DEF Versioned, InboxInOrder, After
    <2> QED
      BY <1>1, <1>3, <2>1, <2>2 DEF FrameInOrder
  <1>8. InboxInOrder'
    <2>1. \A k \in DOMAIN inbox' : \A i, j \in DOMAIN inbox'[k] :
            inbox'[k][i].asset = inbox'[k][j].asset \/ inbox'[k][i].kind = "change" => i = j
      BY <1>4 DEF Versioned, InboxInOrder
    <2>2. \A k, l \in DOMAIN inbox' : k < l =>
            \A i \in DOMAIN inbox'[k], j \in DOMAIN inbox'[l] :
              inbox'[k][i].asset = inbox'[l][j].asset => After(inbox'[l][j], {inbox'[k][i].version})
      <3>1. \A k, l \in DOMAIN inbox' : k < l => k + 1 < l + 1
        BY <1>4
      <3> QED
        BY <1>4, <3>1 DEF Versioned, InboxInOrder
    <2>3. ASSUME NEW k \in DOMAIN inbox', NEW i \in DOMAIN inbox'[k], NEW a, a = inbox'[k][i].asset,
                 NEW v \in Held(a, sid) \cup Framed(a)'
          PROVE  inbox'[k][i].kind = "change" /\ v < inbox'[k][i].version
      <3>1. k + 1 \in DOMAIN inbox /\ 1 < k + 1 /\ inbox'[k] = inbox[k + 1]
        BY <1>4
      <3>2. CASE v \in Held(a, sid)
        BY <2>3, <3>1, <3>2 DEF Versioned, InboxInOrder, After
      <3>3. CASE v \in Framed(a)'
        <4>1. PICK j \in DOMAIN inbox[1] : inbox[1][j].asset = a /\ inbox[1][j].version = v
          BY <1>4, <3>3 DEF Framed
        <4>2. After(inbox[k + 1][i], {inbox[1][j].version})
          BY <1>4, <2>3, <3>1, <4>1 DEF Versioned, InboxInOrder
        <4> QED
          BY <3>1, <4>1, <4>2 DEF After
      <3> QED
        BY <2>3, <3>2, <3>3
    <2> QED
      BY <1>1, <1>3, <2>1, <2>2, <2>3 DEF InboxInOrder, After
  <1>9. NothingSeen'
    <2> SUFFICES ASSUME NEW a \in Assets PROVE Unseen(a)'
      BY DEF NothingSeen
    <2>1. Unseen(a)
      BY DEF Versioned, NothingSeen
    <2> QED
      BY <1>1, <1>4, <2>1 DEF Unseen, ChangeIdentity
  <1>10. Paths'
    <2> SUFFICES ASSUME NEW a \in Assets PROVE PathOf(a)'
      BY DEF Paths
    <2>1. Path(a)' \subseteq Path(a) /\ Trims(Path(a), Path(a)')
      BY <1>6 DEF Trims
    <2>2. PathOf(a)
      BY DEF Versioned, Paths
    <2>3. Known(a) => Known(a)'
      BY <1>1 DEF Known
    <2> QED
      BY <1>1, <2>1, <2>2, <2>3, TrimmedPath
  <1> QED
    BY <1>3, <1>7, <1>8, <1>9, <1>10 DEF Versioned

\* What is left of the frame.
FrameRest ==
    /\ \A i \in DOMAIN frame' : i \in Nat /\ i + 1 \in DOMAIN frame /\ frame'[i] = frame[i + 1]
    /\ \A j \in DOMAIN frame : frame[j].asset \in assets /\ frame[j].kind = "change" =>
         \E i \in DOMAIN frame' : frame'[i] = frame[j]

\* Messages of the frame are left out, but no change of an asset the source
\* knows: a full book is the first of its asset.
LEMMA DroppedKeeps ==
    ASSUME SourceAssumption, Types, Versioned, FrameRest,
           UNCHANGED <<runVars, assetVars, netVars, line, window, latest, manager, told,
                       storeVars>>
    PROVE  Versioned'
  <1>1. /\ UNCHANGED <<books, session, contexts, latest, sid, pc, line, version, listed, link, inbox>>
        /\ UNCHANGED <<assets, cache, desired, subscribed>>
    BY DEF storeVars, runVars, assetVars, netVars
  <1>2. Added
    BY <1>1 DEF Added
  <1>3. Contents' /\ Lines' /\ \A a, s : Held(a, s)' = Held(a, s)
    BY <1>1, <1>2, SameHeld DEF Versioned, Types
  <1>4. \A i \in DOMAIN frame' : i \in Nat /\ i + 1 \in DOMAIN frame /\ frame'[i] = frame[i + 1]
    BY DEF FrameRest
  <1>5. \A a : Held(a, sid)' = Held(a, sid) /\ Boxed(a)' = Boxed(a) /\ Framed(a)' \subseteq Framed(a)
    BY <1>1, <1>3, <1>4 DEF Boxed, Framed
  <1>6. FrameInOrder'
    <2>1. FrameInOrder
      BY DEF Versioned
    <2>2. \A i, j \in DOMAIN frame' : i + 1 = j + 1 => i = j
      BY <1>4
    <2>3. \A i, j \in DOMAIN frame' :
            frame'[i].asset = frame'[j].asset \/ frame'[i].kind = "change" => i = j
      BY <1>4, <2>1, <2>2 DEF FrameInOrder
    <2>4. \A i \in DOMAIN frame' : After(frame'[i], Held(frame'[i].asset, sid))
      BY <1>4, <2>1 DEF FrameInOrder
    <2> QED
      BY <1>1, <1>3, <2>3, <2>4 DEF FrameInOrder
  <1>7. InboxInOrder'
    <2>1. InboxInOrder
      BY DEF Versioned
    <2>2. ASSUME NEW k \in DOMAIN inbox', NEW i \in DOMAIN inbox'[k], NEW a, a = inbox'[k][i].asset,
                 NEW v \in Held(a, sid) \cup Framed(a)'
          PROVE  inbox'[k][i].kind = "change" /\ v < inbox'[k][i].version
      <3>1. v \in Held(a, sid) \cup Framed(a) /\ k \in DOMAIN inbox /\ inbox' = inbox
        BY <1>1, <1>5
      <3> QED
        BY <2>1, <2>2, <3>1 DEF InboxInOrder, After
    <2> QED
      BY <1>1, <1>3, <2>1, <2>2 DEF InboxInOrder, After
  <1>8. NothingSeen'
    <2> SUFFICES ASSUME NEW a \in Assets PROVE Unseen(a)'
      BY DEF NothingSeen
    <2>1. Unseen(a)
      BY DEF Versioned, NothingSeen
    <2> QED
      BY <1>1, <1>4, <2>1 DEF Unseen, ChangeIdentity
  <1>9. ASSUME NEW a \in Assets PROVE PathOf(a)'
    <2>1. Path(a) = Held(a, sid) \cup Framed(a) \cup Boxed(a)
          /\ Path(a)' = Held(a, sid) \cup Framed(a)' \cup Boxed(a)
      BY <1>5 DEF Path
    <2>2. ASSUME a \in assets, NEW x \in Path(a) \ Path(a)', NEW y \in Path(a)'
          PROVE  x < y
      <3>1. x \in Framed(a) /\ x \notin Framed(a)'
        BY <2>1, <2>2
      <3>2. PICK j \in DOMAIN frame : frame[j].asset = a /\ frame[j].version = x
        BY <3>1 DEF Framed
      <3>3. x \in Versions
        BY <3>1 DEF Framed
      <3>4. frame[j].kind # "change"
        BY <2>2, <3>1, <3>2, <3>3 DEF FrameRest, Framed
      <3>5. Held(a, sid) = {}
        BY <3>2, <3>4 DEF Versioned, FrameInOrder, After
      <3>6. CASE y \in Framed(a)'
        <4>1. PICK i \in DOMAIN frame' : frame'[i].asset = a /\ frame'[i].version = y
          BY <3>6 DEF Framed
        <4>2. i + 1 \in DOMAIN frame /\ frame[i + 1].asset = a /\ frame[i + 1].version = y
          BY <1>4, <4>1
        <4>3. i + 1 = j
          BY <3>2, <4>2 DEF Versioned, FrameInOrder
        <4> QED
          BY <3>1, <3>2, <3>6, <4>2, <4>3
      <3>7. CASE y \in Boxed(a)
        <4>1. PICK k \in DOMAIN inbox : \E i \in DOMAIN inbox[k] :
                  inbox[k][i].asset = a /\ inbox[k][i].version = y
          BY <3>7 DEF Boxed
        <4>2. PICK i \in DOMAIN inbox[k] : inbox[k][i].asset = a /\ inbox[k][i].version = y
          BY <4>1
        <4>3. After(inbox[k][i], Held(a, sid) \cup Framed(a))
          BY <4>2 DEF Versioned, InboxInOrder
        <4> QED
          BY <3>1, <4>2, <4>3 DEF After
      <3> QED
        BY <2>1, <2>2, <3>5, <3>6, <3>7
    <2>3. Path(a)' \subseteq Path(a) /\ (a \in assets => Trims(Path(a), Path(a)'))
      BY <1>5, <2>1, <2>2 DEF Trims
    <2>4. PathOf(a) /\ (Known(a) => Known(a)')
      BY <1>1 DEF Versioned, Paths, Known
    <2> QED
      BY <1>1, <2>3, <2>4, TrimmedPath
  <1>10. Paths'
    BY <1>9 DEF Paths
  <1> QED
    BY <1>3, <1>6, <1>7, <1>8, <1>10 DEF Versioned

\* A message of an asset that is not known, with the rest of its frame, or a
\* message seen before.
LEMMA DroppingVersions ==
    ASSUME SourceAssumption, Types, Versioned, HandleUnknown \/ HandleDuplicate,
           UNCHANGED <<window, latest, manager, told, storeVars>>
    PROVE  Versioned'
  <1> DEFINE m == frame[1]
  <1>1. frame \in Seq(Message) /\ frame # <<>>
    BY DEF HandleUnknown, HandleDuplicate, Types, NetTypes
  <1>2. 1 \in DOMAIN frame /\ Head(frame) = m /\ m \in Message
    BY <1>1, OneLess
  <1>3. \A i \in DOMAIN Tail(frame) : i \in Nat /\ i + 1 \in DOMAIN frame /\ Tail(frame)[i] = frame[i + 1]
    BY <1>1, OneLess
  <1>4. \A j \in DOMAIN frame : j # 1 => \E i \in DOMAIN Tail(frame) : Tail(frame)[i] = frame[j]
    <2>1. \A j \in DOMAIN frame : j # 1 => j > 1
      BY <1>1, Indices
    <2>2. \A j \in DOMAIN frame : j > 1 => j - 1 \in DOMAIN Tail(frame) /\ Tail(frame)[j - 1] = frame[j]
      BY <1>1, OneLess
    <2> QED
      BY <2>1, <2>2
  <1>5. \A i, j \in DOMAIN frame : frame[i].kind = "change" => i = j
    BY DEF Versioned, FrameInOrder
  <1> HIDE DEF m
  <1>6. CASE HandleUnknown
    <2>1. frame' = <<>> /\ m.asset \notin assets
      BY <1>2, <1>6 DEF HandleUnknown, Discard
    <2>2. FrameRest
      <3>1. \A j \in DOMAIN frame : ~(frame[j].asset \in assets /\ frame[j].kind = "change")
        BY <1>2, <1>5, <2>1 DEF m
      <3> QED
        BY <2>1, <3>1 DEF FrameRest
    <2> QED
      BY <1>6, <2>2, DroppedKeeps DEF HandleUnknown
  <1>7. CASE HandleDuplicate
    <2>1. frame' = Tail(frame) /\ m.asset \in assets /\ Identity(m) \in cache[m.asset]
      BY <1>2, <1>7 DEF HandleDuplicate, Duplicate
    <2>2. m.kind # "change"
      <3>1. m.asset \in Assets /\ (m.kind = "change" => m.stamp = 0)
        BY <1>2, MessagesAre
      <3>2. m.kind = "change" => Identity(m) = ChangeIdentity(m.version)
        BY <3>1 DEF Identity, ChangeIdentity
      <3>3. Unseen(m.asset)
        BY <3>1 DEF Versioned, NothingSeen
      <3> QED
        BY <1>2, <2>1, <3>2, <3>3 DEF Unseen, m
    <2>3. FrameRest
      BY <1>3, <1>4, <2>1, <2>2 DEF FrameRest, m
    <2> QED
      BY <1>7, <2>3, DroppedKeeps DEF HandleDuplicate
  <1> QED
    BY <1>6, <1>7

\* The first message m of the frame becomes an event.
LEMMA HandlingMessage ==
    ASSUME SourceAssumption, Types, Versioned, HandleMessage, UNCHANGED <<window, latest, manager, told, storeVars>>
    PROVE  Versioned'
  <1>29. PICK m : m = frame[1]
    OBVIOUS
  <1>30. PICK a : a = m.asset
    OBVIOUS
  <1> DEFINE e == MessageEvent(m)
             n == Len(line) + 1
  <1>1. /\ UNCHANGED <<books, session, contexts, latest, sid, pc, version, listed, link, inbox>>
        /\ UNCHANGED <<assets, desired, subscribed>>
    BY DEF storeVars, HandleMessage, runVars, netVars
  <1>2. frame \in Seq(Message) /\ frame # <<>>
    BY DEF HandleMessage, Types, NetTypes
  <1>3. 1 \in DOMAIN frame /\ Head(frame) = m /\ m \in Message
    BY <1>2, <1>29, OneLess
  <1>4. \A i \in DOMAIN frame' : i \in Nat /\ i + 1 \in DOMAIN frame /\ i + 1 > 1 /\ frame'[i] = frame[i + 1]
    BY <1>2, OneLess DEF HandleMessage
  <1>5. \A j \in DOMAIN frame : j # 1 => \E i \in DOMAIN frame' : frame'[i] = frame[j]
    <2>1. \A j \in DOMAIN frame : j # 1 => j > 1
      BY <1>2, Indices
    <2>2. \A j \in DOMAIN frame : j > 1 => j - 1 \in DOMAIN frame' /\ frame'[j - 1] = frame[j]
      BY <1>2, OneLess DEF HandleMessage
    <2> QED
      BY <2>1, <2>2
  <1>6. /\ a \in Assets /\ m.version \in Versions /\ m.kind \in Kinds
        /\ a \in assets /\ m.version \in Framed(a)
        /\ Identity(m) \notin cache[a]
        /\ cache' = [cache EXCEPT ![a] = @ \cup {Identity(m)}]
    BY <1>3, <1>29, <1>30, MessagesAre DEF HandleMessage, Duplicate, Remember, Framed
  <1>7. e.kind = m.kind /\ e.asset = a /\ e.version = m.version /\ e.session = sid
    BY <1>30 DEF MessageEvent
  <1>8. Adds(e)
    <2>1. sid \in Sessions
      BY DEF HandleMessage, Types, RunTypes
    <2>2. e \in Event
      BY <1>3, <2>1, EventTypes
    <2> QED
      BY <1>3, <2>2, Addition DEF HandleMessage, Publish, Types
  <1>9. OfBook(e, a, sid) /\ \A b, s : OfBook(e, b, s) => b = a /\ s = sid
    BY <1>6, <1>7 DEF OfBook
  <1> HIDE DEF e
  <1>10. /\ DOMAIN line' = DOMAIN line \cup {n} /\ line'[n] = e /\ n \notin DOMAIN line
         /\ \A i \in DOMAIN line : line'[i] = line[i] /\ i < n /\ i \in Nat
         /\ n \in Nat
    BY <1>8 DEF Adds
  <1> HIDE DEF n
  <1>11. \A b, s : Live(b, s)' = Live(b, s)
    BY <1>1 DEF Live, Initialized
  <1>12. \A b, s : b # a \/ s # sid => Lined(b, s)' = Lined(b, s)
    BY <1>9, <1>10 DEF Lined
  <1>13. Lined(a, sid)' = Lined(a, sid) \cup {m.version}
    BY <1>1, <1>6, <1>7, <1>9, <1>10 DEF Lined
  <1>14. \A b, s : b # a \/ s # sid => Held(b, s)' = Held(b, s)
    BY <1>11, <1>12 DEF Held
  <1>15. Held(a, sid)' = Held(a, sid) \cup {m.version}
    BY <1>1, <1>11, <1>13 DEF Held
  <1>16. /\ FrameInOrder /\ InboxInOrder /\ Lines /\ Contents /\ Paths /\ NothingSeen
    BY DEF Versioned
  <1>17. \A i \in DOMAIN frame : frame[i].asset = a => i = 1
    BY <1>3, <1>16, <1>29, <1>30 DEF FrameInOrder
  <1>18. /\ \A b : b # a => Framed(b)' = Framed(b)
         /\ Framed(a) = {m.version} /\ Framed(a)' = {}
    <2>1. ASSUME NEW b, b # a PROVE Framed(b)' = Framed(b)
      <3>1. Framed(b)' \subseteq Framed(b)
        BY <1>4 DEF Framed
      <3>2. \A j \in DOMAIN frame : frame[j].asset = b => j # 1
        BY <1>29, <1>30, <2>1
      <3>3. Framed(b) \subseteq Framed(b)'
        BY <1>5, <3>2 DEF Framed
      <3> QED
        BY <3>1, <3>3
    <2>2. Framed(a) = {m.version}
      BY <1>6, <1>17, <1>29, <1>30 DEF Framed
    <2>3. \A i \in DOMAIN frame' : frame'[i].asset # a
      BY <1>4, <1>17
    <2> QED
      BY <2>1, <2>2, <2>3 DEF Framed
  <1>19. \A b : Boxed(b)' = Boxed(b)
    BY <1>1 DEF Boxed
  <1>20. ASSUME NEW b PROVE Path(b)' = Path(b)
    <2>1. CASE b = a
      BY <1>1, <1>15, <1>18, <1>19, <2>1 DEF Path
    <2>2. CASE b # a
      <3>1. Held(b, sid)' = Held(b, sid)
        BY <1>1, <1>14, <2>2
      <3> QED
        BY <1>18, <1>19, <2>2, <3>1 DEF Path
    <2> QED
      BY <2>1, <2>2
  <1>21. After(m, Held(a, sid))
    BY <1>3, <1>16, <1>29, <1>30 DEF FrameInOrder
  <1>22. NoHoles(Held(a, sid) \cup {m.version})
    <2> SUFFICES ASSUME NEW x \in Held(a, sid) \cup {m.version},
                        NEW z \in Held(a, sid) \cup {m.version},
                        NEW y \in Versions, x < y, y < z
                 PROVE  y \in Held(a, sid)
      BY DEF NoHoles
    <2>1. Versions \subseteq Nat /\ Held(a, sid) \subseteq Versions
      BY PathNumbers
    <2>2. z <= m.version /\ y < m.version /\ y \in Nat /\ m.version \in Nat
      <3>1. y \in Nat /\ m.version \in Nat /\ z \in Nat
        BY <1>6, <2>1
      <3>2. z = m.version \/ z < m.version
        BY <1>21 DEF After
      <3> QED
        BY <3>1, <3>2
    <2>3. NoHoles(Path(a)) /\ Path(a) = Held(a, sid) \cup Framed(a) \cup Boxed(a)
      BY <1>6, <1>16 DEF Paths, PathOf, Path
    <2>4. x \in Path(a) /\ z \in Path(a)
      BY <1>6, <2>3
    <2>5. y \in Path(a)
      BY <2>3, <2>4 DEF NoHoles
    <2>6. y \notin Framed(a)
      BY <1>18, <2>2
    <2>7. ASSUME y \in Boxed(a) PROVE FALSE
      <3>1. PICK k \in DOMAIN inbox : \E i \in DOMAIN inbox[k] :
                inbox[k][i].asset = a /\ inbox[k][i].version = y
        BY <2>7 DEF Boxed
      <3>2. PICK i \in DOMAIN inbox[k] : inbox[k][i].asset = a /\ inbox[k][i].version = y
        BY <3>1
      <3>3. After(inbox[k][i], Held(a, sid) \cup Framed(a))
        BY <1>16, <3>2 DEF InboxInOrder
      <3>4. m.version < y
        BY <1>6, <3>2, <3>3 DEF After
      <3> QED
        BY <2>2, <3>4
    <2> QED
      BY <2>3, <2>5, <2>6, <2>7
  <1>23. Lines'
    <2> SUFFICES ASSUME NEW b \in Assets, NEW s \in 0..MaxSessions PROVE LineInOrder(b, s)'
      BY DEF Lines
    <2>1. LineInOrder(b, s)
      BY <1>16 DEF Lines
    <2>2. CASE b # a \/ s # sid
      <3>1. \A i \in DOMAIN line' : OfBook(line'[i], b, s) => i \in DOMAIN line /\ line'[i] = line[i]
        BY <1>9, <1>10, <2>2
      <3>2. Live(b, s)' = Live(b, s) /\ Held(b, s)' = Held(b, s)
        BY <1>11, <1>14, <2>2
      <3> QED
        BY <2>1, <3>1, <3>2 DEF LineInOrder
    <2>3. CASE b = a /\ s = sid
      <3>1. \A i \in DOMAIN line : OfBook(line[i], a, sid) => line[i].version \in Held(a, sid)
        BY Members DEF Held
      <3>2. Live(a, sid) \subseteq Held(a, sid)
        BY DEF Held
      <3>3. \A i, j \in DOMAIN line' :
              i < j /\ OfBook(line'[i], a, sid) /\ OfBook(line'[j], a, sid) => After(line'[j], {line'[i].version})
        <4> SUFFICES ASSUME NEW i \in DOMAIN line', NEW j \in DOMAIN line', i < j,
                            OfBook(line'[i], a, sid), OfBook(line'[j], a, sid)
                     PROVE  After(line'[j], {line'[i].version})
          OBVIOUS
        <4>1. i \in DOMAIN line /\ line'[i] = line[i]
          BY <1>10
        <4>2. CASE j \in DOMAIN line
          BY <1>10, <2>1, <2>3, <4>1, <4>2 DEF LineInOrder
        <4>3. CASE j = n
          BY <1>7, <1>10, <1>21, <3>1, <4>1, <4>3 DEF After
        <4> QED
          BY <1>10, <4>2, <4>3
      <3>4. \A i \in DOMAIN line' : OfBook(line'[i], a, sid) => After(line'[i], Live(a, sid))
        <4> SUFFICES ASSUME NEW i \in DOMAIN line', OfBook(line'[i], a, sid)
                     PROVE  After(line'[i], Live(a, sid))
          OBVIOUS
        <4>1. CASE i \in DOMAIN line
          BY <1>10, <2>1, <2>3, <4>1 DEF LineInOrder
        <4>2. CASE i = n
          BY <1>7, <1>10, <1>21, <3>2, <4>2 DEF After
        <4> QED
          BY <1>10, <4>1, <4>2
      <3>5. Held(a, s)' = Held(a, sid) \cup {m.version} /\ Live(a, s)' = Live(a, sid)
        BY <1>1, <1>11, <1>15, <2>3
      <3> QED
        BY <1>22, <2>3, <3>3, <3>4, <3>5 DEF LineInOrder
    <2> QED
      BY <2>2, <2>3
  <1>24. FrameInOrder'
    <2>1. \A i, j \in DOMAIN frame' : i + 1 = j + 1 => i = j
      BY <1>4
    <2>2. \A i, j \in DOMAIN frame' :
            frame'[i].asset = frame'[j].asset \/ frame'[i].kind = "change" => i = j
      BY <1>4, <1>16, <2>1 DEF FrameInOrder
    <2>3. ASSUME NEW i \in DOMAIN frame', NEW b, b = frame'[i].asset
          PROVE  After(frame'[i], Held(b, sid)')
      <3>1. i + 1 \in DOMAIN frame /\ i + 1 # 1 /\ frame'[i] = frame[i + 1]
        BY <1>4
      <3>2. b # a
        BY <1>17, <2>3, <3>1
      <3>3. Held(b, sid)' = Held(b, sid)
        BY <1>1, <1>14, <3>2
      <3> QED
        BY <1>16, <2>3, <3>1, <3>3 DEF FrameInOrder
    <2> QED
      BY <2>2, <2>3 DEF FrameInOrder
  <1>25. InboxInOrder'
    <2>1. \A b : Held(b, sid)' \cup Framed(b)' \subseteq Held(b, sid) \cup Framed(b)
      <3> SUFFICES ASSUME NEW b PROVE Held(b, sid)' \cup Framed(b)' \subseteq Held(b, sid) \cup Framed(b)
        OBVIOUS
      <3>1. CASE b = a
        BY <1>1, <1>15, <1>18, <3>1
      <3>2. CASE b # a
        BY <1>1, <1>14, <1>18, <3>2
      <3> QED
        BY <3>1, <3>2
    <2>2. ASSUME NEW k \in DOMAIN inbox', NEW i \in DOMAIN inbox'[k], NEW b, b = inbox'[k][i].asset,
                 NEW v \in Held(b, sid)' \cup Framed(b)'
          PROVE  inbox'[k][i].kind = "change" /\ v < inbox'[k][i].version
      BY <1>1, <1>16, <2>1, <2>2 DEF InboxInOrder, After
    <2> QED
      BY <1>1, <1>16, <2>2 DEF InboxInOrder, After
  <1>26. NothingSeen'
    <2> SUFFICES ASSUME NEW b \in Assets PROVE Unseen(b)'
      BY DEF NothingSeen
    <2>1. Unseen(b)
      BY <1>16 DEF NothingSeen
    <2>2. \A v \in Versions : ChangeIdentity(v) \in cache'[b] => v <= version[b]
      BY <1>3, <1>16, Remembered DEF HandleMessage
    <2>3. CASE b # a
      <3>1. cache'[b] = cache[b]
        BY <1>6, <2>3 DEF Types, AssetTypes
      <3> QED
        BY <1>1, <1>4, <2>1, <3>1 DEF Unseen, ChangeIdentity
    <2>4. CASE b = a
      <3>1. cache'[a] = cache[a] \cup {Identity(m)}
        BY <1>6 DEF Types, AssetTypes
      <3>2. \A v : ChangeIdentity(v) = Identity(m) => v = m.version
        BY DEF ChangeIdentity, Identity
      <3>3. \A i \in DOMAIN frame' : frame'[i].asset # a
        BY <1>4, <1>17
      <3>4. \A k \in DOMAIN inbox : \A i \in DOMAIN inbox[k] :
              inbox[k][i].asset = a => inbox[k][i].version # m.version
        <4> SUFFICES ASSUME NEW k \in DOMAIN inbox, NEW i \in DOMAIN inbox[k], inbox[k][i].asset = a
                     PROVE  inbox[k][i].version # m.version
          OBVIOUS
        <4>1. After(inbox[k][i], Held(a, sid) \cup Framed(a))
          BY <1>16 DEF InboxInOrder
        <4>2. m.version \in Nat
          BY <1>6, PathNumbers
        <4> QED
          BY <1>6, <4>1, <4>2 DEF After
      <3>5. \A k \in DOMAIN inbox : \A i \in DOMAIN inbox[k] :
              inbox[k][i].asset = a /\ inbox[k][i].kind = "change" =>
                ChangeIdentity(inbox[k][i].version) \notin cache'[a]
        BY <1>6, <2>1, <2>4, <3>1, <3>2, <3>4 DEF Unseen
      <3> HIDE DEF ChangeIdentity
      <3> QED
        BY <1>1, <2>2, <2>4, <3>3, <3>5 DEF Unseen, ChangeIdentity
    <2> QED
      BY <2>3, <2>4
  <1>27. Paths'
    <2> SUFFICES ASSUME NEW b \in Assets PROVE PathOf(b)'
      BY DEF Paths
    <2>1. Path(b)' \subseteq Path(b) /\ Trims(Path(b), Path(b)')
      BY <1>20 DEF Trims
    <2>2. PathOf(b) /\ (Known(b) => Known(b)')
      BY <1>1, <1>16 DEF Paths, Known
    <2> QED
      BY <1>1, <2>1, <2>2, TrimmedPath
  <1>28. Contents'
    BY <1>1, <1>16 DEF Contents, Store!Referenced, Store!ReferencedBy
  <1> QED
    BY <1>23, <1>24, <1>25, <1>26, <1>27, <1>28 DEF Versioned

-----------------------------------------------------------------------------
(* Versions: subscriptions.                                                *)

\* The exchange answers a subscription to assets A, of which nothing was under
\* way.
Answered(A, R) ==
    /\ Answers(R, A) /\ inbox' = inbox \o R
    /\ UNCHANGED <<frame, sid, line, version, books, session, contexts, latest, link, assets,
                   cache, desired>>
    /\ listed' \subseteq listed \cup A /\ pc' = "reading" /\ A \subseteq subscribed'
    /\ \A a \in A : Path(a) = {} /\ Known(a)
    /\ \A a \in desired \ subscribed' : Path(a) = {}

LEMMA AnsweredKeeps ==
    ASSUME SourceAssumption, Types, Versioned, NEW A \in SUBSET Assets, NEW R, Answered(A, R)
    PROVE  Versioned'
  <1>1. /\ UNCHANGED <<frame, sid, line, version, books, session, contexts, latest, link, assets,
                       cache, desired>>
        /\ listed' \subseteq listed \cup A /\ pc' = "reading" /\ A \subseteq subscribed'
        /\ \A a \in A : Path(a) = {} /\ Known(a)
        /\ \A a \in desired \ subscribed' : Path(a) = {}
    BY DEF Answered
  <1>2. Added
    BY <1>1 DEF Added
  <1>3. Contents' /\ Lines' /\ \A a, s : Held(a, s)' = Held(a, s)
    BY <1>1, <1>2, SameHeld DEF Versioned, Types
  <1>4. /\ FrameInOrder /\ InboxInOrder /\ Paths /\ NothingSeen
    BY DEF Versioned
  <1>5. /\ \A k \in DOMAIN R : k \in Nat /\ k >= 1
        /\ \A k \in DOMAIN inbox : k \in Nat /\ k <= Len(inbox)
        /\ Len(inbox) \in Nat
        /\ R \in Seq(Seq(Message)) /\ inbox \in Seq(Seq(Message))
    <2>1. R \in Seq(Seq(Message)) /\ inbox \in Seq(Seq(Message))
      BY DEF Answered, Answers, Types, NetTypes
    <2> QED
      BY <2>1, Indices
  <1>6. \A k \in DOMAIN inbox : k \in DOMAIN inbox' /\ inbox'[k] = inbox[k]
    BY <1>5, Concatenation DEF Answered
  <1>7. \A k \in DOMAIN inbox' : \/ k \in DOMAIN inbox /\ inbox'[k] = inbox[k]
                                 \/ \E j \in DOMAIN R : k = Len(inbox) + j /\ inbox'[k] = R[j]
    <2> SUFFICES ASSUME NEW k \in DOMAIN inbox', k \notin DOMAIN inbox
                 PROVE  \E j \in DOMAIN R : k = Len(inbox) + j /\ inbox'[k] = R[j]
      BY <1>6
    <2>1. k - Len(inbox) \in DOMAIN R /\ k > Len(inbox)
      BY <1>5, Concatenation DEF Answered
    <2>2. k \in Nat
      <3>1. inbox' \in Seq(Seq(Message))
        BY <1>5, Concatenation DEF Answered
      <3> QED
        BY <3>1, Indices
    <2>3. Len(inbox) + (k - Len(inbox)) = k
      BY <1>5, <2>2
    <2>4. inbox'[Len(inbox) + (k - Len(inbox))] = R[k - Len(inbox)]
      BY <1>5, <2>1, Concatenation DEF Answered
    <2> QED
      BY <2>1, <2>3, <2>4
  <1>8. /\ \A k \in DOMAIN R : \A i \in DOMAIN R[k] : /\ R[k][i].asset \in A /\ R[k][i].kind = "book"
                                                      /\ R[k][i].version = version[R[k][i].asset]
        /\ \A k, l \in DOMAIN R : \A i \in DOMAIN R[k], j \in DOMAIN R[l] :
             R[k][i].asset = R[l][j].asset => k = l /\ i = j
    BY DEF Answered, Answers, BookMessage
  <1>9. \A k \in DOMAIN inbox : \A i \in DOMAIN inbox[k] : inbox[k][i].asset \notin A
    <2> SUFFICES ASSUME NEW k \in DOMAIN inbox, NEW i \in DOMAIN inbox[k], inbox[k][i].asset \in A
                 PROVE  FALSE
      OBVIOUS
    <2>1. inbox[k][i].version \in Path(inbox[k][i].asset)
      BY Members DEF Path
    <2> QED
      BY <1>1, <2>1
  <1>10. \A a : /\ Boxed(a) \subseteq Boxed(a)'
                /\ \A v \in Boxed(a)' : v \in Boxed(a) \/ (a \in A /\ v = version[a])
    <2>1. ASSUME NEW a, NEW v \in Boxed(a) PROVE v \in Boxed(a)'
      BY <1>6, <2>1 DEF Boxed
    <2>2. ASSUME NEW a, NEW v \in Boxed(a)', v \notin Boxed(a) PROVE a \in A /\ v = version[a]
      <3>1. PICK k \in DOMAIN inbox' : \E i \in DOMAIN inbox'[k] :
                inbox'[k][i].asset = a /\ inbox'[k][i].version = v
        BY <2>2 DEF Boxed
      <3>2. v \in Versions
        BY <2>2 DEF Boxed
      <3>3. ~(k \in DOMAIN inbox /\ inbox'[k] = inbox[k])
        BY <2>2, <3>1, <3>2 DEF Boxed
      <3>4. PICK j \in DOMAIN R : inbox'[k] = R[j]
        BY <1>7, <3>3
      <3> QED
        BY <1>8, <3>1, <3>4
    <2> QED
      BY <2>1, <2>2
  <1>11. FrameInOrder'
    BY <1>1, <1>3, <1>4 DEF FrameInOrder
  <1>12. InboxInOrder'
    <2>1. ASSUME NEW k \in DOMAIN inbox', NEW i \in DOMAIN inbox'[k], NEW j \in DOMAIN inbox'[k],
                 inbox'[k][i].asset = inbox'[k][j].asset \/ inbox'[k][i].kind = "change"
          PROVE  i = j
      <3>1. CASE k \in DOMAIN inbox /\ inbox'[k] = inbox[k]
        BY <1>4, <2>1, <3>1 DEF InboxInOrder
      <3>2. CASE \E l \in DOMAIN R : k = Len(inbox) + l /\ inbox'[k] = R[l]
        BY <1>8, <2>1, <3>2
      <3> QED
        BY <1>7, <3>1, <3>2
    <2>2. ASSUME NEW k \in DOMAIN inbox', NEW l \in DOMAIN inbox', k < l,
                 NEW i \in DOMAIN inbox'[k], NEW j \in DOMAIN inbox'[l],
                 inbox'[k][i].asset = inbox'[l][j].asset
          PROVE  After(inbox'[l][j], {inbox'[k][i].version})
      <3>1. CASE k \in DOMAIN inbox /\ inbox'[k] = inbox[k]
        <4>1. inbox'[k][i].asset \notin A
          BY <1>9, <3>1
        <4>2. l \in DOMAIN inbox /\ inbox'[l] = inbox[l]
          BY <1>7, <1>8, <2>2, <4>1
        <4> QED
          BY <1>4, <2>2, <3>1, <4>2 DEF InboxInOrder
      <3>2. CASE \E n \in DOMAIN R : k = Len(inbox) + n /\ inbox'[k] = R[n]
        <4>1. PICK n \in DOMAIN R : k = Len(inbox) + n /\ inbox'[k] = R[n]
          BY <3>2
        <4>2. l \notin DOMAIN inbox
          BY <1>5, <2>2, <4>1
        <4>3. PICK o \in DOMAIN R : l = Len(inbox) + o /\ inbox'[l] = R[o]
          BY <1>7, <4>2
        <4>4. n = o
          BY <1>8, <2>2, <4>1, <4>3
        <4> QED
          BY <1>5, <2>2, <4>1, <4>3, <4>4
      <3> QED
        BY <1>7, <3>1, <3>2
    <2>3. ASSUME NEW k \in DOMAIN inbox', NEW i \in DOMAIN inbox'[k], NEW a, a = inbox'[k][i].asset,
                 NEW v \in Held(a, sid) \cup Framed(a)
          PROVE  inbox'[k][i].kind = "change" /\ v < inbox'[k][i].version
      <3>1. CASE k \in DOMAIN inbox /\ inbox'[k] = inbox[k]
        BY <1>4, <2>3, <3>1 DEF InboxInOrder, After
      <3>2. CASE k \notin DOMAIN inbox
        <4>1. a \in A
          BY <1>7, <1>8, <2>3, <3>2
        <4>2. Held(a, sid) \cup Framed(a) = {}
          BY <1>1, <4>1 DEF Path
        <4> QED
          BY <2>3, <4>2
      <3> QED
        BY <1>7, <3>1, <3>2
    <2>4. \A a : Held(a, sid)' = Held(a, sid) /\ Framed(a)' = Framed(a)
      BY <1>1, <1>3 DEF Framed
    <2> QED
      BY <2>1, <2>2, <2>3, <2>4 DEF InboxInOrder, After
  <1>13. NothingSeen'
    <2> SUFFICES ASSUME NEW a \in Assets PROVE Unseen(a)'
      BY DEF NothingSeen
    <2>1. Unseen(a)
      BY <1>4 DEF NothingSeen
    <2>2. \A k \in DOMAIN inbox' : \A i \in DOMAIN inbox'[k] : inbox'[k][i].kind = "change" =>
             k \in DOMAIN inbox /\ inbox'[k] = inbox[k]
      BY <1>7, <1>8
    <2> QED
      BY <1>1, <2>1, <2>2 DEF Unseen, ChangeIdentity
  <1>14. ASSUME NEW a \in Assets PROVE PathOf(a)'
    <2>1. Path(a)' = Held(a, sid) \cup Framed(a) \cup Boxed(a)'
          /\ Path(a) = Held(a, sid) \cup Framed(a) \cup Boxed(a)
      <3>1. Held(a, sid)' = Held(a, sid) /\ Framed(a)' = Framed(a)
        BY <1>1, <1>3 DEF Framed
      <3> QED
        BY <3>1 DEF Path
    <2>2. PathOf(a) /\ (Known(a)' <=> Known(a))
      BY <1>1, <1>4 DEF Paths, Known
    <2>3. CASE a \in A
      <3>1. Path(a)' \subseteq {version[a]} /\ version'[a] = version[a] /\ version[a] \in Nat
        <4>1. version[a] \in Nat
          BY PathNumbers DEF Types, NetTypes
        <4> QED
          BY <1>1, <1>10, <2>1, <2>3, <4>1
      <3>2. \A v \in Path(a)' : v <= version'[a]
        BY <3>1
      <3>3. NoHoles(Path(a)')
        <4>1. \A x, z \in Path(a)' : x = z /\ x \in Nat
          BY <3>1
        <4>2. \A y \in Versions : y \in Nat
          BY PathNumbers
        <4> QED
          BY <4>1, <4>2 DEF NoHoles
      <3>4. Known(a)' /\ pc' \notin {"announcing", "subscribing"} /\ a \in subscribed'
        BY <1>1, <2>2, <2>3
      <3> QED
        BY <3>1, <3>2, <3>3, <3>4 DEF PathOf, NoHoles
    <2>4. CASE a \notin A
      <3>1. Path(a)' = Path(a)
        BY <1>10, <2>1, <2>4
      <3>2. pc' \notin {"announcing", "subscribing"} /\ (a \in desired' \ subscribed' => Path(a) = {})
            /\ a \in assets' \cap listed' /\ link' = "up" => a \in assets \cap listed /\ link = "up"
        BY <1>1, <2>4
      <3>3. version' = version /\ (a \in assets' => a \in assets)
        BY <1>1
      <3>4. NoHoles(Path(a)) => NoHoles(Path(a)')
        BY <3>1
      <3> QED
        BY <1>1, <2>2, <3>1, <3>2, <3>3, <3>4, <2>4 DEF PathOf, NoHoles
    <2> QED
      BY <2>3, <2>4
  <1>15. Paths'
    BY <1>14 DEF Paths
  <1> QED
    BY <1>3, <1>11, <1>12, <1>13, <1>15 DEF Versioned

\* Nothing moves; the source may forget assets and subscriptions.
Quiet ==
    /\ UNCHANGED <<frame, inbox, link, sid, line, version, books, session, contexts, latest>>
    /\ assets' \subseteq assets /\ listed' \subseteq listed
    /\ \A a \in Assets : cache'[a] \subseteq cache[a]
    /\ pc' \notin {"announcing", "subscribing"}
    /\ \A a \in Assets : pc' = "reading" /\ a \in desired' \ subscribed' => Path(a) = {}

LEMMA QuietKeeps ==
    ASSUME SourceAssumption, Types, Versioned, Quiet
    PROVE  Versioned'
  <1>1. /\ UNCHANGED <<frame, inbox, link, sid, line, version, books, session, contexts, latest>>
        /\ assets' \subseteq assets /\ listed' \subseteq listed
        /\ \A a \in Assets : cache'[a] \subseteq cache[a]
        /\ pc' \notin {"announcing", "subscribing"}
        /\ \A a \in Assets : pc' = "reading" /\ a \in desired' \ subscribed' => Path(a) = {}
    BY DEF Quiet
  <1>2. Added
    BY <1>1 DEF Added
  <1>3. Contents' /\ Lines' /\ \A a, s : Held(a, s)' = Held(a, s)
    BY <1>1, <1>2, SameHeld DEF Versioned, Types
  <1>4. \A a : Held(a, sid)' = Held(a, sid) /\ Framed(a)' = Framed(a) /\ Boxed(a)' = Boxed(a)
    BY <1>1, <1>3 DEF Framed, Boxed
  <1>5. FrameInOrder'
    BY <1>1, <1>3 DEF Versioned, FrameInOrder
  <1>6. InboxInOrder'
    BY <1>1, <1>3, <1>4 DEF Versioned, InboxInOrder
  <1>7. NothingSeen'
    <2> SUFFICES ASSUME NEW a \in Assets PROVE Unseen(a)'
      BY DEF NothingSeen
    <2>1. Unseen(a)
      BY DEF Versioned, NothingSeen
    <2> QED
      BY <1>1, <2>1 DEF Unseen, ChangeIdentity
  <1>8. ASSUME NEW a \in Assets PROVE PathOf(a)'
    <2>1. Path(a)' = Path(a)
      BY <1>4 DEF Path
    <2>2. PathOf(a) /\ (Known(a)' <=> Known(a))
      BY <1>1 DEF Versioned, Paths, Known
    <2>3. NoHoles(Path(a)) => NoHoles(Path(a)')
      BY <2>1
    <2> QED
      BY <1>1, <2>1, <2>2, <2>3 DEF PathOf, NoHoles
  <1>9. Paths'
    BY <1>8 DEF Paths
  <1> QED
    BY <1>3, <1>5, <1>6, <1>7, <1>9 DEF Versioned

\* The initial subscription, and what the task sends and forgets.
LEMMA SubscribingVersions ==
    ASSUME SourceAssumption, Types, Ownership, Connection, Versioned, Subscribe \/ Subscriptions,
           UNCHANGED <<window, latest, manager, told, storeVars>>
    PROVE  Versioned'
  <1>1. UNCHANGED <<books, session, contexts, latest>>
    BY DEF storeVars
  <1>2. \A a \in Assets : PathOf(a)
    BY DEF Versioned, Paths
  <1>3. CASE Subscribe
    <2>1. \A a \in Assets : Path(a) = {}
      BY <1>2, <1>3 DEF Subscribe, PathOf
    <2>2. /\ UNCHANGED <<frame, sid, line, assets, cache, desired>> /\ pc' = "reading"
          /\ subscribed' = initial /\ Subscribed(initial)
      BY <1>3 DEF Subscribe
    <2>3. initial \subseteq Assets /\ IsFiniteSet(initial) /\ \A a \in initial : Known(a)
      BY <1>3, FiniteParts DEF Subscribe, Types, RunTypes, Ownership
    <2>4. /\ link' = link /\ version' = version
          /\ \/ inbox' = inbox /\ listed' = listed
             \/ /\ listed' = listed \cup initial
                /\ \E R \in Seq(Seq(Message)) : Answers(R, initial) /\ inbox' = inbox \o R
      BY <2>2, <2>3, SubscribedTypes
    <2>5. desired \subseteq Assets
      BY DEF Types, AssetTypes
    <2>6. CASE inbox' = inbox /\ listed' = listed
      <3>1. Quiet
        BY <1>1, <2>1, <2>2, <2>4, <2>6 DEF Quiet
      <3> QED
        BY <3>1, QuietKeeps
    <2>7. CASE /\ listed' = listed \cup initial
               /\ \E R \in Seq(Seq(Message)) : Answers(R, initial) /\ inbox' = inbox \o R
      <3>1. PICK R \in Seq(Seq(Message)) : Answers(R, initial) /\ inbox' = inbox \o R
        BY <2>7
      <3>2. Answered(initial, R)
        BY <1>1, <2>1, <2>2, <2>3, <2>4, <2>5, <2>7, <3>1 DEF Answered
      <3> QED
        BY <2>3, <3>2, AnsweredKeeps
    <2> QED
      BY <2>4, <2>6, <2>7
  <1>4. ASSUME Subscriptions PROVE pc \notin {"announcing", "subscribing"}
    <2>1. subs.at # "none"
      BY <1>4 DEF Subscriptions, SubsWake, SubsAdd, SubsRemove, SubsFails
    <2>2. subs # NoSubs
      BY <2>1 DEF NoSubs
    <2> QED
      BY <2>2 DEF Connection
  <1>5. \A a \in Assets : pc = "reading" /\ a \in desired \ subscribed => Path(a) = {}
    BY <1>2 DEF PathOf
  <1>6. ASSUME NEW X \in SUBSET retiring, SubsWake(X) PROVE Versioned'
    <2>1. /\ UNCHANGED <<frame, inbox, link, listed, sid, pc, line, version, subscribed>>
          /\ desired' = desired \ X /\ assets' = assets \ X
          /\ cache' = [a \in Assets |-> IF a \in X THEN {} ELSE cache[a]]
      BY <1>6 DEF SubsWake, Expired, runVars, netVars
    <2>2. pc \notin {"announcing", "subscribing"}
      BY <1>4, <1>6 DEF Subscriptions
    <2>3. Quiet
      BY <1>1, <1>5, <2>1, <2>2 DEF Quiet
    <2> QED
      BY <2>3, QuietKeeps
  <1>7. ASSUME SubsAdd PROVE Versioned'
    <2>1. pc \notin {"announcing", "subscribing"}
      BY <1>4, <1>7 DEF Subscriptions
    <2>2. UNCHANGED <<frame, sid, pc, line, assets, cache, desired>>
      BY <1>7 DEF SubsAdd, runVars
    <2>3. CASE subs.added = {}
      <3>1. UNCHANGED <<inbox, link, listed, version, subscribed>>
        BY <1>7, <2>3 DEF SubsAdd, netVars
      <3>2. Quiet
        BY <1>1, <1>5, <2>1, <2>2, <3>1 DEF Quiet
      <3> QED
        BY <3>2, QuietKeeps
    <2>4. CASE subs.added # {}
      <3> DEFINE A == subs.added
      <3>1. /\ Subscribed(A) /\ subscribed' = subscribed \cup A /\ link # "down"
        BY <1>7, <2>4 DEF SubsAdd
      <3>2. A \subseteq desired /\ desired \subseteq Assets /\ IsFiniteSet(A)
        BY FiniteParts DEF Connection, Types, AssetTypes
      <3>3. pc = "reading"
        BY <2>1, <3>1 DEF Connection
      <3>4. \A a \in A : Path(a) = {} /\ Known(a)
        BY <1>5, <3>2, <3>3 DEF Connection, Ownership
      <3>5. /\ link' = link /\ version' = version
            /\ \/ inbox' = inbox /\ listed' = listed
               \/ /\ listed' = listed \cup A
                  /\ \E R \in Seq(Seq(Message)) : Answers(R, A) /\ inbox' = inbox \o R
        BY <3>1, <3>2, SubscribedTypes
      <3>6. CASE inbox' = inbox /\ listed' = listed
        <4>1. Quiet
          BY <1>1, <1>5, <2>1, <2>2, <3>1, <3>3, <3>5, <3>6 DEF Quiet
        <4> QED
          BY <4>1, QuietKeeps
      <3>7. CASE /\ listed' = listed \cup A
                 /\ \E R \in Seq(Seq(Message)) : Answers(R, A) /\ inbox' = inbox \o R
        <4>1. PICK R \in Seq(Seq(Message)) : Answers(R, A) /\ inbox' = inbox \o R
          BY <3>7
        <4>2. Answered(A, R)
          BY <1>1, <1>5, <2>2, <3>1, <3>2, <3>3, <3>4, <3>5, <3>7, <4>1 DEF Answered
        <4>3. A \in SUBSET Assets
          BY <3>2
        <4> QED
          BY <4>2, <4>3, AnsweredKeeps
      <3> QED
        BY <3>5, <3>6, <3>7
    <2> QED
      BY <2>3, <2>4
  <1>8. ASSUME SubsRemove PROVE Versioned'
    <2>1. /\ UNCHANGED <<frame, sid, pc, line, inbox, link, version, assets, cache, desired>>
          /\ listed' \subseteq listed
          /\ subscribed' = subscribed \/ subscribed' = subscribed \ subs.removed
      BY <1>8 DEF SubsRemove, runVars, netVars
    <2>2. pc \notin {"announcing", "subscribing"}
      BY <1>4, <1>8 DEF Subscriptions
    <2>3. desired \ subscribed' = desired \ subscribed
      BY <2>1 DEF Connection
    <2>4. Quiet
      BY <1>1, <1>5, <2>1, <2>2, <2>3 DEF Quiet
    <2> QED
      BY <2>4, QuietKeeps
  <1>9. ASSUME SubsFails PROVE Versioned'
    <2>1. UNCHANGED <<runVars, assetVars, frame, netVars, line>>
      BY <1>9 DEF SubsFails
    <2>2. pc \notin {"announcing", "subscribing"}
      BY <1>4, <1>9 DEF Subscriptions
    <2>3. Quiet
      BY <1>1, <1>5, <2>1, <2>2 DEF Quiet, runVars, assetVars, netVars
    <2> QED
      BY <2>3, QuietKeeps
  <1> QED
    BY <1>3, <1>6, <1>7, <1>8, <1>9 DEF Subscriptions

-----------------------------------------------------------------------------
(* Versions: the exchange and the network.                                 *)

LEMMA Beginning ==
    ASSUME NEW S, NEW s \in Seq(S), NEW n \in 0..Len(s)
    PROVE  /\ DOMAIN SubSeq(s, 1, n) = 1..n
           /\ \A k \in DOMAIN SubSeq(s, 1, n) :
                k \in Nat /\ k <= n /\ k \in DOMAIN s /\ SubSeq(s, 1, n)[k] = s[k]
           /\ \A k \in DOMAIN s : k \in DOMAIN SubSeq(s, 1, n) \/ (k \in Nat /\ k > n)
  OBVIOUS

\* The last frames are lost with the connection.
LEMMA LosingVersions ==
    ASSUME SourceAssumption, Types, Versioned, Lose, UNCHANGED <<window, latest, manager, told, storeVars>>
    PROVE  Versioned'
  <1>1. /\ UNCHANGED <<books, session, contexts, latest, frame, sid, pc, line, version, listed>>
        /\ UNCHANGED <<assets, cache, desired, subscribed>>
        /\ link' = "lost"
    BY DEF storeVars, Lose, runVars, assetVars
  <1>2. Added
    BY <1>1 DEF Added
  <1>3. Contents' /\ Lines' /\ \A a, s : Held(a, s)' = Held(a, s)
    BY <1>1, <1>2, SameHeld DEF Versioned, Types
  <1>4. PICK n \in 0..Len(inbox) : inbox' = SubSeq(inbox, 1, n)
    BY DEF Lose
  <1>5. inbox \in Seq(Seq(Message)) /\ n \in Nat
    BY DEF Types, NetTypes
  <1>6. /\ \A k \in DOMAIN inbox' : k \in Nat /\ k <= n /\ k \in DOMAIN inbox /\ inbox'[k] = inbox[k]
        /\ \A k \in DOMAIN inbox : k \in DOMAIN inbox' \/ (k \in Nat /\ k > n)
    BY <1>4, <1>5, Beginning
  <1>7. \A a : /\ Held(a, sid)' = Held(a, sid) /\ Framed(a)' = Framed(a)
               /\ Boxed(a)' \subseteq Boxed(a)
    BY <1>1, <1>3, <1>6 DEF Framed, Boxed
  <1>8. FrameInOrder'
    BY <1>1, <1>3 DEF Versioned, FrameInOrder
  <1>9. InboxInOrder'
    <2>1. InboxInOrder
      BY DEF Versioned
    <2>2. \A k \in DOMAIN inbox' : \A i \in DOMAIN inbox'[k] :
          \A v \in Held(inbox'[k][i].asset, sid) \cup Framed(inbox'[k][i].asset) :
            inbox'[k][i].kind = "change" /\ v < inbox'[k][i].version
      BY <1>6, <2>1 DEF InboxInOrder, After
    <2> QED
      BY <1>1, <1>6, <1>7, <2>1, <2>2 DEF InboxInOrder, After
  <1>10. NothingSeen'
    <2> SUFFICES ASSUME NEW a \in Assets PROVE Unseen(a)'
      BY DEF NothingSeen
    <2>1. Unseen(a)
      BY DEF Versioned, NothingSeen
    <2> QED
      BY <1>1, <1>6, <2>1 DEF Unseen, ChangeIdentity
  <1>11. ASSUME NEW a \in Assets PROVE PathOf(a)'
    <2>1. Path(a) = Held(a, sid) \cup Framed(a) \cup Boxed(a)
          /\ Path(a)' = Held(a, sid) \cup Framed(a) \cup Boxed(a)'
      BY <1>7 DEF Path
    <2>2. PathOf(a) /\ (Known(a)' <=> Known(a)) /\ Path(a)' \subseteq Path(a)
      BY <1>1, <1>7, <2>1 DEF Versioned, Paths, Known
    <2>3. ASSUME NEW y \in Path(a) \ Path(a)', NEW z \in Path(a)' PROVE z < y
      <3>1. y \in Boxed(a) /\ y \notin Boxed(a)' /\ y \in Versions
        BY <2>1, <2>3 DEF Boxed
      <3>2. PICK k \in DOMAIN inbox : \E i \in DOMAIN inbox[k] :
              inbox[k][i].asset = a /\ inbox[k][i].version = y
        BY <3>1 DEF Boxed
      <3>3. PICK i \in DOMAIN inbox[k] : inbox[k][i].asset = a /\ inbox[k][i].version = y
        BY <3>2
      <3>4. k \notin DOMAIN inbox' /\ k \in Nat /\ k > n
        BY <1>6, <3>1, <3>3 DEF Boxed
      <3>5. CASE z \in Held(a, sid) \cup Framed(a)
        <4>1. After(inbox[k][i], Held(a, sid) \cup Framed(a))
          BY <3>3 DEF Versioned, InboxInOrder
        <4> QED
          BY <3>3, <3>5, <4>1 DEF After
      <3>6. CASE z \in Boxed(a)'
        <4>1. PICK l \in DOMAIN inbox' : \E j \in DOMAIN inbox'[l] :
                inbox'[l][j].asset = a /\ inbox'[l][j].version = z
          BY <3>6 DEF Boxed
        <4>2. l \in DOMAIN inbox /\ l < k /\ inbox'[l] = inbox[l]
          BY <1>5, <1>6, <3>4, <4>1
        <4>3. PICK j \in DOMAIN inbox[l] : inbox[l][j].asset = a /\ inbox[l][j].version = z
          BY <4>1, <4>2
        <4>4. After(inbox[k][i], {inbox[l][j].version})
          BY <3>3, <4>2, <4>3 DEF Versioned, InboxInOrder
        <4> QED
          BY <3>3, <4>3, <4>4 DEF After
      <3> QED
        BY <2>1, <2>3, <3>5, <3>6
    <2>4. NoHoles(Path(a)) => NoHoles(Path(a)')
      <3> SUFFICES ASSUME NoHoles(Path(a)), NEW x \in Path(a)', NEW z \in Path(a)', NEW y \in Versions,
                          x < y, y < z, y \notin Path(a)'
                   PROVE  FALSE
        BY DEF NoHoles
      <3>1. y \in Path(a)
        BY <2>2 DEF NoHoles
      <3>2. z < y
        BY <2>3, <3>1
      <3>3. y \in Nat /\ z \in Nat
        BY <2>2, PathNumbers
      <3> QED
        BY <3>2, <3>3
    <2> QED
      BY <1>1, <2>2, <2>4 DEF PathOf, NoHoles
  <1>12. Paths'
    BY <1>11 DEF Paths
  <1> QED
    BY <1>3, <1>8, <1>9, <1>10, <1>12 DEF Versioned

\* The book of asset b changes.
LEMMA TradingVersions ==
    ASSUME SourceAssumption, Types, Ownership, Connection, Versioned, NEW b \in Assets, Trade(b),
           UNCHANGED <<window, latest, manager, told, storeVars>>
    PROVE  Versioned'
  <1>1. /\ UNCHANGED <<books, session, contexts, latest, frame, sid, pc, line, link, listed>>
        /\ UNCHANGED <<assets, cache, desired, subscribed>>
    BY DEF storeVars, Trade, runVars, assetVars
  <1>2. Added
    BY <1>1 DEF Added
  <1>3. Contents' /\ Lines' /\ \A a, s : Held(a, s)' = Held(a, s)
    BY <1>1, <1>2, SameHeld DEF Versioned, Types
  <1>31. PICK v : v = version[b] + 1
    OBVIOUS
  <1>4. /\ v \in Versions /\ v \in Nat /\ version[b] \in Nat /\ version[b] \in Versions
        /\ v > version[b] /\ v = version[b] + 1
        /\ version' = [version EXCEPT ![b] = v]
        /\ Versions \subseteq Nat
    BY <1>31 DEF Trade, Types, NetTypes, Versions, SourceAssumption
  <1>5. version'[b] = v /\ \A a \in Assets : a # b => version'[a] = version[a]
    BY <1>4 DEF Types, NetTypes
  <1>6. \A a \in Assets : version[a] <= version'[a] /\ version[a] \in Nat /\ version'[a] \in Nat
    <2>1. \A a \in Assets : version[a] \in Nat
      BY <1>4 DEF Types, NetTypes
    <2>2. \A a \in Assets : IF a = b THEN version'[a] = v ELSE version'[a] = version[a]
      BY <1>5
    <2> QED
      BY <1>4, <2>1, <2>2
  <1>7. /\ FrameInOrder /\ InboxInOrder /\ Paths /\ NothingSeen
    BY DEF Versioned
  <1>8. FrameInOrder'
    BY <1>1, <1>3, <1>7 DEF FrameInOrder
  <1>9. \A a : Held(a, sid)' = Held(a, sid) /\ Framed(a)' = Framed(a)
    BY <1>1, <1>3 DEF Framed
  <1>10. \A a : \A x \in Path(a) : x \in Nat
    BY PathNumbers
  <1>11. CASE ~(b \in listed /\ link = "up")
    <2>1. inbox' = inbox
      BY <1>11 DEF Trade
    <2>2. InboxInOrder'
      BY <1>1, <1>3, <1>7, <1>9, <2>1 DEF InboxInOrder
    <2>3. NothingSeen'
      <3> SUFFICES ASSUME NEW a \in Assets PROVE Unseen(a)'
        BY DEF NothingSeen
      <3>1. Unseen(a)
        BY <1>7 DEF NothingSeen
      <3>2. \A x \in Versions : ChangeIdentity(x) \in cache[a] => x <= version'[a]
        BY <1>4, <1>6, <3>1 DEF Unseen
      <3> QED
        BY <1>1, <2>1, <3>1, <3>2 DEF Unseen, ChangeIdentity
    <2>4. ASSUME NEW a \in Assets PROVE PathOf(a)'
      <3>1. Path(a)' = Path(a)
        BY <1>9, <2>1 DEF Path, Boxed
      <3>2. PathOf(a) /\ (Known(a)' <=> Known(a))
        BY <1>1, <1>7 DEF Paths, Known
      <3>3. \A x \in Path(a) : x <= version'[a]
        BY <1>6, <1>10, <3>2 DEF PathOf
      <3>4. a \in listed /\ link = "up" => version'[a] = version[a]
        BY <1>5, <1>11
      <3>5. NoHoles(Path(a)) => NoHoles(Path(a)')
        BY <3>1
      <3> QED
        BY <1>1, <3>1, <3>2, <3>3, <3>4, <3>5 DEF PathOf, NoHoles
    <2>5. Paths'
      BY <2>4 DEF Paths
    <2> QED
      BY <1>3, <1>8, <2>2, <2>3, <2>5 DEF Versioned
  <1>12. CASE b \in listed /\ link = "up"
    <2>1. PICK m : m = ChangeMessage(b, v)
      OBVIOUS
    <2>2. inbox' = Append(inbox, <<m>>)
      BY <1>12, <1>31, <2>1 DEF Trade
    <2>3. m \in Message /\ m.kind = "change" /\ m.asset = b /\ m.version = v
      BY <1>4, <2>1, MessageTypes DEF Types, ChangeMessage
    <2>4. PICK f : f = <<m>>
      OBVIOUS
    <2>5. f \in Seq(Message) /\ DOMAIN f = {1} /\ f[1] = m
      BY <2>3, <2>4
    <2>6. PICK n : n = Len(inbox) + 1
      OBVIOUS
    <2>7. /\ DOMAIN inbox' = DOMAIN inbox \cup {n} /\ inbox'[n] = f /\ n \notin DOMAIN inbox
          /\ \A k \in DOMAIN inbox : inbox'[k] = inbox[k] /\ k < n /\ k \in Nat
          /\ n \in Nat
      <3>1. inbox \in Seq(Seq(Message))
        BY DEF Types, NetTypes
      <3>2. inbox' = Append(inbox, f)
        BY <2>2, <2>4
      <3> QED
        BY <2>5, <2>6, <3>1, <3>2, OneMore, Indices
    <2>8. /\ \A a : a # b => Boxed(a)' = Boxed(a)
          /\ Boxed(b)' = Boxed(b) \cup {v}
      BY <1>4, <2>3, <2>5, <2>7 DEF Boxed
    <2>9. \A x \in Path(b) : x < v
      <3>1. \A x \in Path(b) : x <= version[b]
        BY <1>7 DEF Paths, PathOf
      <3> QED
        BY <1>4, <1>10, <3>1
    <2>10. /\ \A a : a # b => Path(a)' = Path(a)
           /\ Path(b)' = Path(b) \cup {v}
      BY <1>9, <2>8 DEF Path
    <2>11. InboxInOrder'
      <3>1. \A k \in DOMAIN inbox' : \A i, j \in DOMAIN inbox'[k] :
              inbox'[k][i].asset = inbox'[k][j].asset \/ inbox'[k][i].kind = "change" => i = j
        BY <1>7, <2>5, <2>7 DEF InboxInOrder
      <3>2. ASSUME NEW k \in DOMAIN inbox', NEW l \in DOMAIN inbox', k < l,
                   NEW i \in DOMAIN inbox'[k], NEW j \in DOMAIN inbox'[l],
                   inbox'[k][i].asset = inbox'[l][j].asset
            PROVE  After(inbox'[l][j], {inbox'[k][i].version})
        <4>1. k \in DOMAIN inbox /\ inbox'[k] = inbox[k]
          BY <2>7, <3>2
        <4>2. CASE l \in DOMAIN inbox
          BY <1>7, <2>7, <3>2, <4>1, <4>2 DEF InboxInOrder
        <4>3. CASE l = n
          <5>1. inbox'[l][j] = m /\ inbox[k][i].asset = b
            BY <2>3, <2>5, <2>7, <3>2, <4>1, <4>3
          <5>2. inbox[k][i].version \in Path(b)
            BY <3>2, <4>1, <5>1, Members DEF Path
          <5> QED
            BY <2>3, <2>9, <4>1, <5>1, <5>2 DEF After
        <4> QED
          BY <2>7, <4>2, <4>3
      <3>3. ASSUME NEW k \in DOMAIN inbox', NEW i \in DOMAIN inbox'[k], NEW a, a = inbox'[k][i].asset,
                   NEW x \in Held(a, sid) \cup Framed(a)
            PROVE  inbox'[k][i].kind = "change" /\ x < inbox'[k][i].version
        <4>1. CASE k \in DOMAIN inbox
          BY <1>7, <2>7, <3>3, <4>1 DEF InboxInOrder, After
        <4>2. CASE k = n
          <5>1. inbox'[k][i] = m /\ a = b
            BY <2>3, <2>5, <2>7, <3>3, <4>2
          <5>2. x \in Path(b)
            BY <3>3, <5>1 DEF Path
          <5> QED
            BY <2>3, <2>9, <5>1, <5>2
        <4> QED
          BY <2>7, <4>1, <4>2
      <3> QED
        BY <1>1, <1>9, <3>1, <3>2, <3>3 DEF InboxInOrder, After
    <2>12. NothingSeen'
      <3> SUFFICES ASSUME NEW a \in Assets PROVE Unseen(a)'
        BY DEF NothingSeen
      <3>1. Unseen(a)
        BY <1>7 DEF NothingSeen
      <3>2. \A x \in Versions : ChangeIdentity(x) \in cache[a] => x <= version'[a]
        BY <1>4, <1>6, <3>1 DEF Unseen
      <3>3. ChangeIdentity(v) \notin cache[b]
        <4>1. Unseen(b)
          BY <1>7 DEF NothingSeen
        <4> QED
          BY <1>4, <4>1 DEF Unseen
      <3>4. \A k \in DOMAIN inbox' : \A i \in DOMAIN inbox'[k] :
              (k \in DOMAIN inbox /\ inbox'[k] = inbox[k]) \/ inbox'[k][i] = m
        BY <2>5, <2>7
      <3>5. a \in assets => \A k \in DOMAIN inbox' : \A i \in DOMAIN inbox'[k] :
              inbox'[k][i].asset = a /\ inbox'[k][i].kind = "change" =>
                ChangeIdentity(inbox'[k][i].version) \notin cache[a]
        BY <2>3, <3>1, <3>3, <3>4 DEF Unseen
      <3> QED
        BY <1>1, <3>1, <3>2, <3>5 DEF Unseen, ChangeIdentity
    <2>13. ASSUME NEW a \in Assets PROVE PathOf(a)'
      <3>1. PathOf(a) /\ (Known(a)' <=> Known(a))
        BY <1>1, <1>7 DEF Paths, Known
      <3>2. CASE a # b
        <4>1. Path(a)' = Path(a) /\ version'[a] = version[a]
          BY <1>5, <2>10, <3>2
        <4>2. NoHoles(Path(a)) => NoHoles(Path(a)')
          BY <4>1
        <4> QED
          BY <1>1, <3>1, <4>1, <4>2 DEF PathOf, NoHoles
      <3>3. CASE a = b
        <4>1. Path(a)' = Path(b) \cup {v} /\ version'[a] = v
          BY <1>5, <2>10, <3>3
        <4>2. \A x \in Path(a)' : x <= version'[a]
          BY <1>4, <1>10, <2>9, <4>1
        <4>3. a \in assets => NoHoles(Path(a)')
          <5> SUFFICES ASSUME b \in assets, NEW x \in Path(b) \cup {v}, NEW z \in Path(b) \cup {v},
                              NEW y \in Versions, x < y, y < z
                       PROVE  y \in Path(b)
            BY <3>3, <4>1 DEF NoHoles
          <5>1. y \in Nat /\ x \in Nat /\ z \in Nat /\ z <= v
            BY <1>4, <1>10, <2>9
          <5>2. y <= version[b] /\ x \in Path(b)
            BY <1>4, <2>9, <5>1
          <5>3. version[b] \in Path(b) /\ NoHoles(Path(b))
            BY <1>12, <3>1, <3>3, <5>2 DEF PathOf
          <5>4. CASE y = version[b]
            BY <5>3, <5>4
          <5>5. CASE y # version[b]
            <6>1. y < version[b]
              BY <1>4, <5>1, <5>2, <5>5
            <6> QED
              BY <5>2, <5>3, <6>1 DEF NoHoles
          <5> QED
            BY <5>4, <5>5
        <4>4. version'[a] \in Path(a)'
          BY <4>1
        <4>5. Known(a)' /\ pc' \notin {"announcing", "subscribing"}
              /\ ~(a \in desired' \ subscribed')
          <5>1. pc = "reading"
            BY <1>12 DEF Connection
          <5>2. b \in subscribed
            BY <1>12 DEF Connection
          <5>3. Known(b)
            BY <1>12 DEF Ownership
          <5> QED
            BY <1>1, <3>1, <3>3, <5>1, <5>2, <5>3
        <4>6. a \in assets' => NoHoles(Path(a)')
          BY <1>1, <4>3
        <4> QED
          BY <4>2, <4>4, <4>5, <4>6 DEF PathOf, NoHoles
      <3> QED
        BY <3>2, <3>3
    <2>14. Paths'
      BY <2>13 DEF Paths
    <2> QED
      BY <1>3, <1>8, <2>11, <2>12, <2>14 DEF Versioned
  <1> QED
    BY <1>11, <1>12

LEMMA SourceVersions ==
    ASSUME SourceAssumption, Types, Ownership, Connection, SessionsInOrder, Versioned,
           SourceStep, UNCHANGED <<window, latest, manager, told, storeVars>>
    PROVE  Versioned'
  BY ConnectingVersions, ReceiveVersions, DroppingVersions, HandlingMessage, SubscribingVersions,
     LosingVersions, TradingVersions
     DEF SourceStep, Run, Connecting, Exchange

-----------------------------------------------------------------------------
(* Versions: the market manager and the reducer.                           *)

LEMMA ManagedVersions ==
    ASSUME SourceAssumption, PipelineAssumption, Types, Windows, Ownership, Connection, Versioned,
           NEW tf \in Timeframes, NEW w \in Store!Context, Managed(tf, w)
    PROVE  Versioned'
  <1>1. /\ UNCHANGED <<books, session, contexts, frame, sid, pc, inbox, version, listed, link>>
        /\ UNCHANGED <<cache, subscribed>>
    BY DEF storeVars, runVars, netVars, Managed, OnMarketSnapshot
  <1>2. Added
    <2>1. WindowEvent(tf, w) \in Event
      BY EventTypes
    <2>2. Accepted(tf, w) => Adds(WindowEvent(tf, w))
      BY <2>1, Addition DEF Accepted, Publish, Types
    <2>3. WindowEvent(tf, w).kind \notin Kinds
      BY DEF WindowEvent, Kinds
    <2>4. Refused => line' = line
      BY DEF Refused
    <2> QED
      BY <1>1, <2>1, <2>2, <2>3, <2>4 DEF Added, Managed
  <1>3. Contents' /\ Lines' /\ \A a, s : Held(a, s)' = Held(a, s)
    BY <1>1, <1>2, SameHeld DEF Versioned, Types
  <1>4. \A a : Held(a, sid)' = Held(a, sid) /\ Framed(a)' = Framed(a) /\ Boxed(a)' = Boxed(a)
    BY <1>1, <1>3 DEF Framed, Boxed
  <1>5. FrameInOrder'
    BY <1>1, <1>3 DEF Versioned, FrameInOrder
  <1>6. InboxInOrder'
    BY <1>1, <1>3, <1>4 DEF Versioned, InboxInOrder
  <1>7. /\ \A a \in desired' : a \in desired \/ ~Known(a)
        /\ \A a \in Assets : Known(a) => Known(a)'
        /\ assets = desired /\ assets' = desired'
    <2>1. Ownership'
      BY ManagedOwns
    <2> QED
      BY <2>1, ManagedOwns DEF Ownership
  <1>8. \A a \in Assets : PathOf(a) /\ Unseen(a)
    BY DEF Versioned, Paths, NothingSeen
  <1>9. \A a \in Assets : a \in assets' => a \in assets \/ Path(a) = {}
    BY <1>7, <1>8 DEF PathOf
  <1>10. ASSUME NEW a \in Assets PROVE Unseen(a)'
    <2>1. ASSUME Path(a) = {}
          PROVE  /\ \A i \in DOMAIN frame : frame[i].asset # a
                 /\ \A k \in DOMAIN inbox : \A i \in DOMAIN inbox[k] : inbox[k][i].asset # a
      BY <2>1, Members DEF Path
    <2>2. CASE a \in assets
      BY <1>1, <1>8, <2>2 DEF Unseen, ChangeIdentity
    <2>3. CASE a \notin assets
      <3>1. a \in assets' => Path(a) = {}
        BY <1>9, <2>3
      <3>2. \A v \in Versions : ChangeIdentity(v) \in cache[a] => v <= version[a]
        BY <1>8 DEF Unseen
      <3> QED
        BY <1>1, <2>1, <3>1, <3>2 DEF Unseen, ChangeIdentity
    <2> QED
      BY <2>2, <2>3
  <1>11. ASSUME NEW a \in Assets PROVE PathOf(a)'
    <2>1. Path(a)' = Path(a)
      BY <1>4 DEF Path
    <2>2. PathOf(a) /\ (Known(a) => Known(a)')
      BY <1>7, <1>8
    <2>3. NoHoles(Path(a)) => NoHoles(Path(a)')
      BY <2>1
    <2>4. CASE Path(a) = {}
      <3>1. NoHoles(Path(a)')
        BY <2>1, <2>4 DEF NoHoles
      <3> QED
        BY <2>1, <2>4, <3>1 DEF PathOf, NoHoles
    <2>5. CASE Path(a) # {}
      <3>1. (a \in assets' => a \in assets) /\ (a \in desired' => a \in desired)
        BY <1>7, <1>9, <2>5
      <3> QED
        BY <1>1, <2>1, <2>2, <2>3, <2>5, <3>1 DEF PathOf, NoHoles
    <2> QED
      BY <2>4, <2>5
  <1>12. Paths' /\ NothingSeen'
    BY <1>10, <1>11 DEF Paths, NothingSeen
  <1> QED
    BY <1>3, <1>5, <1>6, <1>12 DEF Versioned

\* What an event e makes of the books: e is the first event of asset b in
\* session s, or it is no event of theirs, and what the store has of them stays
\* or goes; or it puts the version of e in the place of the one before it.
BookKept(b, s) == Live(b, s)' = Live(b, s) \/ Live(b, s)' = {}
BookTaken(e, b, s) ==
    /\ OfBook(e, b, s)
    /\ \/ Live(b, s) = {} /\ Live(b, s)' = {}
       \/ /\ Live(b, s)' = {e.version}
          /\ \A v \in Live(b, s) : v < e.version

\* An event which is of no book, or of another one.
LEMMA OtherHeld ==
    ASSUME SourceAssumption, Types, NEW e, Takes(e), NEW b \in Assets, NEW s \in 0..MaxSessions,
           LineInOrder(b, s), ~OfBook(e, b, s), BookKept(b, s)
    PROVE  LineInOrder(b, s)' /\ Trims(Held(b, s), Held(b, s)')
  <1>1. \A i \in DOMAIN line' : i \in Nat /\ i + 1 \in DOMAIN line /\ line'[i] = line[i + 1]
    BY DEF Takes
  <1>2. \A j \in DOMAIN line : OfBook(line[j], b, s) =>
          \E i \in DOMAIN line' : line'[i] = line[j]
    BY DEF Takes
  <1>3. Lined(b, s)' = Lined(b, s)
    BY <1>1, <1>2 DEF Lined
  <1>4. \A i \in DOMAIN line : OfBook(line[i], b, s) => After(line[i], Live(b, s))
    BY DEF LineInOrder
  <1>5. Trims(Held(b, s), Held(b, s)')
    <2>1. CASE Live(b, s)' = Live(b, s)
      BY <1>3, <2>1 DEF Held, Trims
    <2>2. CASE Live(b, s)' = {}
      <3>1. Held(b, s) = Live(b, s) \cup Lined(b, s) /\ Held(b, s)' = Lined(b, s)
        BY <1>3, <2>2 DEF Held
      <3>2. \A x \in Live(b, s) : \A y \in Lined(b, s) : x < y
        BY <1>4 DEF Lined, After
      <3> QED
        BY <3>1, <3>2 DEF Trims
    <2> QED
      BY <2>1, <2>2 DEF BookKept
  <1>6. NoHoles(Held(b, s)')
    BY <1>5, Trimmed, PathNumbers DEF LineInOrder
  <1>7. \A i, j \in DOMAIN line' : i < j => i + 1 < j + 1
    BY <1>1
  <1>8. \A i, j \in DOMAIN line' :
          i < j /\ OfBook(line'[i], b, s) /\ OfBook(line'[j], b, s) => After(line'[j], {line'[i].version})
    BY <1>1, <1>7 DEF LineInOrder
  <1>9. \A i \in DOMAIN line' : OfBook(line'[i], b, s) => After(line'[i], Live(b, s)')
    BY <1>1, <1>4 DEF BookKept, After
  <1>10. LineInOrder(b, s)'
    BY <1>6, <1>8, <1>9 DEF LineInOrder
  <1> QED
    BY <1>5, <1>10

\* The first event of a book.
LEMMA OwnHeld ==
    ASSUME SourceAssumption, Types, NEW e, Takes(e), NEW b \in Assets, NEW s \in 0..MaxSessions,
           LineInOrder(b, s), BookTaken(e, b, s)
    PROVE  LineInOrder(b, s)' /\ Trims(Held(b, s), Held(b, s)')
  <1>1. \A i \in DOMAIN line' : i \in Nat /\ i + 1 \in DOMAIN line /\ 1 < i + 1 /\ line'[i] = line[i + 1]
    BY DEF Takes
  <1>2. \A j \in DOMAIN line : j = 1 \/ \E i \in DOMAIN line' : line'[i] = line[j]
    BY DEF Takes
  <1>3. 1 \in DOMAIN line /\ line[1] = e /\ OfBook(e, b, s)
    BY DEF Takes, BookTaken
  <1>4. \A i \in DOMAIN line' : OfBook(line'[i], b, s) => After(line'[i], {e.version})
    BY <1>1, <1>3 DEF LineInOrder
  <1>5. e.version \in Lined(b, s) /\ e.version \in Versions
    BY <1>3, Members
  <1>6. Lined(b, s) = Lined(b, s)' \cup {e.version}
    BY <1>1, <1>2, <1>3, <1>5 DEF Lined
  <1>7. \A y \in Lined(b, s)' : e.version < y
    BY <1>4 DEF Lined, After
  <1>8. Trims(Held(b, s), Held(b, s)')
    <2>1. CASE Live(b, s) = {} /\ Live(b, s)' = {}
      BY <1>6, <1>7, <2>1 DEF Held, Trims
    <2>2. CASE Live(b, s)' = {e.version} /\ \A v \in Live(b, s) : v < e.version
      <3>1. Held(b, s) = Live(b, s) \cup Held(b, s)'
        BY <1>6, <2>2 DEF Held
      <3>2. \A x \in Live(b, s) : \A y \in Held(b, s)' : x < y
        <4>1. \A x \in Live(b, s) : x \in Nat
          BY PathNumbers
        <4>2. \A y \in Lined(b, s)' : y \in Nat
          BY PathNumbers
        <4>3. e.version \in Nat
          BY <1>5, PathNumbers
        <4>4. \A y \in Held(b, s)' : y = e.version \/ y \in Lined(b, s)'
          BY <2>2 DEF Held
        <4> QED
          BY <1>7, <2>2, <4>1, <4>2, <4>3, <4>4
      <3> QED
        BY <3>1, <3>2 DEF Trims
    <2> QED
      BY <2>1, <2>2 DEF BookTaken
  <1>9. NoHoles(Held(b, s)')
    BY <1>8, Trimmed, PathNumbers DEF LineInOrder
  <1>10. \A i, j \in DOMAIN line' : i < j => i + 1 < j + 1
    BY <1>1
  <1>11. \A i, j \in DOMAIN line' :
          i < j /\ OfBook(line'[i], b, s) /\ OfBook(line'[j], b, s) => After(line'[j], {line'[i].version})
    BY <1>1, <1>10 DEF LineInOrder
  <1>12. \A i \in DOMAIN line' : OfBook(line'[i], b, s) => After(line'[i], Live(b, s)')
    BY <1>4 DEF BookTaken, After
  <1>13. LineInOrder(b, s)'
    BY <1>9, <1>11, <1>12 DEF LineInOrder
  <1> QED
    BY <1>8, <1>13

\* A change of an initialized book is the one that follows its version.
LEMMA NextVersion ==
    ASSUME SourceAssumption, Types, Contents, NEW e, Takes(e), NEW b \in Assets, OfBook(e, b, session),
           session \in 0..MaxSessions, LineInOrder(b, session), Initialized(b)
    PROVE  /\ e.kind = "change" /\ books[b].content \in Versions /\ books[b].content = e.version - 1
           /\ Live(b, session) = {books[b].content}
  <1> DEFINE c == books[b].content
  <1>1. c \in Versions /\ Live(b, session) = {c}
    BY DEF Contents, Live, Initialized
  <1>2. 1 \in DOMAIN line /\ line[1] = e
        /\ \A j \in DOMAIN line : j \in Nat /\ j >= 1
    BY DEF Takes
  <1>3. e.version \in Lined(b, session) /\ e.version \in Versions
    BY <1>2, Members
  <1>4. After(e, Live(b, session))
    BY <1>2 DEF LineInOrder
  <1>5. e.kind = "change" /\ c < e.version
    BY <1>1, <1>4 DEF After
  <1>6. c \in Nat /\ e.version \in Nat /\ c + 1 \in Versions
    <2>1. c \in 1..MaxVersion /\ e.version \in 1..MaxVersion /\ MaxVersion \in Nat
      BY <1>1, <1>3 DEF Versions, SourceAssumption
    <2>2. c + 1 \in 1..MaxVersion
      BY <1>5, <2>1
    <2> QED
      BY <2>1, <2>2 DEF Versions
  <1> HIDE DEF c
  <1>7. ASSUME c + 1 < e.version PROVE FALSE
    <2>1. c \in Held(b, session) /\ e.version \in Held(b, session)
      BY <1>1, <1>3 DEF Held
    <2>2. c + 1 \in Held(b, session)
      BY <1>6, <1>7, <2>1 DEF LineInOrder, NoHoles
    <2>3. c + 1 \notin Live(b, session)
      BY <1>1, <1>6
    <2>4. PICK j \in DOMAIN line : OfBook(line[j], b, session) /\ line[j].version = c + 1
      BY <2>2, <2>3 DEF Held, Lined
    <2>5. j # 1
      BY <1>2, <1>6, <1>7, <2>4
    <2>6. After(line[j], {e.version})
      BY <1>2, <2>4, <2>5 DEF LineInOrder
    <2> QED
      BY <1>6, <1>7, <2>4, <2>6 DEF After
  <1> QED
    BY <1>1, <1>5, <1>6, <1>7 DEF c

\* What a step of the reducer makes of the books.
LEMMA ReducedBooks ==
    ASSUME SourceAssumption, PipelineAssumption, Types, SessionsInOrder, Announced,
           Contents, Lines, NEW e, Reduced(e)
    PROVE  /\ Contents'
           /\ \A b \in Assets : \A s \in 0..MaxSessions :
                IF OfBook(e, b, s) THEN BookTaken(e, b, s) ELSE BookKept(b, s)
  <1>1. /\ Takes(e)
        /\ IsUp(e) => session' = e.session /\ session < e.session
        /\ ~IsUp(e) => session' = session
        /\ e.kind \in Kinds => e.session = session
    BY ReducedInOrder
  <1>2. /\ e.kind = "status" => e.up \in BOOLEAN /\ e.session \in Sessions
        /\ e.kind \in Kinds => e.asset \in Assets /\ e.version \in Versions
    BY EventsAre DEF Reduced
  <1>3. session \in 0..MaxSessions /\ session \in Nat
    BY DEF Types, StoreTypes, Sessions, NoSession, SourceAssumption
  <1>4. books \in [Assets -> Store!Book \cup {NoBook}]
    BY DEF Types, StoreTypes
  <1>5. ASSUME StatusReduced(e)
        PROVE  Contents' /\ \A b \in Assets : \A s : ~OfBook(e, b, s) /\ BookKept(b, s)
    <2>1. books' = [a \in Assets |-> Store!Invalidated(books[a])]
      <3>1. e.kind = "status" /\ (~e.up \/ e.session # session)
        BY <1>1, <1>2, <1>3, <1>5 DEF StatusReduced, IsUp, Sessions
      <3> QED
        BY <1>5, <3>1 DEF StatusReduced
    <2>2. \A a \in Assets : /\ books[a] = NoBook => books'[a] = NoBook
                            /\ books[a] # NoBook => books'[a].initialized = FALSE
      <3> SUFFICES ASSUME NEW a \in Assets, books[a] # NoBook PROVE books'[a].initialized = FALSE
        BY <2>1 DEF Store!Invalidated
      <3>1. books[a] \in Store!Book
        BY <1>4
      <3> QED
        BY <2>1, <3>1 DEF Store!Invalidated, Store!Book
    <2>3. \A a \in Assets : ~(books'[a] # NoBook /\ books'[a].initialized)
      BY <2>2
    <2>4. \A b \in Assets : \A s : Live(b, s)' = {}
      BY <2>3 DEF Live, Initialized
    <2>5. Contents'
      BY <1>5, <2>2, <2>3 DEF StatusReduced, Contents, Store!Referenced, Store!ReferencedBy
    <2>6. \A b, s : ~OfBook(e, b, s)
      BY <1>5 DEF StatusReduced, OfBook, Kinds
    <2> QED
      BY <2>4, <2>5, <2>6 DEF BookKept
  <1>6. ASSUME WindowReduced(e)
        PROVE  Contents' /\ \A b \in Assets : \A s : ~OfBook(e, b, s) /\ BookKept(b, s)
    <2>1. \A a \in Assets : books'[a] = IF Store!ReferencedBy(contexts', a) THEN books[a] ELSE NoBook
      BY <1>6 DEF WindowReduced, Store!Pruned, Assets, Store!Assets
    <2>2. \A b \in Assets : \A s : Live(b, s)' = Live(b, s) \/ Live(b, s)' = {}
      BY <1>6, <2>1 DEF WindowReduced, Live, Initialized
    <2>3. Contents'
      BY <2>1 DEF Contents, Store!Referenced, Store!ReferencedBy
    <2>4. \A b, s : ~OfBook(e, b, s)
      BY <1>6 DEF WindowReduced, OfBook, Kinds
    <2> QED
      BY <2>2, <2>3, <2>4 DEF BookKept
  <1>7. ASSUME e.kind \in Kinds, Ignored(e.asset, e.session)
        PROVE  /\ Contents'
               /\ \A b \in Assets : \A s \in 0..MaxSessions :
                    IF OfBook(e, b, s) THEN BookTaken(e, b, s) ELSE BookKept(b, s)
    <2>1. UNCHANGED <<contexts, books, session>> /\ ~Store!Referenced(e.asset)
      BY <1>1, <1>7 DEF Ignored, Store!Stale
    <2>2. \A b \in Assets : \A s : Live(b, s)' = Live(b, s)
      BY <2>1 DEF Live, Initialized
    <2>3. \A s : Live(e.asset, s) = {}
      BY <1>2, <1>7, <2>1 DEF Contents, Live, Initialized
    <2>4. Contents'
      BY <2>1 DEF Contents, Store!Referenced, Store!ReferencedBy
    <2>5. ASSUME NEW b \in Assets, NEW s, OfBook(e, b, s) PROVE BookTaken(e, b, s)
      <3>1. b = e.asset
        BY <2>5 DEF OfBook
      <3>2. Live(b, s) = {} /\ Live(b, s)' = {}
        BY <2>2, <2>3, <3>1
      <3> QED
        BY <2>5, <3>2 DEF BookTaken
    <2> QED
      BY <2>2, <2>4, <2>5 DEF BookKept
  <1>8. ASSUME e.kind \in Kinds, NEW bk \in Store!Book, MakesBook(e.asset, e.session, bk),
               bk.initialized => bk.content = e.version,
               bk.initialized \/ ~Initialized(e.asset)
        PROVE  /\ Contents'
               /\ \A b \in Assets : \A s \in 0..MaxSessions :
                    IF OfBook(e, b, s) THEN BookTaken(e, b, s) ELSE BookKept(b, s)
    <2>1. UNCHANGED <<contexts, session>> /\ books' = [books EXCEPT ![e.asset] = bk]
          /\ Store!Referenced(e.asset)
      BY <1>8 DEF MakesBook
    <2>2. PICK a \in Assets : a = e.asset
      BY <1>2, <1>8
    <2>3. books'[a] = bk /\ \A b \in Assets : b # a => books'[b] = books[b]
      BY <1>4, <2>1, <2>2
    <2>4. e.version \in Versions /\ e.session = session
      BY <1>1, <1>2, <1>8
    <2>5. Contents'
      <3>1. \A b \in Assets : Store!Referenced(b)' <=> Store!Referenced(b)
        BY <2>1 DEF Store!Referenced, Store!ReferencedBy
      <3>2. \A b \in Assets : books'[b] # NoBook =>
               Store!Referenced(b) /\ (books'[b].initialized => books'[b].content \in Versions)
        BY <1>8, <2>1, <2>2, <2>3, <2>4 DEF Contents
      <3> QED
        BY <3>1, <3>2 DEF Contents
    <2>6. ASSUME NEW b \in Assets, NEW s, ~OfBook(e, b, s) PROVE Live(b, s)' = Live(b, s)
      <3>1. CASE b # a
        BY <2>1, <2>3, <3>1 DEF Live, Initialized
      <3>2. CASE b = a
        <4>1. s # session
          BY <1>8, <2>2, <2>4, <2>6, <3>2 DEF OfBook
        <4> QED
          BY <2>1, <4>1 DEF Live
      <3> QED
        BY <3>1, <3>2
    <2>7. ASSUME NEW b \in Assets, NEW s \in 0..MaxSessions, OfBook(e, b, s) PROVE BookTaken(e, b, s)
      <3>1. b = a /\ s = session
        BY <2>2, <2>4, <2>7 DEF OfBook
      <3>2. After(e, Live(b, s))
        <4>1. LineInOrder(b, s)
          BY DEF Lines
        <4>2. 1 \in DOMAIN line /\ line[1] = e
          BY <1>1 DEF Takes
        <4> QED
          BY <2>7, <4>1, <4>2 DEF LineInOrder
      <3>3. CASE bk.initialized
        <4>1. bk # NoBook
          BY <1>8 DEF PipelineAssumption
        <4>2. Live(b, s)' = {e.version}
          BY <1>8, <2>1, <2>3, <2>4, <3>1, <3>3, <4>1 DEF Live, Initialized
        <4>3. \A v \in Live(b, s) : v < e.version
          BY <3>2 DEF After
        <4> QED
          BY <2>7, <4>2, <4>3 DEF BookTaken
      <3>4. CASE ~bk.initialized
        <4>1. Live(b, s)' = {}
          BY <2>3, <3>1, <3>4 DEF Live, Initialized
        <4>2. Live(b, s) = {}
          BY <1>8, <2>2, <3>1, <3>4 DEF Live
        <4> QED
          BY <2>7, <4>1, <4>2 DEF BookTaken
      <3> QED
        BY <3>3, <3>4
    <2> QED
      BY <2>5, <2>6, <2>7 DEF BookKept
  <1>9. CASE FullBookReduced(e)
    BY <1>7, <1>8, <1>9 DEF FullBookReduced, Kinds
  <1>10. CASE ChangeReduced(e)
    <2>1. e.kind \in Kinds
      BY <1>10 DEF ChangeReduced, Kinds
    <2>2. CASE Ignored(e.asset, e.session)
      BY <1>7, <2>1, <2>2
    <2>3. ASSUME NEW bk \in Store!Book, MakesBook(e.asset, e.session, bk),
                 bk.initialized => /\ Initialized(e.asset)
                                   /\ bk.content \in Store!Changed(books[e.asset].content, e.version),
                 Initialized(e.asset) => bk.initialized
          PROVE  /\ Contents'
                 /\ \A b \in Assets : \A s \in 0..MaxSessions :
                      IF OfBook(e, b, s) THEN BookTaken(e, b, s) ELSE BookKept(b, s)
      <3>1. ASSUME bk.initialized PROVE bk.content = e.version
        <4>1. e.asset \in Assets /\ OfBook(e, e.asset, session) /\ Initialized(e.asset)
          BY <1>1, <1>2, <2>1, <2>3, <3>1 DEF OfBook
        <4>2. LineInOrder(e.asset, session)
          BY <1>3, <4>1 DEF Lines
        <4>3. books[e.asset].content = e.version - 1
          BY <1>1, <1>3, <4>1, <4>2, NextVersion
        <4> QED
          BY <2>3, <3>1, <4>3 DEF Store!Changed
      <3>2. bk.initialized \/ ~Initialized(e.asset)
        BY <2>3
      <3> QED
        BY <1>8, <2>1, <2>3, <3>1, <3>2
    <2> QED
      BY <1>10, <2>2, <2>3 DEF ChangeReduced
  <1> QED
    BY <1>5, <1>6, <1>9, <1>10 DEF Reduced

LEMMA ReducedVersions ==
    ASSUME SourceAssumption, PipelineAssumption, Types, SessionsInOrder, Announced, Versioned,
           NEW e, Reduced(e)
    PROVE  Versioned'
  <1>1. /\ UNCHANGED <<frame, sid, pc, inbox, version, listed, link, assets, cache, desired, subscribed>>
        /\ UNCHANGED <<window, latest>>
    BY DEF Reduced, runVars, assetVars, netVars
  <1>2. Takes(e)
    BY ReducedInOrder
  <1>3. /\ Contents'
        /\ \A b \in Assets : \A s \in 0..MaxSessions :
             IF OfBook(e, b, s) THEN BookTaken(e, b, s) ELSE BookKept(b, s)
    BY ReducedBooks DEF Versioned
  <1>4. ASSUME NEW b \in Assets, NEW s \in 0..MaxSessions
        PROVE  LineInOrder(b, s)' /\ Trims(Held(b, s), Held(b, s)')
    <2>1. LineInOrder(b, s)
      BY DEF Versioned, Lines
    <2> QED
      BY <1>2, <1>3, <2>1, OtherHeld, OwnHeld
  <1>5. Lines'
    BY <1>4 DEF Lines
  <1>6. sid \in 0..MaxSessions
    BY DEF Types, RunTypes
  <1>7. \A a \in Assets : Trims(Held(a, sid), Held(a, sid)')
    BY <1>1, <1>4, <1>6
  <1>8. \A a : Framed(a)' = Framed(a) /\ Boxed(a)' = Boxed(a)
    BY <1>1 DEF Framed, Boxed
  <1>9. /\ FrameInOrder /\ InboxInOrder /\ Paths /\ NothingSeen
    BY DEF Versioned
  <1>10. FrameInOrder'
    <2>1. ASSUME NEW i \in DOMAIN frame', NEW a, a = frame'[i].asset
          PROVE  After(frame'[i], Held(a, sid)')
      <3>1. i \in DOMAIN frame /\ a \in Assets /\ frame'[i] = frame[i]
        BY <1>1, <2>1, Members
      <3> QED
        BY <1>7, <1>9, <2>1, <3>1 DEF FrameInOrder, After, Trims
    <2> QED
      BY <1>1, <1>9, <2>1 DEF FrameInOrder
  <1>11. InboxInOrder'
    <2>1. ASSUME NEW k \in DOMAIN inbox', NEW i \in DOMAIN inbox'[k], NEW a, a = inbox'[k][i].asset,
                 NEW v \in Held(a, sid)' \cup Framed(a)
          PROVE  inbox'[k][i].kind = "change" /\ v < inbox'[k][i].version
      <3>1. a \in Assets /\ inbox' = inbox
        BY <1>1, <2>1, Members
      <3>2. v \in Held(a, sid) \cup Framed(a)
        BY <1>7, <2>1, <3>1 DEF Trims
      <3> QED
        BY <1>9, <2>1, <3>1, <3>2 DEF InboxInOrder, After
    <2> QED
      BY <1>1, <1>8, <1>9, <2>1 DEF InboxInOrder, After
  <1>12. NothingSeen'
    BY <1>1, <1>9 DEF NothingSeen, Unseen, ChangeIdentity
  <1>13. ASSUME NEW a \in Assets PROVE PathOf(a)'
    <2>1. Path(a) = Held(a, sid) \cup Framed(a) \cup Boxed(a)
          /\ Path(a)' = Held(a, sid)' \cup Framed(a) \cup Boxed(a)
      BY <1>8 DEF Path
    <2>2. Trims(Held(a, sid), Held(a, sid)')
      BY <1>7
    <2>3. ASSUME NEW x \in Path(a) \ Path(a)', NEW y \in Path(a)' PROVE x < y
      <3>1. x \in Held(a, sid) /\ x \notin Held(a, sid)'
        BY <2>1, <2>3
      <3>2. CASE y \in Held(a, sid)'
        BY <2>2, <3>1, <3>2 DEF Trims
      <3>3. CASE y \in Framed(a)
        <4>1. PICK i \in DOMAIN frame : frame[i].asset = a /\ frame[i].version = y
          BY <3>3 DEF Framed
        <4> QED
          BY <1>9, <3>1, <4>1 DEF FrameInOrder, After
      <3>4. CASE y \in Boxed(a)
        <4>1. PICK k \in DOMAIN inbox : \E i \in DOMAIN inbox[k] :
                inbox[k][i].asset = a /\ inbox[k][i].version = y
          BY <3>4 DEF Boxed
        <4>2. PICK i \in DOMAIN inbox[k] : inbox[k][i].asset = a /\ inbox[k][i].version = y
          BY <4>1
        <4>3. After(inbox[k][i], Held(a, sid) \cup Framed(a))
          BY <1>9, <4>2 DEF InboxInOrder
        <4> QED
          BY <3>1, <4>2, <4>3 DEF After
      <3> QED
        BY <2>1, <2>3, <3>2, <3>3, <3>4
    <2>4. Path(a)' \subseteq Path(a) /\ Trims(Path(a), Path(a)')
      BY <2>1, <2>2, <2>3 DEF Trims
    <2>5. PathOf(a) /\ (Known(a) => Known(a)')
      BY <1>1, <1>9 DEF Paths, Known
    <2> QED
      BY <1>1, <2>4, <2>5, TrimmedPath
  <1>14. Paths'
    BY <1>13 DEF Paths
  <1> QED
    BY <1>3, <1>5, <1>10, <1>11, <1>12, <1>14 DEF Versioned

-----------------------------------------------------------------------------
(* Windows are preserved by the source and by the reducer.                 *)

\* The source adds no window.
LEMMA SourceUnwindowed ==
    ASSUME SourceAssumption, Types, Ownership, Connection, SourceStep
    PROVE  Unwindowed
  <1>1. StatusEvent(TRUE).kind # "window" /\ StatusEvent(FALSE).kind # "window"
    BY DEF StatusEvent
  <1>2. \A m \in Message : MessageEvent(m).kind # "window"
    BY DEF MessageEvent, Message, Kinds
  <1>3. \A e : Adds(e) => e \in Event
    BY DEF Adds
  <1> QED
    BY <1>1, <1>2, <1>3, SourceSessions DEF Unwindowed

LEMMA SourceWindows ==
    ASSUME SourceAssumption, Types, Windows, Ownership, Connection,
           SourceStep, UNCHANGED <<window, latest, manager, told, storeVars>>
    PROVE  Windows'
  BY SourceUnwindowed, UnwindowedKeeps DEF Types, storeVars

LEMMA ReducedWindows ==
    ASSUME PipelineAssumption, Types, Windows, NEW e, Reduced(e)
    PROVE  Windows'
  <1>1. e \in Event /\ UNCHANGED <<window, latest, manager, told>>
    BY DEF Reduced
  <1>2. Takes(e)
    BY Removal DEF Reduced, Types
  <1>3. CASE WindowReduced(e)
    BY <1>1, <1>2, <1>3, WindowTakenKeeps
  <1>4. CASE ~WindowReduced(e)
    <2>1. e.kind # "window" /\ contexts' = contexts
      BY <1>4 DEF Reduced, StatusReduced, FullBookReduced, ChangeReduced, Ignored, MakesBook
    <2>2. ASSUME NEW tf \in Timeframes
          PROVE  WindowsSound(tf)' /\ MarketsKept(tf)' /\ LastTold(tf)'
      <3>1. WindowsSound(tf) /\ MarketsKept(tf) /\ LastTold(tf) /\ ~IsWindow(e, tf)
        BY <2>1 DEF Windows, IsWindow
      <3> QED
        BY <1>1, <1>2, <2>1, <3>1, OtherTaken
    <2> QED
      BY <1>1, <2>2 DEF Windows
  <1> QED
    BY <1>3, <1>4

-----------------------------------------------------------------------------
(* Markets are introduced before their events.                             *)

\* The market of an asset that was promised is in the store, or in a window under way.
LEMMA PromisedIsMentioned ==
    ASSUME PipelineAssumption, Types, Windows, NEW a \in Promised
    PROVE  MentionedBefore(a, Len(line) + 1)
  <1> DEFINE tf == TimeframeOf[a[1]]
  <1>1. a \in Assets
    BY DEF Promised, AskedBy
  <1>2. a[1] \in Markets /\ tf \in Timeframes /\ Mentions(told[tf], a[1]) /\ a[1] # NoMarket
    BY <1>1, WantedAre DEF WantedProperties, PipelineAssumption
  <1>3. \A i \in DOMAIN line : i < Len(line) + 1
    BY LineIndices DEF Types
  <1>4. LastTold(tf)
    BY <1>2 DEF Windows
  <1>5. CASE \E i \in DOMAIN line : IsWindow(line[i], tf) /\ line[i].context = told[tf]
    BY <1>2, <1>3, <1>5 DEF MentionedBefore, IsWindow
  <1>6. CASE contexts[tf] = told[tf]
    <2>1. contexts[tf] # NoContext
      BY <1>2, <1>6 DEF Types, StoreTypes, PipelineAssumption
    <2> QED
      BY <1>2, <1>6, <2>1 DEF MentionedBefore, Store!Referenced, Store!ReferencedBy, Mentions
  <1>7. ~(told[tf] = NoWindow)
    BY <1>2 DEF Mentions, NoWindow
  <1> QED
    BY <1>4, <1>5, <1>6, <1>7 DEF LastTold

\* Introduced, asset by asset.
LEMMA IntroducedNext ==
    ASSUME \A i \in DOMAIN line' : \A a : line'[i].asset = a /\ line'[i].kind \in Kinds =>
             Known(a)' /\ (a \in Promised' => MentionedBefore(a, i)')
    PROVE  Introduced'
  BY DEF Introduced, Known, MentionedBefore, Store!Referenced, Store!ReferencedBy

\* The source adds an event, or none.
LEMMA SourceIntroduces ==
    ASSUME SourceAssumption, PipelineAssumption, Types, Windows, Ownership, Connection, Introduced,
           SourceStep, UNCHANGED <<window, latest, manager, told, storeVars>>
    PROVE  Introduced'
  <1>1. Promised' = Promised /\ (\A a : Known(a)' <=> Known(a))
        /\ (\A a : Store!Referenced(a)' <=> Store!Referenced(a))
    BY DEF Promised, AskedBy, Known, Store!Referenced, Store!ReferencedBy, storeVars
  <1>2. CASE line' = line
    BY <1>1, <1>2 DEF Introduced, MentionedBefore
  <1>3. ASSUME NEW e, Adds(e),
               e.kind \in Kinds => /\ Known(e.asset)
                                   /\ e.asset \in Promised => MentionedBefore(e.asset, Len(line) + 1)
        PROVE  Introduced'
    <2>1. DOMAIN line' = DOMAIN line \cup {Len(line) + 1}
          /\ (\A i \in DOMAIN line : line'[i] = line[i])
          /\ line'[Len(line) + 1] = e
      BY <1>3 DEF Adds
    <2>2. ASSUME NEW a, NEW i, MentionedBefore(a, i)
          PROVE  MentionedBefore(a, i)'
      BY <1>1, <2>1, <2>2 DEF MentionedBefore
    <2>3. ASSUME NEW i \in DOMAIN line', NEW a, line'[i].asset = a, line'[i].kind \in Kinds
          PROVE  Known(a) /\ (a \in Promised => MentionedBefore(a, i))
      <3>1. CASE i \in DOMAIN line
        BY <2>1, <2>3, <3>1 DEF Introduced
      <3>2. CASE i = Len(line) + 1
        BY <1>3, <2>1, <2>3, <3>2
      <3> QED
        BY <2>1, <3>1, <3>2
    <2>4. \A i \in DOMAIN line' : \A a : line'[i].asset = a /\ line'[i].kind \in Kinds =>
             Known(a)' /\ (a \in Promised' => MentionedBefore(a, i)')
      BY <1>1, <2>2, <2>3
    <2> QED
      BY <2>4, IntroducedNext
  <1>4. ASSUME NEW up \in BOOLEAN, Adds(StatusEvent(up))
        PROVE  Introduced'
    BY <1>3, <1>4 DEF StatusEvent, Kinds
  <1>5. ASSUME frame # <<>>, Adds(MessageEvent(Head(frame))), HandleMessage
        PROVE  Introduced'
    <2> DEFINE m == Head(frame)
    <2>1. m.asset \in assets
      BY <1>5 DEF HandleMessage
    <2>2. Known(m.asset)
      BY <2>1 DEF Ownership
    <2>3. MessageEvent(m).asset = m.asset
      BY DEF MessageEvent
    <2>4. m.asset \in Promised => MentionedBefore(m.asset, Len(line) + 1)
      BY PromisedIsMentioned
    <2> HIDE DEF m
    <2> QED
      BY <1>3, <1>5, <2>2, <2>3, <2>4 DEF m
  <1> QED
    BY <1>2, <1>4, <1>5, SourceSessions

\* The market manager adds a window.  What it wants anew was not known, so
\* there is no event of it.
LEMMA ManagedIntroduces ==
    ASSUME SourceAssumption, PipelineAssumption, Types, Windows, Ownership, Connection, Introduced,
           NEW tf \in Timeframes, NEW w \in Store!Context, Managed(tf, w)
    PROVE  Introduced'
  <1>1. /\ DOMAIN line \subseteq DOMAIN line' /\ \A i \in DOMAIN line : line'[i] = line[i]
        /\ \A i \in DOMAIN line' : line'[i].kind \in Kinds => i \in DOMAIN line
    <2>1. CASE Accepted(tf, w)
      <3>1. Adds(WindowEvent(tf, w))
        BY <2>1, EventTypes, Addition DEF Accepted, Publish, Types
      <3>2. DOMAIN line' = DOMAIN line \cup {Len(line) + 1}
            /\ (\A i \in DOMAIN line : line'[i] = line[i])
            /\ line'[Len(line) + 1].kind = "window"
        BY <3>1 DEF Adds, WindowEvent
      <3> QED
        BY <3>2 DEF Kinds
    <2>2. CASE Refused
      BY <2>2 DEF Refused
    <2> QED
      BY <2>1, <2>2 DEF Managed
  <1>2. \A a : Store!Referenced(a)' <=> Store!Referenced(a)
    BY DEF Store!Referenced, Store!ReferencedBy, Managed, storeVars
  <1>3. \A a \in Assets : Known(a) => Known(a)'
    BY ManagedOwns
  <1>4. \A a \in Promised' : a \in Promised \/ ~Known(a)
    <2>1. CASE Accepted(tf, w)
      <3>1. told = window /\ told' = window'
        BY <2>1 DEF Managed, Accepted, Windows
      <3>2. Promised = Wanted /\ Promised' = Wanted'
        BY <3>1 DEF Promised, Wanted, AskedBy
      <3> QED
        BY <3>2, ManagedOwns
    <2>2. CASE Refused
      BY <2>2 DEF Refused, Promised, AskedBy
    <2> QED
      BY <2>1, <2>2 DEF Managed
  <1>5. ASSUME NEW i \in DOMAIN line', NEW a, line'[i].asset = a, line'[i].kind \in Kinds
        PROVE  Known(a)' /\ (a \in Promised' => MentionedBefore(a, i))
    <2>1. i \in DOMAIN line /\ line'[i] = line[i]
      BY <1>1, <1>5
    <2>2. a \in Assets
      BY <1>5, <2>1, LineIndices, EventsAre DEF Types
    <2>3. Known(a) /\ (a \in Promised => MentionedBefore(a, i))
      BY <1>5, <2>1 DEF Introduced
    <2> QED
      BY <1>3, <1>4, <2>2, <2>3
  <1>6. ASSUME NEW a, NEW i, MentionedBefore(a, i)
        PROVE  MentionedBefore(a, i)'
    BY <1>1, <1>2, <1>6 DEF MentionedBefore
  <1>7. \A i \in DOMAIN line' : \A a : line'[i].asset = a /\ line'[i].kind \in Kinds =>
           Known(a)' /\ (a \in Promised' => MentionedBefore(a, i)')
    BY <1>5, <1>6
  <1> QED
    BY <1>7, IntroducedNext

\* The reducer takes an event.  What a window mentions is in the store from
\* then on: a later window of the timeframe still mentions it.
LEMMA ReducedIntroduces ==
    ASSUME PipelineAssumption, Types, Windows, Introduced, NEW e, Reduced(e)
    PROVE  Introduced'
  <1>1. Takes(e) /\ e \in Event
    BY Removal DEF Reduced, Types
  <1>2. Promised' = Promised /\ (\A a : Known(a)' <=> Known(a))
    BY DEF Reduced, Promised, AskedBy, Known
  <1>3. \/ e.kind # "window" /\ contexts' = contexts
        \/ /\ WindowReduced(e) /\ e.kind = "window"
           /\ e.timeframe \in Timeframes /\ e.context # NoContext
           /\ contexts'[e.timeframe] = e.context
           /\ \A tf \in Timeframes : tf # e.timeframe => contexts'[tf] = contexts[tf]
    <2>1. CASE ~WindowReduced(e)
      BY <2>1 DEF Reduced, StatusReduced, FullBookReduced, ChangeReduced, Ignored, MakesBook
    <2>2. CASE WindowReduced(e)
      <3>1. e.kind = "window" /\ e.timeframe \in Timeframes /\ e.context \in Store!Context
        BY <1>1, <2>2, EventsAre DEF WindowReduced
      <3> QED
        BY <2>2, <3>1 DEF WindowReduced, PipelineAssumption, Types, StoreTypes
    <2> QED
      BY <2>1, <2>2
  <1>4. ASSUME NEW a \in Promised, Store!Referenced(a)
        PROVE  Store!Referenced(a)'
    <2>1. PICK tf \in Timeframes : contexts[tf] # NoContext /\ Mentions(contexts[tf], a[1])
      BY <1>4 DEF Store!Referenced, Store!ReferencedBy, Mentions
    <2>2. a \in Assets
      BY DEF Promised, AskedBy
    <2>3. a[1] \in Markets /\ a[1] # NoMarket /\ Mentions(told[TimeframeOf[a[1]]], a[1])
      BY <2>2, WantedAre DEF WantedProperties, PipelineAssumption
    <2>4. CASE contexts'[tf] = contexts[tf]
      BY <2>1, <2>4 DEF Store!Referenced, Store!ReferencedBy, Mentions
    <2>5. CASE IsWindow(e, tf) /\ e.context # NoContext /\ contexts'[tf] = e.context
      <3>1. Sound(tf, contexts[tf]) /\ MarketsKept(tf)
        BY <2>1 DEF Windows, WindowsSound
      <3>2. TimeframeOf[a[1]] = tf
        BY <2>1, <2>3, <3>1 DEF Sound, Reported, Mentions
      <3>3. Mentions(e.context, a[1])
        BY <1>1, <2>1, <2>3, <2>5, <3>1, <3>2 DEF MarketsKept, Takes
      <3> QED
        BY <2>5, <3>3 DEF Store!Referenced, Store!ReferencedBy, Mentions
    <2> QED
      BY <1>3, <2>4, <2>5 DEF IsWindow
  <1>5. ASSUME NEW a \in Promised, NEW i \in DOMAIN line', NEW j \in DOMAIN line, j < i + 1,
               line[j].kind = "window", Mentions(line[j].context, a[1])
        PROVE  MentionedBefore(a, i)'
    <2>1. CASE j = 1
      <3>1. line[j] = e
        BY <1>1, <2>1 DEF Takes
      <3> QED
        BY <1>3, <1>5, <3>1 DEF MentionedBefore, Store!Referenced, Store!ReferencedBy, Mentions
    <2>2. CASE j # 1
      <3>1. j - 1 \in DOMAIN line' /\ line'[j - 1] = line[j] /\ j \in Nat
        BY <1>1, <2>2 DEF Takes
      <3>2. i \in Nat
        BY <1>1 DEF Takes
      <3>3. j - 1 < i
        BY <1>5, <3>1, <3>2
      <3> QED
        BY <1>5, <3>1, <3>3 DEF MentionedBefore
    <2> QED
      BY <2>1, <2>2
  <1>6. ASSUME NEW i \in DOMAIN line', NEW a, line'[i].asset = a, line'[i].kind \in Kinds
        PROVE  Known(a)' /\ (a \in Promised' => MentionedBefore(a, i)')
    <2>1. i + 1 \in DOMAIN line /\ line'[i] = line[i + 1]
      BY <1>1 DEF Takes
    <2>2. Known(a) /\ (a \in Promised => MentionedBefore(a, i + 1))
      BY <1>6, <2>1 DEF Introduced
    <2>3. ASSUME a \in Promised, Store!Referenced(a)
          PROVE  MentionedBefore(a, i)'
      BY <1>4, <2>3 DEF MentionedBefore
    <2>4. ASSUME a \in Promised, ~Store!Referenced(a)
          PROVE  MentionedBefore(a, i)'
      BY <1>5, <2>2, <2>4 DEF MentionedBefore
    <2> QED
      BY <1>2, <2>2, <2>3, <2>4
  <1> QED
    BY <1>6, IntroducedNext

-----------------------------------------------------------------------------
(* The invariant.                                                          *)

LEMMA Initially ==
    ASSUME SourceAssumption, PipelineAssumption, Init
    PROVE  IInv
  <1> USE DEF Init, SourceInit
  <1>1. line = <<>> /\ DOMAIN line = {} /\ frame = <<>> /\ DOMAIN frame = {}
        /\ inbox = <<>> /\ DOMAIN inbox = {} /\ Len(line) = 0
    OBVIOUS
  <1>2. \A tf \in Timeframes : /\ window[tf] = NoWindow /\ told[tf] = NoWindow
                               /\ latest[tf] = NoMarket /\ contexts[tf] = NoContext
    BY DEF Discovery!Init, Discovery!Reporting, NoWindow, NoMarket, Discovery!NoMarket
  <1>3. Types
    <2>1. RunTypes
      <3>1. pc = "start" /\ sid = 0 /\ opened = FALSE /\ initial = {}
        OBVIOUS
      <3>2. 0 \in 0..MaxSessions
        BY DEF SourceAssumption
      <3> QED
        BY <3>1, <3>2 DEF RunTypes, Places
    <2>2. AssetTypes
      BY DEF AssetTypes, NoSubs
    <2>3. NetTypes
      <3>1. version \in [Assets -> Versions]
        BY DEF Versions, SourceAssumption
      <3> QED
        BY <3>1 DEF NetTypes
    <2>4. LineTypes
      <3>1. line = <<>> /\ connected = FALSE
        OBVIOUS
      <3>2. Len(line) = 0 /\ line \in Seq(Event) /\ 0 <= MaxLine
        BY <3>1 DEF SourceAssumption
      <3> QED
        BY <3>1, <3>2 DEF LineTypes
    <2>5. StoreTypes
      <3>1. NoWindow \in Store!Context
        BY DEF NoWindow, Store!Context
      <3>2. window = [tf \in Timeframes |-> NoWindow] /\ latest = [tf \in Timeframes |-> 0]
        BY DEF Discovery!Init, Discovery!Reporting, NoWindow, NoMarket, Discovery!NoMarket
      <3> QED
        BY <3>1, <3>2 DEF StoreTypes, NoSession
    <2> QED
      BY <2>1, <2>2, <2>3, <2>4, <2>5 DEF Types
  <1>4. Wanted = {}
    <2>1. \A a \in Assets : a[1] \in Markets /\ a[1] # NoMarket
      BY DEF Assets, PipelineAssumption
    <2> QED
      BY <1>2, <2>1 DEF Wanted, AskedBy, NoWindow
  <1>5. Windows
    <2>1. ASSUME NEW tf \in Timeframes
          PROVE  WindowsSound(tf) /\ MarketsKept(tf) /\ LastTold(tf)
      <3>1. WindowsSound(tf)
        BY <1>1, <1>2 DEF WindowsSound, Sound, Reported, NoWindow, Discovery!Newest, Discovery!NoMarket, NoMarket
      <3>2. MarketsKept(tf)
        BY <1>1, <1>2 DEF MarketsKept
      <3>3. LastTold(tf)
        BY <1>1, <1>2 DEF LastTold
      <3> QED
        BY <3>1, <3>2, <3>3
    <2> QED
      BY <2>1 DEF Windows
  <1>6. Ownership
    BY <1>4, FS_EmptySet DEF Ownership, NoSubs
  <1>7. SessionsInOrder
    BY <1>1 DEF SessionsInOrder, NoSession
  <1>8. Announced /\ Connection
    BY DEF Announced, Connection, NoSubs
  <1>9. \A a \in Assets : books[a] = NoBook /\ cache[a] = {} /\ ~Initialized(a)
    BY DEF Initialized
  <1>10. \A a \in Assets : \A s : Live(a, s) = {} /\ Lined(a, s) = {} /\ Held(a, s) = {}
    BY <1>1, <1>9 DEF Live, Lined, Held
  <1>11. \A a \in Assets : Framed(a) = {} /\ Boxed(a) = {}
    BY <1>1 DEF Framed, Boxed
  <1>12. \A a \in Assets : Path(a) = {}
    BY <1>10, <1>11 DEF Path
  <1>13. Contents
    BY <1>9 DEF Contents
  <1>14. Lines
    <2>1. ASSUME NEW a \in Assets, NEW s \in 0..MaxSessions
          PROVE  LineInOrder(a, s)
      BY <1>1, <1>10 DEF LineInOrder, NoHoles
    <2> QED
      BY <2>1 DEF Lines
  <1>15. FrameInOrder /\ InboxInOrder
    BY <1>1 DEF FrameInOrder, InboxInOrder
  <1>16. Paths
    <2>1. ASSUME NEW a \in Assets
          PROVE  PathOf(a)
      BY <1>12 DEF PathOf, NoHoles
    <2> QED
      BY <2>1 DEF Paths
  <1>17. NothingSeen
    BY <1>1, <1>9 DEF NothingSeen, Unseen
  <1>18. Introduced
    BY <1>1 DEF Introduced
  <1> QED
    BY <1>3, <1>5, <1>6, <1>7, <1>8, <1>13, <1>14, <1>15, <1>16, <1>17, <1>18 DEF IInv, Versioned

\* A step of the source or the exchange.
LEMMA SourceKeeps ==
    ASSUME SourceAssumption, PipelineAssumption, IInv,
           SourceStep, UNCHANGED <<window, latest, manager, told, storeVars>>
    PROVE  IInv'
  <1> USE DEF IInv
  <1>1. Types'
    BY SourceTypes
  <1>2. Windows'
    BY SourceWindows
  <1>3. Ownership' /\ Connection'
    BY SourceOwns
  <1>4. SessionsInOrder' /\ Announced'
    BY SourceInOrder
  <1>5. Versioned'
    BY SourceVersions
  <1>6. Introduced'
    BY SourceIntroduces
  <1> QED
    BY <1>1, <1>2, <1>3, <1>4, <1>5, <1>6

LEMMA ManagedKeepsAll ==
    ASSUME SourceAssumption, PipelineAssumption, IInv, NEW tf \in Timeframes,
           Manage(tf) \/ ManageFails(tf)
    PROVE  IInv'
  <1> USE DEF IInv
  <1>0. PICK w \in Store!Context : Managed(tf, w)
    BY ManagedWindow
  <1>1. Types'
    BY <1>0, ManagedTypes
  <1>2. Windows'
    BY <1>0, ManagedKeeps
  <1>3. Ownership' /\ Connection'
    BY <1>0, ManagedOwns
  <1>4. SessionsInOrder' /\ Announced'
    BY <1>0, ManagedInOrder
  <1>5. Versioned'
    BY <1>0, ManagedVersions
  <1>6. Introduced'
    BY <1>0, ManagedIntroduces
  <1> QED
    BY <1>1, <1>2, <1>3, <1>4, <1>5, <1>6

LEMMA ReducedKeeps ==
    ASSUME SourceAssumption, PipelineAssumption, IInv, Reduce
    PROVE  IInv'
  <1> USE DEF IInv
  <1>0. PICK e : Reduced(e)
    BY Reductions
  <1>1. Types'
    BY <1>0, ReducedTypes
  <1>2. Windows'
    BY <1>0, ReducedWindows
  <1>3. Ownership' /\ Connection'
    BY <1>0, ReducedOwns
  <1>4. SessionsInOrder' /\ Announced'
    BY <1>0, ReducedInOrder
  <1>5. Versioned'
    BY <1>0, ReducedVersions
  <1>6. Introduced'
    BY <1>0, ReducedIntroduces
  <1> QED
    BY <1>1, <1>2, <1>3, <1>4, <1>5, <1>6

LEMMA Inductive ==
    ASSUME SourceAssumption, PipelineAssumption, IInv, [Next]_vars
    PROVE  IInv'
  <1>1. CASE Alone(Run) \/ Alone(Subscriptions) \/ Alone(Exchange)
    BY <1>1, SourceSteps, SourceKeeps
  <1>2. CASE Reduce
    BY <1>2, ReducedKeeps
  <1>3. CASE \E tf \in Timeframes : Manage(tf) \/ ManageFails(tf)
    BY <1>3, ManagedKeepsAll
  <1>4. CASE UNCHANGED vars
    <2>1. UNCHANGED <<runVars, assetVars, frame, subs, netVars, connected, line>>
          /\ UNCHANGED <<window, latest, manager, told, contexts, books, session, feed>>
      BY <1>4 DEF vars, sourceVars, managerVars, storeVars
    <2>2. Types'
      BY <2>1 DEF IInv, Types, RunTypes, AssetTypes, NetTypes, LineTypes, StoreTypes,
                  runVars, assetVars, netVars
    <2>3. Windows'
      BY <2>1 DEF IInv, Windows, WindowsSound, MarketsKept, LastTold, Sound, Reported
    <2>4. Wanted' = Wanted /\ Promised' = Promised
      BY <2>1 DEF Wanted, Promised, AskedBy
    <2>5. Ownership'
      BY <2>1, <2>4 DEF IInv, Ownership, Known, runVars, assetVars, netVars
    <2>6. SessionsInOrder' /\ Announced'
      BY <2>1 DEF IInv, SessionsInOrder, Announced, InForce, runVars
    <2>7. Connection'
      BY <2>1 DEF IInv, Connection, runVars, assetVars, netVars
    <2>8. Contents'
      BY <2>1 DEF IInv, Versioned, Contents, Store!Referenced, Store!ReferencedBy
    <2>9. /\ \A a, s : Live(a, s)' = Live(a, s) /\ Lined(a, s)' = Lined(a, s) /\ Held(a, s)' = Held(a, s)
          /\ \A a : Framed(a)' = Framed(a) /\ Boxed(a)' = Boxed(a) /\ Path(a)' = Path(a)
          /\ \A a : Known(a)' <=> Known(a)
      BY <2>1 DEF Live, Lined, Held, Framed, Boxed, Path, Initialized, Known, runVars, netVars
    <2>10. Lines'
      BY <2>1, <2>9 DEF IInv, Versioned, Lines, LineInOrder
    <2>11. FrameInOrder'
      BY <2>1 DEF IInv, Versioned, FrameInOrder, Held, Live, Lined, Initialized, runVars
    <2>12. InboxInOrder'
      BY <2>1 DEF IInv, Versioned, InboxInOrder, Held, Live, Lined, Framed, Initialized, runVars, netVars
    <2>13. Paths'
      BY <2>1, <2>9 DEF IInv, Versioned, Paths, PathOf, runVars, assetVars, netVars
    <2>14. NothingSeen'
      BY <2>1 DEF IInv, Versioned, NothingSeen, Unseen, assetVars, netVars
    <2>15. Introduced'
      BY <2>1, <2>4 DEF IInv, Introduced, MentionedBefore, Known, Store!Referenced, Store!ReferencedBy
    <2> QED
      BY <2>2, <2>3, <2>5, <2>6, <2>7, <2>8, <2>10, <2>11, <2>12, <2>13, <2>14, <2>15
         DEF IInv, Versioned
  <1> QED
    BY <1>1, <1>2, <1>3, <1>4 DEF Next

\* The invariant, of every reachable state.
THEOREM Invariant == Spec => []IInv
<1>1. Init => IInv
  BY Initially, SourceAssumption, PipelineAssumption
<1>2. IInv /\ [Next]_vars => IInv'
  BY Inductive, SourceAssumption, PipelineAssumption
<1> QED
  BY <1>1, <1>2, PTL DEF Spec

-----------------------------------------------------------------------------
(* What follows from it.                                                   *)

\* Types, of the source, the network and the store.
THEOREM TypeCorrect == Spec => []TypeOK
<1>1. IInv => TypeOK
  <2> SUFFICES ASSUME Types
               PROVE  TypeOK
    BY DEF IInv
  <2>1. Store!TypeOK
    BY DEF Types, StoreTypes, LineTypes, Store!TypeOK, Assets, Store!Assets
  <2> QED
    BY <2>1 DEF TypeOK, Types, RunTypes, AssetTypes, NetTypes, LineTypes, StoreTypes, Places
<1> QED
  BY <1>1, Invariant, PTL

\* The source knows every asset that it desires or has yet to retire, whatever
\* the grace periods and the windows that race with them do.
THEOREM DesiredAssetsAreKnown == Spec => []DesiredIsKnown
<1>1. IInv => DesiredIsKnown
  BY DEF IInv, Ownership, DesiredIsKnown
<1> QED
  BY <1>1, Invariant, PTL

\* The reducer hears of a market before the first event of one of its assets:
\* the window is published with the request to subscribe, not after it.  Only a
\* market of a window whose publication was refused, which ends the manager,
\* may have events of which the reducer knows nothing.
THEOREM MarketsComeBeforeBooks == Spec => []WindowBeforeBooks
<1>1. IInv => WindowBeforeBooks
  <2> SUFFICES ASSUME IInv, NEW i \in DOMAIN line, line[i].kind \in Kinds,
                      line[i].asset \in desired \ retiring
               PROVE  \/ Store!Referenced(line[i].asset)
                      \/ manager = "dead" /\ line[i].asset \notin AskedBy(told)
                      \/ \E j \in 1..(i - 1) :
                            /\ line[j].kind = "window"
                            /\ line[i].asset[1] \in {line[j].context.current, line[j].context.next}
    BY DEF WindowBeforeBooks, Kinds
  <2>1. line[i].asset \in Wanted
    BY DEF IInv, Ownership
  <2>2. manager = "running" => line[i].asset \in Promised
    BY <2>1 DEF IInv, Windows, Wanted, Promised
  <2>3. line[i].asset \in Promised => MentionedBefore(line[i].asset, i)
    BY DEF IInv, Introduced
  <2>4. manager \in {"running", "dead"}
    BY DEF IInv, Types, StoreTypes
  <2>5. \A j \in DOMAIN line : j < i => j \in 1..(i - 1)
    BY LineIndices DEF IInv, Types
  <2> QED
    BY <2>2, <2>3, <2>4, <2>5 DEF MentionedBefore, Mentions, Promised
<1> QED
  BY <1>1, Invariant, PTL

\* No book of the store misses a change, however connections, frames and
\* events are lost, late or repeated.
THEOREM BooksAreNeverWrong == Spec => []NeverAWrongBook
<1>1. IInv => NeverAWrongBook
  <2>1. Wrong \notin Versions
    BY PipelineAssumption DEF PipelineAssumption
  <2> QED
    BY <2>1 DEF IInv, Versioned, Contents, NeverAWrongBook, Initialized
<1> QED
  BY <1>1, Invariant, PTL

\* When all that is under way has arrived, the books of the assets that the
\* exchange keeps sending are the exchange's books.  After a window was refused
\* this goes for the assets that the source still takes.
THEOREM BooksAgree == Spec => []SettledBooksAgree
<1>1. IInv => SettledBooksAgree
  <2> SUFFICES ASSUME IInv, Settled, NEW a \in listed, Initialized(a),
                      a \in desired \/ manager # "dead"
               PROVE  books[a].content = version[a]
    BY DEF SettledBooksAgree
  <2>1. line = <<>> /\ DOMAIN line = {} /\ DOMAIN frame = {} /\ DOMAIN inbox = {} /\ Len(line) = 0
    BY DEF Settled
  <2>2. a \in Assets
    BY DEF IInv, Types, NetTypes
  <2>3. Store!Referenced(a) /\ books[a].content \in Versions
    BY <2>2 DEF IInv, Versioned, Contents, Initialized
  <2>4. a \in assets
    <3>1. CASE a \in desired
      BY <3>1 DEF IInv, Ownership
    <3>2. CASE manager # "dead"
      <4>1. told = window
        BY <3>2 DEF IInv, Types, StoreTypes, Windows
      <4>2. PICK tf \in Timeframes : contexts[tf] # NoContext /\ Mentions(contexts[tf], a[1])
        BY <2>3 DEF Store!Referenced, Store!ReferencedBy, Mentions
      <4>3. contexts[tf] = window[tf]
        BY <2>1, <4>1, <4>2 DEF IInv, Windows, LastTold
      <4>4. a \in Wanted
        BY <2>2, <4>2, <4>3 DEF Wanted, AskedBy, Mentions
      <4> QED
        BY <4>4 DEF IInv, Ownership
    <3> QED
      BY <3>1, <3>2
  <2>5. session = sid
    BY <2>1 DEF IInv, Announced, InForce, InForceIn, Settled
  <2>6. Path(a) = {books[a].content}
    BY <2>1, <2>3, <2>5 DEF Path, Held, Live, Lined, Framed, Boxed
  <2>7. version[a] \in Path(a)
    BY <2>2, <2>4, <2>6 DEF IInv, Versioned, Paths, PathOf, Settled
  <2> QED
    BY <2>6, <2>7
<1> QED
  BY <1>1, Invariant, PTL

=============================================================================
