--------------------------- MODULE DiscoveryProofs ----------------------------
(* Discovery for any timeframes, durations, search grids and time limits:   *)
(* searches end in time, a market that is over is not shown, the log is     *)
(* complete, and what is reported are windows as MarketWindows says.        *)
EXTENDS Discovery, Integers, TLAPS

-----------------------------------------------------------------------------
(* The invariant.  Its parts are about one worker: its timeframe tf, its    *)
(* record w, what it has shown (s) and the newest market of that (n), its   *)
(* records in the log (l) and the markets it made active (a), at time t.    *)

Starting == {"resolving", "retry"}
Afterwards == {"finishing", "logging", "writing"}
PCs == Searching \cup Starting \cup Afterwards \cup {"waiting", "ended"}

WorkerRecord ==
    [pc : PCs, since : Times, attempts : 1..StartupAttempts, expected : Nat, current : Nat,
     slot : Int, hidden : BOOLEAN, expiry : {"none", "waiting", "done", "raised"},
     outcome : {"none", "success", "failure", "exception", "unlogged"}]
Reports == [state : {"none", "ACTIVE", "SEARCHING_NEXT", "NEXT_READY", "TRANSITION_FAILED"},
            current : Nat, next : Nat]
LogRecord == [start : Nat, success : BOOLEAN]

Shape(tf, w, s, n, l, a) ==
    /\ w \in WorkerRecord /\ s \in Reports /\ n \in Nat /\ l \in Seq(LogRecord) /\ a \in SUBSET Nat
    /\ w.current \in {NoMarket, w.expected - Duration[tf]}
    /\ w.pc \in {"slot", "request"} => w.slot \in 0..LastSlot

\* Before the first search nothing is shown or logged.
AtStartup(tf, w, s, n, l, a, t) ==
    w.pc \in Starting =>
      /\ Duration[tf] <= w.since /\ w.since <= t
      /\ w.pc = "retry" => w.attempts < StartupAttempts
      /\ w.current = NoMarket /\ n = NoMarket /\ s.current = NoMarket /\ s.next = NoMarket
      /\ l = <<>> /\ a = {}

Boundary(tf, x) == x > 0 /\ x % Duration[tf] = 0

\* The market that is expected begins at a boundary, and is not known before
\* the search has found it.
Expecting(tf, w, n) ==
    /\ w.pc \notin Starting \cup {"ended"} => Boundary(tf, w.expected)
    /\ w.pc \in {"waiting", "slot", "request"} => n < w.expected
    /\ w.pc \in Afterwards \cup {"ready"} => n <= w.expected

\* A slot that is waited for has not elapsed; a request was sent in its slot.
InTime(w, t) ==
    /\ w.pc = "slot" => t <= SlotTime(w)
    /\ w.pc = "request" => w.since <= w.expected + After /\ t <= w.since + Timeout
    /\ w.pc \in Searching => t >= SearchStart(w)

\* What is shown, at each place of a worker
Showing(w, s, n, t) ==
    /\ s.next # NoMarket => n = s.next /\ w.pc \in {"ready", "finishing", "ended"}
    /\ s.next = NoMarket /\ s.current # NoMarket => n = s.current
    /\ w.pc = "waiting" /\ w.current # NoMarket => s.current = w.current
    /\ w.pc \in Searching => w.expiry # "none"
    /\ w.pc \in {"slot", "request"} =>
         /\ w.hidden => t >= w.expected \/ w.current = NoMarket
         /\ ~w.hidden => s.current = w.current
         /\ w.hidden /\ w.expiry # "raised" => s.current = NoMarket
         /\ w.expiry = "done" => w.hidden
    /\ w.pc = "ready" => s.next = w.expected /\ s.current \in {w.current, NoMarket}
    /\ w.pc = "finishing" /\ s.next # NoMarket => w.outcome = "exception"
    /\ w.pc \in Afterwards /\ w.outcome = "success" => s.current = w.expected /\ s.next = NoMarket

Starts(l) == {l[i].start : i \in DOMAIN l}

\* The log, and what is still to be added
Logged(tf, w, l, a) ==
    /\ \A i \in DOMAIN l : /\ i > 1 => l[i].start = l[i - 1].start + Duration[tf]
                           /\ l[i].success <=> l[i].start \in a
    /\ w.pc \notin Starting \cup {"ended"} =>
         /\ \A i \in DOMAIN l : l[i].start < w.expected
         /\ l # <<>> => l[Len(l)].start = w.expected - Duration[tf]
    /\ w.pc \in Searching \cup {"waiting"} => a \subseteq Starts(l)
    /\ w.pc \in Afterwards =>
         /\ a \subseteq Starts(l) \cup {w.expected}
         /\ w.expected \in a <=> w.outcome = "success"
         /\ w.pc # "finishing" => w.outcome \in {"success", "failure"}
         /\ w.outcome \in {"success", "failure", "exception"}

WorkerOK(tf, w, s, n, l, a, t) ==
    /\ Shape(tf, w, s, n, l, a)
    /\ AtStartup(tf, w, s, n, l, a, t)
    /\ Expecting(tf, w, n)
    /\ InTime(w, t)
    /\ Showing(w, s, n, t)
    /\ Logged(tf, w, l, a)

Functions ==
    /\ worker \in [Timeframes -> WorkerRecord] /\ shown \in [Timeframes -> Reports]
    /\ newest \in [Timeframes -> Nat] /\ log \in [Timeframes -> Seq(LogRecord)]
    /\ activated \in [Timeframes -> SUBSET Nat]

IInv ==
    /\ now \in Times /\ runner \in {"running", "cancelling", "stopping", "ended"}
    /\ Functions
    /\ \A tf \in Timeframes :
         /\ WorkerOK(tf, worker[tf], shown[tf], newest[tf], log[tf], activated[tf], now)
         /\ locked = tf <=> worker[tf].pc = "writing"

-----------------------------------------------------------------------------
(* Lemmas about the operators.                                             *)

LEMMA MaxOfTwo ==
    ASSUME NEW x \in Int, NEW y \in Int
    PROVE  Max({x, y}) \in {x, y} /\ Max({x, y}) >= x /\ Max({x, y}) >= y
<1>1. \E z \in {x, y} : \A u \in {x, y} : z >= u
  <2>1. CASE x >= y
    BY <2>1
  <2>2. CASE ~(x >= y)
    BY <2>2
  <2> QED
    BY <2>1, <2>2
<1> QED
  BY <1>1 DEF Max

\* Multiples of d are what has no remainder.
LEMMA Remainders ==
    ASSUME NEW t \in Nat, NEW d \in Nat \ {0}
    PROVE  /\ t % d \in 0..(d - 1)
           /\ (t - (t % d)) % d = 0
           /\ t % d = 0 => (t + d) % d = 0
<1>1. \A k \in Nat : (d * k) % d = 0
  OBVIOUS
<1>2. t - (t % d) = d * (t \div d) /\ t \div d \in Nat
  OBVIOUS
<1>3. t % d = 0 => \E k \in Nat : t = d * k
  OBVIOUS
<1>4. \A k \in Nat : d * k + d = d * (k + 1)
  OBVIOUS
<1>5. (t - (t % d)) % d = 0
  BY <1>1, <1>2
<1>6. ASSUME t % d = 0
      PROVE  (t + d) % d = 0
  <2>1. PICK k \in Nat : t = d * k
    BY <1>3, <1>6
  <2>2. t + d = d * (k + 1) /\ k + 1 \in Nat
    BY <1>4, <2>1
  <2> QED
    BY <1>1, <2>2
<1>7. t % d \in 0..(d - 1)
  OBVIOUS
<1> QED
  BY <1>5, <1>6, <1>7

\* The window of time t begins at a boundary not after t, and the next one
\* after t.
LEMMA FloorFacts ==
    ASSUME NEW tf \in Timeframes, NEW t \in Nat
    PROVE  /\ Floor(t, tf) \in Nat /\ Floor(t, tf) <= t /\ t < Floor(t, tf) + Duration[tf]
           /\ Boundary(tf, Floor(t, tf) + Duration[tf])
           /\ t >= Duration[tf] => Boundary(tf, Floor(t, tf))
<1>1. PICK d \in Nat \ {0} : d = Duration[tf]
  BY DiscoveryAssumption
<1>2. t % d \in 0..(d - 1) /\ (t - (t % d)) % d = 0
  BY Remainders
<1>3. PICK f : f = t - (t % d)
  OBVIOUS
<1>4. f \in Nat /\ f <= t /\ t < f + d /\ f % d = 0 /\ (t >= d => f > 0)
  BY <1>2, <1>3
<1>5. (f + d) % d = 0 /\ f + d > 0
  <2>1. (f + d) % d = 0
    BY <1>4, Remainders
  <2> QED
    BY <1>4, <2>1
<1>6. Floor(t, tf) = f
  BY <1>1, <1>3 DEF Floor
<1> QED
  BY <1>1, <1>4, <1>5, <1>6 DEF Boundary

LEMMA NextBoundary ==
    ASSUME NEW tf \in Timeframes, NEW x \in Nat, Boundary(tf, x)
    PROVE  Boundary(tf, x + Duration[tf])
<1>1. PICK d \in Nat \ {0} : d = Duration[tf]
  BY DiscoveryAssumption
<1>2. x % d = 0 /\ x > 0
  BY <1>1 DEF Boundary
<1>3. (x + d) % d = 0
  BY <1>2, Remainders
<1> QED
  BY <1>1, <1>2, <1>3 DEF Boundary

\* v and w are at the same point of the same search.
SameBut(v, w) ==
    /\ v.since = w.since /\ v.attempts = w.attempts /\ v.expected = w.expected
    /\ v.current = w.current /\ v.slot = w.slot /\ v.hidden = w.hidden

Outcomes == {"success", "failure", "exception"}

\* How a search is left: through the log, unless there is an exception.
LEMMA ConcludeFacts ==
    ASSUME NEW w \in WorkerRecord, NEW o \in Outcomes
    PROVE  /\ Conclude(w, o) \in WorkerRecord /\ SameBut(Conclude(w, o), w)
           /\ Conclude(w, o).outcome = o
           /\ Conclude(w, o).pc \in {"finishing", "logging", "ended"}
           /\ o = "exception" => Conclude(w, o).pc # "logging"
<1>1. PICK v \in WorkerRecord : v = [w EXCEPT !.outcome = o]
  BY DEF WorkerRecord, Outcomes
<1>2. v.outcome = o /\ SameBut(v, w) /\ v.expiry = w.expiry
  BY <1>1 DEF WorkerRecord, SameBut
<1> DEFINE F == [v EXCEPT !.pc = "finishing"]
           E == [v EXCEPT !.pc = "ended"]
           G == [v EXCEPT !.pc = "logging"]
<1>3. \A u \in {F, E, G} : /\ u \in WorkerRecord /\ u.outcome = v.outcome /\ SameBut(u, v)
                           /\ u.pc \in {"finishing", "logging", "ended"}
  BY DEF WorkerRecord, PCs, Searching, Starting, Afterwards, SameBut
<1>4. G.pc = "logging" /\ E.pc = "ended" /\ F.pc = "finishing"
  BY DEF WorkerRecord
<1>5. Leave(v) = IF o = "exception" THEN E ELSE G
  BY <1>2 DEF Leave, Ended
<1> HIDE DEF F, E, G
<1>6. CASE w.expiry = "waiting"
  <2>1. Conclude(w, o) = F
    BY <1>1, <1>6 DEF Conclude, F
  <2> QED
    BY <1>2, <1>3, <1>4, <2>1 DEF SameBut
<1>7. CASE w.expiry = "raised"
  <2>1. Conclude(w, o) = E
    BY <1>1, <1>7 DEF Conclude, E, Ended
  <2> QED
    BY <1>2, <1>3, <1>4, <2>1 DEF SameBut
<1>8. CASE w.expiry # "waiting" /\ w.expiry # "raised"
  <2>1. Conclude(w, o) = Leave(v)
    BY <1>1, <1>8 DEF Conclude
  <2>2. CASE o = "exception"
    BY <1>2, <1>3, <1>4, <1>5, <2>1, <2>2 DEF SameBut
  <2>3. CASE o # "exception"
    BY <1>2, <1>3, <1>4, <1>5, <2>1, <2>3 DEF SameBut
  <2> QED
    BY <2>2, <2>3
<1> QED
  BY <1>6, <1>7, <1>8

-----------------------------------------------------------------------------
(* What becomes of a worker that leaves a search or ends.                  *)

LEMMA Ends ==
    ASSUME NEW tf \in Timeframes, NEW w, NEW s, NEW n, NEW l, NEW a, NEW t,
           WorkerOK(tf, w, s, n, l, a, t),
           NEW v \in WorkerRecord, v.pc = "ended",
           v.expected = w.expected, v.current = w.current
    PROVE  WorkerOK(tf, v, s, n, l, a, t)
<1>1. Shape(tf, v, s, n, l, a)
  BY DEF WorkerOK, Shape
<1>2. AtStartup(tf, v, s, n, l, a, t) /\ Expecting(tf, v, n) /\ InTime(v, t)
  BY DEF AtStartup, Expecting, InTime, Starting, Afterwards, Searching
<1>3. Showing(v, s, n, t)
  BY DEF WorkerOK, Showing, Searching, Afterwards
<1>4. Logged(tf, v, l, a)
  BY DEF WorkerOK, Logged, Starting, Searching, Afterwards
<1> QED
  BY <1>1, <1>2, <1>3, <1>4 DEF WorkerOK

LEMMA RecordsOfLog ==
    ASSUME NEW l \in Seq(LogRecord)
    PROVE  \A i \in DOMAIN l : l[i] \in LogRecord /\ l[i].start \in Nat
<1>1. \A i \in DOMAIN l : l[i] \in LogRecord
  OBVIOUS
<1> QED
  BY <1>1 DEF LogRecord

\* A market that is searched for is not active yet.
LEMMA NotActiveYet ==
    ASSUME NEW tf \in Timeframes, NEW w, NEW s, NEW n, NEW l, NEW a, NEW t,
           WorkerOK(tf, w, s, n, l, a, t), w.pc \in Searching \cup {"waiting"}
    PROVE  w.expected \notin a
<1>1. a \subseteq Starts(l) /\ \A i \in DOMAIN l : l[i].start < w.expected
  BY DEF WorkerOK, Logged, Searching, Starting
<1>2. w.expected \in Nat /\ l \in Seq(LogRecord)
  BY DEF WorkerOK, Shape, WorkerRecord
<1>3. \A i \in DOMAIN l : l[i].start \in Nat
  BY <1>2, RecordsOfLog
<1> QED
  BY <1>1, <1>2, <1>3 DEF Starts

\* What is the same for all outcomes.
LEMMA Leaves ==
    ASSUME NEW tf \in Timeframes, NEW w, NEW s, NEW n, NEW l, NEW a, NEW t,
           WorkerOK(tf, w, s, n, l, a, t), w.pc \in Searching \cup {"waiting"},
           NEW v \in WorkerRecord, v.pc \in {"finishing", "logging", "ended"},
           v.expected = w.expected, v.current = w.current
    PROVE  /\ \A u \in Reports, m \in Nat, b \in SUBSET Nat : Shape(tf, v, u, m, l, b)
           /\ \A u, m, b : AtStartup(tf, v, u, m, l, b, t)
           /\ \A m \in Nat : m <= w.expected => Expecting(tf, v, m)
           /\ InTime(v, t)
<1>1. \A u \in Reports, m \in Nat, b \in SUBSET Nat : Shape(tf, v, u, m, l, b)
  BY DEF WorkerOK, Shape
<1>2. /\ \A u, m, b : AtStartup(tf, v, u, m, l, b, t)
      /\ InTime(v, t)
  BY DEF AtStartup, InTime, Starting, Searching
<1>3. \A m \in Nat : m <= w.expected => Expecting(tf, v, m)
  BY DEF WorkerOK, Expecting, Starting, Searching, Afterwards
<1> QED
  BY <1>1, <1>2, <1>3

\* A search that has its result leaves the rest of the worker alone.
LEMMA Concluded ==
    ASSUME NEW w \in WorkerRecord, NEW o \in {"success", "failure"}
    PROVE  \E v \in WorkerRecord : /\ v = Conclude(w, o) /\ v.outcome = o
                                   /\ v.pc \in {"finishing", "logging", "ended"}
                                   /\ v.expected = w.expected /\ v.current = w.current
<1>1. o \in Outcomes
  BY DEF Outcomes
<1>2. /\ Conclude(w, o) \in WorkerRecord /\ SameBut(Conclude(w, o), w)
      /\ Conclude(w, o).outcome = o
      /\ Conclude(w, o).pc \in {"finishing", "logging", "ended"}
  BY <1>1, ConcludeFacts
<1> QED
  BY <1>2 DEF SameBut

LEMMA ExceptionFacts ==
    ASSUME NEW w \in WorkerRecord
    PROVE  /\ Conclude(w, "exception") \in WorkerRecord
           /\ Conclude(w, "exception").outcome = "exception"
           /\ Conclude(w, "exception").pc \in {"finishing", "ended"}
           /\ Conclude(w, "exception").expected = w.expected
           /\ Conclude(w, "exception").current = w.current
<1>1. PICK o \in Outcomes : o = "exception"
  BY DEF Outcomes
<1>2. /\ Conclude(w, o) \in WorkerRecord /\ SameBut(Conclude(w, o), w)
      /\ Conclude(w, o).outcome = o
      /\ Conclude(w, o).pc \in {"finishing", "logging", "ended"}
      /\ Conclude(w, o).pc # "logging"
  BY <1>1, ConcludeFacts
<1> QED
  BY <1>1, <1>2 DEF SameBut

LEMMA Throws ==
    ASSUME NEW tf \in Timeframes, NEW w, NEW s, NEW n, NEW l, NEW a, NEW t,
           WorkerOK(tf, w, s, n, l, a, t), w.pc \in Searching,
           NEW v \in WorkerRecord, v.pc \in {"finishing", "ended"}, v.outcome = "exception",
           v.expected = w.expected, v.current = w.current
    PROVE  WorkerOK(tf, v, s, n, l, a, t)
<1>1. /\ s \in Reports /\ n \in Nat /\ a \in SUBSET Nat /\ w.expected \in Nat
      /\ n <= w.expected
  BY DEF WorkerOK, Shape, Expecting, WorkerRecord, Searching, Afterwards
<1>2. /\ Shape(tf, v, s, n, l, a) /\ AtStartup(tf, v, s, n, l, a, t)
      /\ Expecting(tf, v, n) /\ InTime(v, t)
  BY <1>1, Leaves
<1>3. Showing(v, s, n, t)
  BY DEF WorkerOK, Showing, Searching, Afterwards
<1>4. Logged(tf, v, l, a)
  BY NotActiveYet DEF WorkerOK, Logged, Starting, Searching, Afterwards
<1> QED
  BY <1>2, <1>3, <1>4 DEF WorkerOK

Nothing(state) == [state |-> state, current |-> NoMarket, next |-> NoMarket]

LEMMA Fails ==
    ASSUME NEW tf \in Timeframes, NEW w, NEW s, NEW n, NEW l, NEW a, NEW t,
           WorkerOK(tf, w, s, n, l, a, t), w.pc \in {"waiting", "request"},
           NEW v \in WorkerRecord, v.pc \in {"finishing", "logging", "ended"},
           v.outcome = "failure", v.expected = w.expected, v.current = w.current
    PROVE  WorkerOK(tf, v, Nothing("TRANSITION_FAILED"), n, l, a, t)
<1> DEFINE u == Nothing("TRANSITION_FAILED")
<1>1. u \in Reports /\ u.current = NoMarket /\ u.next = NoMarket
  BY DEF Reports, NoMarket, Nothing
<1> HIDE DEF u
<1>2. n \in Nat /\ a \in SUBSET Nat /\ w.expected \in Nat /\ n <= w.expected
  BY DEF WorkerOK, Shape, Expecting, WorkerRecord, Searching, Afterwards
<1>3. /\ Shape(tf, v, u, n, l, a) /\ AtStartup(tf, v, u, n, l, a, t)
      /\ Expecting(tf, v, n) /\ InTime(v, t)
  BY <1>1, <1>2, Leaves DEF Searching
<1>4. Showing(v, u, n, t)
  BY <1>1 DEF Showing, Searching, Afterwards
<1>5. Logged(tf, v, l, a)
  BY NotActiveYet DEF WorkerOK, Logged, Starting, Searching, Afterwards
<1> QED
  BY <1>3, <1>4, <1>5 DEF WorkerOK, u

LEMMA Succeeds ==
    ASSUME NEW tf \in Timeframes, NEW w, NEW s, NEW n, NEW l, NEW a, NEW t,
           WorkerOK(tf, w, s, n, l, a, t), w.pc \in {"ready", "request"},
           NEW v \in WorkerRecord, v.pc \in {"finishing", "logging", "ended"},
           v.outcome = "success", v.expected = w.expected, v.current = w.current
    PROVE  WorkerOK(tf, v, [state |-> "ACTIVE", current |-> w.expected, next |-> NoMarket],
                    w.expected, l, a \cup {w.expected}, t)
<1> DEFINE u == [state |-> "ACTIVE", current |-> w.expected, next |-> NoMarket]
           b == a \cup {w.expected}
<1>1. a \in SUBSET Nat /\ w.expected \in Nat /\ l \in Seq(LogRecord)
  BY DEF WorkerOK, Shape, WorkerRecord
<1>2. u \in Reports /\ u.current = w.expected /\ u.next = NoMarket /\ b \in SUBSET Nat
  BY <1>1 DEF Reports, NoMarket
<1>3. \A i \in DOMAIN l : l[i].start \in Nat
  BY <1>1, RecordsOfLog
<1>4. \A i \in DOMAIN l : /\ l[i].start < w.expected
                          /\ i > 1 => l[i].start = l[i - 1].start + Duration[tf]
                          /\ l[i].success <=> l[i].start \in a
  BY DEF WorkerOK, Logged, Starting, Searching
<1>5. \A i \in DOMAIN l : l[i].success <=> l[i].start \in b
  BY <1>1, <1>3, <1>4
<1> HIDE DEF u
<1>6. /\ Shape(tf, v, u, w.expected, l, b) /\ AtStartup(tf, v, u, w.expected, l, b, t)
      /\ Expecting(tf, v, w.expected) /\ InTime(v, t)
  BY <1>1, <1>2, Leaves DEF Searching
<1>7. Showing(v, u, w.expected, t)
  BY <1>1, <1>2 DEF Showing, Searching, Afterwards, NoMarket
<1>8. Logged(tf, v, l, b)
  <2>1. a \subseteq Starts(l) /\ (l # <<>> => l[Len(l)].start = w.expected - Duration[tf])
    BY DEF WorkerOK, Logged, Starting, Searching
  <2> QED
    BY <1>4, <1>5, <2>1 DEF Logged, Starting, Searching, Afterwards
<1> QED
  BY <1>6, <1>7, <1>8 DEF WorkerOK, u

-----------------------------------------------------------------------------
(* The steps of a worker.                                                  *)

\* Worker tf becomes v, and s, n, l and a are what goes with it.
Becomes(tf, v, s, n, l, a) ==
    /\ worker' = [worker EXCEPT ![tf] = v] /\ shown' = [shown EXCEPT ![tf] = s]
    /\ newest' = [newest EXCEPT ![tf] = n] /\ log' = [log EXCEPT ![tf] = l]
    /\ activated' = [activated EXCEPT ![tf] = a]

\* To change one value to what it is changes nothing.
LEMMA SameValue ==
    ASSUME NEW S, NEW f \in [Timeframes -> S], NEW tf \in Timeframes
    PROVE  f = [f EXCEPT ![tf] = f[tf]]
OBVIOUS

LEMMA Unchanging ==
    ASSUME Functions, NEW tf \in Timeframes
    PROVE  /\ shown = [shown EXCEPT ![tf] = shown[tf]]
           /\ newest = [newest EXCEPT ![tf] = newest[tf]]
           /\ log = [log EXCEPT ![tf] = log[tf]]
           /\ activated = [activated EXCEPT ![tf] = activated[tf]]
BY SameValue DEF Functions

\* A worker that takes a step leaves the others alone.
LEMMA OneStep ==
    ASSUME IInv, NEW tf \in Timeframes, NEW v, NEW s, NEW n, NEW l, NEW a,
           Becomes(tf, v, s, n, l, a), WorkerOK(tf, v, s, n, l, a, now),
           now' = now, runner' = runner,
           locked' = tf <=> v.pc = "writing",
           \A u \in Timeframes \ {tf} : locked' = u <=> locked = u
    PROVE  IInv'
<1>1. /\ v \in WorkerRecord /\ s \in Reports /\ n \in Nat /\ l \in Seq(LogRecord)
      /\ a \in SUBSET Nat
  BY DEF WorkerOK, Shape
<1>2. Functions'
  BY <1>1 DEF IInv, Functions, Becomes
<1>3. /\ worker'[tf] = v /\ shown'[tf] = s /\ newest'[tf] = n /\ log'[tf] = l
      /\ activated'[tf] = a
  BY DEF IInv, Functions, Becomes
<1>4. \A u \in Timeframes \ {tf} :
        /\ worker'[u] = worker[u] /\ shown'[u] = shown[u] /\ newest'[u] = newest[u]
        /\ log'[u] = log[u] /\ activated'[u] = activated[u]
  BY DEF IInv, Functions, Becomes
<1>5. \A u \in Timeframes :
        /\ WorkerOK(u, worker'[u], shown'[u], newest'[u], log'[u], activated'[u], now')
        /\ locked' = u <=> worker'[u].pc = "writing"
  BY <1>3, <1>4 DEF IInv
<1>6. (\A u \in Timeframes :
        WorkerOK(u, worker[u], shown[u], newest[u], log[u], activated[u], now))'
  BY <1>5 DEF WorkerOK, Shape, AtStartup, Expecting, InTime, Showing, Logged, SlotTime, SearchStart,
              Boundary, Starts
<1> QED
  BY <1>2, <1>5, <1>6 DEF IInv, Times

\* What is known of the worker that takes the step
LEMMA TheWorker ==
    ASSUME IInv, NEW tf \in Timeframes
    PROVE  /\ WorkerOK(tf, worker[tf], shown[tf], newest[tf], log[tf], activated[tf], now)
           /\ worker[tf] \in WorkerRecord /\ shown[tf] \in Reports /\ newest[tf] \in Nat
           /\ log[tf] \in Seq(LogRecord) /\ activated[tf] \in SUBSET Nat
           /\ now \in Nat /\ now <= MaxTime /\ Functions
           /\ Duration[tf] \in Nat \ {0} /\ Before \in Nat /\ After \in Nat /\ Timeout \in Nat
           /\ Before + After < Duration[tf]
BY DiscoveryAssumption DEF IInv, Functions, Times

Report(state, c, x) == [state |-> state, current |-> c, next |-> x]
NewestOf(c, x, n) == IF x # NoMarket THEN x ELSE IF c # NoMarket THEN c ELSE n

\* A step that shows something, and one that does not.
LEMMA ReportStep ==
    ASSUME IInv, NEW tf \in Timeframes, NEW v, NEW state, NEW c, NEW x, NEW b,
           Show(tf, state, c, x), Step(tf, v),
           activated' = [activated EXCEPT ![tf] = b],
           now' = now, log' = log, locked' = locked, runner' = runner,
           worker[tf].pc # "writing", v.pc # "writing",
           WorkerOK(tf, v, Report(state, c, x), NewestOf(c, x, newest[tf]), log[tf], b, now)
    PROVE  IInv'
<1>1. Becomes(tf, v, Report(state, c, x), NewestOf(c, x, newest[tf]), log[tf], b)
  BY TheWorker, Unchanging DEF Becomes, Show, Step, Report, NewestOf
<1>2. locked = tf <=> worker[tf].pc = "writing"
  BY DEF IInv
<1> QED
  BY <1>1, <1>2, OneStep

LEMMA SilentStep ==
    ASSUME IInv, NEW tf \in Timeframes, NEW v, Step(tf, v),
           shown' = shown, newest' = newest, activated' = activated,
           now' = now, log' = log, locked' = locked, runner' = runner,
           worker[tf].pc # "writing", v.pc # "writing",
           WorkerOK(tf, v, shown[tf], newest[tf], log[tf], activated[tf], now)
    PROVE  IInv'
<1>1. Becomes(tf, v, shown[tf], newest[tf], log[tf], activated[tf])
  BY TheWorker, Unchanging DEF Becomes, Step
<1>2. locked = tf <=> worker[tf].pc = "writing"
  BY DEF IInv
<1> QED
  BY <1>1, <1>2, OneStep

\* A worker that ends without a word.
LEMMA EndedFacts ==
    ASSUME NEW w \in WorkerRecord
    PROVE  /\ Ended(w) \in WorkerRecord /\ Ended(w).pc = "ended"
           /\ Ended(w).expected = w.expected /\ Ended(w).current = w.current
BY DEF WorkerRecord, Ended, PCs

LEMMA EndsSilently ==
    ASSUME IInv, NEW tf \in Timeframes, Step(tf, Ended(worker[tf])),
           shown' = shown, newest' = newest, activated' = activated,
           now' = now, log' = log, locked' = locked, runner' = runner,
           worker[tf].pc # "writing"
    PROVE  IInv'
<1>1. WorkerOK(tf, Ended(worker[tf]), shown[tf], newest[tf], log[tf], activated[tf], now)
  BY TheWorker, EndedFacts, Ends
<1>2. Ended(worker[tf]).pc # "writing"
  BY TheWorker, EndedFacts
<1> QED
  BY <1>1, <1>2, SilentStep

LEMMA ReportFacts ==
    ASSUME NEW state \in {"none", "ACTIVE", "SEARCHING_NEXT", "NEXT_READY", "TRANSITION_FAILED"},
           NEW c \in Nat, NEW x \in Nat
    PROVE  /\ Report(state, c, x) \in Reports
           /\ Report(state, c, x).current = c /\ Report(state, c, x).next = x
BY DEF Report, Reports

LEMMA StartupFoundStep ==
    ASSUME IInv, NEW tf \in Timeframes, StartupFound(tf)
    PROVE  IInv'
<1>1. PICK w : w = worker[tf]
  OBVIOUS
<1>2. w \in WorkerRecord /\ w.pc = "resolving"
  BY <1>1, TheWorker DEF StartupFound
<1>3. PICK m : m = Floor(w.since, tf)
  OBVIOUS
<1>4. /\ w.since \in Nat /\ w.since >= Duration[tf] /\ w.since <= now
      /\ log[tf] = <<>> /\ activated[tf] = {} /\ w.current = NoMarket /\ newest[tf] = NoMarket
  BY <1>1, <1>2, TheWorker DEF WorkerOK, AtStartup, WorkerRecord, Times, Starting
<1>5. m \in Nat /\ Boundary(tf, m) /\ Boundary(tf, m + Duration[tf])
  BY <1>3, <1>4, FloorFacts
<1>6. m > 0 /\ m + Duration[tf] \in Nat /\ m < m + Duration[tf]
  BY <1>5, TheWorker DEF Boundary
<1>7. /\ now' = now /\ log' = log /\ activated' = activated /\ locked' = locked
      /\ runner' = runner
  BY DEF StartupFound
<1>8. CASE Refused /\ Step(tf, Ended(w))
  BY <1>1, <1>2, <1>7, <1>8, EndsSilently DEF Refused
<1>9. CASE /\ Show(tf, "ACTIVE", m, NoMarket)
           /\ Step(tf, [w EXCEPT !.pc = "waiting", !.current = m, !.expected = m + Duration[tf]])
  <2>1. PICK v \in WorkerRecord :
          v = [w EXCEPT !.pc = "waiting", !.current = m, !.expected = m + Duration[tf]]
    BY <1>2, <1>5, <1>6 DEF WorkerRecord, PCs
  <2>2. v.pc = "waiting" /\ v.current = m /\ v.expected = m + Duration[tf]
    BY <1>2, <2>1 DEF WorkerRecord
  <2>3. PICK s \in Reports : /\ s = Report("ACTIVE", m, NoMarket)
                             /\ s.current = m /\ s.next = NoMarket
    BY <1>5, ReportFacts DEF NoMarket
  <2>4. NewestOf(m, NoMarket, newest[tf]) = m
    BY <1>6 DEF NewestOf, NoMarket
  <2>5. Shape(tf, v, s, m, <<>>, {})
    BY <1>5, <1>6, <2>2, TheWorker DEF Shape
  <2>6. AtStartup(tf, v, s, m, <<>>, {}, now) /\ InTime(v, now)
    BY <2>2 DEF AtStartup, Starting, InTime, Searching
  <2>7. Expecting(tf, v, m)
    BY <1>5, <1>6, <2>2 DEF Expecting, Afterwards, Starting
  <2>8. Showing(v, s, m, now)
    BY <2>2, <2>3 DEF Showing, Searching, Afterwards
  <2>9. Logged(tf, v, <<>>, {})
    BY <2>2 DEF Logged, Searching, Afterwards, Starting
  <2>10. WorkerOK(tf, v, s, m, <<>>, {}, now)
    BY <2>5, <2>6, <2>7, <2>8, <2>9 DEF WorkerOK
  <2>11. activated' = [activated EXCEPT ![tf] = {}]
    BY <1>4, <1>7, TheWorker, Unchanging
  <2> QED
    BY <1>1, <1>2, <1>4, <1>7, <1>9, <2>1, <2>2, <2>3, <2>4, <2>10, <2>11, ReportStep
<1> QED
  BY <1>1, <1>3, <1>8, <1>9 DEF StartupFound

LEMMA StartupMissesStep ==
    ASSUME IInv, NEW tf \in Timeframes, StartupMisses(tf)
    PROVE  IInv'
<1>1. PICK w : w = worker[tf]
  OBVIOUS
<1>2. w \in WorkerRecord /\ w.pc = "resolving" /\ now \in Times /\ now \in Nat
  BY <1>1, TheWorker DEF StartupMisses, Times
<1>3. PICK m : m = Floor(now, tf) + Duration[tf]
  OBVIOUS
<1>4. /\ w.since \in Nat /\ w.since >= Duration[tf] /\ w.since <= now
      /\ log[tf] = <<>> /\ activated[tf] = {} /\ w.current = NoMarket /\ newest[tf] = NoMarket
      /\ shown[tf].current = NoMarket /\ shown[tf].next = NoMarket
  BY <1>1, <1>2, TheWorker DEF WorkerOK, AtStartup, WorkerRecord, Times, Starting
<1>5. Boundary(tf, m) /\ Floor(now, tf) \in Nat
  BY <1>2, <1>3, FloorFacts
<1>6. m \in Nat /\ m > 0
  BY <1>3, <1>5, TheWorker
<1>7. /\ now' = now /\ log' = log /\ activated' = activated /\ locked' = locked
      /\ runner' = runner
  BY DEF StartupMisses
<1>8. CASE Refused /\ Step(tf, Ended(w))
  BY <1>1, <1>2, <1>7, <1>8, EndsSilently DEF Refused
<1>9. CASE /\ w.attempts < StartupAttempts
           /\ Step(tf, [w EXCEPT !.pc = "retry", !.since = now])
           /\ UNCHANGED <<shown, newest>>
  <2>1. PICK v \in WorkerRecord : v = [w EXCEPT !.pc = "retry", !.since = now]
    BY <1>2 DEF WorkerRecord, PCs, Starting
  <2>2. /\ v.pc = "retry" /\ v.since = now /\ v.current = NoMarket /\ v.attempts = w.attempts
        /\ v.expected = w.expected
    BY <1>2, <1>4, <2>1 DEF WorkerRecord
  <2>3. PICK s \in Reports : s = shown[tf]
    BY TheWorker
  <2>4. Shape(tf, v, s, NoMarket, <<>>, {})
    BY <2>2 DEF Shape, NoMarket
  <2>5. AtStartup(tf, v, s, NoMarket, <<>>, {}, now) /\ InTime(v, now)
    BY <1>2, <1>4, <1>9, <2>2, <2>3, TheWorker DEF AtStartup, Starting, InTime, Searching
  <2>6. Expecting(tf, v, NoMarket)
    BY <2>2 DEF Expecting, Afterwards, Starting
  <2>7. Showing(v, s, NoMarket, now)
    BY <1>4, <2>2, <2>3 DEF Showing, Searching, Afterwards
  <2>8. Logged(tf, v, <<>>, {})
    BY <2>2 DEF Logged, Searching, Afterwards, Starting
  <2>9. WorkerOK(tf, v, s, NoMarket, <<>>, {}, now)
    BY <2>4, <2>5, <2>6, <2>7, <2>8 DEF WorkerOK
  <2> QED
    BY <1>1, <1>2, <1>4, <1>7, <1>9, <2>1, <2>2, <2>3, <2>9, SilentStep
<1>10. CASE /\ Show(tf, "TRANSITION_FAILED", NoMarket, NoMarket)
            /\ Step(tf, [w EXCEPT !.pc = "waiting", !.expected = m])
  <2>1. PICK v \in WorkerRecord : v = [w EXCEPT !.pc = "waiting", !.expected = m]
    BY <1>2, <1>6 DEF WorkerRecord, PCs
  <2>2. v.pc = "waiting" /\ v.current = NoMarket /\ v.expected = m
    BY <1>2, <1>4, <2>1 DEF WorkerRecord
  <2>3. PICK s \in Reports : /\ s = Report("TRANSITION_FAILED", NoMarket, NoMarket)
                             /\ s.current = NoMarket /\ s.next = NoMarket
    BY ReportFacts DEF NoMarket
  <2>4. NewestOf(NoMarket, NoMarket, newest[tf]) = NoMarket
    BY <1>4 DEF NewestOf
  <2>5. Shape(tf, v, s, NoMarket, <<>>, {})
    BY <2>2 DEF Shape, NoMarket
  <2>6. AtStartup(tf, v, s, NoMarket, <<>>, {}, now) /\ InTime(v, now)
    BY <2>2 DEF AtStartup, Starting, InTime, Searching
  <2>7. Expecting(tf, v, NoMarket)
    BY <1>5, <1>6, <2>2 DEF Expecting, Afterwards, Starting, NoMarket
  <2>8. Showing(v, s, NoMarket, now)
    BY <2>2, <2>3 DEF Showing, Searching, Afterwards
  <2>9. Logged(tf, v, <<>>, {})
    BY <2>2 DEF Logged, Searching, Afterwards, Starting
  <2>10. WorkerOK(tf, v, s, NoMarket, <<>>, {}, now)
    BY <2>5, <2>6, <2>7, <2>8, <2>9 DEF WorkerOK
  <2>11. activated' = [activated EXCEPT ![tf] = {}]
    BY <1>4, <1>7, TheWorker, Unchanging
  <2> QED
    BY <1>1, <1>2, <1>4, <1>7, <1>10, <2>1, <2>2, <2>3, <2>4, <2>10, <2>11, ReportStep
<1> QED
  BY <1>1, <1>3, <1>8, <1>9, <1>10 DEF StartupMisses

LEMMA StartupRetriesStep ==
    ASSUME IInv, NEW tf \in Timeframes, StartupRetries(tf)
    PROVE  IInv'
<1>1. PICK w : w = worker[tf]
  OBVIOUS
<1>2. /\ w \in WorkerRecord /\ w.pc = "retry" /\ now \in Times /\ now \in Nat
      /\ now = w.since + 1 /\ Step(tf, [w EXCEPT !.pc = "resolving", !.since = now, !.attempts = @ + 1])
  BY <1>1, TheWorker DEF StartupRetries, Times
<1>3. /\ w.since \in Nat /\ w.since >= Duration[tf] /\ w.attempts < StartupAttempts
      /\ log[tf] = <<>> /\ activated[tf] = {} /\ w.current = NoMarket /\ newest[tf] = NoMarket
      /\ shown[tf].current = NoMarket /\ shown[tf].next = NoMarket
  BY <1>1, <1>2, TheWorker DEF WorkerOK, AtStartup, WorkerRecord, Times, Starting
<1>4. PICK v \in WorkerRecord :
        v = [w EXCEPT !.pc = "resolving", !.since = now, !.attempts = @ + 1]
  <2>1. w.attempts + 1 \in 1..StartupAttempts
    BY <1>2, <1>3, DiscoveryAssumption DEF WorkerRecord
  <2> QED
    BY <1>2, <2>1 DEF WorkerRecord, PCs, Starting
<1>5. v.pc = "resolving" /\ v.since = now /\ v.current = NoMarket /\ v.expected = w.expected
  BY <1>2, <1>3, <1>4 DEF WorkerRecord
<1>6. PICK s \in Reports : s = shown[tf]
  BY TheWorker
<1>7. Shape(tf, v, s, NoMarket, <<>>, {})
  BY <1>5 DEF Shape, NoMarket
<1>8. AtStartup(tf, v, s, NoMarket, <<>>, {}, now) /\ InTime(v, now)
  BY <1>2, <1>3, <1>5, <1>6, TheWorker DEF AtStartup, Starting, InTime, Searching
<1>9. Expecting(tf, v, NoMarket)
  BY <1>5 DEF Expecting, Afterwards, Starting
<1>10. Showing(v, s, NoMarket, now)
  BY <1>3, <1>5, <1>6 DEF Showing, Searching, Afterwards
<1>11. Logged(tf, v, <<>>, {})
  BY <1>5 DEF Logged, Searching, Afterwards, Starting
<1>12. WorkerOK(tf, v, s, NoMarket, <<>>, {}, now)
  BY <1>7, <1>8, <1>9, <1>10, <1>11 DEF WorkerOK
<1>13. /\ shown' = shown /\ newest' = newest /\ activated' = activated /\ now' = now
       /\ log' = log /\ locked' = locked /\ runner' = runner
  BY DEF StartupRetries
<1> QED
  BY <1>1, <1>2, <1>3, <1>4, <1>5, <1>6, <1>12, <1>13, SilentStep

\* A search goes on, or begins.
LEMMA GoesOn ==
    ASSUME NEW tf \in Timeframes, NEW w, NEW s, NEW n, NEW l, NEW a, NEW t,
           WorkerOK(tf, w, s, n, l, a, t), w.pc \in Searching \cup {"waiting"},
           NEW v \in WorkerRecord, v.pc \in Searching,
           v.expected = w.expected, v.current = w.current,
           v.pc \in {"slot", "request"} => v.slot \in 0..LastSlot,
           NEW u \in Reports, NEW m \in Nat,
           v.pc \in {"slot", "request"} => m < w.expected, m <= w.expected,
           InTime(v, t), Showing(v, u, m, t)
    PROVE  WorkerOK(tf, v, u, m, l, a, t)
<1>1. Shape(tf, v, u, m, l, a)
  BY DEF WorkerOK, Shape
<1>2. AtStartup(tf, v, u, m, l, a, t)
  BY DEF AtStartup, Starting, Searching
<1>3. Expecting(tf, v, m)
  BY DEF WorkerOK, Expecting, Starting, Searching, Afterwards
<1>4. Logged(tf, v, l, a)
  BY DEF WorkerOK, Logged, Starting, Searching, Afterwards
<1> QED
  BY <1>1, <1>2, <1>3, <1>4 DEF WorkerOK

LEMMA SearchBeginsStep ==
    ASSUME IInv, NEW tf \in Timeframes, SearchBegins(tf)
    PROVE  IInv'
<1>1. PICK w : w = worker[tf]
  OBVIOUS
<1>2. PICK s, n, l, a : s = shown[tf] /\ n = newest[tf] /\ l = log[tf] /\ a = activated[tf]
  OBVIOUS
<1>3. /\ w \in WorkerRecord /\ w.pc = "waiting" /\ now \in Nat /\ n \in Nat
      /\ WorkerOK(tf, w, s, n, l, a, now) /\ w.expected \in Nat /\ w.current \in Nat
      /\ Before \in Nat /\ After \in Nat
  BY <1>1, <1>2, TheWorker DEF SearchBegins, WorkerRecord
<1>4. PICK x : x = Max({0, now - SearchStart(w)})
  OBVIOUS
<1>5. x \in Int /\ x >= 0 /\ x >= now - SearchStart(w) /\ SearchStart(w) = w.expected - Before
  <2>1. PICK y \in Int : y = now - SearchStart(w)
    BY <1>3 DEF SearchStart
  <2>2. x \in {0, y} /\ x >= 0 /\ x >= y
    BY <1>4, <2>1, MaxOfTwo
  <2> QED
    BY <2>1, <2>2 DEF SearchStart
<1>6. PICK h \in BOOLEAN : h = (w.current = NoMarket \/ now >= w.expected)
  OBVIOUS
<1>7. PICK w1 \in WorkerRecord : w1 = [w EXCEPT !.slot = x, !.hidden = h, !.outcome = "none"]
  BY <1>3, <1>5 DEF WorkerRecord
<1>8. /\ w1.slot = x /\ w1.hidden = h /\ w1.expected = w.expected /\ w1.current = w.current
      /\ w1.pc = "waiting"
  BY <1>3, <1>7 DEF WorkerRecord
<1>9. SearchStart(w1) = SearchStart(w)
  BY <1>8 DEF SearchStart
<1>10. /\ now >= SearchStart(w)
       /\ \/ /\ x <= LastSlot
             /\ Show(tf, "SEARCHING_NEXT", LivePrevious(w1), NoMarket)
             /\ Step(tf, [w1 EXCEPT !.pc = "slot", !.expiry = "waiting"])
          \/ /\ Show(tf, "TRANSITION_FAILED", NoMarket, NoMarket)
             /\ Step(tf, Conclude([w1 EXCEPT !.expiry = "waiting"], "failure"))
          \/ Refused /\ Step(tf, Ended(w1))
  BY <1>1, <1>4, <1>6, <1>7, <1>8, <1>9 DEF SearchBegins
<1>11. /\ now' = now /\ log' = log /\ activated' = activated /\ locked' = locked
       /\ runner' = runner
  BY DEF SearchBegins
<1>12. activated' = [activated EXCEPT ![tf] = a]
  BY <1>2, <1>11, TheWorker, Unchanging
<1>13. CASE Refused /\ Step(tf, Ended(w1))
  <2>1. PICK v \in WorkerRecord : /\ v = Ended(w1) /\ v.pc = "ended"
                                  /\ v.expected = w1.expected /\ v.current = w1.current
    BY <1>7, EndedFacts
  <2>2. WorkerOK(tf, v, s, n, l, a, now)
    BY <1>3, <1>8, <2>1, Ends
  <2> QED
    BY <1>1, <1>2, <1>3, <1>11, <1>13, <2>1, <2>2, SilentStep DEF Refused
<1>14. CASE /\ Show(tf, "TRANSITION_FAILED", NoMarket, NoMarket)
            /\ Step(tf, Conclude([w1 EXCEPT !.expiry = "waiting"], "failure"))
  <2>1. PICK w2 \in WorkerRecord : w2 = [w1 EXCEPT !.expiry = "waiting"]
    BY <1>7 DEF WorkerRecord
  <2>2. w2.expected = w.expected /\ w2.current = w.current
    BY <1>8, <2>1 DEF WorkerRecord
  <2>3. PICK v \in WorkerRecord :
          /\ v = Conclude(w2, "failure") /\ v.outcome = "failure"
          /\ v.pc \in {"finishing", "logging", "ended"}
          /\ v.expected = w2.expected /\ v.current = w2.current
    BY Concluded
  <2>4. WorkerOK(tf, v, Nothing("TRANSITION_FAILED"), n, l, a, now)
    BY <1>3, <2>2, <2>3, Fails
  <2>5. /\ Report("TRANSITION_FAILED", NoMarket, NoMarket) = Nothing("TRANSITION_FAILED")
        /\ NewestOf(NoMarket, NoMarket, n) = n
    BY DEF Report, Nothing, NewestOf
  <2>6. v.pc # "writing"
    BY <2>3
  <2>7. Step(tf, v)
    BY <1>14, <2>1, <2>3
  <2> QED
    BY <1>1, <1>2, <1>3, <1>11, <1>12, <1>14, <2>4, <2>5, <2>6, <2>7, ReportStep
<1>15. CASE /\ x <= LastSlot
            /\ Show(tf, "SEARCHING_NEXT", LivePrevious(w1), NoMarket)
            /\ Step(tf, [w1 EXCEPT !.pc = "slot", !.expiry = "waiting"])
  <2>1. PICK v \in WorkerRecord : v = [w1 EXCEPT !.pc = "slot", !.expiry = "waiting"]
    BY <1>7 DEF WorkerRecord, PCs, Searching
  <2>2. /\ v.pc = "slot" /\ v.expiry = "waiting" /\ v.slot = x /\ v.hidden = h
        /\ v.expected = w.expected /\ v.current = w.current
    BY <1>7, <1>8, <2>1 DEF WorkerRecord
  <2>3. PICK c \in Nat : c = LivePrevious(w1)
    BY <1>3, <1>8 DEF LivePrevious, NoMarket
  <2>4. c = IF now < w.expected THEN w.current ELSE NoMarket
    BY <1>8, <2>3 DEF LivePrevious
  <2>5. PICK u \in Reports : /\ u = Report("SEARCHING_NEXT", c, NoMarket)
                             /\ u.current = c /\ u.next = NoMarket
    BY ReportFacts DEF NoMarket
  <2>6. /\ s.next = NoMarket /\ (w.current # NoMarket => s.current = w.current)
        /\ (s.current # NoMarket => n = s.current) /\ n < w.expected
    BY <1>3 DEF WorkerOK, Showing, Expecting
  <2>7. NewestOf(c, NoMarket, n) = n
    BY <2>4, <2>6 DEF NewestOf
  <2>8. Showing(v, u, n, now)
    <3>1. h => now >= w.expected \/ w.current = NoMarket
      BY <1>6
    <3>2. ~h => ~(now >= w.expected)
      BY <1>6
    <3>3. now < w.expected <=> ~(now >= w.expected)
      BY <1>3
    <3>4. ~h => c = w.current
      BY <2>4, <3>2, <3>3
    <3>5. h => c = NoMarket
      BY <2>4, <3>1, <3>3
    <3>6. c # NoMarket => n = c
      BY <2>4, <2>6
    <3> QED
      BY <2>2, <2>5, <3>1, <3>4, <3>5, <3>6 DEF Showing, Searching, Afterwards
  <2>9. InTime(v, now)
    BY <1>3, <1>5, <1>10, <2>2 DEF InTime, SlotTime, SearchStart
  <2>10. v.slot \in 0..LastSlot
    BY <1>3, <1>5, <1>15, <2>2 DEF LastSlot
  <2>11. WorkerOK(tf, v, u, n, l, a, now)
    BY <1>3, <2>2, <2>5, <2>6, <2>8, <2>9, <2>10, GoesOn DEF Searching
  <2> QED
    BY <1>1, <1>2, <1>3, <1>11, <1>12, <1>15, <2>1, <2>2, <2>3, <2>5, <2>7, <2>11, ReportStep
<1> QED
  BY <1>10, <1>13, <1>14, <1>15

\* Steps that may have to hide the previous market.
LEMMA HidingStep ==
    ASSUME IInv, NEW tf \in Timeframes, NEW w, w = worker[tf], w.pc \in {"slot", "request"},
           NEW after \in WorkerRecord, after.pc \in {"slot", "request"},
           after.expected = w.expected, after.current = w.current,
           after.hidden = w.hidden, after.expiry = w.expiry,
           after.slot \in 0..LastSlot, InTime(after, now), Hiding(tf, w, after),
           now' = now, log' = log, activated' = activated, locked' = locked, runner' = runner
    PROVE  IInv'
<1>1. PICK s, n, l, a : s = shown[tf] /\ n = newest[tf] /\ l = log[tf] /\ a = activated[tf]
  OBVIOUS
<1>2. /\ w \in WorkerRecord /\ now \in Nat /\ n \in Nat /\ s \in Reports
      /\ WorkerOK(tf, w, s, n, l, a, now) /\ w.expected \in Nat
  BY <1>1, TheWorker DEF WorkerRecord
<1>3. n < w.expected /\ n <= w.expected
  BY <1>2 DEF WorkerOK, Expecting
<1>4. CASE ~Overdue(w) /\ UNCHANGED <<shown, newest>> /\ Step(tf, after)
  <2>1. Showing(after, s, n, now)
    BY <1>2 DEF WorkerOK, Showing, Searching, Afterwards
  <2>2. WorkerOK(tf, after, s, n, l, a, now)
    BY <1>2, <1>3, <2>1, GoesOn DEF Searching
  <2> QED
    BY <1>1, <1>4, <2>2, SilentStep
<1>5. CASE Refused /\ Step(tf, Conclude([w EXCEPT !.hidden = TRUE], "exception"))
  <2>1. PICK w2 \in WorkerRecord : w2 = [w EXCEPT !.hidden = TRUE]
    BY <1>2 DEF WorkerRecord
  <2>2. w2.expected = w.expected /\ w2.current = w.current
    BY <1>2, <2>1 DEF WorkerRecord
  <2>3. PICK v \in WorkerRecord :
          /\ v = Conclude(w2, "exception") /\ v.outcome = "exception"
          /\ v.pc \in {"finishing", "ended"}
          /\ v.expected = w2.expected /\ v.current = w2.current
    BY <2>1, ExceptionFacts
  <2>4. WorkerOK(tf, v, s, n, l, a, now)
    BY <1>2, <2>2, <2>3, Throws DEF Searching
  <2>5. Step(tf, v) /\ v.pc # "writing"
    BY <1>5, <2>1, <2>3
  <2> QED
    BY <1>1, <1>5, <2>4, <2>5, SilentStep DEF Refused
<1>6. CASE /\ Overdue(w) /\ Show(tf, "SEARCHING_NEXT", NoMarket, NoMarket)
           /\ Step(tf, [after EXCEPT !.hidden = TRUE])
  <2>1. PICK v \in WorkerRecord : v = [after EXCEPT !.hidden = TRUE]
    BY DEF WorkerRecord
  <2>2. /\ v.pc = after.pc /\ v.expiry = w.expiry /\ v.hidden = TRUE /\ v.slot = after.slot
        /\ v.expected = w.expected /\ v.current = w.current /\ v.since = after.since
    BY <2>1 DEF WorkerRecord
  <2>3. PICK u \in Reports : /\ u = Report("SEARCHING_NEXT", NoMarket, NoMarket)
                             /\ u.current = NoMarket /\ u.next = NoMarket
    BY ReportFacts DEF NoMarket
  <2>4. NewestOf(NoMarket, NoMarket, n) = n
    BY DEF NewestOf
  <2>5. w.expiry # "none" /\ now >= w.expected
    BY <1>2, <1>6 DEF WorkerOK, Showing, Searching, Overdue
  <2>6. Showing(v, u, n, now)
    BY <2>2, <2>3, <2>5 DEF Showing, Searching, Afterwards
  <2>7. InTime(v, now)
    BY <2>2 DEF InTime, SlotTime, SearchStart
  <2>8. WorkerOK(tf, v, u, n, l, a, now)
    BY <1>2, <1>3, <2>2, <2>3, <2>6, <2>7, GoesOn DEF Searching
  <2>9. activated' = [activated EXCEPT ![tf] = a]
    BY <1>1, TheWorker, Unchanging
  <2>10. v.pc # "writing" /\ w.pc # "writing"
    BY <2>2
  <2> QED
    BY <1>1, <1>6, <2>1, <2>3, <2>4, <2>8, <2>9, <2>10, ReportStep
<1> QED
  BY <1>4, <1>5, <1>6 DEF Hiding

LEMMA SlotComesStep ==
    ASSUME IInv, NEW tf \in Timeframes, SlotComes(tf)
    PROVE  IInv'
<1>1. PICK w : w = worker[tf]
  OBVIOUS
<1>2. /\ w \in WorkerRecord /\ w.pc = "slot" /\ now \in Nat /\ now \in Times
      /\ w.expected \in Nat /\ Before \in Nat /\ After \in Nat /\ Timeout \in Nat
      /\ Hiding(tf, w, [w EXCEPT !.pc = "request", !.since = now])
  BY <1>1, TheWorker DEF SlotComes, WorkerRecord, Times
<1>3. /\ now <= SlotTime(w) /\ now >= SearchStart(w) /\ w.slot \in 0..LastSlot
  BY <1>1, <1>2, TheWorker DEF WorkerOK, InTime, Shape, Searching
<1>4. now <= w.expected + After
  BY <1>2, <1>3 DEF SlotTime, SearchStart, LastSlot
<1>5. PICK v \in WorkerRecord : v = [w EXCEPT !.pc = "request", !.since = now]
  BY <1>2 DEF WorkerRecord, PCs, Searching
<1>6. /\ v.pc = "request" /\ v.since = now /\ v.expected = w.expected /\ v.current = w.current
      /\ v.hidden = w.hidden /\ v.expiry = w.expiry /\ v.slot = w.slot
  BY <1>2, <1>5 DEF WorkerRecord
<1>7. InTime(v, now)
  BY <1>2, <1>3, <1>4, <1>6 DEF InTime, SearchStart
<1>8. /\ now' = now /\ log' = log /\ activated' = activated /\ locked' = locked
      /\ runner' = runner
  BY DEF SlotComes
<1> QED
  BY <1>1, <1>2, <1>3, <1>5, <1>6, <1>7, <1>8, HidingStep

LEMMA FoundEarlyStep ==
    ASSUME IInv, NEW tf \in Timeframes, FoundEarly(tf)
    PROVE  IInv'
<1>1. PICK w : w = worker[tf]
  OBVIOUS
<1>2. PICK s, n, l, a : s = shown[tf] /\ n = newest[tf] /\ l = log[tf] /\ a = activated[tf]
  OBVIOUS
<1>3. /\ w \in WorkerRecord /\ w.pc = "request" /\ now \in Nat /\ n \in Nat
      /\ WorkerOK(tf, w, s, n, l, a, now) /\ w.expected \in Nat /\ w.current \in Nat
      /\ now < w.expected
  BY <1>1, <1>2, TheWorker DEF FoundEarly, WorkerRecord
<1>4. PICK v \in WorkerRecord : v = [w EXCEPT !.pc = "ready"]
  BY <1>3 DEF WorkerRecord, PCs, Searching
<1>5. /\ v.pc = "ready" /\ v.expected = w.expected /\ v.current = w.current
      /\ v.expiry = w.expiry
  BY <1>3, <1>4 DEF WorkerRecord
<1>6. /\ now' = now /\ log' = log /\ activated' = activated /\ locked' = locked
      /\ runner' = runner
  BY DEF FoundEarly
<1>7. CASE Refused /\ Step(tf, Conclude(v, "exception"))
  <2>1. PICK x \in WorkerRecord :
          /\ x = Conclude(v, "exception") /\ x.outcome = "exception"
          /\ x.pc \in {"finishing", "ended"}
          /\ x.expected = v.expected /\ x.current = v.current
    BY <1>4, ExceptionFacts
  <2>2. WorkerOK(tf, x, s, n, l, a, now)
    BY <1>3, <1>5, <2>1, Throws DEF Searching
  <2>3. Step(tf, x) /\ x.pc # "writing" /\ w.pc # "writing"
    BY <1>3, <1>7, <2>1
  <2> QED
    BY <1>1, <1>2, <1>6, <1>7, <2>2, <2>3, SilentStep DEF Refused
<1>8. CASE Show(tf, "NEXT_READY", w.current, w.expected) /\ Step(tf, v)
  <2>1. PICK u \in Reports : /\ u = Report("NEXT_READY", w.current, w.expected)
                             /\ u.current = w.current /\ u.next = w.expected
    BY <1>3, ReportFacts
  <2>2. NewestOf(w.current, w.expected, n) = w.expected /\ w.expected # NoMarket
    BY <1>3 DEF NewestOf, NoMarket
  <2>3. w.expiry # "none" /\ now >= SearchStart(w)
    BY <1>3 DEF WorkerOK, Showing, InTime, Searching
  <2>4. Showing(v, u, w.expected, now)
    BY <1>5, <2>1, <2>2, <2>3 DEF Showing, Searching, Afterwards
  <2>5. InTime(v, now)
    BY <1>5, <2>3 DEF InTime, SearchStart
  <2>6. WorkerOK(tf, v, u, w.expected, l, a, now)
    BY <1>3, <1>5, <2>1, <2>4, <2>5, GoesOn DEF Searching
  <2>7. activated' = [activated EXCEPT ![tf] = a]
    BY <1>2, <1>6, TheWorker, Unchanging
  <2>8. v.pc # "writing" /\ w.pc # "writing"
    BY <1>3, <1>5
  <2> QED
    BY <1>1, <1>2, <1>6, <1>8, <2>1, <2>2, <2>6, <2>7, <2>8, ReportStep
<1>9. LivePrevious(w) = w.current
  BY <1>3 DEF LivePrevious
<1> QED
  BY <1>1, <1>4, <1>7, <1>8, <1>9 DEF FoundEarly

LEMMA ActivatesStep ==
    ASSUME IInv, NEW tf \in Timeframes, Activates(tf)
    PROVE  IInv'
<1>1. PICK w : w = worker[tf]
  OBVIOUS
<1>2. PICK s, n, l, a : s = shown[tf] /\ n = newest[tf] /\ l = log[tf] /\ a = activated[tf]
  OBVIOUS
<1>3. /\ w \in WorkerRecord /\ w.pc \in {"ready", "request"} /\ now \in Nat /\ n \in Nat
      /\ WorkerOK(tf, w, s, n, l, a, now) /\ w.expected \in Nat /\ a \in SUBSET Nat
  BY <1>1, <1>2, TheWorker DEF Activates, WorkerRecord
<1>4. /\ now' = now /\ log' = log /\ locked' = locked /\ runner' = runner
  BY DEF Activates
<1>5. CASE Refused /\ UNCHANGED activated /\ Step(tf, Conclude(w, "exception"))
  <2>1. PICK x \in WorkerRecord :
          /\ x = Conclude(w, "exception") /\ x.outcome = "exception"
          /\ x.pc \in {"finishing", "ended"}
          /\ x.expected = w.expected /\ x.current = w.current
    BY <1>3, ExceptionFacts
  <2>2. WorkerOK(tf, x, s, n, l, a, now)
    BY <1>3, <2>1, Throws DEF Searching
  <2>3. Step(tf, x) /\ x.pc # "writing" /\ w.pc # "writing"
    BY <1>3, <1>5, <2>1
  <2> QED
    BY <1>1, <1>2, <1>4, <1>5, <2>2, <2>3, SilentStep DEF Refused
<1>6. CASE /\ Show(tf, "ACTIVE", w.expected, NoMarket)
           /\ activated' = [activated EXCEPT ![tf] = @ \cup {w.expected}]
           /\ Step(tf, Conclude(w, "success"))
  <2>1. PICK v \in WorkerRecord :
          /\ v = Conclude(w, "success") /\ v.outcome = "success"
          /\ v.pc \in {"finishing", "logging", "ended"}
          /\ v.expected = w.expected /\ v.current = w.current
    BY <1>3, Concluded
  <2>2. WorkerOK(tf, v, Report("ACTIVE", w.expected, NoMarket), w.expected, l,
                 a \cup {w.expected}, now)
    BY <1>3, <2>1, Succeeds DEF Report
  <2>3. NewestOf(w.expected, NoMarket, n) = w.expected
    BY <1>3 DEF NewestOf, WorkerOK, Expecting, Boundary, NoMarket, Starting
  <2>4. Step(tf, v) /\ v.pc # "writing" /\ w.pc # "writing"
    BY <1>3, <1>6, <2>1
  <2>5. activated' = [activated EXCEPT ![tf] = a \cup {w.expected}]
    BY <1>2, <1>6
  <2> QED
    BY <1>1, <1>2, <1>4, <1>6, <2>2, <2>3, <2>4, <2>5, ReportStep
<1> QED
  BY <1>1, <1>5, <1>6 DEF Activates

LEMMA MissesStep ==
    ASSUME IInv, NEW tf \in Timeframes, Misses(tf)
    PROVE  IInv'
<1>1. PICK w : w = worker[tf]
  OBVIOUS
<1>2. PICK s, n, l, a : s = shown[tf] /\ n = newest[tf] /\ l = log[tf] /\ a = activated[tf]
  OBVIOUS
<1>3. /\ w \in WorkerRecord /\ w.pc = "request" /\ now \in Nat /\ n \in Nat
      /\ WorkerOK(tf, w, s, n, l, a, now) /\ w.expected \in Nat /\ Before \in Nat /\ After \in Nat
      /\ w.slot \in 0..LastSlot
  BY <1>1, <1>2, TheWorker DEF Misses, WorkerRecord, WorkerOK, Shape
<1>4. /\ now' = now /\ log' = log /\ activated' = activated /\ locked' = locked
      /\ runner' = runner
  BY DEF Misses
<1>5. CASE Refused /\ Step(tf, Conclude(w, "exception"))
  <2>1. PICK x \in WorkerRecord :
          /\ x = Conclude(w, "exception") /\ x.outcome = "exception"
          /\ x.pc \in {"finishing", "ended"}
          /\ x.expected = w.expected /\ x.current = w.current
    BY <1>3, ExceptionFacts
  <2>2. WorkerOK(tf, x, s, n, l, a, now)
    BY <1>3, <2>1, Throws DEF Searching
  <2>3. Step(tf, x) /\ x.pc # "writing" /\ w.pc # "writing"
    BY <1>3, <1>5, <2>1
  <2> QED
    BY <1>1, <1>2, <1>4, <1>5, <2>2, <2>3, SilentStep DEF Refused
<1>6. CASE /\ Show(tf, "TRANSITION_FAILED", NoMarket, NoMarket)
           /\ Step(tf, Conclude(w, "failure"))
  <2>1. PICK v \in WorkerRecord :
          /\ v = Conclude(w, "failure") /\ v.outcome = "failure"
          /\ v.pc \in {"finishing", "logging", "ended"}
          /\ v.expected = w.expected /\ v.current = w.current
    BY <1>3, Concluded
  <2>2. WorkerOK(tf, v, Nothing("TRANSITION_FAILED"), n, l, a, now)
    BY <1>3, <2>1, Fails
  <2>3. /\ Report("TRANSITION_FAILED", NoMarket, NoMarket) = Nothing("TRANSITION_FAILED")
        /\ NewestOf(NoMarket, NoMarket, n) = n
    BY DEF Report, Nothing, NewestOf
  <2>4. Step(tf, v) /\ v.pc # "writing" /\ w.pc # "writing"
    BY <1>3, <1>6, <2>1
  <2>5. activated' = [activated EXCEPT ![tf] = a]
    BY <1>2, <1>4, TheWorker, Unchanging
  <2> QED
    BY <1>1, <1>2, <1>4, <1>6, <2>2, <2>3, <2>4, <2>5, ReportStep
<1>7. CASE /\ NextSlot(w) <= LastSlot
           /\ Hiding(tf, w, [w EXCEPT !.pc = "slot", !.slot = NextSlot(w)])
  <2>1. PICK x : x = NextSlot(w)
    OBVIOUS
  <2>2. x \in Int /\ x >= 0 /\ x >= now + Before - w.expected /\ x <= LastSlot
    <3>1. w.slot + 1 \in Int /\ w.slot + 1 >= 0
      BY <1>3 DEF LastSlot
    <3>2. PICK y \in Int : y = now + Before - w.expected
      BY <1>3
    <3>3. x \in {w.slot + 1, y} /\ x >= w.slot + 1 /\ x >= y
      BY <2>1, <3>1, <3>2, MaxOfTwo DEF NextSlot
    <3> QED
      BY <1>3, <1>7, <2>1, <3>1, <3>2, <3>3
  <2>3. PICK v \in WorkerRecord : v = [w EXCEPT !.pc = "slot", !.slot = x]
    BY <1>3, <2>2 DEF WorkerRecord, PCs, Searching
  <2>4. /\ v.pc = "slot" /\ v.slot = x /\ v.expected = w.expected /\ v.current = w.current
        /\ v.hidden = w.hidden /\ v.expiry = w.expiry
    BY <1>3, <2>3 DEF WorkerRecord
  <2>5. now >= SearchStart(w)
    BY <1>3 DEF WorkerOK, InTime, Searching
  <2>6. InTime(v, now)
    BY <1>3, <2>2, <2>4, <2>5 DEF InTime, SlotTime, SearchStart
  <2>7. v.slot \in 0..LastSlot
    BY <1>3, <2>2, <2>4 DEF LastSlot
  <2>8. Hiding(tf, w, v)
    BY <1>7, <2>1, <2>3
  <2> QED
    BY <1>1, <1>3, <1>4, <2>4, <2>6, <2>7, <2>8, HidingStep
<1> QED
  BY <1>1, <1>5, <1>6, <1>7 DEF Misses

LEMMA ExpiresStep ==
    ASSUME IInv, NEW tf \in Timeframes, Expires(tf)
    PROVE  IInv'
<1>1. PICK w : w = worker[tf]
  OBVIOUS
<1>2. PICK s, n, l, a : s = shown[tf] /\ n = newest[tf] /\ l = log[tf] /\ a = activated[tf]
  OBVIOUS
<1>3. /\ w \in WorkerRecord /\ w.pc \in Searching /\ now \in Nat /\ n \in Nat /\ s \in Reports
      /\ WorkerOK(tf, w, s, n, l, a, now) /\ w.expected \in Nat /\ now >= w.expected
  BY <1>1, <1>2, TheWorker DEF Expires, WorkerRecord
<1>4. /\ now' = now /\ log' = log /\ activated' = activated /\ locked' = locked
      /\ runner' = runner /\ w.pc # "writing"
  BY <1>3 DEF Expires, Searching
<1>5. /\ n <= w.expected /\ (w.pc \in {"slot", "request"} => n < w.expected)
      /\ (w.pc \in {"slot", "request"} => w.slot \in 0..LastSlot)
  BY <1>3 DEF WorkerOK, Expecting, Shape, Searching, Afterwards
<1>6. \A v \in WorkerRecord :
        /\ v.pc = w.pc /\ v.since = w.since /\ v.expected = w.expected /\ v.slot = w.slot
        => InTime(v, now)
  BY <1>3 DEF WorkerOK, InTime, SlotTime, SearchStart
<1>7. CASE ~Hides(w) /\ UNCHANGED <<shown, newest>> /\ Step(tf, [w EXCEPT !.expiry = "done"])
  <2>1. PICK v \in WorkerRecord : v = [w EXCEPT !.expiry = "done"]
    BY <1>3 DEF WorkerRecord
  <2>2. /\ v.pc = w.pc /\ v.since = w.since /\ v.expected = w.expected /\ v.slot = w.slot
        /\ v.current = w.current /\ v.hidden = w.hidden /\ v.expiry = "done"
    BY <1>3, <2>1 DEF WorkerRecord
  <2>3. w.pc = "ready" \/ w.hidden
    BY <1>7 DEF Hides
  <2>4. w.pc \in {"slot", "request"} => w.expiry # "raised"
    BY <1>1 DEF Expires
  <2>5. Showing(v, s, n, now)
    BY <1>3, <2>2, <2>3, <2>4 DEF WorkerOK, Showing, Searching, Afterwards
  <2>6. WorkerOK(tf, v, s, n, l, a, now)
    BY <1>3, <1>5, <1>6, <2>2, <2>5, GoesOn
  <2> QED
    BY <1>1, <1>2, <1>4, <1>7, <2>1, <2>2, <2>6, SilentStep
<1>8. CASE Hides(w) /\ Refused /\ Step(tf, [w EXCEPT !.hidden = TRUE, !.expiry = "raised"])
  <2>1. PICK v \in WorkerRecord : v = [w EXCEPT !.hidden = TRUE, !.expiry = "raised"]
    BY <1>3 DEF WorkerRecord
  <2>2. /\ v.pc = w.pc /\ v.since = w.since /\ v.expected = w.expected /\ v.slot = w.slot
        /\ v.current = w.current /\ v.hidden = TRUE /\ v.expiry = "raised"
    BY <1>3, <2>1 DEF WorkerRecord
  <2>3. Showing(v, s, n, now)
    BY <1>3, <2>2 DEF WorkerOK, Showing, Searching, Afterwards
  <2>4. WorkerOK(tf, v, s, n, l, a, now)
    BY <1>3, <1>5, <1>6, <2>2, <2>3, GoesOn
  <2> QED
    BY <1>1, <1>2, <1>4, <1>8, <2>1, <2>2, <2>4, SilentStep DEF Refused
<1>9. CASE /\ Hides(w) /\ Show(tf, "SEARCHING_NEXT", NoMarket, NoMarket)
           /\ Step(tf, [w EXCEPT !.hidden = TRUE, !.expiry = "done"])
  <2>1. PICK v \in WorkerRecord : v = [w EXCEPT !.hidden = TRUE, !.expiry = "done"]
    BY <1>3 DEF WorkerRecord
  <2>2. /\ v.pc = w.pc /\ v.since = w.since /\ v.expected = w.expected /\ v.slot = w.slot
        /\ v.current = w.current /\ v.hidden = TRUE /\ v.expiry = "done"
    BY <1>3, <2>1 DEF WorkerRecord
  <2>3. PICK u \in Reports : /\ u = Report("SEARCHING_NEXT", NoMarket, NoMarket)
                             /\ u.current = NoMarket /\ u.next = NoMarket
    BY ReportFacts DEF NoMarket
  <2>4. NewestOf(NoMarket, NoMarket, n) = n
    BY DEF NewestOf
  <2>5. w.pc \in {"slot", "request"}
    BY <1>3, <1>9 DEF Hides, Searching
  <2>6. Showing(v, u, n, now)
    BY <1>3, <2>2, <2>3, <2>5 DEF Showing, Searching, Afterwards
  <2>7. WorkerOK(tf, v, u, n, l, a, now)
    BY <1>3, <1>5, <1>6, <2>2, <2>3, <2>6, GoesOn
  <2>8. activated' = [activated EXCEPT ![tf] = a]
    BY <1>2, <1>4, TheWorker, Unchanging
  <2>9. Show(tf, "SEARCHING_NEXT", NoMarket, NoMarket) /\ Step(tf, v) /\ v.pc # "writing"
    BY <1>4, <1>9, <2>1, <2>2
  <2> QED
    BY <1>1, <1>2, <1>4, <2>3, <2>4, <2>7, <2>8, <2>9, ReportStep
<1> QED
  BY <1>1, <1>7, <1>8, <1>9 DEF Expires

LEMMA FinishStep ==
    ASSUME IInv, NEW tf \in Timeframes, Finish(tf)
    PROVE  IInv'
<1>1. PICK w : w = worker[tf]
  OBVIOUS
<1>2. PICK s, n, l, a : s = shown[tf] /\ n = newest[tf] /\ l = log[tf] /\ a = activated[tf]
  OBVIOUS
<1>3. /\ w \in WorkerRecord /\ w.pc = "finishing" /\ WorkerOK(tf, w, s, n, l, a, now)
      /\ Step(tf, Leave([w EXCEPT !.expiry = "done"]))
  BY <1>1, <1>2, TheWorker DEF Finish
<1>4. /\ now' = now /\ log' = log /\ activated' = activated /\ locked' = locked
      /\ runner' = runner /\ shown' = shown /\ newest' = newest
  BY DEF Finish
<1>5. PICK w1 \in WorkerRecord : w1 = [w EXCEPT !.expiry = "done"]
  BY <1>3 DEF WorkerRecord
<1>6. w1.expected = w.expected /\ w1.current = w.current /\ w1.outcome = w.outcome
  BY <1>3, <1>5 DEF WorkerRecord
<1>7. CASE w1.outcome = "exception"
  <2>1. PICK v \in WorkerRecord : /\ v = Ended(w1) /\ v.pc = "ended"
                                  /\ v.expected = w1.expected /\ v.current = w1.current
    BY <1>5, EndedFacts
  <2>2. WorkerOK(tf, v, s, n, l, a, now)
    BY <1>3, <1>6, <2>1, Ends
  <2>3. Step(tf, v) /\ v.pc # "writing" /\ w.pc # "writing"
    BY <1>3, <1>5, <1>7, <2>1 DEF Leave
  <2> QED
    BY <1>1, <1>2, <1>4, <2>2, <2>3, SilentStep
<1>8. CASE w1.outcome # "exception"
  <2>1. PICK v \in WorkerRecord : v = [w1 EXCEPT !.pc = "logging"]
    BY <1>5 DEF WorkerRecord, PCs, Afterwards
  <2>2. /\ v.pc = "logging" /\ v.expected = w.expected /\ v.current = w.current
        /\ v.outcome = w.outcome
    BY <1>5, <1>6, <2>1 DEF WorkerRecord
  <2>3. Shape(tf, v, s, n, l, a) /\ AtStartup(tf, v, s, n, l, a, now) /\ InTime(v, now)
    BY <1>3, <2>2 DEF WorkerOK, Shape, AtStartup, Starting, InTime, Searching
  <2>4. Expecting(tf, v, n)
    BY <1>3, <2>2 DEF WorkerOK, Expecting, Starting, Afterwards
  <2>5. Showing(v, s, n, now)
    BY <1>3, <1>6, <1>8, <2>2 DEF WorkerOK, Showing, Searching, Afterwards
  <2>6. Logged(tf, v, l, a)
    BY <1>3, <1>6, <1>8, <2>2 DEF WorkerOK, Logged, Searching, Afterwards, Starting
  <2>7. WorkerOK(tf, v, s, n, l, a, now)
    BY <2>3, <2>4, <2>5, <2>6 DEF WorkerOK
  <2>8. Step(tf, v) /\ v.pc # "writing" /\ w.pc # "writing"
    BY <1>3, <1>5, <1>8, <2>1, <2>2 DEF Leave
  <2> QED
    BY <1>1, <1>2, <1>4, <2>7, <2>8, SilentStep
<1> QED
  BY <1>7, <1>8

LEMMA TakesLockStep ==
    ASSUME IInv, NEW tf \in Timeframes, TakesLock(tf)
    PROVE  IInv'
<1>1. PICK w : w = worker[tf]
  OBVIOUS
<1>2. PICK s, n, l, a : s = shown[tf] /\ n = newest[tf] /\ l = log[tf] /\ a = activated[tf]
  OBVIOUS
<1>3. /\ w \in WorkerRecord /\ w.pc = "logging" /\ WorkerOK(tf, w, s, n, l, a, now)
      /\ Step(tf, [w EXCEPT !.pc = "writing", !.since = now]) /\ now \in Times
      /\ locked = Nobody /\ locked' = tf
  BY <1>1, <1>2, TheWorker DEF TakesLock, Times
<1>4. /\ now' = now /\ log' = log /\ activated' = activated
      /\ runner' = runner /\ shown' = shown /\ newest' = newest
  BY DEF TakesLock
<1>5. PICK v \in WorkerRecord : v = [w EXCEPT !.pc = "writing", !.since = now]
  BY <1>3 DEF WorkerRecord, PCs, Afterwards
<1>6. /\ v.pc = "writing" /\ v.expected = w.expected /\ v.current = w.current
      /\ v.outcome = w.outcome
  BY <1>3, <1>5 DEF WorkerRecord
<1>7. Shape(tf, v, s, n, l, a) /\ AtStartup(tf, v, s, n, l, a, now) /\ InTime(v, now)
  BY <1>3, <1>6 DEF WorkerOK, Shape, AtStartup, Starting, InTime, Searching
<1>8. Expecting(tf, v, n)
  BY <1>3, <1>6 DEF WorkerOK, Expecting, Starting, Afterwards
<1>9. Showing(v, s, n, now)
  BY <1>3, <1>6 DEF WorkerOK, Showing, Searching, Afterwards
<1>10. Logged(tf, v, l, a)
  BY <1>3, <1>6 DEF WorkerOK, Logged, Searching, Afterwards, Starting
<1>11. WorkerOK(tf, v, s, n, l, a, now)
  BY <1>7, <1>8, <1>9, <1>10 DEF WorkerOK
<1>12. Becomes(tf, v, s, n, l, a)
  BY <1>2, <1>3, <1>4, <1>5, TheWorker, Unchanging DEF Becomes, Step
<1>13. \A u \in Timeframes \ {tf} : locked' = u <=> locked = u
  BY <1>3, DiscoveryAssumption
<1> QED
  BY <1>3, <1>4, <1>6, <1>11, <1>12, <1>13, OneStep

RecordOf(w) == [start |-> w.expected, success |-> w.outcome = "success"]

\* Log m has the record of the search of worker w at its end.
Complete(tf, w, m, a) ==
    /\ m \in Seq(LogRecord) /\ m # <<>> /\ m[Len(m)].start = w.expected
    /\ \A i \in DOMAIN m : /\ i > 1 => m[i].start = m[i - 1].start + Duration[tf]
                           /\ m[i].success <=> m[i].start \in a
                           /\ m[i].start <= w.expected
    /\ a \subseteq Starts(m)

\* The record that is written is the next one of the log.
LEMMA AppendedLog ==
    ASSUME NEW tf \in Timeframes, NEW w, NEW s, NEW n, NEW l, NEW a, NEW t,
           WorkerOK(tf, w, s, n, l, a, t), w.pc = "writing",
           NEW m, m = Append(l, RecordOf(w))
    PROVE  Complete(tf, w, m, a)
<1>1. w.expected \in Nat /\ l \in Seq(LogRecord) /\ Duration[tf] \in Nat
  BY DiscoveryAssumption DEF WorkerOK, Shape, WorkerRecord
<1>2. PICK r \in LogRecord : r = RecordOf(w)
  <2>1. PICK b \in BOOLEAN : b = (w.outcome = "success")
    OBVIOUS
  <2> QED
    BY <1>1, <2>1 DEF LogRecord, RecordOf
<1>3. r.start = w.expected /\ (r.success <=> w.outcome = "success")
  BY <1>2 DEF RecordOf
<1>4. PICK k \in Nat : k = Len(l)
  BY <1>1
<1>5. /\ m \in Seq(LogRecord) /\ Len(m) = k + 1 /\ m[k + 1] = r
      /\ \A i \in 1..k : m[i] = l[i]
  BY <1>1, <1>2, <1>4
<1>6. DOMAIN l = 1..k /\ DOMAIN m = 1..(k + 1)
  BY <1>1, <1>4, <1>5
<1>7. (k > 0 => l # <<>>) /\ Logged(tf, w, l, a)
  BY <1>1, <1>4 DEF WorkerOK
<1>8. \A i \in 1..k : /\ i > 1 => l[i].start = l[i - 1].start + Duration[tf]
                      /\ l[i].success <=> l[i].start \in a
  BY <1>6, <1>7 DEF Logged
<1>9. /\ \A i \in 1..k : l[i].start < w.expected
      /\ k > 0 => l[k].start = w.expected - Duration[tf]
  BY <1>4, <1>6, <1>7 DEF Logged, Starting
<1>10. /\ w.expected \in a <=> w.outcome = "success"
       /\ a \subseteq Starts(l) \cup {w.expected}
  BY <1>7 DEF Logged, Afterwards
<1>11. \A i \in 1..k : l[i].start \in Nat
  BY <1>1, <1>6, RecordsOfLog
<1>12. \A i \in 1..k : /\ i > 1 => m[i].start = m[i - 1].start + Duration[tf]
                       /\ m[i].success <=> m[i].start \in a
                       /\ m[i].start <= w.expected
  <2> SUFFICES ASSUME NEW i \in 1..k
               PROVE  /\ i > 1 => m[i].start = m[i - 1].start + Duration[tf]
                      /\ m[i].success <=> m[i].start \in a
                      /\ m[i].start <= w.expected
    OBVIOUS
  <2>1. m[i] = l[i] /\ (i > 1 => m[i - 1] = l[i - 1])
    BY <1>5
  <2>2. m[i].start <= w.expected
    BY <1>1, <1>9, <1>11, <2>1
  <2> QED
    BY <1>8, <2>1, <2>2
<1>13. /\ k + 1 > 1 => m[k + 1].start = m[k].start + Duration[tf]
       /\ m[k + 1].success <=> m[k + 1].start \in a
       /\ m[k + 1].start <= w.expected
  BY <1>1, <1>3, <1>5, <1>9, <1>10
<1>14. a \subseteq Starts(m)
  <2>1. \A i \in 1..k : l[i].start \in Starts(m)
    BY <1>5, <1>6 DEF Starts
  <2>2. w.expected \in Starts(m)
    BY <1>3, <1>5, <1>6 DEF Starts
  <2> QED
    BY <1>6, <1>10, <2>1, <2>2 DEF Starts
<1>15. m # <<>> /\ m[Len(m)].start = w.expected
  BY <1>3, <1>5
<1>16. \A i \in DOMAIN m : i \in 1..k \/ i = k + 1
  BY <1>6
<1> QED
  BY <1>5, <1>12, <1>13, <1>14, <1>15, <1>16 DEF Complete

LEMMA WrittenStep ==
    ASSUME IInv, NEW tf \in Timeframes, Written(tf)
    PROVE  IInv'
<1>1. PICK w : w = worker[tf]
  OBVIOUS
<1>2. PICK s, n, l, a : s = shown[tf] /\ n = newest[tf] /\ l = log[tf] /\ a = activated[tf]
  OBVIOUS
<1>3. PICK e, c : /\ e = w.expected + Duration[tf]
                  /\ c = IF w.outcome = "success" THEN w.expected ELSE NoMarket
  OBVIOUS
<1>4. PICK m : m = Append(l, RecordOf(w))
  OBVIOUS
<1>5. /\ w \in WorkerRecord /\ w.pc = "writing" /\ WorkerOK(tf, w, s, n, l, a, now)
      /\ Step(tf, [w EXCEPT !.pc = "waiting", !.expected = e, !.current = c])
      /\ log' = [log EXCEPT ![tf] = m] /\ locked' = Nobody
  BY <1>1, <1>2, <1>3, <1>4, TheWorker DEF Written, Onward, RecordOf
<1>6. /\ now' = now /\ activated' = activated /\ runner' = runner /\ shown' = shown
      /\ newest' = newest
  BY DEF Written
<1>7. /\ w.expected \in Nat /\ Duration[tf] \in Nat \ {0} /\ e \in Nat /\ c \in Nat
      /\ w.expected < e /\ n \in Nat /\ s \in Reports /\ a \in SUBSET Nat
  BY <1>1, <1>2, <1>3, <1>5, TheWorker DEF WorkerRecord, NoMarket
<1>8. PICK v \in WorkerRecord : v = [w EXCEPT !.pc = "waiting", !.expected = e, !.current = c]
  BY <1>5, <1>7 DEF WorkerRecord, PCs
<1>9. v.pc = "waiting" /\ v.expected = e /\ v.current = c
  BY <1>5, <1>8 DEF WorkerRecord
<1>10. /\ m \in Seq(LogRecord) /\ m # <<>> /\ m[Len(m)].start = w.expected
       /\ \A i \in DOMAIN m : /\ i > 1 => m[i].start = m[i - 1].start + Duration[tf]
                              /\ m[i].success <=> m[i].start \in a
                              /\ m[i].start <= w.expected
       /\ a \subseteq Starts(m)
  <2>1. Complete(tf, w, m, a)
    BY <1>4, <1>5, AppendedLog
  <2> QED
    BY <2>1 DEF Complete
<1>11. Shape(tf, v, s, n, m, a)
  <2>1. c \in {NoMarket, e - Duration[tf]}
    BY <1>3, <1>7
  <2> QED
    BY <1>7, <1>9, <1>10, <2>1 DEF Shape
<1>12. AtStartup(tf, v, s, n, m, a, now) /\ InTime(v, now)
  BY <1>9 DEF AtStartup, Starting, InTime, Searching
<1>13. Expecting(tf, v, n)
  <2>1. Boundary(tf, w.expected) /\ n <= w.expected
    BY <1>5 DEF WorkerOK, Expecting, Starting, Afterwards
  <2>2. Boundary(tf, e)
    BY <1>3, <1>7, <2>1, NextBoundary
  <2> QED
    BY <1>7, <1>9, <2>1, <2>2 DEF Expecting, Afterwards, Starting
<1>14. Showing(v, s, n, now)
  BY <1>3, <1>5, <1>9 DEF WorkerOK, Showing, Searching, Afterwards
<1>15. Logged(tf, v, m, a)
  <2>1. \A i \in DOMAIN m : m[i].start < e
    BY <1>7, <1>10, RecordsOfLog
  <2>2. m[Len(m)].start = e - Duration[tf]
    BY <1>3, <1>7, <1>10
  <2> QED
    BY <1>9, <1>10, <2>1, <2>2 DEF Logged, Searching, Afterwards, Starting
<1>16. WorkerOK(tf, v, s, n, m, a, now)
  BY <1>11, <1>12, <1>13, <1>14, <1>15 DEF WorkerOK
<1>17. Becomes(tf, v, s, n, m, a)
  BY <1>2, <1>5, <1>6, <1>8, TheWorker, Unchanging DEF Becomes, Step
<1>18. \A u \in Timeframes : locked' # u
  BY <1>5, DiscoveryAssumption
<1>19. locked = tf
  BY <1>1, <1>5 DEF IInv
<1>20. \A u \in Timeframes \ {tf} : locked' = u <=> locked = u
  BY <1>18, <1>19
<1> QED
  BY <1>6, <1>9, <1>16, <1>17, <1>18, <1>20, OneStep

LEMMA WriteFailsStep ==
    ASSUME IInv, NEW tf \in Timeframes, WriteFails(tf)
    PROVE  IInv'
<1>1. PICK w : w = worker[tf]
  OBVIOUS
<1>2. PICK s, n, l, a : s = shown[tf] /\ n = newest[tf] /\ l = log[tf] /\ a = activated[tf]
  OBVIOUS
<1>3. /\ w \in WorkerRecord /\ w.pc = "writing" /\ WorkerOK(tf, w, s, n, l, a, now)
      /\ Step(tf, [Ended(w) EXCEPT !.outcome = "unlogged"]) /\ locked' = Nobody
  BY <1>1, <1>2, TheWorker DEF WriteFails
<1>4. /\ now' = now /\ log' = log /\ activated' = activated
      /\ runner' = runner /\ shown' = shown /\ newest' = newest
  BY DEF WriteFails
<1>5. PICK w1 \in WorkerRecord : /\ w1 = Ended(w) /\ w1.pc = "ended"
                                 /\ w1.expected = w.expected /\ w1.current = w.current
  BY <1>3, EndedFacts
<1>6. PICK v \in WorkerRecord : v = [w1 EXCEPT !.outcome = "unlogged"]
  BY <1>5 DEF WorkerRecord
<1>7. v.pc = "ended" /\ v.expected = w.expected /\ v.current = w.current
  BY <1>5, <1>6 DEF WorkerRecord
<1>8. WorkerOK(tf, v, s, n, l, a, now)
  BY <1>3, <1>7, Ends
<1>9. Becomes(tf, v, s, n, l, a)
  BY <1>2, <1>3, <1>4, <1>5, <1>6, TheWorker, Unchanging DEF Becomes, Step
<1>10. \A u \in Timeframes : locked' # u
  BY <1>3, DiscoveryAssumption
<1>11. locked = tf
  BY <1>1, <1>3 DEF IInv
<1>12. \A u \in Timeframes \ {tf} : locked' = u <=> locked = u
  BY <1>10, <1>11
<1> QED
  BY <1>4, <1>7, <1>8, <1>9, <1>10, <1>12, OneStep

LEMMA WorkerStep ==
    ASSUME IInv, NEW tf \in Timeframes, Worker(tf)
    PROVE  IInv'
BY StartupFoundStep, StartupMissesStep, StartupRetriesStep, SearchBeginsStep, SlotComesStep,
   FoundEarlyStep, ActivatesStep, MissesStep, ExpiresStep, FinishStep, TakesLockStep,
   WrittenStep, WriteFailsStep DEF Worker

-----------------------------------------------------------------------------
(* The steps of the runner and of time, which concern all workers.          *)

LEMMA CancelledWorker ==
    ASSUME NEW tf \in Timeframes, NEW w, NEW s, NEW n, NEW l, NEW a,
           WorkerOK(tf, w, s, n, l, a, now), NEW x \in Leftover(w)
    PROVE  /\ WorkerOK(tf, Cancelled(w), s, n, l \o x, a, now)
           /\ Cancelled(w).pc # "writing"
<1>1. w \in WorkerRecord /\ l \in Seq(LogRecord)
  BY DEF WorkerOK, Shape
<1>2. PICK v \in WorkerRecord : /\ v = Ended(w) /\ v.pc = "ended"
                                /\ v.expected = w.expected /\ v.current = w.current
  BY <1>1, EndedFacts
<1>3. CASE w.pc = "writing"
  <2>1. Cancelled(w) = v
    BY <1>2, <1>3 DEF Cancelled, Searching
  <2>2. WorkerOK(tf, v, s, n, l, a, now)
    BY <1>2, Ends
  <2>3. CASE x = <<>>
    BY <1>1, <1>2, <2>1, <2>2, <2>3
  <2>4. CASE x # <<>>
    <3>1. x = <<RecordOf(w)>>
      BY <1>3, <2>4 DEF Leftover, RecordOf
    <3>2. PICK r \in LogRecord : r = RecordOf(w)
      <4>1. PICK b \in BOOLEAN : b = (w.outcome = "success")
        OBVIOUS
      <4> QED
        BY <1>1, <4>1 DEF LogRecord, RecordOf, WorkerRecord
    <3>3. PICK m : m = Append(l, RecordOf(w))
      OBVIOUS
    <3>4. l \o x = m
      BY <1>1, <3>1, <3>2, <3>3
    <3>5. Complete(tf, w, m, a)
      BY <1>3, <3>3, AppendedLog
    <3>6. Shape(tf, v, s, n, m, a)
      BY <2>2, <3>5 DEF WorkerOK, Shape, Complete
    <3>7. Logged(tf, v, m, a)
      BY <1>2, <3>5 DEF Logged, Complete, Starting, Searching, Afterwards
    <3>8. AtStartup(tf, v, s, n, m, a, now)
      BY <1>2 DEF AtStartup, Starting
    <3>9. WorkerOK(tf, v, s, n, m, a, now)
      BY <2>2, <3>6, <3>7, <3>8 DEF WorkerOK
    <3> QED
      BY <1>2, <2>1, <3>4, <3>9
  <2> QED
    BY <2>3, <2>4
<1>4. CASE w.pc # "writing"
  <2>1. l \o x = l
    BY <1>1, <1>4 DEF Leftover
  <2>2. CASE w.pc \in {"ended", "finishing"}
    BY <1>4, <2>1, <2>2 DEF Cancelled, Searching
  <2>3. CASE w.pc \in Searching
    <3>1. Cancelled(w) = Conclude(w, "exception")
      BY <2>3 DEF Cancelled, Searching
    <3>2. PICK u \in WorkerRecord :
            /\ u = Conclude(w, "exception") /\ u.outcome = "exception"
            /\ u.pc \in {"finishing", "ended"}
            /\ u.expected = w.expected /\ u.current = w.current
      BY <1>1, ExceptionFacts
    <3>3. WorkerOK(tf, u, s, n, l, a, now)
      BY <2>3, <3>2, Throws
    <3> QED
      BY <2>1, <3>1, <3>2, <3>3
  <2>4. CASE w.pc \notin {"ended", "finishing"} /\ w.pc \notin Searching
    <3>1. Cancelled(w) = v
      BY <1>2, <2>4 DEF Cancelled
    <3>2. WorkerOK(tf, v, s, n, l, a, now)
      BY <1>2, Ends
    <3> QED
      BY <1>2, <2>1, <3>1, <3>2
  <2> QED
    BY <2>2, <2>3, <2>4
<1> QED
  BY <1>3, <1>4

\* All workers change, or time passes: what is known of each is enough.
LEMMA AllStep ==
    ASSUME IInv, runner' \in {"running", "cancelling", "stopping", "ended"}, now' \in Times,
           worker' = [tf \in Timeframes |-> worker'[tf]], log' = [tf \in Timeframes |-> log'[tf]],
           shown' = shown, newest' = newest, activated' = activated,
           \A tf \in Timeframes :
             /\ WorkerOK(tf, worker'[tf], shown[tf], newest[tf], log'[tf], activated[tf], now')
             /\ locked' = tf <=> worker'[tf].pc = "writing"
    PROVE  IInv'
<1>1. \A tf \in Timeframes : worker'[tf] \in WorkerRecord /\ log'[tf] \in Seq(LogRecord)
  BY DEF WorkerOK, Shape
<1>2. Functions'
  BY <1>1 DEF IInv, Functions
<1>3. (\A tf \in Timeframes :
        WorkerOK(tf, worker[tf], shown[tf], newest[tf], log[tf], activated[tf], now))'
  BY DEF WorkerOK, Shape, AtStartup, Expecting, InTime, Showing, Logged, SlotTime, SearchStart,
         Boundary, Starts
<1> QED
  BY <1>2, <1>3 DEF IInv, Times

LEMMA CancelStep ==
    ASSUME IInv, Cancel, runner' \in {"running", "cancelling", "stopping", "ended"}
    PROVE  IInv'
<1>1. PICK left : /\ \A tf \in Timeframes : left[tf] \in Leftover(worker[tf])
                  /\ log' = [tf \in Timeframes |-> log[tf] \o left[tf]]
  BY DEF Cancel
<1>2. /\ worker' = [tf \in Timeframes |-> Cancelled(worker[tf])] /\ locked' = Nobody
      /\ now' = now /\ shown' = shown /\ newest' = newest /\ activated' = activated
  BY DEF Cancel, CancelAll
<1>3. \A tf \in Timeframes :
        /\ worker'[tf] = Cancelled(worker[tf]) /\ log'[tf] = log[tf] \o left[tf]
  BY <1>1, <1>2
<1>4. \A tf \in Timeframes :
        /\ WorkerOK(tf, worker'[tf], shown[tf], newest[tf], log'[tf], activated[tf], now')
        /\ worker'[tf].pc # "writing"
  BY <1>1, <1>2, <1>3, TheWorker, CancelledWorker
<1>5. \A tf \in Timeframes : locked' # tf
  BY <1>2, DiscoveryAssumption
<1>6. /\ worker' = [tf \in Timeframes |-> worker'[tf]] /\ log' = [tf \in Timeframes |-> log'[tf]]
      /\ now' \in Times
  BY <1>1, <1>2 DEF IInv, Times
<1> QED
  BY <1>2, <1>4, <1>5, <1>6, AllStep

LEMMA TimePasses ==
    ASSUME NEW tf \in Timeframes, NEW w, NEW s, NEW n, NEW l, NEW a,
           WorkerOK(tf, w, s, n, l, a, now), ~Due(w), now \in Nat
    PROVE  WorkerOK(tf, w, s, n, l, a, now + 1)
<1>1. /\ w.expected \in Nat /\ w.slot \in Int /\ w.since \in Nat
      /\ Before \in Nat /\ After \in Nat /\ Timeout \in Nat /\ Duration[tf] \in Nat
  BY DiscoveryAssumption DEF WorkerOK, Shape, WorkerRecord, Times
<1>2. AtStartup(tf, w, s, n, l, a, now + 1)
  BY <1>1 DEF WorkerOK, AtStartup
<1>3. InTime(w, now + 1)
  <2>1. /\ w.pc = "slot" => ~(now >= SlotTime(w))
        /\ w.pc = "request" => ~(now >= w.since + Timeout)
    BY DEF Due
  <2>2. /\ w.pc = "request" => w.since <= w.expected + After
        /\ w.pc \in Searching => now >= SearchStart(w)
    BY DEF WorkerOK, InTime
  <2> QED
    BY <1>1, <2>1, <2>2 DEF InTime, SlotTime, SearchStart
<1>4. Showing(w, s, n, now + 1)
  <2>1. now >= w.expected => now + 1 >= w.expected
    BY <1>1
  <2> QED
    BY <2>1 DEF WorkerOK, Showing
<1> QED
  BY <1>2, <1>3, <1>4 DEF WorkerOK

LEMMA TickStep ==
    ASSUME IInv, Tick
    PROVE  IInv'
<1>1. /\ now \in Nat /\ now' = now + 1 /\ now < MaxTime /\ MaxTime \in Nat
      /\ \A tf \in Timeframes : ~Due(worker[tf])
  BY DiscoveryAssumption DEF Tick, Quiet, IInv, Times
<1>2. /\ worker' = worker /\ log' = log /\ shown' = shown /\ newest' = newest
      /\ activated' = activated /\ locked' = locked /\ runner' = runner
  BY DEF Tick
<1>3. \A tf \in Timeframes :
        WorkerOK(tf, worker[tf], shown[tf], newest[tf], log[tf], activated[tf], now + 1)
  BY <1>1, TheWorker, TimePasses
<1>4. \A tf \in Timeframes :
        /\ WorkerOK(tf, worker'[tf], shown[tf], newest[tf], log'[tf], activated[tf], now')
        /\ locked' = tf <=> worker'[tf].pc = "writing"
  BY <1>1, <1>2, <1>3 DEF IInv
<1>5. /\ worker' = [tf \in Timeframes |-> worker'[tf]] /\ log' = [tf \in Timeframes |-> log'[tf]]
      /\ now' \in Times /\ runner' \in {"running", "cancelling", "stopping", "ended"}
  BY <1>1, <1>2 DEF IInv, Functions, Times
<1> QED
  BY <1>2, <1>4, <1>5, AllStep

LEMMA Initially == Init => IInv
<1> SUFFICES ASSUME Init
             PROVE  IInv
  OBVIOUS
<1>1. now \in Nat /\ now \in Times /\ \A tf \in Timeframes : now >= Duration[tf]
  BY DiscoveryAssumption DEF Init, Times
<1>2. PICK w : w = [pc |-> "resolving", since |-> now, attempts |-> 1,
                    expected |-> 0, current |-> NoMarket, slot |-> 0,
                    hidden |-> TRUE, expiry |-> "none", outcome |-> "none"]
  OBVIOUS
<1>3. w \in WorkerRecord
  BY <1>1, <1>2, DiscoveryAssumption DEF WorkerRecord, PCs, Starting, NoMarket
<1>4. w.pc = "resolving" /\ w.since = now /\ w.current = NoMarket /\ w.expected = 0
  BY <1>2
<1>5. PICK s : s = Nothing("none")
  OBVIOUS
<1>6. s \in Reports /\ s.current = NoMarket /\ s.next = NoMarket
  BY <1>5 DEF Reports, Nothing, NoMarket
<1>7. \A tf \in Timeframes : WorkerOK(tf, w, s, NoMarket, <<>>, {}, now)
  <2> SUFFICES ASSUME NEW tf \in Timeframes
               PROVE  WorkerOK(tf, w, s, NoMarket, <<>>, {}, now)
    OBVIOUS
  <2>1. Shape(tf, w, s, NoMarket, <<>>, {})
    BY <1>3, <1>4, <1>6 DEF Shape, NoMarket
  <2>2. AtStartup(tf, w, s, NoMarket, <<>>, {}, now) /\ InTime(w, now)
    BY <1>1, <1>4, <1>6, DiscoveryAssumption DEF AtStartup, Starting, InTime, Searching
  <2>3. Expecting(tf, w, NoMarket)
    BY <1>4 DEF Expecting, Starting, Afterwards
  <2>4. Showing(w, s, NoMarket, now)
    BY <1>4, <1>6 DEF Showing, Searching, Afterwards
  <2>5. Logged(tf, w, <<>>, {})
    BY <1>4 DEF Logged, Starting, Searching, Afterwards
  <2> QED
    BY <2>1, <2>2, <2>3, <2>4, <2>5 DEF WorkerOK
<1>8. \A tf \in Timeframes :
        /\ worker[tf] = w /\ shown[tf] = s /\ newest[tf] = NoMarket /\ log[tf] = <<>>
        /\ activated[tf] = {}
  BY <1>2, <1>5 DEF Init, Nothing
<1>9. Functions
  BY <1>2, <1>3, <1>5, <1>6 DEF Functions, Init, Nothing, NoMarket
<1>10. \A tf \in Timeframes : locked # tf
  BY DiscoveryAssumption DEF Init
<1> QED
  BY <1>1, <1>4, <1>7, <1>8, <1>9, <1>10 DEF IInv, Init

LEMMA Inductive == IInv /\ [Next]_vars => IInv'
<1> SUFFICES ASSUME IInv, [Next]_vars
             PROVE  IInv'
  OBVIOUS
<1>1. CASE \E tf \in Timeframes : Worker(tf)
  BY <1>1, WorkerStep
<1>2. CASE Shutdown
  <2>1. runner' \in {"running", "cancelling", "stopping", "ended"}
    BY <1>2 DEF Shutdown, IInv
  <2> QED
    BY <1>2, <2>1, CancelStep DEF Shutdown
<1>3. CASE RunnerStops
  BY <1>3, CancelStep DEF RunnerStops
<1>4. CASE RunnerEnds \/ UNCHANGED vars
  <2>1. /\ worker' = worker /\ log' = log /\ shown' = shown /\ newest' = newest
        /\ activated' = activated /\ locked' = locked /\ now' = now
        /\ runner' \in {"running", "cancelling", "stopping", "ended"}
    BY <1>4 DEF RunnerEnds, vars, IInv
  <2>2. \A tf \in Timeframes :
          /\ WorkerOK(tf, worker'[tf], shown[tf], newest[tf], log'[tf], activated[tf], now')
          /\ locked' = tf <=> worker'[tf].pc = "writing"
    BY <2>1 DEF IInv
  <2>3. /\ worker' = [tf \in Timeframes |-> worker'[tf]]
        /\ log' = [tf \in Timeframes |-> log'[tf]] /\ now' \in Times
    BY <2>1 DEF IInv, Functions, Times
  <2> QED
    BY <2>1, <2>2, <2>3, AllStep
<1>5. CASE Tick
  BY <1>5, TickStep
<1> QED
  BY <1>1, <1>2, <1>3, <1>4, <1>5 DEF Next

\* The inductive invariant holds of every behaviour.
THEOREM Invariant == Spec => []IInv
BY Initially, Inductive, PTL DEF Spec

-----------------------------------------------------------------------------
(* What follows from it.                                                   *)

\* Types; and the lock of the log is held by the worker that writes, so that no
\* cancellation and no failure of a write leaves it behind.
THEOREM TypeCorrect == Spec => []TypeOK
<1>1. IInv => TypeOK
  <2> SUFFICES ASSUME IInv
               PROVE  TypeOK
    OBVIOUS
  <2>1. ASSUME NEW tf \in Timeframes
        PROVE  LET w == worker[tf] IN
                 /\ w.pc \in Searching \cup {"resolving", "retry", "waiting", "finishing",
                                             "logging", "writing", "ended"}
                 /\ w.since \in Times /\ w.attempts \in 1..StartupAttempts
                 /\ w.expected \in Boundaries
                 /\ w.current \in {NoMarket, w.expected - Duration[tf]}
                 /\ w.pc \in {"slot", "request"} => w.slot \in 0..LastSlot
                 /\ w.expiry \in {"none", "waiting", "done", "raised"}
                 /\ w.outcome \in {"none", "success", "failure", "exception", "unlogged"}
                 /\ locked = tf <=> w.pc = "writing"
    <3>1. PICK w \in WorkerRecord : w = worker[tf]
      BY <2>1, TheWorker
    <3>2. /\ w.current \in {NoMarket, w.expected - Duration[tf]}
          /\ w.pc \in {"slot", "request"} => w.slot \in 0..LastSlot
          /\ locked = tf <=> w.pc = "writing"
      BY <2>1, <3>1 DEF IInv, WorkerOK, Shape
    <3>3. /\ w.pc \in Searching \cup {"resolving", "retry", "waiting", "finishing",
                                      "logging", "writing", "ended"}
          /\ w.since \in Times /\ w.attempts \in 1..StartupAttempts
          /\ w.expected \in Boundaries
          /\ w.expiry \in {"none", "waiting", "done", "raised"}
          /\ w.outcome \in {"none", "success", "failure", "exception", "unlogged"}
      BY DEF WorkerRecord, PCs, Starting, Afterwards, Boundaries
    <3> QED
      BY <3>1, <3>2, <3>3
  <2> QED
    BY <2>1 DEF TypeOK, IInv
<1> QED
  BY <1>1, Invariant, PTL

\* A search ends in time: a request is sent in its slot, the last slot is
\* After units after the boundary, and a request takes at most Timeout.
THEOREM SearchesEnd == Spec => []SearchIsBounded
<1>1. IInv => SearchIsBounded
  <2> SUFFICES ASSUME IInv, NEW tf \in Timeframes, worker[tf].pc \in {"slot", "request"}
               PROVE  now <= worker[tf].expected + After + Timeout
    BY DEF SearchIsBounded
  <2>1. PICK w \in WorkerRecord : w = worker[tf]
    BY TheWorker
  <2>2. /\ w.expected \in Nat /\ w.since \in Nat /\ w.slot \in 0..LastSlot
        /\ Before \in Nat /\ After \in Nat /\ Timeout \in Nat /\ now \in Nat
    BY <2>1, TheWorker DEF WorkerOK, Shape, WorkerRecord, Times
  <2>3. InTime(w, now)
    BY <2>1, TheWorker DEF WorkerOK
  <2> QED
    BY <2>1, <2>2, <2>3 DEF InTime, SlotTime, SearchStart, LastSlot
<1> QED
  BY <1>1, Invariant, PTL

\* A market that is over is not shown as current, nor one that has begun as
\* merely ready, once what is due is done: the expiry task has hidden the one,
\* and the search has activated the other.
THEOREM ExpiredMarketsAreHidden == Spec => []ExpiredIsHidden
<1>1. IInv => ExpiredIsHidden
  <2> SUFFICES ASSUME IInv, Quiet, NEW tf \in Timeframes,
                      worker[tf].pc \in Searching, worker[tf].expiry # "raised"
               PROVE  /\ shown[tf].current # NoMarket => now < shown[tf].current + Duration[tf]
                      /\ shown[tf].next # NoMarket => now < shown[tf].next
    BY DEF ExpiredIsHidden, Searching
  <2>1. PICK w \in WorkerRecord : w = worker[tf]
    BY TheWorker
  <2>2. PICK s \in Reports : s = shown[tf]
    BY TheWorker
  <2>3. /\ w.expected \in Nat /\ s.current \in Nat /\ now \in Nat /\ Duration[tf] \in Nat
        /\ w.current \in {NoMarket, w.expected - Duration[tf]}
    BY <2>1, TheWorker DEF WorkerOK, Shape, WorkerRecord, Reports
  <2>4. Showing(w, s, newest[tf], now)
    BY <2>1, <2>2, TheWorker DEF WorkerOK
  <2>5. /\ w.pc = "ready" => now < w.expected
        /\ w.expiry = "waiting" => now < w.expected
    BY <2>1, <2>3 DEF Quiet, Due, ExpiryDue
  <2>6. w.expiry \in {"waiting", "done"}
    BY <2>1, <2>4 DEF Showing, WorkerRecord
  <2>7. CASE w.pc = "ready"
    BY <2>1, <2>2, <2>3, <2>4, <2>5, <2>7 DEF Showing, NoMarket
  <2>8. CASE w.pc \in {"slot", "request"}
    <3>1. s.next = NoMarket
      BY <2>4, <2>8 DEF Showing
    <3>2. CASE w.hidden
      BY <2>1, <2>2, <2>4, <2>8, <3>1, <3>2 DEF Showing
    <3>3. CASE ~w.hidden
      <4>1. w.expiry = "waiting" /\ s.current = w.current
        BY <2>4, <2>6, <2>8, <3>3 DEF Showing
      <4> QED
        BY <2>2, <2>3, <2>5, <3>1, <4>1
    <3> QED
      BY <3>2, <3>3
  <2> QED
    BY <2>1, <2>7, <2>8 DEF Searching
<1> QED
  BY <1>1, Invariant, PTL

\* The log of a worker that is alive has a record of each of its searches, in
\* order and without a hole, which tells the truth.
THEOREM LogTellsAll == Spec => []LogIsComplete
<1>1. IInv => LogIsComplete
  <2> SUFFICES ASSUME IInv, NEW tf \in Timeframes
               PROVE  LET w == worker[tf]
                          records == log[tf]
                      IN
                      /\ \A i \in DOMAIN records :
                           /\ i > 1 => records[i].start = records[i - 1].start + Duration[tf]
                           /\ records[i].success <=> records[i].start \in activated[tf]
                      /\ w.pc \in Searching \cup {"waiting"} =>
                           /\ records # <<>> => Last(records).start = w.expected - Duration[tf]
                           /\ activated[tf] \subseteq {records[i].start : i \in DOMAIN records}
    BY DEF LogIsComplete
  <2>1. Logged(tf, worker[tf], log[tf], activated[tf])
    BY TheWorker DEF WorkerOK
  <2> QED
    BY <2>1 DEF Logged, Starts, Last, Searching, Starting
<1> QED
  BY <1>1, Invariant, PTL

-----------------------------------------------------------------------------
(* Discovery implements MarketWindows.                                     *)

NewMarket(tf, m) == m \in Beginnings[tf] /\ m > newest[tf]

\* What is shown follows what has been shown, or is the same.
LEMMA ShownFollows ==
    ASSUME Functions, NEW tf \in Timeframes, NEW state, NEW c \in Nat, NEW x \in Nat,
           Show(tf, state, c, x), NEW s, s = shown[tf],
           s.next # NoMarket => state = "ACTIVE" /\ c = s.next /\ x = NoMarket,
           s.next = NoMarket =>
             \/ state = "ACTIVE" /\ NewMarket(tf, c) /\ x = NoMarket
             \/ /\ state # "ACTIVE" /\ c \in {s.current, NoMarket}
                /\ x = NoMarket \/ NewMarket(tf, x),
           NewestOf(s.current, s.next, newest[tf]) = newest[tf]
    PROVE  Windows!Next \/ UNCHANGED <<Reported, newest>>
<1>1. PICK w : w = [active |-> s.state = "ACTIVE", current |-> s.current, next |-> s.next]
  OBVIOUS
<1>2. PICK v : v = [active |-> state = "ACTIVE", current |-> c, next |-> x]
  OBVIOUS
<1>3. Reported[tf] = w /\ w.current = s.current /\ w.next = s.next
  BY <1>1 DEF Reported
<1>4. Reported' = [Reported EXCEPT ![tf] = v]
  <2>1. \A u \in Timeframes : shown'[u] = IF u = tf THEN Report(state, c, x) ELSE shown[u]
    BY DEF Show, Functions, Report
  <2>2. Report(state, c, x).state = state /\ Report(state, c, x).current = c
        /\ Report(state, c, x).next = x
    BY DEF Report
  <2>3. \A u \in Timeframes :
          Reported'[u] = IF u = tf THEN v ELSE Reported[u]
    BY <1>2, <2>1, <2>2 DEF Reported
  <2> QED
    BY <2>3 DEF Reported
<1>5. newest' = [newest EXCEPT ![tf] = NewestOf(c, x, newest[tf])]
  BY DEF Show, NewestOf
<1>6. CASE v = w
  <2>1. Reported' = Reported
    BY <1>3, <1>4, <1>6 DEF Reported
  <2>2. c = s.current /\ x = s.next
    BY <1>1, <1>2, <1>6
  <2>3. newest' = newest
    BY <1>5, <2>2, SameValue DEF Functions
  <2> QED
    BY <2>1, <2>3
<1>7. CASE v # w
  <2>1. v \in Windows!Following(tf, w)
    <3>1. CASE s.next # NoMarket
      BY <1>2, <1>3, <1>7, <3>1 DEF Windows!Following, NoMarket, Windows!NoMarket
    <3>2. CASE s.next = NoMarket /\ state = "ACTIVE"
      BY <1>2, <1>3, <1>7, <3>2
         DEF Windows!Following, NoMarket, Windows!NoMarket, NewMarket, Windows!NewMarkets
    <3>3. CASE s.next = NoMarket /\ state # "ACTIVE"
      BY <1>2, <1>3, <1>7, <3>3
         DEF Windows!Following, NoMarket, Windows!NoMarket, NewMarket, Windows!NewMarkets
    <3> QED
      BY <3>1, <3>2, <3>3
  <2>2. v.current = c /\ v.next = x
    BY <1>2
  <2>3. Windows!Newest(v, newest[tf]) = NewestOf(c, x, newest[tf])
    BY <2>2 DEF Windows!Newest, NewestOf, NoMarket, Windows!NoMarket
  <2>4. Windows!Report(tf, v)
    BY <1>4, <1>5, <2>3 DEF Windows!Report
  <2>5. tf \in Windows!Reporting
    BY DEF Windows!Reporting, Beginnings
  <2> QED
    BY <1>3, <2>1, <2>4, <2>5 DEF Windows!Next
<1> QED
  BY <1>6, <1>7

LEMMA BoundaryBegins ==
    ASSUME NEW tf \in Timeframes, NEW x \in Nat, Boundary(tf, x), x <= MaxTime + Duration[tf]
    PROVE  x \in Beginnings[tf]
BY DiscoveryAssumption DEF Boundary, Beginnings

\* What the invariant says of a worker that reports
LEMMA TheReporter ==
    ASSUME IInv, NEW tf \in Timeframes, NEW w, NEW s, w = worker[tf], s = shown[tf]
    PROVE  /\ Showing(w, s, newest[tf], now)
           /\ w.expected \in Nat /\ w.current \in Nat /\ s.current \in Nat /\ s.next \in Nat
           /\ NewestOf(s.current, s.next, newest[tf]) = newest[tf]
           /\ w.pc \notin {"ready", "finishing", "ended"} => s.next = NoMarket
           /\ w.pc = "request" /\ w.expected <= MaxTime + Duration[tf] =>
                NewMarket(tf, w.expected)
<1>1. /\ WorkerOK(tf, w, s, newest[tf], log[tf], activated[tf], now)
      /\ w \in WorkerRecord /\ s \in Reports /\ newest[tf] \in Nat
  BY TheWorker
<1>2. /\ w.expected \in Nat /\ w.current \in Nat /\ s.current \in Nat /\ s.next \in Nat
      /\ Showing(w, s, newest[tf], now)
  BY <1>1 DEF WorkerRecord, Reports, WorkerOK
<1>3. NewestOf(s.current, s.next, newest[tf]) = newest[tf]
  BY <1>2 DEF Showing, NewestOf
<1>4. w.pc \notin {"ready", "finishing", "ended"} => s.next = NoMarket
  BY <1>2 DEF Showing
<1>5. ASSUME w.pc = "request", w.expected <= MaxTime + Duration[tf]
      PROVE  NewMarket(tf, w.expected)
  <2>1. Boundary(tf, w.expected) /\ newest[tf] < w.expected
    BY <1>1, <1>5 DEF WorkerOK, Expecting, Starting
  <2> QED
    BY <1>1, <1>2, <1>5, <2>1, BoundaryBegins DEF NewMarket
<1> QED
  BY <1>2, <1>3, <1>4, <1>5

Seen == Windows!Next \/ UNCHANGED <<Reported, newest>>

LEMMA NothingSeen ==
    ASSUME shown' = shown, newest' = newest
    PROVE  Seen
BY DEF Seen, Reported

\* A worker that is not ready may show that it goes on without a market.
LEMMA SeenWithoutNext ==
    ASSUME IInv, NEW tf \in Timeframes,
           worker[tf].pc \notin {"ready", "finishing", "ended"},
           NEW state, state # "ACTIVE", NEW c \in {shown[tf].current, NoMarket},
           Show(tf, state, c, NoMarket)
    PROVE  Seen
<1>1. PICK s : s = shown[tf]
  OBVIOUS
<1>2. /\ s.next = NoMarket /\ c \in Nat /\ NoMarket \in Nat
      /\ NewestOf(s.current, s.next, newest[tf]) = newest[tf]
  BY <1>1, TheReporter DEF NoMarket
<1> QED
  BY <1>1, <1>2, TheWorker, ShownFollows DEF Seen

LEMMA SeenHiding ==
    ASSUME IInv, NEW tf \in Timeframes, worker[tf].pc \in {"slot", "request"},
           NEW after, Hiding(tf, worker[tf], after)
    PROVE  Seen
<1>1. CASE UNCHANGED <<shown, newest>>
  BY <1>1, NothingSeen
<1>2. CASE Show(tf, "SEARCHING_NEXT", NoMarket, NoMarket)
  BY <1>2, SeenWithoutNext
<1> QED
  BY <1>1, <1>2 DEF Hiding, Refused

LEMMA SeenStartupFound ==
    ASSUME IInv, NEW tf \in Timeframes, StartupFound(tf)
    PROVE  Seen
<1>1. PICK w, s, m : w = worker[tf] /\ s = shown[tf] /\ m = Floor(w.since, tf)
  OBVIOUS
<1>2. CASE Refused
  BY <1>2, NothingSeen DEF Refused
<1>3. CASE Show(tf, "ACTIVE", m, NoMarket)
  <2>1. /\ w.since \in Nat /\ w.since >= Duration[tf] /\ w.since <= MaxTime
        /\ newest[tf] = NoMarket
    BY <1>1, TheWorker
       DEF StartupFound, WorkerOK, AtStartup, Starting, WorkerRecord, Times
  <2>2. m \in Nat /\ m <= w.since /\ Boundary(tf, m)
    BY <1>1, <2>1, FloorFacts
  <2>3. m <= MaxTime + Duration[tf] /\ m > 0
    BY <2>1, <2>2, TheWorker, DiscoveryAssumption DEF Boundary
  <2>4. NewMarket(tf, m)
    BY <2>1, <2>2, <2>3, BoundaryBegins DEF NewMarket, NoMarket
  <2>5. /\ s.next = NoMarket /\ NoMarket \in Nat
        /\ NewestOf(s.current, s.next, newest[tf]) = newest[tf]
    BY <1>1, TheReporter DEF StartupFound, NoMarket
  <2> QED
    BY <1>1, <1>3, <2>2, <2>4, <2>5, TheWorker, ShownFollows DEF Seen
<1> QED
  BY <1>1, <1>2, <1>3 DEF StartupFound

LEMMA SeenSearchBegins ==
    ASSUME IInv, NEW tf \in Timeframes, SearchBegins(tf)
    PROVE  Seen
<1>1. PICK w, s : w = worker[tf] /\ s = shown[tf]
  OBVIOUS
<1>2. w.pc = "waiting" /\ w \in WorkerRecord
  BY <1>1, TheWorker DEF SearchBegins, WorkerRecord
<1>3. PICK w1 :
        /\ \E x, h : w1 = [w EXCEPT !.slot = x, !.hidden = h, !.outcome = "none"]
        /\ \/ Show(tf, "SEARCHING_NEXT", LivePrevious(w1), NoMarket)
           \/ Show(tf, "TRANSITION_FAILED", NoMarket, NoMarket)
           \/ Refused
  BY <1>1 DEF SearchBegins
<1>4. w1.current = w.current
  BY <1>2, <1>3 DEF WorkerRecord
<1>5. LivePrevious(w1) \in {s.current, NoMarket}
  <2>1. w.current # NoMarket => s.current = w.current
    BY <1>1, <1>2, TheReporter DEF Showing
  <2> QED
    BY <1>4, <2>1 DEF LivePrevious
<1>6. CASE Show(tf, "SEARCHING_NEXT", LivePrevious(w1), NoMarket)
  <2>1. PICK c \in {shown[tf].current, NoMarket} : c = LivePrevious(w1)
    BY <1>1, <1>5
  <2>2. Show(tf, "SEARCHING_NEXT", c, NoMarket)
    BY <1>6, <2>1
  <2> QED
    BY <1>1, <1>2, <2>2, SeenWithoutNext
<1>7. CASE Show(tf, "TRANSITION_FAILED", NoMarket, NoMarket)
  BY <1>1, <1>2, <1>7, SeenWithoutNext
<1> QED
  BY <1>3, <1>6, <1>7, NothingSeen DEF Refused

LEMMA SeenFoundEarly ==
    ASSUME IInv, NEW tf \in Timeframes, FoundEarly(tf)
    PROVE  Seen
<1>1. PICK w, s : w = worker[tf] /\ s = shown[tf]
  OBVIOUS
<1>2. CASE Refused
  BY <1>2, NothingSeen DEF Refused
<1>3. CASE Show(tf, "NEXT_READY", LivePrevious(w), w.expected)
  <2>1. /\ w.pc = "request" /\ now < w.expected /\ w.expected \in Nat /\ w.current \in Nat
        /\ Showing(w, s, newest[tf], now) /\ now \in Nat
    BY <1>1, TheReporter, TheWorker DEF FoundEarly
  <2>2. w.expected <= MaxTime + Duration[tf]
    <3>1. now >= SearchStart(w)
      BY <1>1, <2>1, TheWorker DEF WorkerOK, InTime, Searching
    <3> QED
      BY <2>1, <3>1, TheWorker, DiscoveryAssumption DEF SearchStart
  <2>3. NewMarket(tf, w.expected)
    BY <1>1, <2>1, <2>2, TheReporter
  <2>4. LivePrevious(w) = w.current /\ w.current \in {s.current, NoMarket}
    <3>1. w.hidden => w.current = NoMarket
      BY <2>1 DEF Showing
    <3>2. ~w.hidden => s.current = w.current
      BY <2>1 DEF Showing
    <3> QED
      BY <2>1, <3>1, <3>2 DEF LivePrevious
  <2>5. /\ s.next = NoMarket
        /\ NewestOf(s.current, s.next, newest[tf]) = newest[tf]
    BY <1>1, <2>1, TheReporter
  <2>6. Show(tf, "NEXT_READY", w.current, w.expected)
    BY <1>3, <2>4
  <2> QED
    BY <1>1, <2>1, <2>3, <2>4, <2>5, <2>6, TheWorker, ShownFollows DEF Seen
<1> QED
  BY <1>1, <1>2, <1>3 DEF FoundEarly

LEMMA SeenActivates ==
    ASSUME IInv, NEW tf \in Timeframes, Activates(tf)
    PROVE  Seen
<1>1. PICK w, s : w = worker[tf] /\ s = shown[tf]
  OBVIOUS
<1>2. CASE Refused
  BY <1>2, NothingSeen DEF Refused
<1>3. CASE Show(tf, "ACTIVE", w.expected, NoMarket)
  <2>1. /\ w.pc \in {"ready", "request"} /\ now >= w.expected /\ w.expected \in Nat
        /\ Showing(w, s, newest[tf], now) /\ now \in Nat /\ NoMarket \in Nat
        /\ NewestOf(s.current, s.next, newest[tf]) = newest[tf]
    BY <1>1, TheReporter, TheWorker DEF Activates, NoMarket
  <2>2. CASE w.pc = "ready"
    <3>1. s.next = w.expected /\ s.next # NoMarket
      <4>1. w.expected # NoMarket
        BY <1>1, <2>2, TheWorker DEF WorkerOK, Expecting, Boundary, Starting, NoMarket
      <4> QED
        BY <2>1, <2>2, <4>1 DEF Showing
    <3> QED
      BY <1>1, <1>3, <2>1, <3>1, TheWorker, ShownFollows DEF Seen
  <2>3. CASE w.pc = "request"
    <3>1. w.expected <= MaxTime + Duration[tf]
      BY <2>1, TheWorker, DiscoveryAssumption
    <3>2. NewMarket(tf, w.expected) /\ s.next = NoMarket
      BY <1>1, <2>3, <3>1, TheReporter
    <3> QED
      BY <1>1, <1>3, <2>1, <3>2, TheWorker, ShownFollows DEF Seen
  <2> QED
    BY <2>1, <2>2, <2>3
<1> QED
  BY <1>1, <1>2, <1>3 DEF Activates

LEMMA SeenWorker ==
    ASSUME IInv, NEW tf \in Timeframes, Worker(tf)
    PROVE  Seen
<1>1. CASE StartupMisses(tf)
  BY <1>1, NothingSeen, SeenWithoutNext DEF StartupMisses, Refused
<1>2. CASE SlotComes(tf)
  BY <1>2, SeenHiding DEF SlotComes
<1>3. CASE Misses(tf)
  BY <1>3, NothingSeen, SeenWithoutNext, SeenHiding DEF Misses, Refused
<1>4. CASE Expires(tf)
  <2>1. worker[tf].pc \in Searching
    BY <1>4 DEF Expires
  <2> QED
    BY <1>4, <2>1, NothingSeen, SeenWithoutNext DEF Expires, Hides, Refused, Searching
<1>5. CASE \/ StartupRetries(tf) \/ Finish(tf) \/ TakesLock(tf) \/ Written(tf) \/ WriteFails(tf)
  BY <1>5, NothingSeen DEF StartupRetries, Finish, TakesLock, Written, WriteFails
<1> QED
  BY <1>1, <1>2, <1>3, <1>4, <1>5, SeenStartupFound, SeenSearchBegins, SeenFoundEarly,
     SeenActivates DEF Worker

LEMMA WindowsInit == Init => Windows!Init
<1> SUFFICES ASSUME Init
             PROVE  Windows!Init
  OBVIOUS
<1>1. Windows!Reporting = Timeframes
  BY DEF Windows!Reporting, Beginnings
<1>2. \A tf \in Timeframes :
        Reported[tf] = [active |-> FALSE, current |-> NoMarket, next |-> NoMarket]
  BY DEF Init, Reported
<1> QED
  BY <1>1, <1>2 DEF Init, Windows!Init, Reported, NoMarket, Windows!NoMarket

LEMMA WindowsStep == IInv /\ [Next]_vars => [Windows!Next]_<<Reported, newest>>
<1> SUFFICES ASSUME IInv, [Next]_vars
             PROVE  Seen
  BY DEF Seen
<1>1. CASE \E tf \in Timeframes : Worker(tf)
  BY <1>1, SeenWorker
<1>2. CASE Shutdown \/ RunnerStops \/ RunnerEnds \/ Tick \/ UNCHANGED vars
  BY <1>2, NothingSeen DEF Shutdown, RunnerStops, Cancel, RunnerEnds, Tick, vars
<1> QED
  BY <1>1, <1>2 DEF Next

\* Discovery reports windows as MarketWindows says.  Every report is a step of
\* it, whichever of the two tasks of a timeframe makes it: the expiry task only
\* takes away a market that is over, and never one that is ready.
THEOREM DiscoveryIsWindows == Spec => WindowsInOrder
BY WindowsInit, WindowsStep, Invariant, PTL DEF Spec, WindowsInOrder, Windows!Spec

=============================================================================
