------------------------------- MODULE Discovery ------------------------------
(***************************************************************************)
(* Market discovery (market_discovery/transition.py): one worker for each  *)
(* timeframe, which resolves the current market and then searches, around  *)
(* every boundary, the market that begins there; the task that hides the   *)
(* old market on time; the transition log; and the runner that ends both   *)
(* workers when one fails or the service stops.                            *)
(*                                                                         *)
(* The unit of time is SEARCH_INTERVAL_SECONDS.  There is one, accurate    *)
(* clock, and the event loop is never late: time passes only when nothing  *)
(* is due.  A market is known by the time when it begins.                  *)
(***************************************************************************)
EXTENDS Naturals, SequencesExt

CONSTANTS
    Timeframes,
    Duration,        \* duration_seconds of each timeframe
    Before, After,   \* SEARCH_BEFORE_SECONDS, SEARCH_AFTER_SECONDS
    Timeout,         \* the longest request (see Due)
    StartupAttempts, \* STARTUP_MAX_ATTEMPTS
    AppendTime,      \* bound: how long it takes to append to the log
    StartTimes,      \* bound: when the service is started
    MaxTime          \* bound

NoMarket == 0
Nobody == "nobody"

ASSUME DiscoveryAssumption ==
    /\ Nobody \notin Timeframes
    /\ Duration \in [Timeframes -> Nat \ {0}]
    /\ {Before, After, Timeout, AppendTime, MaxTime} \subseteq Nat
    /\ StartupAttempts \in Nat \ {0}
    /\ StartTimes \subseteq 0..MaxTime
    /\ \A tf \in Timeframes : /\ Before + After < Duration[tf]
                              /\ \A t \in StartTimes : t >= Duration[tf]

VARIABLES
    now,
    worker,          \* per timeframe, where its worker stands
    shown,           \* per timeframe, the last snapshot that was accepted
    newest,          \* per timeframe, the newest market of those snapshots
    log,             \* per timeframe, its records of the transition log
    activated,       \* per timeframe, the markets that searches made active
    locked,          \* the timeframe that holds _log_lock, or nobody
    runner,          \* run_forever: running, cancelling, stopping or ended
    told             \* the service has been told to stop

vars == <<now, worker, shown, newest, log, activated, locked, runner, told>>

\* floor_to_window_start()
Floor(t, tf) == t - (t % Duration[tf])

Searching == {"slot", "request", "ready"}

SearchStart(w) == w.expected - Before
SlotTime(w) == SearchStart(w) + w.slot
LastSlot == Before + After

Init ==
    /\ now \in StartTimes
    /\ worker = [tf \in Timeframes |->
                   [pc |-> "resolving", since |-> now, attempts |-> 1,
                    expected |-> 0, current |-> NoMarket, slot |-> 0,
                    hidden |-> TRUE, expiry |-> "none", outcome |-> "none"]]
    /\ shown = [tf \in Timeframes |-> [state |-> "none", current |-> NoMarket, next |-> NoMarket]]
    /\ newest = [tf \in Timeframes |-> NoMarket]
    /\ log = [tf \in Timeframes |-> <<>>]
    /\ activated = [tf \in Timeframes |-> {}]
    /\ locked = Nobody /\ runner = "running" /\ told = FALSE

-----------------------------------------------------------------------------
(* Snapshots, and the end of a search.                                     *)

\* Mutant of LivePrevious: the previous market, whatever the time is.
LivePreviousAlways(w) == w.current

\* _live_previous()
LivePrevious(w) == IF now < w.expected THEN w.current ELSE NoMarket

\* on_state() accepts a snapshot.
Show(tf, state, current, next) ==
    /\ shown' = [shown EXCEPT ![tf] = [state |-> state, current |-> current, next |-> next]]
    /\ newest' = [newest EXCEPT ![tf] = IF next # NoMarket THEN next
                                        ELSE IF current # NoMarket THEN current ELSE @]

\* on_state() raises: the queue of market states is full.
Refused == UNCHANGED <<shown, newest>>

Step(tf, w) == worker' = [worker EXCEPT ![tf] = w]

Ended(w) == [w EXCEPT !.pc = "ended"]

\* After the finally clause of _search(): the result goes to the log, or the
\* exception ends the worker.
Leave(w) == IF w.outcome = "exception" THEN Ended(w) ELSE [w EXCEPT !.pc = "logging"]

\* The search has a result or an exception.  The finally clause cancels the
\* task that expires the previous market and waits for it; an exception of that
\* task replaces the result.
Conclude(w, outcome) ==
    LET v == [w EXCEPT !.outcome = outcome] IN
    CASE w.expiry = "waiting" -> [v EXCEPT !.pc = "finishing"]
      [] w.expiry = "raised" -> Ended(v)
      [] OTHER -> Leave(v)

\* Mutant of NextSlot: elapsed slots are not skipped.
NextSlotAtOnce(w) == w.slot + 1

\* The next slot that has not elapsed.
NextSlot(w) == Max({w.slot + 1, now + Before - w.expected})

\* The worker is cancelled.  Within a search the finally clause is still run;
\* when the worker is waiting there already, the cancellation is taken for that
\* of the task it waits for.
Cancelled(w) ==
    CASE w.pc \in {"ended", "finishing"} -> w
      [] w.pc \in Searching -> Conclude(w, "exception")
      [] OTHER -> Ended(w)

\* Mutant of CancelAll: a worker that is cancelled keeps the lock.
CancelAllInTheLock ==
    /\ worker' = [tf \in Timeframes |-> Cancelled(worker[tf])]
    /\ UNCHANGED locked

\* Whoever holds the lock is writing, so it is released.
CancelAll ==
    /\ worker' = [tf \in Timeframes |-> Cancelled(worker[tf])]
    /\ locked' = Nobody

\* A record that was on its way to the log when its worker was cancelled is
\* written by its thread, if that does not fail.
Leftover(w) == IF w.pc = "writing" THEN {<<>>, <<[start |-> w.expected, success |-> w.outcome = "success"]>>}
               ELSE {<<>>}

-----------------------------------------------------------------------------
(* Startup.                                                                *)

\* _resolve_startup_market: the market of the time of the request is found, and
\* has not ended meanwhile.
StartupFound(tf) ==
    LET w == worker[tf]
        market == Floor(w.since, tf)
        end == market + Duration[tf]
    IN
    /\ w.pc = "resolving" /\ end > now
    /\ \/ /\ Show(tf, "ACTIVE", market, NoMarket)
          /\ Step(tf, [w EXCEPT !.pc = "waiting", !.current = market, !.expected = end])
       \/ Refused /\ Step(tf, Ended(w))
    /\ UNCHANGED <<now, log, activated, locked, runner, told>>

\* It is not found, or has ended.
StartupMisses(tf) ==
    LET w == worker[tf] IN
    /\ w.pc = "resolving"
    /\ \/ /\ w.attempts < StartupAttempts
          /\ Step(tf, [w EXCEPT !.pc = "retry", !.since = now])
          /\ UNCHANGED <<shown, newest>>
       \/ /\ w.attempts = StartupAttempts
          /\ \/ /\ Show(tf, "TRANSITION_FAILED", NoMarket, NoMarket)
                /\ Step(tf, [w EXCEPT !.pc = "waiting",
                                      !.expected = Floor(now, tf) + Duration[tf]])
             \/ Refused /\ Step(tf, Ended(w))
    /\ UNCHANGED <<now, log, activated, locked, runner, told>>

StartupRetries(tf) ==
    LET w == worker[tf] IN
    /\ w.pc = "retry" /\ now = w.since + 1
    /\ Step(tf, [w EXCEPT !.pc = "resolving", !.since = now, !.attempts = @ + 1])
    /\ UNCHANGED <<now, shown, newest, log, activated, locked, runner, told>>

-----------------------------------------------------------------------------
(* A search.                                                               *)

\* _search(), up to the first slot that has not elapsed
SearchBegins(tf) ==
    LET w == [worker[tf] EXCEPT !.slot = Max({0, now - SearchStart(worker[tf])}),
                                !.hidden = worker[tf].current = NoMarket
                                             \/ now >= worker[tf].expected,
                                !.outcome = "none"]
    IN
    /\ w.pc = "waiting" /\ now >= SearchStart(w)
    /\ \/ /\ w.slot <= LastSlot
          /\ Show(tf, "SEARCHING_NEXT", LivePrevious(w), NoMarket)
          /\ Step(tf, [w EXCEPT !.pc = "slot", !.expiry = "waiting"])
       \/ /\ w.slot > LastSlot
          /\ Show(tf, "TRANSITION_FAILED", NoMarket, NoMarket)
          /\ Step(tf, Conclude([w EXCEPT !.expiry = "waiting"], "failure"))
       \/ Refused /\ Step(tf, Ended(w))
    /\ UNCHANGED <<now, log, activated, locked, runner, told>>

\* The previous market is over, and no snapshot says so yet.
Overdue(w) == now >= w.expected /\ ~w.hidden

\* In a step that may have to hide the previous market before worker w goes on
\* as `after`.
Hiding(tf, w, after) ==
    \/ /\ ~Overdue(w)
       /\ UNCHANGED <<shown, newest>> /\ Step(tf, after)
    \/ /\ Overdue(w)
       /\ \/ /\ Show(tf, "SEARCHING_NEXT", NoMarket, NoMarket)
             /\ Step(tf, [after EXCEPT !.hidden = TRUE])
          \/ Refused /\ Step(tf, Conclude([w EXCEPT !.hidden = TRUE], "exception"))

\* A slot comes: a request is sent.
SlotComes(tf) ==
    LET w == worker[tf] IN
    /\ w.pc = "slot" /\ now >= SlotTime(w)
    /\ Hiding(tf, w, [w EXCEPT !.pc = "request", !.since = now])
    /\ UNCHANGED <<now, log, activated, locked, runner, told>>

\* The market is found before it begins.
FoundEarly(tf) ==
    LET w == worker[tf] IN
    /\ w.pc = "request" /\ now < w.expected
    /\ \/ /\ Show(tf, "NEXT_READY", LivePrevious(w), w.expected)
          /\ Step(tf, [w EXCEPT !.pc = "ready"])
       \/ Refused /\ Step(tf, Conclude([w EXCEPT !.pc = "ready"], "exception"))
    /\ UNCHANGED <<now, log, activated, locked, runner, told>>

\* The market becomes active: it has been found before and begins now, or is
\* found after its beginning.
Activates(tf) ==
    LET w == worker[tf] IN
    /\ w.pc \in {"ready", "request"} /\ now >= w.expected
    /\ \/ /\ Show(tf, "ACTIVE", w.expected, NoMarket)
          /\ activated' = [activated EXCEPT ![tf] = @ \cup {w.expected}]
          /\ Step(tf, Conclude(w, "success"))
       \/ /\ Refused /\ UNCHANGED activated
          /\ Step(tf, Conclude(w, "exception"))
    /\ UNCHANGED <<now, log, locked, runner, told>>

\* The market is not found, or the request fails.
Misses(tf) ==
    LET w == worker[tf] IN
    /\ w.pc = "request"
    /\ \/ /\ NextSlot(w) <= LastSlot
          /\ Hiding(tf, w, [w EXCEPT !.pc = "slot", !.slot = NextSlot(w)])
       \/ /\ NextSlot(w) > LastSlot
          /\ \/ /\ Show(tf, "TRANSITION_FAILED", NoMarket, NoMarket)
                /\ Step(tf, Conclude(w, "failure"))
             \/ Refused /\ Step(tf, Conclude(w, "exception"))
    /\ UNCHANGED <<now, log, activated, locked, runner, told>>

\* Mutant of Hides: also a market that is about to be replaced.
HidesReady(w) == ~w.hidden

\* When the boundary comes, the previous market is hidden, unless it is hidden
\* already or the next one is ready to replace it.
Hides(w) == w.pc # "ready" /\ ~w.hidden

\* expire_previous_at_transition(), a task of its own
Expires(tf) ==
    LET w == worker[tf] IN
    /\ w.expiry = "waiting" /\ w.pc \in Searching /\ now >= w.expected
    /\ \/ /\ Hides(w)
          /\ \/ /\ Show(tf, "SEARCHING_NEXT", NoMarket, NoMarket)
                /\ Step(tf, [w EXCEPT !.hidden = TRUE, !.expiry = "done"])
             \/ Refused /\ Step(tf, [w EXCEPT !.hidden = TRUE, !.expiry = "raised"])
       \/ /\ ~Hides(w)
          /\ UNCHANGED <<shown, newest>>
          /\ Step(tf, [w EXCEPT !.expiry = "done"])
    /\ UNCHANGED <<now, log, activated, locked, runner, told>>

\* The finally clause has waited for that task.
Finish(tf) ==
    LET w == worker[tf] IN
    /\ w.pc = "finishing"
    /\ Step(tf, Leave([w EXCEPT !.expiry = "done"]))
    /\ UNCHANGED <<now, shown, newest, log, activated, locked, runner, told>>

-----------------------------------------------------------------------------
(* The transition log.                                                     *)

\* _append_transition(): the lock, and the thread that writes
TakesLock(tf) ==
    LET w == worker[tf] IN
    /\ w.pc = "logging" /\ locked = Nobody
    /\ locked' = tf
    /\ Step(tf, [w EXCEPT !.pc = "writing", !.since = now])
    /\ UNCHANGED <<now, shown, newest, log, activated, runner, told>>

\* Mutant of Onward: the next search is for the window after the next one.
OnwardSkipping(w, tf) == w.expected + 2 * Duration[tf]

\* What the worker searches after that
Onward(w, tf) == w.expected + Duration[tf]

\* The record is written and synchronized, and the worker goes on.
Written(tf) ==
    LET w == worker[tf] IN
    /\ w.pc = "writing"
    /\ log' = [log EXCEPT ![tf] = Append(@, [start |-> w.expected,
                                              success |-> w.outcome = "success"])]
    /\ locked' = Nobody
    /\ Step(tf, [w EXCEPT !.pc = "waiting", !.expected = Onward(w, tf),
                          !.current = IF w.outcome = "success" THEN w.expected ELSE NoMarket])
    /\ UNCHANGED <<now, shown, newest, activated, runner, told>>

\* TransitionLogError
WriteFails(tf) ==
    /\ worker[tf].pc = "writing"
    /\ locked' = Nobody
    /\ Step(tf, [Ended(worker[tf]) EXCEPT !.outcome = "unlogged"])
    /\ UNCHANGED <<now, shown, newest, log, activated, runner, told>>

Worker(tf) ==
    \/ StartupFound(tf) \/ StartupMisses(tf) \/ StartupRetries(tf)
    \/ SearchBegins(tf) \/ SlotComes(tf) \/ FoundEarly(tf) \/ Activates(tf) \/ Misses(tf)
    \/ Expires(tf) \/ Finish(tf)
    \/ TakesLock(tf) \/ Written(tf) \/ WriteFails(tf)

-----------------------------------------------------------------------------
(* The runner.                                                             *)

AllEnded == \A tf \in Timeframes : worker[tf].pc = "ended"

\* Cancel all workers; threads that are writing may still succeed.
Cancel ==
    /\ CancelAll
    /\ \E left \in [Timeframes -> UNION {Leftover(worker[tf]) : tf \in Timeframes}] :
          /\ \A tf \in Timeframes : left[tf] \in Leftover(worker[tf])
          /\ log' = [tf \in Timeframes |-> log[tf] \o left[tf]]
    /\ UNCHANGED <<now, shown, newest, activated>>

\* The service stops: the runner is cancelled, and it cancels what it waits for.
Shutdown ==
    /\ ~told /\ runner # "ended"
    /\ told' = TRUE
    /\ runner' = IF runner = "running" THEN "cancelling" ELSE runner
    /\ Cancel

\* gather() raises as soon as one worker has ended; the runner cancels the rest.
RunnerStops ==
    /\ runner \in {"running", "cancelling"}
    /\ \E tf \in Timeframes : worker[tf].pc = "ended"
    /\ runner' = "stopping"
    /\ Cancel
    /\ UNCHANGED told

RunnerEnds ==
    /\ runner = "stopping" /\ AllEnded
    /\ runner' = "ended"
    /\ UNCHANGED <<now, worker, shown, newest, log, activated, locked, told>>

-----------------------------------------------------------------------------
(* Time.                                                                   *)

ExpiryDue(w) == w.expiry = "waiting" /\ w.pc \in Searching /\ now >= w.expected

\* Something that worker w has to do now.  A request is over after Timeout: the
\* code bounds each operation on its socket by HTTP_TIMEOUT_SECONDS and their sum
\* by nothing, so a server that answers drop by drop is left out.
Due(w) ==
    \/ w.pc = "waiting" /\ now >= SearchStart(w)
    \/ w.pc = "slot" /\ now >= SlotTime(w)
    \/ w.pc = "ready" /\ now >= w.expected
    \/ w.pc = "finishing"
    \/ w.pc = "logging" /\ locked = Nobody
    \/ w.pc = "retry" /\ now >= w.since + 1
    \/ w.pc \in {"resolving", "request"} /\ now >= w.since + Timeout
    \/ w.pc = "writing" /\ now >= w.since + AppendTime
    \/ ExpiryDue(w)

RunnerDue ==
    \/ runner \in {"running", "cancelling"} /\ \E tf \in Timeframes : worker[tf].pc = "ended"
    \/ runner = "stopping" /\ AllEnded

Quiet == ~RunnerDue /\ \A tf \in Timeframes : ~Due(worker[tf])

Tick ==
    /\ Quiet /\ runner # "ended" /\ now < MaxTime
    /\ now' = now + 1
    /\ UNCHANGED <<worker, shown, newest, log, activated, locked, runner, told>>

Next ==
    \/ \E tf \in Timeframes : Worker(tf)
    \/ Shutdown \/ RunnerStops \/ RunnerEnds
    \/ Tick

Spec == Init /\ [][Next]_vars

-----------------------------------------------------------------------------
(* Properties.                                                             *)

Times == 0..MaxTime
Boundaries == Nat

TypeOK ==
    /\ now \in Times
    /\ \A tf \in Timeframes : LET w == worker[tf] IN
         /\ w.pc \in Searching \cup {"resolving", "retry", "waiting", "finishing", "logging",
                                     "writing", "ended"}
         /\ w.since \in Times /\ w.attempts \in 1..StartupAttempts
         /\ w.expected \in Boundaries /\ w.current \in {NoMarket, w.expected - Duration[tf]}
         /\ w.pc \in {"slot", "request"} => w.slot \in 0..LastSlot
         /\ w.expiry \in {"none", "waiting", "done", "raised"}
         /\ w.outcome \in {"none", "success", "failure", "exception", "unlogged"}
         /\ locked = tf <=> w.pc = "writing"
    /\ runner \in {"running", "cancelling", "stopping", "ended"}

\* A market is never shown as current after its end, and the next one never as
\* merely ready after its beginning, when nothing is due: also not while a
\* request is under way.  (Exceptions: the log of the last transition takes as
\* long as a whole window, or the snapshot that hides the market was refused,
\* which ends the service after the search.)
ExpiredIsHidden ==
    Quiet => \A tf \in Timeframes :
        LET s == shown[tf] IN
        worker[tf].pc \in {"slot", "request", "ready"} /\ worker[tf].expiry # "raised" =>
          /\ s.current # NoMarket => now < s.current + Duration[tf]
          /\ s.next # NoMarket => now < s.next

\* A search ends in time, whatever answers take: requests that overrun their
\* slots do not push the later ones beyond the end.
SearchIsBounded ==
    \A tf \in Timeframes :
        worker[tf].pc \in {"slot", "request"} => now <= worker[tf].expected + After + Timeout

\* The log of a worker that is alive tells of every window since its first
\* search, once and in order, and of success exactly when the market of the
\* window was made active.
LogIsComplete ==
    \A tf \in Timeframes :
        LET w == worker[tf]
            records == log[tf]
        IN
        /\ \A i \in DOMAIN records : /\ i > 1 => records[i].start = records[i - 1].start + Duration[tf]
                                     /\ records[i].success <=> records[i].start \in activated[tf]
        /\ w.pc \in Searching \cup {"waiting"} =>
             /\ records # <<>> => Last(records).start = w.expected - Duration[tf]
             /\ activated[tf] \subseteq {records[i].start : i \in DOMAIN records}

\* When markets begin
Beginnings == [tf \in Timeframes |-> {t \in 1..(MaxTime + Duration[tf]) : t % Duration[tf] = 0}]

\* What is reported, as windows
Reported == [tf \in Timeframes |->
               [active |-> shown[tf].state = "ACTIVE",
                current |-> shown[tf].current, next |-> shown[tf].next]]

\* The abstract specification of discovery
Windows == INSTANCE MarketWindows WITH
    MarketsOf <- Beginnings, window <- Reported, latest <- newest

\* Discovery reports windows as MarketWindows says: no market comes back, and
\* one that is ready is the next to be active, although two tasks report.
WindowsInOrder == Windows!Spec

\* What the documentation says of an error of the transition log: the other
\* worker is cancelled and the runner stops.  The code does not keep to it: a
\* worker that waits for its expiry task takes the cancellation for the task's,
\* goes on, and the runner waits for it.
CancelledWorkersStop ==
    runner = "stopping" /\ ~told /\ (\E tf \in Timeframes : worker[tf].outcome = "unlogged") =>
        \A tf \in Timeframes : worker[tf].pc \in {"finishing", "ended"}

=============================================================================
