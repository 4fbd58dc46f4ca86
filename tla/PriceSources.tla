----------------------------- MODULE PriceSources -----------------------------
(***************************************************************************)
(* The sources as the snapshots see them: the loops of the Chainlink and   *)
(* Binance sources (sources/rtds_chainlink.py, binance_spot.py), and of    *)
(* the CLOB source what concerns its connection flag.  Each sets its flag  *)
(* in the registry directly; only the CLOB source publishes its status.    *)
(*                                                                         *)
(* The bus is the one EventBus specifies, seen from outside: events are    *)
(* accepted in the order of the calls, or refused because a queue stays    *)
(* full.  A trade has the number its server gives it; a price of Chainlink  *)
(* has two times, its own and that at which its server sent it.            *)
(* An event has the time of its acceptance: the calls are served in their  *)
(* order, so its wait for room is one with its wait in the queue.          *)
(***************************************************************************)
EXTENDS Naturals, SequencesExt

CONSTANTS
    Active,          \* the sets of sources, subscribers... that take part in a behaviour
    StateCap,        \* capacity of the state queue
    MaxMessage,      \* bound: messages of each server
    MaxEvents,       \* bound: events accepted
    MaxTime          \* bound, in seconds

VARIABLES
    active,          \* who takes part
    now,
    conn,            \* per source, where its loop is
    last,            \* per source, the newest message parsed
    seen,            \* _seen: the identities of the Chainlink messages published
    log,             \* the events accepted, in order
    reduced,         \* how many of them the reducer has taken
    fatal            \* _fatal is not None, and _stop is set

sourceVars == <<active, now, conn, last, seen, log, reduced, fatal>>

Clob == "clob"
Direct == {"chainlink", "binance"}
Sources == Direct \cup {Clob}

SourceInit ==
    /\ active \in Active
    /\ now = 0
    /\ conn = [s \in Sources |-> "idle"]
    /\ last = [s \in Direct |-> 0] /\ seen = {}
    /\ log = <<>> /\ reduced = 0
    /\ fatal = FALSE

\* Mutant of Room: one event more than the queue has room for.
RoomLate == Len(log) - reduced <= StateCap

Room == Len(log) - reduced < StateCap

\* bus.publish() accepts an event.
Publish(e) ==
    /\ Room /\ Len(log) < MaxEvents
    /\ log' = Append(log, e)

\* The queue stays full: it raises BackpressureFatalError.
Refuse == ~Room /\ UNCHANGED log

Goes(s, pc) == conn' = [conn EXCEPT ![s] = pc]

-----------------------------------------------------------------------------
(* Prices.  Flag(s, up) is the source's _set_connected().                  *)

\* A connection.  Binance gets a new parser; Chainlink remembers.
PriceConnects(s, Flag(_, _)) ==
    /\ s \in Direct \cap active /\ conn[s] = "idle"
    /\ Goes(s, "reading") /\ Flag(s, TRUE)
    /\ last' = IF s = "binance" THEN [last EXCEPT ![s] = 0] ELSE last
    /\ UNCHANGED <<active, now, seen, log, reduced, fatal>>

\* When the message may have been sent, which of a trade does not matter
Sent(s) == IF s = "chainlink" THEN 1..MaxMessage ELSE {0}

\* Mutant of Fresh: Chainlink takes any message it has not seen.
FreshUnseen(s, n, t) == IF s = "binance" THEN n > last[s] ELSE <<n, t>> \notin seen

\* The message is not out of order and no duplicate.  A price sent again, with
\* the same time and at another one, is neither.
Fresh(s, n, t) ==
    IF s = "binance" THEN n > last[s] ELSE n >= last[s] /\ <<n, t>> \notin seen

\* A message is parsed, counts as seen, and is published.  When it is refused,
\* the source takes that for a lost connection.
PriceArrives(s) ==
    /\ s \in Direct /\ conn[s] = "reading"
    /\ \E n \in 1..MaxMessage, t \in Sent(s) :
         /\ Fresh(s, n, t)
         /\ last' = [last EXCEPT ![s] = n]
         /\ seen' = IF s = "chainlink" THEN seen \cup {<<n, t>>} ELSE seen
         /\ \/ Publish([kind |-> "price", source |-> s, number |-> n, sent |-> t, at |-> now])
               /\ UNCHANGED conn
            \/ Refuse /\ Goes(s, "backoff")
    /\ UNCHANGED <<active, now, reduced, fatal>>

\* The connection is lost: the flag stays set during the back-off.
PriceLost(s) ==
    /\ s \in Direct /\ conn[s] = "reading"
    /\ Goes(s, "backoff")
    /\ UNCHANGED <<active, now, last, seen, log, reduced, fatal>>

\* After the back-off, or when the connection is closed in order
PriceClears(s, Flag(_, _)) ==
    /\ s \in Direct /\ conn[s] \in {"backoff", "reading"}
    /\ Goes(s, "idle") /\ Flag(s, FALSE)
    /\ UNCHANGED <<active, now, last, seen, log, reduced, fatal>>

-----------------------------------------------------------------------------
(* The CLOB source.                                                        *)

Status(up) == [kind |-> "status", source |-> Clob, up |-> up, at |-> now]

\* The flag is set, and then the status is published.
ClobFlags(Flag(_, _)) ==
    /\ Clob \in active
    /\ \/ conn[Clob] = "idle" /\ Goes(Clob, "connected") /\ Flag(Clob, TRUE)
       \/ conn[Clob] \in {"backoff", "reading"} /\ Goes(Clob, "cleared") /\ Flag(Clob, FALSE)
    /\ UNCHANGED <<active, now, last, seen, log, reduced, fatal>>

ClobAnnounces ==
    /\ conn[Clob] = "connected"
    /\ \/ Publish(Status(TRUE)) /\ Goes(Clob, "reading")
       \/ Refuse /\ Goes(Clob, "backoff")
    /\ UNCHANGED <<active, now, last, seen, reduced, fatal>>

ClobLost ==
    /\ conn[Clob] = "reading"
    /\ Goes(Clob, "backoff")
    /\ UNCHANGED <<active, now, last, seen, log, reduced, fatal>>

\* In the finally clause: when the status is refused, the task ends.
ClobRetracts ==
    /\ conn[Clob] = "cleared"
    /\ \/ Publish(Status(FALSE)) /\ Goes(Clob, "idle") /\ UNCHANGED fatal
       \/ Refuse /\ Goes(Clob, "ended") /\ fatal' = TRUE
    /\ UNCHANGED <<active, now, last, seen, reduced>>

SourceStep(Flag(_, _), NoFlag) ==
    \/ \E s \in Direct : PriceConnects(s, Flag) \/ PriceClears(s, Flag)
    \/ ClobFlags(Flag)
    \/ /\ \/ \E s \in Direct : PriceArrives(s) \/ PriceLost(s)
          \/ ClobAnnounces \/ ClobLost \/ ClobRetracts
       /\ NoFlag

=============================================================================
