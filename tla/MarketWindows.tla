---------------------------- MODULE MarketWindows -----------------------------
(***************************************************************************)
(* What market discovery promises to those it reports to: the windows of a *)
(* timeframe, one after another.  Discovery implements it, and the market  *)
(* manager of ClobPipeline takes what it reports from here.                *)
(***************************************************************************)
EXTENDS Naturals

CONSTANT MarketsOf       \* the markets of each timeframe, numbered in time

VARIABLES
    window,              \* per timeframe, what was last reported
    latest               \* per timeframe, the newest market reported so far

NoMarket == 0
Reporting == DOMAIN MarketsOf

Init ==
    /\ window = [tf \in Reporting |->
                   [active |-> FALSE, current |-> NoMarket, next |-> NoMarket]]
    /\ latest = [tf \in Reporting |-> NoMarket]

NewMarkets(tf) == {m \in MarketsOf[tf] : m > latest[tf]}

\* The windows that may follow window w of timeframe tf: a market is found
\* before or after it begins, becomes active, is searched for a successor, and
\* is over; no market comes back.
Following(tf, w) ==
    LET shown == {w.current, NoMarket} IN
    (IF w.next # NoMarket
       THEN {[active |-> TRUE, current |-> w.next, next |-> NoMarket]}
       ELSE [active : {TRUE}, current : NewMarkets(tf), next : {NoMarket}]
              \cup [active : {FALSE}, current : shown, next : {NoMarket} \cup NewMarkets(tf)])
    \ {w}

\* The newest market of window w, when it was `before` until now
Newest(w, before) == IF w.next # NoMarket THEN w.next
                     ELSE IF w.current # NoMarket THEN w.current
                     ELSE before

Report(tf, w) ==
    /\ window' = [window EXCEPT ![tf] = w]
    /\ latest' = [latest EXCEPT ![tf] = Newest(w, @)]

Next == \E tf \in Reporting : \E w \in Following(tf, window[tf]) : Report(tf, w)

Spec == Init /\ [][Next]_<<window, latest>>

=============================================================================
