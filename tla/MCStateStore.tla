----------------------------- MODULE MCStateStore -----------------------------
(* Model values for the state store.                                       *)
EXTENDS StateStore, TLC

CONSTANTS tf5, tf15, m1, m2, up, down, s1, s2

\* Two markets of one timeframe, which follow each other.
MCOneTimeframe == [m \in {m1, m2} |-> tf5]

\* One market of each of the two timeframes.
MCTwoTimeframes == (m1 :> tf5) @@ (m2 :> tf15)

\* Nothing tells the sessions from each other.
Symmetry == Permutations({s1, s2})

=============================================================================
