----------------------------- MODULE MCDiscovery ------------------------------
(* Two timeframes, of which the longer one is twice as long as the other.  *)
EXTENDS Discovery

CONSTANTS tf5, tf15, Short

MCTimeframes == {tf5, tf15}
MCDuration == [tf \in MCTimeframes |-> IF tf = tf5 THEN Short ELSE 2 * Short]

\* Just when the search before a boundary of both is due.
MCStartTimes == {4 * Short - Before}

=============================================================================
