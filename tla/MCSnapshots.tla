----------------------------- MODULE MCSnapshots ------------------------------
(* Sources, subscribers and the health writer, a few at a time.            *)
EXTENDS Snapshots

CONSTANT s1

MCActive == {{"binance", "health"}, {"chainlink"}, {"clob", "health"}, {s1}}
MCTogether == {{"binance", "chainlink", "clob"}}

=============================================================================
