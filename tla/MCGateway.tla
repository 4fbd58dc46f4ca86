------------------------------ MODULE MCGateway ------------------------------
(* The gateway with one source; all sources do the same to the queues.     *)
EXTENDS Gateway

CONSTANT clob

=============================================================================
