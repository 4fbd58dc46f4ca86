------------------------------- MODULE BusLog --------------------------------
(***************************************************************************)
(* What the event bus promises, without its lock, its queues and its       *)
(* clock: calls are numbered in the order they are made; each is answered  *)
(* "accepted" or "refused"; the accepted ones form one log, in the order   *)
(* of the calls; and each reader reads the log from the beginning, with    *)
(* at most so many events still to read.                                   *)
(***************************************************************************)
EXTENDS Naturals, Sequences

CONSTANTS
    Callers,
    Readers,
    Lag              \* per reader, how far it may be behind

VARIABLES
    calls,           \* how many calls have been made
    number,          \* the number of each caller's current or last call
    answer,          \* what it has been told, "pending" as long as it waits
    log,             \* the numbers of the accepted calls
    position         \* how much of the log each reader has read

vars == <<calls, number, answer, log, position>>

Init ==
    /\ calls = 0
    /\ number = [c \in Callers |-> 0]
    /\ answer = [c \in Callers |-> "none"]
    /\ log = <<>>
    /\ position = [r \in Readers |-> 0]

Accept(c, n) ==
    /\ \A r \in Readers : Len(log) - position[r] < Lag[r]
    /\ \A i \in 1..Len(log) : log[i] < n
    /\ log' = Append(log, n)
    /\ answer' = [answer EXCEPT ![c] = "accepted"]

Refuse(c) == answer' = [answer EXCEPT ![c] = "refused"] /\ UNCHANGED log

\* A call may be answered at once.
Call(c) ==
    /\ answer[c] # "pending"
    /\ calls' = calls + 1
    /\ number' = [number EXCEPT ![c] = calls + 1]
    /\ \/ Accept(c, calls + 1)
       \/ Refuse(c)
       \/ answer' = [answer EXCEPT ![c] = "pending"] /\ UNCHANGED log
    /\ UNCHANGED position

Answer(c) ==
    /\ answer[c] = "pending"
    /\ Accept(c, number[c]) \/ Refuse(c)
    /\ UNCHANGED <<calls, number, position>>

Read(r) ==
    /\ position[r] < Len(log)
    /\ position' = [position EXCEPT ![r] = @ + 1]
    /\ UNCHANGED <<calls, number, answer, log>>

Next ==
    \/ \E c \in Callers : Call(c) \/ Answer(c)
    \/ \E r \in Readers : Read(r)

Spec == Init /\ [][Next]_vars

=============================================================================
