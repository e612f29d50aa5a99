------------------------------ MODULE MCStepChain ------------------------------
(* Small instances of StepChain for TLC. *)
EXTENDS StepChain

CONSTANTS p, q

\* One operation of each kind of proxy, or two that poll.
Mixed == [o \in Op |-> IF o = q THEN "notify" ELSE "poll"]
AllPoll == [o \in Op |-> "poll"]

Generated == [o \in Op |-> None]
OneGiven == [o \in Op |-> IF o = p THEN 7 ELSE None]

\* The calls of the notify operation that fail, and the read of the other.
SomeFail == {<<q, "start">>, <<q, "release">>, <<p, "read">>}
=============================================================================
