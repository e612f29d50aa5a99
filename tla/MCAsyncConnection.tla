--------------------------- MODULE MCAsyncConnection ---------------------------
(* Small instances of AsyncConnection for TLC. *)
EXTENDS AsyncConnection

CONSTANTS o, a, b, k, j, main, other

OneLoop == [i \in Item |-> main]
TwoLoops == [i \in Item |-> IF i \in {b, j} THEN other ELSE main]
OneOpen == [c \in Call |-> IF c = o THEN "open" ELSE "op"]
\* The last call opens the connection again.
LateOpen == [c \in Call |-> IF c = b THEN "open" ELSE "op"]
=============================================================================
