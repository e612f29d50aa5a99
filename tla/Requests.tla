------------------------------- MODULE Requests -------------------------------
(***************************************************************************)
(* The requests that reach one AsyncConnection and what the synchronous    *)
(* call behind each of them does to the ADS port of its Connection.        *)
(*                                                                         *)
(* A request is one use of AsyncConnection._submit (a member of Call) or   *)
(* one aclose() coroutine (a member of Closer).  Each is made on one event *)
(* loop, LoopOf, and at most once.                                         *)
(***************************************************************************)
CONSTANTS
    Call,       \* submissions through _submit
    Closer,     \* aclose() coroutines
    Loop,       \* event loops; each runs in a thread of its own
    LoopOf,     \* the loop a request is made on
    CallKind,   \* "open" (submit_open), "close" (submit_close) or "op" (any other)
    Shutdown,   \* the _ShutdownSignal
    None        \* no request

Item == Call \cup Closer

ASSUME RequestsAssumption ==
    /\ Call \cap Closer = {}
    /\ LoopOf \in [Item -> Loop]
    /\ CallKind \in [Call -> {"open", "close", "op"}]
    /\ Shutdown \notin Item
    /\ None \notin Item \cup {Shutdown}

\* aclose queues Connection.close like submit_close does.
Kind(i) == IF i \in Closer THEN "close" ELSE CallKind[i]

\* Connection.open returns early on an open connection, Connection.close on a
\* closed one; otherwise the router calls they make may raise.  When one does,
\* _open keeps its value: open closes the port it had taken and re-raises.
MayRaise(i, open) == CASE Kind(i) = "open"  -> ~open
                       [] Kind(i) = "close" -> open
                       [] Kind(i) = "op"    -> TRUE

\* _open after the call has returned normally.
OpenAfter(i, open) == CASE Kind(i) = "open"  -> TRUE
                        [] Kind(i) = "close" -> FALSE
                        [] Kind(i) = "op"    -> open
=============================================================================
