---------------------------- MODULE SerialExecutor ----------------------------
(***************************************************************************)
(* What AsyncConnection promises its callers: one executor that takes the  *)
(* submitted requests in the order of submission, one at a time, runs each *)
(* at most once, never starts one whose future was cancelled before its    *)
(* turn, and settles every future with the outcome of its own call, in     *)
(* submission order on each event loop.  Nothing is said here of queues,   *)
(* threads, callbacks or the steps of aclose.                              *)
(***************************************************************************)
EXTENDS Requests, Naturals, Sequences

VARIABLES
    order,      \* everything submitted, in order
    taken,      \* how much of order has had its turn
    active,     \* the request whose call is running, or None
    outcome,    \* how the call of a request ended: "none" until it has
    fut,        \* what the caller's future shows
    open,       \* _open of the synchronous Connection
    stopped     \* the executor has taken the shutdown signal

vars == <<order, taken, active, outcome, fut, open, stopped>>

Init ==
    /\ order = <<>>
    /\ taken = 0
    /\ active = None
    /\ outcome = [i \in Item |-> "none"]
    /\ fut = [i \in Item |-> "none"]
    /\ open = FALSE
    /\ stopped = FALSE

Submit(i) ==
    /\ fut[i] = "none"
    /\ fut' = [fut EXCEPT ![i] = "pending"]
    /\ order' = Append(order, i)
    /\ UNCHANGED <<taken, active, outcome, open, stopped>>

Refuse(i) ==
    /\ fut[i] = "none"
    /\ fut' = [fut EXCEPT ![i] = "refused"]
    /\ UNCHANGED <<order, taken, active, outcome, open, stopped>>

Cancel(i) ==
    /\ fut[i] = "pending"
    /\ fut' = [fut EXCEPT ![i] = "cancelled"]
    /\ UNCHANGED <<order, taken, active, outcome, open, stopped>>

\* The shutdown signal follows a close that succeeded, once.
SubmitShutdown ==
    /\ \E k \in Closer : outcome[k] = "ok"
    /\ \A n \in 1 .. Len(order) : order[n] # Shutdown
    /\ order' = Append(order, Shutdown)
    /\ UNCHANGED <<taken, active, outcome, fut, open, stopped>>

HasTurn(i) ==
    /\ ~stopped
    /\ active = None
    /\ taken < Len(order)
    /\ order[taken + 1] = i
    /\ taken' = taken + 1

Start(i) ==
    /\ HasTurn(i)
    /\ fut[i] # "cancelled"
    /\ active' = i
    /\ UNCHANGED <<order, outcome, fut, open, stopped>>

Skip(i) ==
    /\ HasTurn(i)
    /\ fut[i] = "cancelled"
    /\ UNCHANGED <<order, active, outcome, fut, open, stopped>>

Stop ==
    /\ HasTurn(Shutdown)
    /\ stopped' = TRUE
    /\ UNCHANGED <<order, active, outcome, fut, open>>

Finish(i) ==
    /\ active = i
    /\ active' = None
    /\ \/ /\ outcome' = [outcome EXCEPT ![i] = "ok"]
          /\ open' = OpenAfter(i, open)
       \/ /\ MayRaise(i, open)
          /\ outcome' = [outcome EXCEPT ![i] = "error"]
          /\ UNCHANGED open
    /\ UNCHANGED <<order, taken, fut, stopped>>

\* No request submitted earlier on the same loop is still waiting.
NoneWaitsBefore(i) ==
    \A p, q \in 1 .. Len(order) :
        (/\ p < q /\ order[q] = i
         /\ order[p] \in Item /\ LoopOf[order[p]] = LoopOf[i]) => fut[order[p]] # "pending"

Settle(i) ==
    /\ fut[i] = "pending"
    /\ outcome[i] # "none"
    /\ NoneWaitsBefore(i)
    /\ fut' = [fut EXCEPT ![i] = outcome[i]]
    /\ UNCHANGED <<order, taken, active, outcome, open, stopped>>

Next ==
    \/ \E i \in Item : \/ Submit(i) \/ Refuse(i) \/ Cancel(i)
                       \/ Start(i) \/ Skip(i) \/ Finish(i) \/ Settle(i)
    \/ SubmitShutdown
    \/ Stop

Spec == Init /\ [][Next]_vars
=============================================================================
