-------------------------- MODULE StepChainOperation --------------------------
(***************************************************************************)
(* What the StepChainOperations of one function block promise their        *)
(* callers: an accepted future that settles with the answer of the block   *)
(* to this start, and a done future that settles once, and tells the end   *)
(* of the chain of this very operation.  The block runs one chain at a     *)
(* time.  Nothing is said here of queues, reads, request ids, deadlines    *)
(* or notifications.                                                       *)
(***************************************************************************)
CONSTANTS
    Op          \* the operations

VARIABLES
    chain,      \* what became of each operation on the block
    accepted,   \* its future accepted
    done        \* its future done

vars == <<chain, accepted, done>>

Init ==
    /\ chain = [o \in Op |-> "none"]
    /\ accepted = [o \in Op |-> "none"]
    /\ done = [o \in Op |-> "none"]

Start(o) ==
    /\ done[o] = "none"
    /\ done' = [done EXCEPT ![o] = "pending"]
    /\ accepted' = [accepted EXCEPT ![o] = "pending"]
    /\ UNCHANGED chain

\* The answer to a start goes to a caller that still waits for it.
Answer(o, answer) ==
    accepted' = [accepted EXCEPT ![o] = IF @ = "pending" THEN answer ELSE @]

\* The block begins the chain of an operation that was started, once and when no
\* other runs; the answer may still be lost.
Serve(o) ==
    /\ accepted[o] \in {"pending", "cancelled"}
    /\ \A q \in Op : chain[q] # "busy"
    /\ chain[o] = "none"
    /\ chain' = [chain EXCEPT ![o] = "busy"]
    /\ \E answer \in {"ok", "error"} : Answer(o, answer)
    /\ UNCHANGED done

\* It refuses a start only while a chain runs.
Refuse(o) ==
    /\ accepted[o] = "pending"
    /\ \E q \in Op : chain[q] = "busy"
    /\ Answer(o, "refused")
    /\ UNCHANGED <<chain, done>>

Lose(o) ==
    /\ accepted[o] = "pending"
    /\ Answer(o, "error")
    /\ UNCHANGED <<chain, done>>

CancelAccepted(o) ==
    /\ accepted[o] = "pending"
    /\ accepted' = [accepted EXCEPT ![o] = "cancelled"]
    /\ UNCHANGED <<chain, done>>

End(o) ==
    /\ chain[o] = "busy"
    /\ \E end \in {"done", "error"} : chain' = [chain EXCEPT ![o] = end]
    /\ UNCHANGED <<accepted, done>>

\* What done may say, and of what.
Says(o, ending) ==
    CASE ending = "done"      -> accepted[o] = "ok" /\ chain[o] = "done"
      [] ending = "failed"    -> accepted[o] = "ok" /\ chain[o] = "error"
      [] ending = "rejected"  -> accepted[o] = "refused" /\ chain[o] = "none"
      [] ending = "timeout"   -> accepted[o] = "ok" /\ chain[o] # "none"
      [] ending \in {"error", "cancelled"} -> TRUE

\* A cancelled operation takes an accepted future that is still pending with it.
Resolve(o) ==
    /\ done[o] = "pending"
    /\ \E ending \in {"done", "failed", "rejected", "timeout", "error", "cancelled"} :
         /\ Says(o, ending)
         /\ done' = [done EXCEPT ![o] = ending]
         /\ \/ UNCHANGED accepted
            \/ ending = "cancelled" /\ Answer(o, "cancelled")
    /\ UNCHANGED chain

Next ==
    \E o \in Op : \/ Start(o) \/ Serve(o) \/ Refuse(o) \/ Lose(o)
                  \/ CancelAccepted(o) \/ End(o) \/ Resolve(o)

Spec == Init /\ [][Next]_vars
=============================================================================
