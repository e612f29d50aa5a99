---------------------------- MODULE AsyncConnection ----------------------------
(***************************************************************************)
(* pyads.AsyncConnection: coroutines on event loops submit synchronous ADS *)
(* calls to one queue; a worker thread runs them and posts each outcome to *)
(* the loop that submitted it, which settles the caller's future.          *)
(*                                                                         *)
(* One event loop is one thread: between two of its steps it runs nothing  *)
(* else, so what a coroutine does without an await is one action, cut only *)
(* where another thread can come between (the lock of _submit and aclose   *)
(* is released before they put their item in the queue).                   *)
(***************************************************************************)
EXTENDS Requests, Naturals, Sequences

CONSTANTS
    MayFail,    \* requests whose synchronous call may raise
    MayCancel,  \* requests whose future or task may be cancelled
    MayEnd      \* loops that may be closed while the worker still runs

ASSUME EnvironmentAssumption ==
    /\ MayFail \subseteq Item
    /\ MayCancel \subseteq Item
    /\ MayEnd \subseteq Loop

VARIABLES
    closed,     \* _closed
    queue,      \* _queue
    worker,     \* the worker thread
    current,    \* the item the worker holds
    outcome,    \* how each synchronous call ended; the worker's result or exc
    open,       \* _sync._open
    up,         \* which event loops are not closed
    ready,      \* per loop, the callbacks the worker has posted
    thread,     \* per loop, the request between its lock and its queue.put
    fut,        \* the asyncio future of each request
    aclose,     \* where each aclose coroutine is
    order       \* history: everything put in the queue, in order

vars == <<closed, queue, worker, current, outcome, open, up, ready, thread,
          fut, aclose, order>>
-----------------------------------------------------------------------------
Settled == {"ok", "error"}
Callback == [future : Item, with : Settled]

TypeOK ==
    /\ closed \in BOOLEAN
    /\ queue \in Seq(Item \cup {Shutdown})
    /\ worker \in {"idle", "running", "posting", "stopped", "dead"}
    /\ current \in Item \cup {None}
    /\ outcome \in [Item -> Settled \cup {"none"}]
    /\ open \in BOOLEAN
    /\ up \in [Loop -> BOOLEAN]
    /\ ready \in [Loop -> Seq(Callback)]
    /\ thread \in [Loop -> Item \cup {None}]
    /\ fut \in [Item -> Settled \cup {"none", "refused", "pending", "cancelled"}]
    /\ aclose \in [Closer -> {"idle", "noop", "closing", "joining",
                              "returned", "raised", "cancelled"}]
    /\ order \in Seq(Item \cup {Shutdown})

Init ==
    /\ closed = FALSE
    /\ queue = <<>>
    /\ worker = "idle"
    /\ current = None
    /\ outcome = [i \in Item |-> "none"]
    /\ open = FALSE
    /\ up = [l \in Loop |-> TRUE]
    /\ ready = [l \in Loop |-> <<>>]
    /\ thread = [l \in Loop |-> None]
    /\ fut = [i \in Item |-> "none"]
    /\ aclose = [k \in Closer |-> "idle"]
    /\ order = <<>>
-----------------------------------------------------------------------------
(* The event loops *)

\* The loop is between two steps: nothing is in the middle of a submission.
Free(l) == up[l] /\ thread[l] = None

\* _submit under the lock: refuse, or go on to create the future and queue it.
SubmitCheck(c) ==
    /\ Free(LoopOf[c])
    /\ fut[c] = "none"
    /\ \/ /\ closed
          /\ fut' = [fut EXCEPT ![c] = "refused"]
          /\ UNCHANGED thread
       \/ /\ ~closed
          /\ thread' = [thread EXCEPT ![LoopOf[c]] = c]
          /\ UNCHANGED fut
    /\ UNCHANGED <<closed, queue, worker, current, outcome, open, up, ready, aclose, order>>

\* aclose under the lock: a second one returns at once, whatever the first is at.
AcloseCheck(k) ==
    /\ Free(LoopOf[k])
    /\ aclose[k] = "idle"
    /\ \/ /\ closed
          /\ aclose' = [aclose EXCEPT ![k] = "noop"]
          /\ UNCHANGED <<closed, thread>>
       \/ /\ ~closed
          /\ closed' = TRUE
          /\ thread' = [thread EXCEPT ![LoopOf[k]] = k]
          /\ aclose' = [aclose EXCEPT ![k] = "closing"]
    /\ UNCHANGED <<queue, worker, current, outcome, open, up, ready, fut, order>>

PutUrgent(i) ==
    /\ thread[LoopOf[i]] = i
    /\ thread' = [thread EXCEPT ![LoopOf[i]] = None]
    /\ fut' = [fut EXCEPT ![i] = "pending"]
    /\ queue' = IF i \in Closer THEN <<i>> \o queue ELSE Append(queue, i)
    /\ order' = Append(order, i)
    /\ UNCHANGED <<closed, worker, current, outcome, open, up, ready, aclose>>

\* The lock is long released: create the future and put the call in the queue.
Put(i) ==
    /\ thread[LoopOf[i]] = i
    /\ thread' = [thread EXCEPT ![LoopOf[i]] = None]
    /\ fut' = [fut EXCEPT ![i] = "pending"]
    /\ queue' = Append(queue, i)
    /\ order' = Append(order, i)
    /\ UNCHANGED <<closed, worker, current, outcome, open, up, ready, aclose>>

\* The caller cancels the future it was given (directly, or its task).
CancelFuture(c) ==
    /\ c \in MayCancel
    /\ Free(LoopOf[c])
    /\ fut[c] = "pending"
    /\ fut' = [fut EXCEPT ![c] = "cancelled"]
    /\ UNCHANGED <<closed, queue, worker, current, outcome, open, up, ready, thread, aclose, order>>

\* The task of an aclose is cancelled at one of its awaits (asyncio.wait_for, a
\* shutdown): CancelledError leaves the coroutine there.
CancelAclose(k) ==
    /\ k \in MayCancel
    /\ Free(LoopOf[k])
    /\ aclose[k] \in {"closing", "joining"}
    /\ aclose' = [aclose EXCEPT ![k] = "cancelled"]
    /\ fut' = IF fut[k] = "pending" THEN [fut EXCEPT ![k] = "cancelled"] ELSE fut
    /\ UNCHANGED <<closed, queue, worker, current, outcome, open, up, ready, thread, order>>

RunCallbackUnchecked(l) ==
    /\ Free(l)
    /\ ready[l] # <<>>
    /\ ready' = [ready EXCEPT ![l] = Tail(ready[l])]
    /\ fut' = [fut EXCEPT ![Head(ready[l]).future] = Head(ready[l]).with]
    /\ UNCHANGED <<closed, queue, worker, current, outcome, open, up, thread, aclose, order>>

\* The loop runs the next posted callback: _set_result_if_pending or
\* _set_exception_if_pending.
RunCallback(l) ==
    /\ Free(l)
    /\ ready[l] # <<>>
    /\ ready' = [ready EXCEPT ![l] = Tail(ready[l])]
    /\ LET r == Head(ready[l]) IN
         fut' = IF fut[r.future] = "pending" THEN [fut EXCEPT ![r.future] = r.with] ELSE fut
    /\ UNCHANGED <<closed, queue, worker, current, outcome, open, up, thread, aclose, order>>

AcloseResumeNoJoin(k) ==
    /\ Free(LoopOf[k])
    /\ aclose[k] = "closing"
    /\ fut[k] = "ok"
    /\ aclose' = [aclose EXCEPT ![k] = "returned"]
    /\ queue' = Append(queue, Shutdown)
    /\ order' = Append(order, Shutdown)
    /\ UNCHANGED <<closed, worker, current, outcome, open, up, ready, thread, fut>>

AcloseResumeNoSignal(k) ==
    /\ Free(LoopOf[k])
    /\ aclose[k] = "closing"
    /\ fut[k] \in Settled
    /\ aclose' = [aclose EXCEPT ![k] = "joining"]
    /\ UNCHANGED <<closed, queue, worker, current, outcome, open, up, ready, thread, fut, order>>

\* "await close_future" is over: its exception leaves aclose, its result is
\* followed by the shutdown signal and the join.
AcloseResume(k) ==
    /\ Free(LoopOf[k])
    /\ aclose[k] = "closing"
    /\ \/ /\ fut[k] = "error"
          /\ aclose' = [aclose EXCEPT ![k] = "raised"]
          /\ UNCHANGED <<queue, order>>
       \/ /\ fut[k] = "ok"
          /\ aclose' = [aclose EXCEPT ![k] = "joining"]
          /\ queue' = Append(queue, Shutdown)
          /\ order' = Append(order, Shutdown)
    /\ UNCHANGED <<closed, worker, current, outcome, open, up, ready, thread, fut>>

\* The worker thread has ended and to_thread(join) comes back.
AcloseJoined(k) ==
    /\ Free(LoopOf[k])
    /\ aclose[k] = "joining"
    /\ worker \in {"stopped", "dead"}
    /\ aclose' = [aclose EXCEPT ![k] = "returned"]
    /\ UNCHANGED <<closed, queue, worker, current, outcome, open, up, ready, thread, fut, order>>

\* asyncio.run ends: every aclose on the loop is over, its callbacks are dropped.
CloseLoop(l) ==
    /\ l \in MayEnd
    /\ Free(l)
    /\ \A k \in Closer : LoopOf[k] = l => aclose[k] \notin {"closing", "joining"}
    /\ up' = [up EXCEPT ![l] = FALSE]
    /\ ready' = [ready EXCEPT ![l] = <<>>]
    /\ UNCHANGED <<closed, queue, worker, current, outcome, open, thread, fut, aclose, order>>
-----------------------------------------------------------------------------
(* The worker thread: _worker_main *)

HasItem == worker = "idle" /\ queue # <<>> /\ queue' = Tail(queue)

WorkerStop ==
    /\ HasItem
    /\ Head(queue) = Shutdown
    /\ worker' = "stopped"
    /\ UNCHANGED <<closed, current, outcome, open, up, ready, thread, fut, aclose, order>>

\* item.future.cancelled(), read in the worker thread without a lock.
WorkerSkip ==
    /\ HasItem
    /\ Head(queue) # Shutdown
    /\ fut[Head(queue)] = "cancelled"
    /\ UNCHANGED <<closed, worker, current, outcome, open, up, ready, thread, fut, aclose, order>>

WorkerStartAny ==
    /\ HasItem
    /\ worker' = "running"
    /\ current' = Head(queue)
    /\ UNCHANGED <<closed, outcome, open, up, ready, thread, fut, aclose, order>>

WorkerStartCancelled ==
    /\ HasItem
    /\ Head(queue) # Shutdown
    /\ worker' = "running"
    /\ current' = Head(queue)
    /\ UNCHANGED <<closed, outcome, open, up, ready, thread, fut, aclose, order>>

WorkerStart ==
    /\ HasItem
    /\ Head(queue) # Shutdown
    /\ fut[Head(queue)] # "cancelled"
    /\ worker' = "running"
    /\ current' = Head(queue)
    /\ UNCHANGED <<closed, outcome, open, up, ready, thread, fut, aclose, order>>

WorkerSwallow ==
    /\ worker = "running"
    /\ \/ /\ worker' = "posting"
          /\ outcome' = [outcome EXCEPT ![current] = "ok"]
          /\ open' = OpenAfter(current, open)
          /\ UNCHANGED current
       \/ /\ current \in MayFail
          /\ MayRaise(current, open)
          /\ worker' = "idle"
          /\ outcome' = [outcome EXCEPT ![current] = "error"]
          /\ current' = None
          /\ UNCHANGED open
    /\ UNCHANGED <<closed, queue, up, ready, thread, fut, aclose, order>>

\* item.fn(*item.args, **item.kwargs) returns or raises an Exception.
WorkerFinish ==
    /\ worker = "running"
    /\ worker' = "posting"
    /\ \/ /\ outcome' = [outcome EXCEPT ![current] = "ok"]
          /\ open' = OpenAfter(current, open)
       \/ /\ current \in MayFail
          /\ MayRaise(current, open)
          /\ outcome' = [outcome EXCEPT ![current] = "error"]
          /\ UNCHANGED open
    /\ UNCHANGED <<closed, queue, current, up, ready, thread, fut, aclose, order>>

WorkerPostAsResult ==
    /\ worker = "posting"
    /\ current' = None
    /\ worker' = "idle"
    /\ LET l == LoopOf[current] IN
         ready' = [ready EXCEPT ![l] = Append(@, [future |-> current, with |-> "ok"])]
    /\ UNCHANGED <<closed, queue, outcome, open, up, thread, fut, aclose, order>>

\* item.loop.call_soon_threadsafe: on a closed loop it raises RuntimeError out
\* of _worker_main, and the thread ends.
WorkerPost ==
    /\ worker = "posting"
    /\ current' = None
    /\ LET l == LoopOf[current] IN
         \/ /\ up[l]
            /\ ready' = [ready EXCEPT
                  ![l] = Append(@, [future |-> current, with |-> outcome[current]])]
            /\ worker' = "idle"
         \/ /\ ~up[l]
            /\ worker' = "dead"
            /\ UNCHANGED ready
    /\ UNCHANGED <<closed, queue, outcome, open, up, thread, fut, aclose, order>>

Worker == WorkerStop \/ WorkerSkip \/ WorkerStart \/ WorkerFinish \/ WorkerPost
-----------------------------------------------------------------------------
Next ==
    \/ \E c \in Call : SubmitCheck(c) \/ CancelFuture(c)
    \/ \E k \in Closer : AcloseCheck(k) \/ CancelAclose(k) \/ AcloseResume(k) \/ AcloseJoined(k)
    \/ \E i \in Item : Put(i)
    \/ \E l \in Loop : RunCallback(l) \/ CloseLoop(l)
    \/ Worker

\* Threads that can run do run, and a loop that is not closed runs what is due;
\* whether a request is ever made, cancelled, or a loop closed, is the program's choice.
Fairness ==
    /\ WF_vars(Worker)
    /\ \A i \in Item : WF_vars(Put(i))
    /\ \A l \in Loop : WF_vars(RunCallback(l))
    /\ \A k \in Closer : WF_vars(AcloseResume(k)) /\ WF_vars(AcloseJoined(k))

Spec == Init /\ [][Next]_vars

FairSpec == Spec /\ Fairness
-----------------------------------------------------------------------------
(* Safety *)

\* A caller sees the outcome of its own call: a future is settled with a result
\* only if the call behind it returned, with an exception only if that call raised
\* (_worker_main hands each outcome to the future it was queued with).
OwnOutcome == \A i \in Item : fut[i] \in Settled => outcome[i] = fut[i]

\* The futures of one event loop settle in the order of their submission, through
\* the queue, the worker and the loop's callbacks: when one shows an outcome, none
\* submitted before it on that loop is still pending.
InOrder ==
    \A p, q \in 1 .. Len(order) :
        (/\ p < q
         /\ order[p] \in Item /\ order[q] \in Item
         /\ LoopOf[order[p]] = LoopOf[order[q]]
         /\ fut[order[q]] \in Settled) => fut[order[p]] # "pending"

\* A future of a loop that is not closed, while it is unanswered, is in exactly one
\* place: in the queue, in the hands of the worker, or in a callback of its own loop.
\* No call is dropped between queue.get, item.fn and call_soon_threadsafe, and none
\* is on its way twice.
WaitsIn(i) ==
    {place \in {"queue", "worker", "loop"} :
        CASE place = "queue"  -> \E n \in DOMAIN queue : queue[n] = i
          [] place = "worker" -> current = i
          [] place = "loop"   -> \E n \in DOMAIN ready[LoopOf[i]] :
                                    ready[LoopOf[i]][n].future = i}
NobodyForgotten ==
    \A i \in Item :
        fut[i] = "pending" /\ up[LoopOf[i]] =>
            \E place \in {"queue", "worker", "loop"} : WaitsIn(i) = {place}

\* A late answer never overwrites what a caller has seen: once a future is settled,
\* cancelled or refused it stays as it is, whatever the worker posts afterwards.
SettledForever ==
    [][\A i \in Item : fut[i] \notin {"none", "pending"} => fut'[i] = fut[i]]_vars

\* An aclose that did its work leaves the port closed, the worker ended, nothing in
\* the queue and no future unanswered, as long as one event loop makes all requests.
AcloseDrains ==
    \A k \in Closer : aclose[k] = "returned" =>
        /\ ~open
        /\ worker = "stopped"
        /\ queue = <<>>
        /\ \A i \in Item : fut[i] # "pending"

\* "Close ADS connection and stop worker thread permanently" (docstring of aclose):
\* when an aclose has come back without an exception and no other is at work any
\* more, the port is closed and the worker has ended.
AcloseReturnsClosed ==
    (/\ \E k \in Closer : aclose[k] \in {"returned", "noop"}
     /\ \A k \in Closer : aclose[k] \notin {"closing", "joining"}) => ~open /\ worker = "stopped"

\* The same promise for the aclose that did the work, whichever threads make requests:
\* once it has returned the port is closed.
ClosedForGood == \A k \in Closer : aclose[k] = "returned" => ~open
-----------------------------------------------------------------------------
(* AsyncConnection keeps the promise of SerialExecutor *)

Serial == INSTANCE SerialExecutor WITH
    taken <- Len(order) - Len(queue),
    active <- IF worker = "running" THEN current ELSE None,
    stopped <- worker = "stopped"

\* Every behaviour, whatever fails, is cancelled or is closed, is one of the serial
\* executor: submission order, one call at a time, none twice, none once cancelled.
SerialSpec == Serial!Spec
-----------------------------------------------------------------------------
(* Liveness, under FairSpec *)

\* Every future that was handed out is settled or cancelled in the end.
EveryCallSettles == \A i \in Item : fut[i] = "pending" ~> fut[i] # "pending"

\* An aclose that has begun comes to an end: it returns, raises or is cancelled.
AcloseEnds ==
    \A k \in Closer : aclose[k] = "closing" ~> aclose[k] \in {"returned", "raised", "cancelled"}

\* "All ADS operations are queued and executed by one dedicated worker thread": every
\* request that was queued is taken in the end, whatever became of its loop.
EveryCallIsTaken ==
    \A i \in Item : fut[i] = "pending" ~> (outcome[i] # "none" \/ fut[i] = "cancelled")
=============================================================================
