------------------------------ MODULE StepChain ------------------------------
(***************************************************************************)
(* Operations on one stepchain function block: the start RPC that a        *)
(* stepchain proxy sends, and the task that follows the status structure   *)
(* of the block until it shows the end of the operation.  A "poll" proxy   *)
(* (AsyncStepChainRpcObject) reads the status again and again, a "notify"  *)
(* proxy (AsyncNotifyStepChainRpcObject) reads it when an ADS notification *)
(* says that it has changed.                                               *)
(*                                                                         *)
(* Every ADS call goes through the serial executor that AsyncConnection    *)
(* implements: here it is a queue, the call being run, and futures; the    *)
(* outcome of a call and its callback on the loop are one step.  All       *)
(* operations are made on one event loop.                                  *)
(***************************************************************************)
EXTENDS Naturals, Sequences, FiniteSets

CONSTANTS
    Op,         \* calls of the stepchain method, each made at most once
    Backend,    \* "poll" or "notify": __stepchain_completion__ of its proxy
    GivenId,    \* the request id the caller passes, None to have one generated
    IdModulus,  \* generated ids are taken modulo this: 2^32 in the code
    Timed,      \* operations whose proxy sets __stepchain_timeout_s__
    MayCancel,  \* operations whose caller may cancel them
    MayFail,    \* ADS calls that may raise, a set of <<operation, call>>
    MayMiss,    \* status fields whose sub-command of a sum read may fail
    MayClose,   \* whether the connection may be closed while operations run
    Symbols,    \* number of status symbols with a notification of their own
    EventLimit, \* maxsize of an operation's event queue: 64 in the code
    None,       \* nothing
    ErrorText   \* what a sum read returns for a symbol it could not read

CallName == {"register", "start", "read", "release"}
Job == Op \X CallName
Status == [id : Nat, state : {"idle", "busy", "done", "error"}]

ASSUME StepChainAssumption ==
    /\ Backend \in [Op -> {"poll", "notify"}]
    /\ GivenId \in [Op -> Nat \cup {None}]
    /\ IdModulus \in Nat \ {0}
    /\ Timed \subseteq Op
    /\ MayCancel \subseteq Op
    /\ MayFail \subseteq Job
    /\ MayMiss \subseteq {"id", "done", "error"}
    /\ MayClose \in BOOLEAN
    /\ Symbols \in Nat \ {0}
    /\ EventLimit \in Nat \ {0}
    /\ None \notin Nat \cup Op \cup Job \cup Status
    /\ ErrorText \notin Nat \cup BOOLEAN

VARIABLES
    closed,     \* _closed of the connection
    counter,    \* _request_id_counter: the next generated id
    queue,      \* ADS calls waiting for the worker
    running,    \* the ADS call the worker is in
    fut,        \* the future of each call
    pc,         \* where the task of each operation is
    result,     \* how the operation ended, or will when its finally block is through
    id,         \* its request id
    seen,       \* the status as it last read it
    deadline,   \* of the operation: "none", "ahead" or "over"
    handles,    \* how many of its notifications the target holds
    sampled,    \* the status the target last notified it of
    events,     \* wake-ups in its event queue
    status,     \* the status structure of the function block
    owner,      \* history: the operation the block last accepted
    chain       \* history: what became of each operation on the block

local == <<pc, result, id, seen, deadline>>
plc == <<status, owner, chain>>
notified == <<handles, sampled, events>>
vars == <<closed, counter, queue, running, fut, local, notified, plc>>
-----------------------------------------------------------------------------
Snapshot == [id : Nat \cup {ErrorText}, done : BOOLEAN \cup {ErrorText},
             error : BOOLEAN \cup {ErrorText}]
Ending == {"done", "failed", "rejected", "timeout", "error", "cancelled"}

TypeOK ==
    /\ closed \in BOOLEAN
    /\ counter \in Nat
    /\ queue \in Seq(Job)
    /\ running \in Job \cup {None}
    /\ fut \in [Job -> {"none", "pending", "ok", "refused", "error", "cancelled"}]
    /\ pc \in [Op -> {"idle", "created", "registering", "accepting", "reading",
                      "sleeping", "waiting", "releasing", "ended"}]
    /\ result \in [Op -> Ending \cup {"none"}]
    /\ id \in [Op -> Nat \cup {None}]
    /\ seen \in [Op -> Snapshot \cup {None}]
    /\ deadline \in [Op -> {"none", "ahead", "over"}]
    /\ handles \in [Op -> 0 .. Symbols]
    /\ sampled \in [Op -> Status \cup {None}]
    /\ events \in [Op -> 0 .. EventLimit]
    /\ status \in Status
    /\ owner \in Op \cup {None}
    /\ chain \in [Op -> {"none", "busy", "done", "error"}]

Init ==
    /\ closed = FALSE
    /\ counter = 1
    /\ queue = <<>>
    /\ running = None
    /\ fut = [j \in Job |-> "none"]
    /\ pc = [o \in Op |-> "idle"]
    /\ result = [o \in Op |-> "none"]
    /\ id = [o \in Op |-> None]
    /\ seen = [o \in Op |-> None]
    /\ deadline = [o \in Op |-> "none"]
    /\ handles = [o \in Op |-> 0]
    /\ sampled = [o \in Op |-> None]
    /\ events = [o \in Op |-> 0]
    /\ status = [id |-> 0, state |-> "idle"]
    /\ owner = None
    /\ chain = [o \in Op |-> "none"]
-----------------------------------------------------------------------------
(* The caller *)

\* The proxy method: _submit raises on a closed connection and no operation is made.
Invoke(o) ==
    /\ pc[o] = "idle"
    /\ ~closed
    /\ IF GivenId[o] = None
       THEN id' = [id EXCEPT ![o] = counter % IdModulus] /\ counter' = counter + 1
       ELSE id' = [id EXCEPT ![o] = GivenId[o]] /\ UNCHANGED counter
    /\ LET calls == IF Backend[o] = "notify" THEN <<<<o, "register">>, <<o, "start">>>>
                                             ELSE <<<<o, "start">>>>
       IN /\ queue' = queue \o calls
          /\ fut' = [j \in Job |-> IF \E n \in DOMAIN calls : calls[n] = j
                                   THEN "pending" ELSE fut[j]]
    /\ pc' = [pc EXCEPT ![o] = "created"]
    /\ UNCHANGED <<closed, running, result, seen, deadline, notified, plc>>

LeaveOnSuccess(o, ending, f) ==
    /\ result' = [result EXCEPT ![o] = ending]
    /\ IF Backend[o] = "notify" /\ ~closed /\ ending = "done"
       THEN /\ pc' = [pc EXCEPT ![o] = "releasing"]
            /\ queue' = Append(queue, <<o, "release">>)
            /\ fut' = [f EXCEPT ![<<o, "release">>] = "pending"]
       ELSE /\ pc' = [pc EXCEPT ![o] = "ended"]
            /\ fut' = f
            /\ UNCHANGED queue

\* The finally block of a notify operation hands its handles back, unless the
\* connection refuses it; a poll operation is simply over.
Leave(o, ending, f) ==
    /\ result' = [result EXCEPT ![o] = ending]
    /\ IF Backend[o] = "notify" /\ ~closed
       THEN /\ pc' = [pc EXCEPT ![o] = "releasing"]
            /\ queue' = Append(queue, <<o, "release">>)
            /\ fut' = [f EXCEPT ![<<o, "release">>] = "pending"]
       ELSE /\ pc' = [pc EXCEPT ![o] = "ended"]
            /\ fut' = f
            /\ UNCHANGED queue

EndNow(o, ending) ==
    /\ pc' = [pc EXCEPT ![o] = "ended"]
    /\ result' = [result EXCEPT ![o] = ending]

Awaited(o) == CASE pc[o] = "registering" -> "register"
                [] pc[o] = "accepting"   -> "start"
                [] pc[o] = "reading"     -> "read"
                [] pc[o] = "releasing"   -> "release"
                [] OTHER                 -> "none"

WithCancelled(j) == [fut EXCEPT ![j] = IF @ = "pending" THEN "cancelled" ELSE @]

CancelAnyTime(o) ==
    /\ o \in MayCancel
    /\ \/ /\ pc[o] \in {"created", "ended"}
          /\ EndNow(o, "cancelled")
          /\ UNCHANGED <<queue, fut>>
       \/ /\ pc[o] \in {"registering", "releasing"}
          /\ EndNow(o, "cancelled")
          /\ fut' = WithCancelled(<<o, Awaited(o)>>)
          /\ UNCHANGED queue
       \/ /\ pc[o] \in {"accepting", "reading"}
          /\ Leave(o, "cancelled", WithCancelled(<<o, Awaited(o)>>))
       \/ /\ pc[o] \in {"sleeping", "waiting"}
          /\ Leave(o, "cancelled", fut)
    /\ UNCHANGED <<closed, counter, running, id, seen, deadline, notified, plc>>

\* StepChainOperation.cancel (or asyncio.wait_for on the operation): the task takes
\* CancelledError at the await it is in, and the future it awaits is cancelled with it.
Cancel(o) ==
    /\ o \in MayCancel
    /\ \/ /\ pc[o] = "created"
          /\ EndNow(o, "cancelled")
          /\ UNCHANGED <<queue, fut>>
       \/ /\ pc[o] \in {"registering", "releasing"}
          /\ EndNow(o, "cancelled")
          /\ fut' = WithCancelled(<<o, Awaited(o)>>)
          /\ UNCHANGED queue
       \/ /\ pc[o] \in {"accepting", "reading"}
          /\ Leave(o, "cancelled", WithCancelled(<<o, Awaited(o)>>))
       \/ /\ pc[o] \in {"sleeping", "waiting"}
          /\ Leave(o, "cancelled", fut)
    /\ UNCHANGED <<closed, counter, running, id, seen, deadline, notified, plc>>

\* The caller cancels the future operation.accepted itself.
CancelAccepted(o) ==
    /\ o \in MayCancel
    /\ fut[<<o, "start">>] = "pending"
    /\ fut' = [fut EXCEPT ![<<o, "start">>] = "cancelled"]
    /\ UNCHANGED <<closed, counter, queue, running, local, notified, plc>>

Close ==
    /\ MayClose
    /\ ~closed
    /\ closed' = TRUE
    /\ UNCHANGED <<counter, queue, running, fut, local, notified, plc>>
-----------------------------------------------------------------------------
(* The task of an operation: _wait_until_done, _wait_until_done_notify *)

\* The error text of a failed sub-command is no integer, and as a boolean it is true.
Shows(value) == value # FALSE
Own(o) == seen[o].id = id[o]
IsFailed(o) == Own(o) /\ Shows(seen[o].error)
IsDoneAnyId(o) == ~Shows(seen[o].error) /\ Shows(seen[o].done)
IsDone(o) == Own(o) /\ ~Shows(seen[o].error) /\ Shows(seen[o].done)

\* sum_read: submits the read, or raises when the connection is closed.
Read(o) ==
    \/ /\ closed
       /\ Leave(o, "error", fut)
    \/ /\ ~closed
       /\ pc' = [pc EXCEPT ![o] = "reading"]
       /\ queue' = Append(queue, <<o, "read">>)
       /\ fut' = [fut EXCEPT ![<<o, "read">>] = "pending"]
       /\ UNCHANGED result

Begin(o) ==
    /\ pc[o] = "created"
    /\ pc' = [pc EXCEPT ![o] = IF Backend[o] = "notify" THEN "registering" ELSE "accepting"]
    /\ UNCHANGED <<closed, counter, queue, running, fut, result, id, seen, deadline, notified, plc>>

\* The await of the registration stands before the try block.
Registered(o) ==
    /\ pc[o] = "registering"
    /\ \/ /\ fut[<<o, "register">>] = "ok"
          /\ pc' = [pc EXCEPT ![o] = "accepting"]
          /\ UNCHANGED result
       \/ /\ fut[<<o, "register">>] = "error"
          /\ EndNow(o, "error")
    /\ UNCHANGED <<closed, counter, queue, running, fut, id, seen, deadline, notified, plc>>

Arm(o) == [deadline EXCEPT ![o] = IF o \in Timed /\ @ = "none" THEN "ahead" ELSE @]

\* A poll operation starts its clock before the first read, a notify operation after.
Accepted(o) ==
    /\ pc[o] = "accepting"
    /\ \/ /\ fut[<<o, "start">>] = "ok"
          /\ deadline' = IF Backend[o] = "poll" THEN Arm(o) ELSE deadline
          /\ Read(o)
       \/ /\ fut[<<o, "start">>] = "refused"
          /\ Leave(o, "rejected", fut)
          /\ UNCHANGED deadline
       \/ /\ fut[<<o, "start">>] \in {"error", "cancelled"}
          /\ Leave(o, fut[<<o, "start">>], fut)
          /\ UNCHANGED deadline
    /\ UNCHANGED <<closed, counter, running, id, seen, notified, plc>>

GoOnForever(o) ==
    /\ pc' = [pc EXCEPT ![o] = IF Backend[o] = "poll" THEN "sleeping" ELSE "waiting"]
    /\ UNCHANGED <<deadline, queue, fut, result>>

\* Not over yet: past its deadline the operation gives up, else it sleeps or waits.
GoOn(o) ==
    \/ /\ deadline[o] = "over"
       /\ Leave(o, "timeout", fut)
       /\ UNCHANGED deadline
    \/ /\ deadline[o] # "over"
       /\ deadline' = Arm(o)
       /\ pc' = [pc EXCEPT ![o] = IF Backend[o] = "poll" THEN "sleeping" ELSE "waiting"]
       /\ UNCHANGED <<queue, fut, result>>

\* sum_read has come back: _is_completed decides.
HasRead(o) ==
    /\ pc[o] = "reading"
    /\ \/ /\ fut[<<o, "read">>] = "error"
          /\ Leave(o, "error", fut)
          /\ UNCHANGED deadline
       \/ /\ fut[<<o, "read">>] = "ok"
          /\ \/ /\ IsFailed(o)
                /\ Leave(o, "failed", fut)
                /\ UNCHANGED deadline
             \/ /\ IsDone(o)
                /\ Leave(o, "done", fut)
                /\ UNCHANGED deadline
             \/ /\ ~IsFailed(o)
                /\ ~IsDone(o)
                /\ GoOn(o)
    /\ UNCHANGED <<closed, counter, running, id, seen, notified, plc>>

\* asyncio.sleep(poll_interval) is over, or event_queue.get() has an event.
Wake(o) ==
    /\ \/ /\ pc[o] = "sleeping"
          /\ UNCHANGED events
       \/ /\ pc[o] = "waiting"
          /\ events[o] > 0
          /\ events' = [events EXCEPT ![o] = @ - 1]
    /\ Read(o)
    /\ UNCHANGED <<closed, counter, running, id, seen, deadline, handles, sampled, plc>>

\* asyncio.wait_for gives up.
WaitTimesOut(o) ==
    /\ pc[o] = "waiting"
    /\ deadline[o] = "over"
    /\ Leave(o, "timeout", fut)
    /\ UNCHANGED <<closed, counter, running, id, seen, deadline, notified, plc>>

\* The await of the finally block: what it raises replaces the ending.
Released(o) ==
    /\ pc[o] = "releasing"
    /\ \/ /\ fut[<<o, "release">>] = "ok"
          /\ EndNow(o, result[o])
       \/ /\ fut[<<o, "release">>] = "error"
          /\ EndNow(o, "error")
    /\ UNCHANGED <<closed, counter, queue, running, fut, id, seen, deadline, notified, plc>>

\* Time passes.
Expire(o) ==
    /\ deadline[o] = "ahead"
    /\ pc[o] \in {"reading", "sleeping", "waiting"}
    /\ deadline' = [deadline EXCEPT ![o] = "over"]
    /\ UNCHANGED <<closed, counter, queue, running, fut, pc, result, id, seen, notified, plc>>

Task(o) == Begin(o) \/ Registered(o) \/ Accepted(o) \/ HasRead(o) \/ Wake(o)
             \/ WaitTimesOut(o) \/ Released(o)
-----------------------------------------------------------------------------
(* The worker *)

TakeWhileOpen ==
    /\ running = None
    /\ queue # <<>>
    /\ queue' = Tail(queue)
    /\ running' = IF closed \/ fut[Head(queue)] = "cancelled" THEN None ELSE Head(queue)
    /\ UNCHANGED <<closed, counter, fut, local, notified, plc>>

Take ==
    /\ running = None
    /\ queue # <<>>
    /\ queue' = Tail(queue)
    /\ running' = IF fut[Head(queue)] = "cancelled" THEN None ELSE Head(queue)
    /\ UNCHANGED <<closed, counter, fut, local, notified, plc>>

Answer(outcome) ==
    /\ running' = None
    /\ fut' = [fut EXCEPT ![running] = IF @ = "pending" THEN outcome ELSE @]
    /\ UNCHANGED <<closed, counter, queue, pc, result, id, deadline>>

\* _register_notification_handles: one notification per status symbol; when one
\* fails, those before it stay and their handles are lost with the exception.
RunRegister ==
    /\ running # None
    /\ running[2] = "register"
    /\ \/ /\ Answer("ok")
          /\ handles' = [handles EXCEPT ![running[1]] = Symbols]
       \/ /\ running \in MayFail
          /\ Answer("error")
          /\ \E n \in 0 .. Symbols - 1 : handles' = [handles EXCEPT ![running[1]] = n]
    /\ UNCHANGED <<sampled, events, seen, plc>>

\* The block accepts a start unless it is busy, and shows it in its status at once.
Accept(o) ==
    /\ status.state # "busy"
    /\ status' = [id |-> id[o], state |-> "busy"]
    /\ owner' = o
    /\ chain' = [chain EXCEPT ![o] = "busy"]

RunStart ==
    /\ running # None
    /\ running[2] = "start"
    /\ \/ /\ Accept(running[1])
          /\ Answer("ok")
       \/ /\ status.state = "busy"
          /\ Answer("refused")
          /\ UNCHANGED plc
       \/ \* The request or its reply is lost.
          /\ running \in MayFail
          /\ Accept(running[1]) \/ UNCHANGED plc
          /\ Answer("error")
    /\ UNCHANGED <<notified, seen>>

\* One sum command reads all fields; a sub-command that fails gives its error text.
RunRead ==
    /\ running # None
    /\ running[2] = "read"
    /\ \/ /\ Answer("ok")
          /\ \E missed \in SUBSET MayMiss :
               seen' = [seen EXCEPT ![running[1]] =
                   [id    |-> IF "id" \in missed THEN ErrorText ELSE status.id,
                    done  |-> IF "done" \in missed THEN ErrorText ELSE status.state = "done",
                    error |-> IF "error" \in missed THEN ErrorText ELSE status.state = "error"]]
       \/ /\ running \in MayFail
          /\ Answer("error")
          /\ UNCHANGED seen
    /\ UNCHANGED <<notified, plc>>

\* _del_notifications: one call per handle, the first that fails ends it.
RunRelease ==
    /\ running # None
    /\ running[2] = "release"
    /\ \/ /\ Answer("ok")
          /\ handles' = [handles EXCEPT ![running[1]] = 0]
       \/ /\ running \in MayFail
          /\ Answer("error")
          /\ \E n \in 1 .. handles[running[1]] : handles' = [handles EXCEPT ![running[1]] = n]
    /\ UNCHANGED <<sampled, events, seen, plc>>

Worker == Take \/ RunRegister \/ RunStart \/ RunRead \/ RunRelease
-----------------------------------------------------------------------------
(* The target *)

\* The cyclic body of the block ends the chain (an abort ends it with an error).
ChainEnds ==
    /\ status.state = "busy"
    /\ \E s \in {"done", "error"} :
         /\ status' = [status EXCEPT !.state = s]
         /\ chain' = [chain EXCEPT ![owner] = s]
    /\ UNCHANGED <<closed, counter, queue, running, fut, local, notified, owner>>

NotifyUnbounded(o) ==
    /\ handles[o] > 0
    /\ sampled[o] # status
    /\ sampled' = [sampled EXCEPT ![o] = status]
    /\ events' = [events EXCEPT ![o] = @ + 1]
    /\ UNCHANGED <<closed, counter, queue, running, fut, local, handles, plc>>

NotifyWaiting(o) ==
    /\ handles[o] > 0
    /\ sampled[o] # status
    /\ sampled' = [sampled EXCEPT ![o] = status]
    /\ events' = [events EXCEPT ![o] = IF pc[o] = "waiting" /\ @ < EventLimit THEN @ + 1 ELSE @]
    /\ UNCHANGED <<closed, counter, queue, running, fut, local, handles, plc>>

\* The target notifies a status that differs from the one it notified last; the
\* callback puts an event in the operation's queue, or drops it when that is full.
Notify(o) ==
    /\ handles[o] > 0
    /\ sampled[o] # status
    /\ sampled' = [sampled EXCEPT ![o] = status]
    /\ events' = [events EXCEPT ![o] = IF @ < EventLimit THEN @ + 1 ELSE @]
    /\ UNCHANGED <<closed, counter, queue, running, fut, local, handles, plc>>
-----------------------------------------------------------------------------
Next ==
    \/ \E o \in Op : Invoke(o) \/ Cancel(o) \/ CancelAccepted(o) \/ Task(o) \/ Expire(o) \/ Notify(o)
    \/ Close
    \/ Worker
    \/ ChainEnds

\* The loop and the worker thread run what is due and clocks go on; calls,
\* cancellations and closing are the program's choice, and nothing is asked of the target.
Fairness ==
    /\ WF_vars(Worker)
    /\ \A o \in Op : WF_vars(Task(o)) /\ WF_vars(Expire(o))

Spec == Init /\ [][Next]_vars

FairSpec == Spec /\ Fairness
-----------------------------------------------------------------------------
\* The ADS call j is queued or being run.
Due(j) == running = j \/ \E n \in 1 .. Len(queue) : queue[n] = j

AcceptedFuture == [o \in Op |-> fut[<<o, "start">>]]

\* The future done of an operation: its task settles it when it has ended.
DoneFuture == [o \in Op |-> CASE pc[o] = "idle"  -> "none"
                             [] pc[o] = "ended" -> result[o]
                             [] OTHER           -> "pending"]

Promise == INSTANCE StepChainOperation
    WITH accepted <- AcceptedFuture, done <- DoneFuture

\* The proxies, the worker and the block together keep what StepChainOperation
\* promises: done settles once and only with the end of the chain of its own
\* operation, whoever started, cancelled or overtook it.
KeepsPromise == Promise!Spec

\* An operation reports the end of its own chain: done or failed only if the block
\* ended the chain of this very operation so, rejected only if it never began it.
OwnEnding ==
    \A o \in Op :
        /\ result[o] = "done" => chain[o] = "done"
        /\ result[o] = "failed" => chain[o] = "error"
        /\ result[o] = "rejected" => chain[o] = "none"

\* The same for success alone: "done resolves when stepchain status indicates
\* completion" (docstring of StepChainOperation), never when it does not.
DoneIsTrue == \A o \in Op : result[o] = "done" => chain[o] = "done"

\* The end of a chain is never slept through: when a notify operation waits while
\* the status shows the end of its chain, it has an event to wake it, or the target
\* still has this status to notify and a handle to notify it with.
NoLostWakeup ==
    \A o \in Op :
        (pc[o] = "waiting" /\ status.id = id[o] /\ status.state # "busy") =>
            events[o] > 0 \/ (handles[o] > 0 /\ sampled[o] # status)

\* No task waits for an answer that nobody owes it: the ADS call it awaits is queued,
\* run, or settled in a way the task has a branch for, also after its caller has
\* cancelled accepted, a call before it has failed or the connection was closed.
AwaitsAnswered ==
    \A o \in Op :
        LET call == <<o, Awaited(o)>>
        IN Awaited(o) # "none" =>
               \/ fut[call] = "pending" /\ Due(call)
               \/ fut[call] \in {"ok", "error"}
               \/ fut[call] \in {"refused", "cancelled"} /\ pc[o] = "accepting"

\* A notify operation that ran to its end, well or badly, has taken its notifications
\* off the target; they stay behind only when an ADS call failed, the connection was
\* closed, or the operation was cancelled outside its try block.
HandlesReleased ==
    \A o \in Op :
        (pc[o] = "ended" /\ handles[o] > 0) =>
            \/ closed
            \/ result[o] = "error"
            \/ result[o] = "cancelled" /\ fut[<<o, "release">>] # "ok"

\* With a timeout every operation comes to an end, also when another one has written
\* over its status, the chain never ends, or it is cancelled at any of its awaits.
EveryOperationEnds == \A o \in Op : pc[o] # "idle" ~> pc[o] = "ended"

\* "done resolves when stepchain status indicates completion": once the chain of an
\* operation is done or failed, the operation ends.
ChainEndIsSeen == \A o \in Op : chain[o] \in {"done", "error"} ~> pc[o] = "ended"
=============================================================================
