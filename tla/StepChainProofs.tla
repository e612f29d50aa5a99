---------------------------- MODULE StepChainProofs ----------------------------
(***************************************************************************)
(* Theorems about StepChain, for any number of operations of either kind,  *)
(* any failures, cancellations and closes.                                 *)
(*                                                                         *)
(* An ADS call is due while it is queued or run.  Each operation starts    *)
(* its block and registers its notifications at most once, so a block      *)
(* that was started by an operation whose id no other has shows the end of *)
(* that operation or nothing of it.                                        *)
(***************************************************************************)
EXTENDS StepChain, FiniteSetTheorems, TLAPS

-----------------------------------------------------------------------------
(* Sequences and the queue *)

LEMMA HeadTail ==
    ASSUME NEW S, NEW s \in Seq(S), s # <<>>
    PROVE  /\ Head(s) \in S /\ Head(s) = s[1]
           /\ Tail(s) \in Seq(S)
           /\ Len(s) \in Nat \ {0}
           /\ Len(Tail(s)) = Len(s) - 1
           /\ \A n \in 1 .. Len(Tail(s)) : Tail(s)[n] = s[n + 1]
  OBVIOUS

LEMMA AppendFacts ==
    ASSUME NEW S, NEW s \in Seq(S), NEW x \in S
    PROVE  /\ Append(s, x) \in Seq(S)
           /\ Len(s) \in Nat
           /\ Len(Append(s, x)) = Len(s) + 1
           /\ \A n \in 1 .. Len(s) : Append(s, x)[n] = s[n]
           /\ Append(s, x)[Len(s) + 1] = x
  OBVIOUS

LEMMA ConcatFacts ==
    ASSUME NEW S, NEW s \in Seq(S), NEW r \in Seq(S)
    PROVE  /\ s \o r \in Seq(S)
           /\ Len(s) \in Nat /\ Len(r) \in Nat
           /\ Len(s \o r) = Len(s) + Len(r)
           /\ \A n \in 1 .. Len(s) : (s \o r)[n] = s[n]
           /\ \A n \in 1 .. Len(r) : (s \o r)[Len(s) + n] = r[n]
  OBVIOUS

Single == {j \in Job : j[2] \in {"register", "start"}}

\* No registration and no start is due twice.
DueOnce ==
    \A j \in Single :
        /\ running = j => \A n \in 1 .. Len(queue) : queue[n] # j
        /\ \A m, n \in 1 .. Len(queue) : queue[m] = j /\ queue[n] = j => m = n

LEMMA JobFacts ==
    /\ \A o \in Op, name \in CallName : <<o, name>> \in Job
    /\ \A j \in Job : j[1] \in Op /\ j[2] \in CallName /\ j = <<j[1], j[2]>>
    /\ None \notin Job
    /\ \A o \in Op : <<o, "register">> \in Single /\ <<o, "start">> \in Single
  BY StepChainAssumption DEF Job, CallName, Single

LEMMA DueTail ==
    ASSUME queue \in Seq(Job), queue # <<>>,
           queue' = Tail(queue), running = None, running' \in {None, Head(queue)}
    PROVE  /\ \A j \in Job : Due(j)' => Due(j)
           /\ \A j \in Job : Due(j) => Due(j)' \/ (j = Head(queue) /\ running' = None)
           /\ DueOnce => DueOnce'
<1>1. /\ Head(queue) = queue[1] /\ Len(queue) \in Nat \ {0}
      /\ Len(queue') = Len(queue) - 1
      /\ \A n \in 1 .. Len(queue') : queue'[n] = queue[n + 1]
  BY HeadTail
<1>2. \A n \in 1 .. Len(queue') : n + 1 \in 1 .. Len(queue) /\ n + 1 # 1
  BY <1>1
<1>3. 1 \in 1 .. Len(queue)
  BY <1>1
<1>4. ASSUME NEW j \in Job, Due(j)'
      PROVE  Due(j)
  <2>1. CASE running' = j
    BY <2>1, <1>1, <1>3, JobFacts DEF Due
  <2>2. CASE \E n \in 1 .. Len(queue') : queue'[n] = j
    BY <2>2, <1>1, <1>2 DEF Due
  <2> QED
    BY <1>4, <2>1, <2>2 DEF Due
<1>6. ASSUME NEW j \in Job, Due(j)
      PROVE  Due(j)' \/ (j = Head(queue) /\ running' = None)
  <2>1. PICK n \in 1 .. Len(queue) : queue[n] = j
    BY <1>6, JobFacts DEF Due
  <2>2. CASE n = 1
    BY <2>1, <2>2, <1>1 DEF Due
  <2>3. CASE n # 1
    <3>1. n - 1 \in 1 .. Len(queue') /\ queue'[n - 1] = queue[(n - 1) + 1] /\ (n - 1) + 1 = n
      BY <2>3, <1>1
    <3> QED
      BY <2>1, <3>1 DEF Due
  <2> QED
    BY <2>2, <2>3
<1>5. ASSUME DueOnce
      PROVE  DueOnce'
  <2> SUFFICES ASSUME NEW j \in Single
               PROVE  /\ running' = j => \A n \in 1 .. Len(queue') : queue'[n] # j
                      /\ \A m, n \in 1 .. Len(queue') :
                            queue'[m] = j /\ queue'[n] = j => m = n
    BY DEF DueOnce
  <2>1. \A m, n \in 1 .. Len(queue) : queue[m] = j /\ queue[n] = j => m = n
    BY <1>5 DEF DueOnce
  <2>2. j # None
    BY JobFacts DEF Single
  <2>3. ASSUME running' = j, NEW n \in 1 .. Len(queue')
        PROVE  queue'[n] # j
    BY <2>1, <2>2, <2>3, <1>1, <1>2, <1>3
  <2>4. ASSUME NEW m \in 1 .. Len(queue'), NEW n \in 1 .. Len(queue'),
               queue'[m] = j, queue'[n] = j
        PROVE  m = n
    BY <2>1, <2>4, <1>1, <1>2
  <2> QED
    BY <2>3, <2>4
<1> QED
  BY <1>4, <1>5, <1>6

LEMMA DueAppend ==
    ASSUME queue \in Seq(Job), NEW i \in Job,
           queue' = Append(queue, i), running' = running
    PROVE  /\ \A j \in Job : Due(j)' <=> Due(j) \/ j = i
           /\ DueOnce /\ i \notin Single => DueOnce'
<1>1. /\ Len(queue) \in Nat /\ Len(queue') = Len(queue) + 1
      /\ \A n \in 1 .. Len(queue) : queue'[n] = queue[n]
      /\ queue'[Len(queue) + 1] = i
  BY AppendFacts
<1>2. \A n \in 1 .. Len(queue') : n \in 1 .. Len(queue) \/ n = Len(queue) + 1
  BY <1>1
<1>3. Len(queue) + 1 \in 1 .. Len(queue')
  BY <1>1
<1>4. \A n \in 1 .. Len(queue) : n \in 1 .. Len(queue')
  BY <1>1
<1>5. \A j \in Job : Due(j)' <=> Due(j) \/ j = i
  BY <1>1, <1>2, <1>3, <1>4 DEF Due
<1>6. ASSUME DueOnce, i \notin Single
      PROVE  DueOnce'
  <2> SUFFICES ASSUME NEW j \in Single
               PROVE  /\ running' = j => \A n \in 1 .. Len(queue') : queue'[n] # j
                      /\ \A m, n \in 1 .. Len(queue') :
                            queue'[m] = j /\ queue'[n] = j => m = n
    BY DEF DueOnce
  <2>1. i # j
    BY <1>6
  <2>2. \A n \in 1 .. Len(queue') : queue'[n] = j => n \in 1 .. Len(queue) /\ queue[n] = j
    BY <2>1, <1>1, <1>2
  <2> QED
    BY <1>6, <2>2 DEF DueOnce
<1> QED
  BY <1>5, <1>6

\* A call that has been answered is not due any more, if it is made only once.
LEMMA DueAnswered ==
    ASSUME running \in Job, running' = None, queue' = queue
    PROVE  /\ \A j \in Job : Due(j)' => Due(j)
           /\ \A j \in Job : Due(j) => Due(j)' \/ j = running
           /\ DueOnce => \A j \in Single : running = j => ~Due(j)'
           /\ DueOnce => DueOnce'
<1>1. \A j \in Job : j # None
  BY JobFacts
<1>2. \A j \in Job : Due(j)' => Due(j)
  BY <1>1 DEF Due
<1>3. ASSUME DueOnce
      PROVE  DueOnce'
  BY <1>1, <1>3 DEF DueOnce, Single
<1>4. ASSUME DueOnce, NEW j \in Single, running = j
      PROVE  ~Due(j)'
  BY <1>1, <1>4 DEF DueOnce, Single, Due
<1> QED
  BY <1>2, <1>3, <1>4 DEF Due
-----------------------------------------------------------------------------
(* The inductive invariants *)

\* An operation that was not invoked has no id and no call.
TypeInv ==
    /\ TypeOK
    /\ \A o \in Op :
          /\ pc[o] = "idle" <=> id[o] = None
          /\ pc[o] = "idle" => \A name \in CallName :
                                  ~Due(<<o, name>>) /\ fut[<<o, name>>] = "none"

\* A chain is begun by the one start that asks for it.
Started(o) ==
    /\ pc[o] = "idle" \/ Due(<<o, "start">>) => chain[o] = "none"
    /\ fut[<<o, "start">>] = "refused" => chain[o] = "none" /\ ~Due(<<o, "start">>)
    /\ result[o] = "rejected" => fut[<<o, "start">>] = "refused"
    /\ fut[<<o, "start">>] = "ok" => owner # None
    /\ pc[o] \in {"reading", "sleeping", "waiting"} => fut[<<o, "start">>] = "ok"

\* The status of the block is that of the operation it accepted last.
BlockInv ==
    /\ owner = None => status.state = "idle"
    /\ owner # None => pc[owner] # "idle" /\ status = [id |-> id[owner], state |-> chain[owner]]

StartInv == DueOnce /\ BlockInv /\ \A o \in Op : Started(o)

\* The notifications of an operation are registered before it goes on, at most
\* once, and a release that was answered well leaves none; what HandlesReleased says.
Handled(o) ==
    /\ Backend[o] = "poll" => handles[o] = 0 /\ ~Due(<<o, "register">>)
    /\ Due(<<o, "register">>) =>
          \/ pc[o] \in {"created", "registering"} /\ fut[<<o, "register">>] \notin {"ok", "error"}
          \/ pc[o] = "ended" /\ result[o] = "cancelled"
    /\ pc[o] \in {"created", "registering"} => fut[<<o, "release">>] = "none"
    /\ fut[<<o, "release">>] # "none" => ~Due(<<o, "register">>)
    /\ fut[<<o, "release">>] = "ok" => handles[o] = 0
    /\ pc[o] = "ended" /\ handles[o] > 0 =>
          \/ closed
          \/ result[o] = "error"
          \/ result[o] = "cancelled" /\ fut[<<o, "release">>] # "ok"

HandleInv == DueOnce /\ \A o \in Op : Handled(o)

\* No two operations were given the same request id.
DistinctIds == \A o, q \in Op : o # q /\ id[o] = id[q] => id[o] = None

\* What an operation has read of its own id is what became of its chain.
Seen(o) ==
    fut[<<o, "read">>] = "ok" =>
        /\ pc[o] # "idle"
        /\ seen[o].done \in BOOLEAN /\ seen[o].error \in BOOLEAN
        /\ seen[o].id = id[o] /\ seen[o].error => chain[o] = "error"
        /\ seen[o].id = id[o] /\ ~seen[o].error /\ seen[o].done => chain[o] = "done"

SeenInv == \A o \in Op : Seen(o)

\* A call is made before it is awaited, and the worker still has every call whose
\* future is pending; only a start is refused, and only a start is awaited when it
\* was cancelled.
Answered(o) ==
    /\ \A name \in CallName :
          /\ fut[<<o, name>>] = "pending" => Due(<<o, name>>)
          /\ fut[<<o, name>>] = "refused" => name = "start"
    /\ pc[o] # "idle" => fut[<<o, "start">>] # "none"
    /\ pc[o] = "registering" => Backend[o] = "notify"
    /\ pc[o] \in {"created", "registering"} /\ Backend[o] = "notify" =>
          fut[<<o, "register">>] \in {"pending", "ok", "error"}
    /\ pc[o] = "reading" => fut[<<o, "read">>] \in {"pending", "ok", "error"}
    /\ pc[o] = "releasing" => fut[<<o, "release">>] \in {"pending", "ok", "error"}

AnswerInv == \A o \in Op : Answered(o)

\* A notified end is the end of a chain that was begun.
SampledInv ==
    \A o \in Op :
        sampled[o] # None /\ sampled[o].state \in {"done", "error"} =>
            \E q \in Op : /\ id[q] # None
                          /\ sampled[o] = [id |-> id[q], state |-> chain[q]]

\* The end of the chain of o was notified, and its event consumed.
Notified(o) ==
    /\ events[o] = 0
    /\ sampled[o] = status
    /\ status.id = id[o]
    /\ status.state \in {"done", "error"}

\* A read that is answered after that has found the end.
Awake(o) ==
    Notified(o) => /\ pc[o] # "waiting"
                   /\ pc[o] = "reading" /\ fut[<<o, "read">>] = "ok" => IsFailed(o) \/ IsDone(o)

WakeInv == \A o \in Op : Awake(o)

\* A notify operation keeps all its notifications from their registration until its
\* finally block.
Kept(o) ==
    /\ Due(<<o, "release">>) => pc[o] \in {"releasing", "ended"}
    /\ pc[o] = "waiting" => Backend[o] = "notify"
    /\ Backend[o] = "notify" =>
          /\ pc[o] \in {"accepting", "reading", "sleeping", "waiting"} => handles[o] = Symbols
          /\ pc[o] \in {"created", "registering"} /\ fut[<<o, "register">>] = "ok" =>
                handles[o] = Symbols

KeptInv == \A o \in Op : Kept(o)

\* At most one chain is busy, the one of the operation accepted last.
BusyInv == \A o \in Op : chain[o] = "busy" => o = owner

\* A start is answered once, well only when the chain was begun, and an operation
\* reads its status or times out only after that.
Promised(o) ==
    /\ Due(<<o, "start">>) => fut[<<o, "start">>] \in {"pending", "cancelled"}
    /\ fut[<<o, "start">>] = "ok" => chain[o] # "none"
    /\ result[o] \in {"done", "failed", "timeout"} => fut[<<o, "start">>] = "ok"
    /\ pc[o] \in {"releasing", "ended"} => result[o] \in Ending

PromiseInv == BusyInv /\ \A o \in Op : Promised(o)
-----------------------------------------------------------------------------
(* What the steps of a task and the cancellation of its operation do *)

PcState == {"idle", "created", "registering", "accepting", "reading",
            "sleeping", "waiting", "releasing", "ended"}
FutState == {"none", "pending", "ok", "refused", "error", "cancelled"}

TaskStep(o) == Cancel(o) \/ Task(o)

\* The task of o touches no other operation, and nothing of the target.
TaskFrame(o) ==
    /\ UNCHANGED <<closed, counter, running, id, seen, handles, sampled, plc>>
    /\ pc[o] \notin {"idle", "ended"} /\ pc'[o] # "idle"
    /\ pc' \in [Op -> PcState]
    /\ result' \in [Op -> Ending \cup {"none"}]
    /\ deadline' \in [Op -> {"none", "ahead", "over"}]
    /\ events' \in [Op -> 0 .. EventLimit]
    /\ \A q \in Op \ {o} : /\ pc'[q] = pc[q] /\ result'[q] = result[q]
                           /\ events'[q] = events[q]

TaskQueue(o) ==
    \/ queue' = queue
    \/ queue' = Append(queue, <<o, "read">>)
    \/ queue' = Append(queue, <<o, "release">>) /\ pc'[o] = "releasing"

\* A future it awaited is cancelled, or one it will await is made.
TaskFut(o) ==
    /\ fut' \in [Job -> FutState]
    /\ \A j \in Job :
          \/ fut'[j] = fut[j]
          \/ /\ j[1] = o /\ fut[j] = "pending" /\ fut'[j] = "cancelled"
             /\ pc'[o] \in {"releasing", "ended"} /\ result'[o] = "cancelled"
          \/ /\ j = <<o, "read">> /\ fut'[j] = "pending"
             /\ queue' = Append(queue, j)
          \/ /\ j = <<o, "release">> /\ fut'[j] = "pending"
             /\ queue' = Append(queue, j)
             /\ pc[o] \notin {"created", "registering"}
             /\ pc'[o] = "releasing"

TaskPc(o) ==
    /\ pc[o] \in {"created", "registering"} => pc'[o] \in {"registering", "accepting", "ended"}
    /\ pc'[o] = "created" => FALSE
    /\ pc'[o] = "registering" => pc[o] = "created" /\ Backend[o] = "notify"
    /\ pc'[o] = "releasing" => fut'[<<o, "release">>] = "pending" /\ result'[o] \in Ending
    /\ pc'[o] = "accepting" => pc[o] \in {"created", "registering"}
    /\ pc'[o] = "accepting" => \/ Backend[o] = "poll"
                               \/ fut[<<o, "register">>] = "ok"
    /\ pc'[o] \in {"reading", "sleeping", "waiting"} =>
          \/ pc[o] \in {"reading", "sleeping", "waiting"}
          \/ pc[o] = "accepting" /\ fut[<<o, "start">>] = "ok"
    /\ pc[o] = "releasing" => pc'[o] = "ended"
    /\ pc'[o] = "reading" => fut'[<<o, "read">>] = "pending"
    /\ pc'[o] = "waiting" => /\ pc[o] = "reading" /\ fut[<<o, "read">>] = "ok"
                             /\ ~IsFailed(o) /\ ~IsDone(o)
                             /\ events' = events
                             /\ Backend[o] = "notify"

TaskResult(o) ==
    /\ result'[o] = "rejected" => result[o] = "rejected" \/ fut[<<o, "start">>] = "refused"
    /\ result'[o] = "done" =>
          result[o] = "done" \/ (fut[<<o, "read">>] = "ok" /\ IsDone(o))
    /\ result'[o] = "failed" =>
          result[o] = "failed" \/ (fut[<<o, "read">>] = "ok" /\ IsFailed(o))
    /\ result'[o] \in {"done", "failed", "timeout"} =>
          result'[o] = result[o] \/ pc[o] \in {"reading", "waiting"}
    /\ pc'[o] = "ended" => \/ result'[o] \in Ending
                           \/ pc[o] = "releasing" /\ result'[o] = result[o]
    /\ pc'[o] = "ended" =>
          \/ pc[o] \in {"created", "registering"} /\ result'[o] = "cancelled"
          \/ pc[o] = "registering" /\ fut[<<o, "register">>] = "error" /\ result'[o] = "error"
          \/ /\ pc[o] \notin {"created", "registering"}
             /\ \/ Backend[o] = "poll" \/ closed \/ result'[o] = "error"
                \/ pc[o] = "releasing" /\ fut[<<o, "release">>] = "ok"
                \/ pc[o] = "releasing" /\ result'[o] = "cancelled" /\ fut'[<<o, "release">>] # "ok"

LEMMA FrameTypes ==
    ASSUME TypeOK, NEW o \in Op
    PROVE  /\ pc \in [Op -> PcState] /\ result \in [Op -> Ending \cup {"none"}]
           /\ fut \in [Job -> FutState] /\ queue \in Seq(Job)
           /\ deadline \in [Op -> {"none", "ahead", "over"}]
           /\ events \in [Op -> 0 .. EventLimit] /\ EventLimit \in Nat \ {0}
           /\ \A name \in CallName : <<o, name>> \in Job
           /\ Backend[o] \in {"poll", "notify"}
  BY StepChainAssumption, JobFacts DEF TypeOK, PcState, FutState

\* A way out of the loop: with a release to wait for, or at once.
Left(o, ending, f) ==
    /\ result' = [result EXCEPT ![o] = ending]
    /\ \/ /\ Backend[o] = "notify" /\ ~closed
          /\ pc' = [pc EXCEPT ![o] = "releasing"]
          /\ queue' = Append(queue, <<o, "release">>)
          /\ fut' = [f EXCEPT ![<<o, "release">>] = "pending"]
       \/ /\ Backend[o] = "poll" \/ closed
          /\ pc' = [pc EXCEPT ![o] = "ended"]
          /\ fut' = f
          /\ queue' = queue

LEMMA LeaveDoes ==
    ASSUME TypeOK, NEW o \in Op, NEW ending, NEW f, Leave(o, ending, f)
    PROVE  Left(o, ending, f)
  BY FrameTypes DEF Leave, Left

LEMMA CancelDoes ==
    ASSUME fut \in [Job -> FutState], NEW o, NEW name
    PROVE  /\ WithCancelled(<<o, name>>) \in [Job -> FutState]
           /\ \A j \in Job :
                \/ WithCancelled(<<o, name>>)[j] = fut[j]
                \/ /\ j[1] = o /\ fut[j] = "pending"
                   /\ WithCancelled(<<o, name>>)[j] = "cancelled"
<1>1. PICK i : i = <<o, name>>
  OBVIOUS
<1>2. i[1] = o
  BY <1>1
<1>3. \A j \in Job : WithCancelled(i)[j] = IF j = i /\ fut[j] = "pending"
                                          THEN "cancelled" ELSE fut[j]
  BY DEF WithCancelled
<1>4. WithCancelled(i) \in [Job -> FutState]
  BY <1>3 DEF WithCancelled, FutState
<1> QED
  BY <1>1, <1>2, <1>3, <1>4

LEMMA LeftDoes ==
    ASSUME TypeOK, NEW o \in Op, NEW ending \in Ending,
           pc[o] \in {"accepting", "reading", "sleeping", "waiting"},
           NEW f \in {fut, WithCancelled(<<o, Awaited(o)>>)}, Left(o, ending, f),
           f = fut \/ ending = "cancelled",
           ending \in {"done", "failed", "timeout"} => pc[o] \in {"reading", "waiting"},
           UNCHANGED <<closed, counter, running, id, seen, handles, sampled, plc>>,
           deadline' \in [Op -> {"none", "ahead", "over"}],
           events' \in [Op -> 0 .. EventLimit],
           \A q \in Op \ {o} : events'[q] = events[q],
           ending = "rejected" => fut[<<o, "start">>] = "refused",
           ending = "done" => fut[<<o, "read">>] = "ok" /\ IsDone(o),
           ending = "failed" => fut[<<o, "read">>] = "ok" /\ IsFailed(o)
    PROVE  TaskFrame(o) /\ TaskQueue(o) /\ TaskFut(o) /\ TaskPc(o) /\ TaskResult(o)
<1>1. /\ pc \in [Op -> PcState] /\ result \in [Op -> Ending \cup {"none"}]
      /\ fut \in [Job -> FutState]
      /\ \A name \in CallName : <<o, name>> \in Job
  BY FrameTypes
<1>2. /\ <<o, "release">> \in Job /\ <<o, "read">> \in Job
  BY <1>1 DEF CallName
<1>3. PICK name \in {"start", "read", "none"} : Awaited(o) = name
  BY DEF Awaited
<1>4. /\ f \in [Job -> FutState]
      /\ \A j \in Job : \/ f[j] = fut[j]
                        \/ /\ j[1] = o /\ fut[j] = "pending" /\ f[j] = "cancelled"
                           /\ result'[o] = "cancelled"
  <2>1. CASE f = fut
    BY <2>1, <1>1
  <2>2. CASE f = WithCancelled(<<o, name>>) /\ ending = "cancelled"
    <3>1. result'[o] = "cancelled"
      BY <2>2, <1>1 DEF Left
    <3> QED
      BY <2>2, <3>1, <1>1, CancelDoes
  <2> QED
    BY <2>1, <2>2, <1>3
<1>5. CASE pc' = [pc EXCEPT ![o] = "releasing"]
  <2>1. /\ pc'[o] = "releasing" /\ pc' \in [Op -> PcState]
        /\ \A q \in Op \ {o} : pc'[q] = pc[q]
    BY <1>1, <1>5 DEF PcState
  <2>2. /\ queue' = Append(queue, <<o, "release">>)
        /\ fut' = [f EXCEPT ![<<o, "release">>] = "pending"]
    BY <2>1, <1>1 DEF Left
  <2>3. TaskFut(o)
    BY <2>1, <2>2, <1>2, <1>4 DEF TaskFut, FutState
  <2>4. /\ result'[o] = ending /\ result' \in [Op -> Ending \cup {"none"}]
        /\ \A q \in Op \ {o} : result'[q] = result[q]
        /\ fut'[<<o, "release">>] = "pending"
    BY <2>2, <1>1, <1>2, <1>4 DEF Left
  <2>5. TaskResult(o)
    BY <2>1, <2>4, <1>1 DEF TaskResult
  <2>6. TaskPc(o)
    BY <2>1, <2>4, <1>1 DEF TaskPc
  <2> QED
    BY <2>1, <2>2, <2>3, <2>4, <2>5, <2>6 DEF TaskFrame, TaskQueue
<1>6. CASE pc' = [pc EXCEPT ![o] = "ended"]
  <2>1. /\ pc'[o] = "ended" /\ pc' \in [Op -> PcState]
        /\ \A q \in Op \ {o} : pc'[q] = pc[q]
    BY <1>1, <1>6 DEF PcState
  <2>2. queue' = queue /\ fut' = f /\ (Backend[o] = "poll" \/ closed)
    BY <2>1, <1>1 DEF Left
  <2>3. TaskFut(o)
    BY <2>1, <2>2, <1>4 DEF TaskFut
  <2>4. /\ result'[o] = ending /\ result' \in [Op -> Ending \cup {"none"}]
        /\ \A q \in Op \ {o} : result'[q] = result[q]
    BY <1>1 DEF Left
  <2>5. TaskResult(o)
    BY <2>1, <2>2, <2>4, <1>1 DEF TaskResult
  <2>6. TaskPc(o)
    BY <2>1, <1>1 DEF TaskPc
  <2> QED
    BY <2>1, <2>2, <2>3, <2>4, <2>5, <2>6 DEF TaskFrame, TaskQueue
<1> QED
  BY <1>5, <1>6 DEF Left

TaskEffect(o) ==
    TaskFrame(o) /\ TaskQueue(o) /\ TaskFut(o) /\ TaskPc(o) /\ TaskResult(o)

LEMMA ReadDoes ==
    ASSUME TypeOK, NEW o \in Op, Read(o),
           \/ pc[o] = "accepting" /\ fut[<<o, "start">>] = "ok"
           \/ pc[o] \in {"sleeping", "waiting"},
           UNCHANGED <<closed, counter, running, id, seen, handles, sampled, plc>>,
           deadline' \in [Op -> {"none", "ahead", "over"}],
           events' \in [Op -> 0 .. EventLimit],
           \A q \in Op \ {o} : events'[q] = events[q]
    PROVE  TaskEffect(o)
<1>1. CASE Leave(o, "error", fut)
  <2>1. Left(o, "error", fut)
    BY <1>1, LeaveDoes
  <2> QED
    BY <2>1, LeftDoes DEF Ending, TaskEffect
<1>2. CASE /\ pc' = [pc EXCEPT ![o] = "reading"]
           /\ queue' = Append(queue, <<o, "read">>)
           /\ fut' = [fut EXCEPT ![<<o, "read">>] = "pending"]
           /\ UNCHANGED result
  <2>1. /\ pc'[o] = "reading" /\ pc' \in [Op -> PcState]
        /\ \A q \in Op \ {o} : pc'[q] = pc[q]
    BY <1>2, FrameTypes DEF PcState
  <2>2. /\ <<o, "read">> \in Job
        /\ fut'[<<o, "read">>] = "pending"
        /\ TaskFut(o)
    BY <1>2, FrameTypes DEF TaskFut, CallName, FutState
  <2> QED
    BY <1>2, <2>1, <2>2, FrameTypes
       DEF TaskEffect, TaskFrame, TaskQueue, TaskPc, TaskResult
<1> QED
  BY <1>1, <1>2 DEF Read

\* Where a task goes on without a call.
LEMMA GoesOnDoes ==
    ASSUME TypeOK, NEW o \in Op, NEW step,
           pc' = [pc EXCEPT ![o] = step],
           \/ pc[o] = "created" /\ step = "registering" /\ Backend[o] = "notify"
           \/ /\ pc[o] \in {"created", "registering"} /\ step = "accepting"
              /\ Backend[o] = "poll" \/ fut[<<o, "register">>] = "ok"
           \/ /\ pc[o] = "reading" /\ fut[<<o, "read">>] = "ok"
              /\ ~IsFailed(o) /\ ~IsDone(o)
              /\ step = (IF Backend[o] = "poll" THEN "sleeping" ELSE "waiting"),
           UNCHANGED <<closed, counter, queue, running, fut, result, id, seen, notified, plc>>,
           deadline' \in [Op -> {"none", "ahead", "over"}]
    PROVE  TaskEffect(o)
<1>1. /\ pc'[o] = step /\ pc' \in [Op -> PcState]
      /\ \A q \in Op \ {o} : pc'[q] = pc[q]
  BY FrameTypes DEF PcState
<1>2. TaskFut(o)
  BY FrameTypes DEF TaskFut
<1> QED
  BY <1>1, <1>2, FrameTypes
     DEF TaskEffect, TaskFrame, TaskQueue, TaskPc, TaskResult, notified

\* Where it ends outside the loop.
LEMMA EndsDoes ==
    ASSUME TypeOK, NEW o \in Op, NEW ending \in Ending \cup {"none"}, EndNow(o, ending),
           \/ pc[o] \in {"created", "registering", "releasing"} /\ ending = "cancelled"
           \/ /\ pc[o] = "registering" /\ fut[<<o, "register">>] = "error"
              /\ ending = "error"
           \/ /\ pc[o] = "releasing" /\ fut[<<o, "release">>] = "ok"
              /\ ending = result[o]
           \/ pc[o] = "releasing" /\ ending = "error",
           \/ fut' = fut
           \/ /\ pc[o] \in {"registering", "releasing"} /\ ending = "cancelled"
              /\ fut' = WithCancelled(<<o, Awaited(o)>>),
           UNCHANGED <<closed, counter, queue, running, id, seen, deadline, notified, plc>>
    PROVE  TaskEffect(o)
<1>1. /\ pc'[o] = "ended" /\ pc' \in [Op -> PcState]
      /\ \A q \in Op \ {o} : pc'[q] = pc[q]
  BY FrameTypes DEF PcState, EndNow
<1>2. /\ result'[o] = ending /\ result' \in [Op -> Ending \cup {"none"}]
      /\ \A q \in Op \ {o} : result'[q] = result[q]
  BY FrameTypes DEF EndNow
<1>3. TaskFut(o) /\ (fut'[<<o, "release">>] = fut[<<o, "release">>]
                       \/ fut'[<<o, "release">>] # "ok")
  <2>1. PICK name : name = Awaited(o)
    OBVIOUS
  <2>2. /\ fut' \in [Job -> FutState]
        /\ \A j \in Job : \/ fut'[j] = fut[j]
                          \/ /\ j[1] = o /\ fut[j] = "pending" /\ fut'[j] = "cancelled"
                             /\ ending = "cancelled"
    BY <2>1, CancelDoes, FrameTypes
  <2> QED
    BY <2>2, <1>1, <1>2, FrameTypes DEF TaskFut, CallName
<1>4. TaskResult(o)
  BY <1>1, <1>2, <1>3 DEF TaskResult
<1> QED
  BY <1>1, <1>2, <1>3, <1>4, FrameTypes
     DEF TaskEffect, TaskFrame, TaskQueue, TaskPc, notified

LEMMA ArmTypes ==
    ASSUME TypeOK, NEW o \in Op
    PROVE  /\ deadline \in [Op -> {"none", "ahead", "over"}]
           /\ Arm(o) \in [Op -> {"none", "ahead", "over"}]
  BY FrameTypes DEF Arm

LEMMA CancelEffect ==
    ASSUME TypeOK, NEW o \in Op, Cancel(o)
    PROVE  TaskEffect(o)
<1> USE FrameTypes
<1>1. UNCHANGED <<closed, counter, running, id, seen, deadline, notified, plc>>
  BY DEF Cancel
<1>2. CASE pc[o] = "created" /\ EndNow(o, "cancelled") /\ UNCHANGED <<queue, fut>>
  BY <1>1, <1>2, EndsDoes DEF Ending
<1>3. CASE /\ pc[o] \in {"registering", "releasing"}
           /\ EndNow(o, "cancelled")
           /\ fut' = WithCancelled(<<o, Awaited(o)>>)
           /\ UNCHANGED queue
  BY <1>1, <1>3, EndsDoes DEF Ending
<1>4. CASE /\ pc[o] \in {"accepting", "reading"}
           /\ Leave(o, "cancelled", WithCancelled(<<o, Awaited(o)>>))
  <2>1. Left(o, "cancelled", WithCancelled(<<o, Awaited(o)>>))
    BY <1>4, LeaveDoes
  <2> QED
    BY <1>1, <1>4, <2>1, LeftDoes, ArmTypes DEF Ending, TaskEffect, notified
<1>5. CASE pc[o] \in {"sleeping", "waiting"} /\ Leave(o, "cancelled", fut)
  <2>1. Left(o, "cancelled", fut)
    BY <1>5, LeaveDoes
  <2> QED
    BY <1>1, <1>5, <2>1, LeftDoes, ArmTypes DEF Ending, TaskEffect, notified
<1> QED
  BY <1>2, <1>3, <1>4, <1>5 DEF Cancel

\* Where the loop is left with nothing cancelled.
LEMMA LeaveEffect ==
    ASSUME TypeOK, NEW o \in Op, NEW ending \in Ending, Leave(o, ending, fut),
           pc[o] \in {"accepting", "reading", "sleeping", "waiting"},
           UNCHANGED <<closed, counter, running, id, seen, deadline, notified, plc>>,
           ending \in {"done", "failed", "timeout"} => pc[o] \in {"reading", "waiting"},
           ending = "rejected" => fut[<<o, "start">>] = "refused",
           ending = "done" => fut[<<o, "read">>] = "ok" /\ IsDone(o),
           ending = "failed" => fut[<<o, "read">>] = "ok" /\ IsFailed(o)
    PROVE  TaskEffect(o)
<1>1. Left(o, ending, fut)
  BY LeaveDoes
<1>2. UNCHANGED <<closed, counter, running, id, seen, handles, sampled, plc, events>>
  BY DEF notified
<1>3. deadline' \in [Op -> {"none", "ahead", "over"}] /\ events' \in [Op -> 0 .. EventLimit]
  BY <1>2, ArmTypes, FrameTypes
<1> QED
  BY <1>1, <1>2, <1>3, LeftDoes DEF TaskEffect

LEMMA AcceptedEffect ==
    ASSUME TypeOK, NEW o \in Op, Accepted(o)
    PROVE  TaskEffect(o)
<1> USE FrameTypes
<1>1. /\ pc[o] = "accepting"
      /\ UNCHANGED <<closed, counter, running, id, seen, notified, plc>>
  BY DEF Accepted
<1>2. CASE /\ fut[<<o, "start">>] = "ok"
           /\ deadline' = IF Backend[o] = "poll" THEN Arm(o) ELSE deadline
           /\ Read(o)
  BY <1>1, <1>2, ArmTypes, ReadDoes DEF notified
<1>3. CASE fut[<<o, "start">>] = "refused" /\ Leave(o, "rejected", fut) /\ UNCHANGED deadline
  BY <1>1, <1>3, LeaveEffect DEF Ending
<1>4. CASE /\ fut[<<o, "start">>] \in {"error", "cancelled"}
           /\ Leave(o, fut[<<o, "start">>], fut)
           /\ UNCHANGED deadline
  BY <1>1, <1>4, LeaveEffect DEF Ending
<1> QED
  BY <1>2, <1>3, <1>4 DEF Accepted

LEMMA HasReadEffect ==
    ASSUME TypeOK, NEW o \in Op, HasRead(o)
    PROVE  TaskEffect(o)
<1> USE FrameTypes
<1>1. /\ pc[o] = "reading"
      /\ UNCHANGED <<closed, counter, running, id, seen, notified, plc>>
  BY DEF HasRead
<1>2. CASE fut[<<o, "read">>] = "error" /\ Leave(o, "error", fut) /\ UNCHANGED deadline
  BY <1>1, <1>2, LeaveEffect DEF Ending
<1>3. CASE /\ fut[<<o, "read">>] = "ok" /\ IsFailed(o)
           /\ Leave(o, "failed", fut) /\ UNCHANGED deadline
  BY <1>1, <1>3, LeaveEffect DEF Ending
<1>4. CASE /\ fut[<<o, "read">>] = "ok" /\ IsDone(o)
           /\ Leave(o, "done", fut) /\ UNCHANGED deadline
  BY <1>1, <1>4, LeaveEffect DEF Ending
<1>5. CASE fut[<<o, "read">>] = "ok" /\ ~IsFailed(o) /\ ~IsDone(o) /\ GoOn(o)
  <2>1. CASE Leave(o, "timeout", fut) /\ UNCHANGED deadline
    BY <1>1, <2>1, LeaveEffect DEF Ending
  <2>2. CASE /\ deadline' = Arm(o)
             /\ pc' = [pc EXCEPT ![o] = IF Backend[o] = "poll" THEN "sleeping" ELSE "waiting"]
             /\ UNCHANGED <<queue, fut, result>>
    BY <1>1, <1>5, <2>2, ArmTypes, GoesOnDoes DEF notified
  <2> QED
    BY <1>5, <2>1, <2>2 DEF GoOn
<1> QED
  BY <1>2, <1>3, <1>4, <1>5 DEF HasRead

LEMMA TaskDoes ==
    ASSUME TypeOK, NEW o \in Op, TaskStep(o)
    PROVE  TaskEffect(o)
<1> USE FrameTypes
<1>1. CASE Cancel(o)
  BY <1>1, CancelEffect
<1>2. CASE Begin(o)
  BY <1>2, ArmTypes, GoesOnDoes DEF Begin, notified
<1>3. CASE Registered(o)
  <2>1. CASE fut[<<o, "register">>] = "ok" /\ pc' = [pc EXCEPT ![o] = "accepting"]
                /\ UNCHANGED result
    BY <1>3, <2>1, ArmTypes, GoesOnDoes DEF Registered, notified
  <2>2. CASE fut[<<o, "register">>] = "error" /\ EndNow(o, "error")
    BY <1>3, <2>2, EndsDoes DEF Registered, Ending
  <2> QED
    BY <1>3, <2>1, <2>2 DEF Registered
<1>4. CASE Accepted(o)
  BY <1>4, AcceptedEffect
<1>5. CASE HasRead(o)
  BY <1>5, HasReadEffect
<1>6. CASE Wake(o)
  <2>1. /\ Read(o) /\ pc[o] \in {"sleeping", "waiting"}
        /\ UNCHANGED <<closed, counter, running, id, seen, deadline, handles, sampled, plc>>
    BY <1>6 DEF Wake
  <2>2. /\ events' \in [Op -> 0 .. EventLimit]
        /\ \A q \in Op \ {o} : events'[q] = events[q]
    <3>1. \/ events' = events
          \/ events[o] > 0 /\ events' = [events EXCEPT ![o] = @ - 1]
      BY <1>6 DEF Wake
    <3>2. events[o] \in 0 .. EventLimit /\ EventLimit \in Nat
      OBVIOUS
    <3>3. events[o] > 0 => events[o] - 1 \in 0 .. EventLimit
      BY <3>2
    <3> QED
      BY <3>1, <3>3
  <2> QED
    BY <2>1, <2>2, ArmTypes, ReadDoes
<1>7. CASE WaitTimesOut(o)
  BY <1>7, LeaveEffect DEF WaitTimesOut, Ending
<1>8. CASE Released(o)
  BY <1>8, EndsDoes DEF Released, Ending
<1> QED
  BY <1>1, <1>2, <1>3, <1>4, <1>5, <1>6, <1>7, <1>8 DEF TaskStep, Task
-----------------------------------------------------------------------------
(* What the other steps do *)

\* The calls of Invoke.
Calls(o) == IF Backend[o] = "notify" THEN <<<<o, "register">>, <<o, "start">>>>
                                     ELSE <<<<o, "start">>>>

LEMMA InvokeDoes ==
    ASSUME TypeInv, NEW o \in Op, Invoke(o)
    PROVE  /\ pc[o] = "idle" /\ pc' = [pc EXCEPT ![o] = "created"]
           /\ id' \in [Op -> Nat \cup {None}] /\ id'[o] \in Nat
           /\ \A q \in Op \ {o} : id'[q] = id[q]
           /\ counter' \in Nat
           /\ queue' \in Seq(Job) /\ fut' \in [Job -> FutState]
           /\ \A j \in Job :
                 /\ Due(j)' <=> \/ Due(j)
                                \/ j = <<o, "start">>
                                \/ Backend[o] = "notify" /\ j = <<o, "register">>
                 /\ \/ fut'[j] = fut[j]
                    \/ j[1] = o /\ j \in Single /\ fut'[j] = "pending"
           /\ DueOnce => DueOnce'
           /\ UNCHANGED <<closed, running, result, seen, deadline, notified, plc>>
<1>1. /\ pc[o] = "idle" /\ pc' = [pc EXCEPT ![o] = "created"]
      /\ queue' = queue \o Calls(o)
      /\ fut' = [j \in Job |-> IF \E n \in DOMAIN Calls(o) : Calls(o)[n] = j
                               THEN "pending" ELSE fut[j]]
      /\ UNCHANGED <<closed, running, result, seen, deadline, notified, plc>>
  BY DEF Invoke, Calls
<1>2. /\ id' \in [Op -> Nat \cup {None}] /\ id'[o] \in Nat
      /\ \A q \in Op \ {o} : id'[q] = id[q]
      /\ counter' \in Nat
  <2>1. /\ id \in [Op -> Nat \cup {None}] /\ counter \in Nat
        /\ GivenId[o] \in Nat \cup {None} /\ IdModulus \in Nat \ {0}
    BY StepChainAssumption DEF TypeInv, TypeOK
  <2>2. counter % IdModulus \in Nat
    BY <2>1
  <2>3. PICK new \in Nat : id' = [id EXCEPT ![o] = new]
    BY <2>1, <2>2 DEF Invoke
  <2>4. counter' \in Nat
    BY <2>1 DEF Invoke
  <2> QED
    BY <2>1, <2>3, <2>4
<1>3. /\ <<o, "register">> \in Job /\ <<o, "start">> \in Job
      /\ <<o, "register">> # <<o, "start">>
      /\ <<o, "register">> \in Single /\ <<o, "start">> \in Single
  BY JobFacts DEF CallName
<1>4. /\ Calls(o) \in Seq(Job)
      /\ \A n \in 1 .. Len(Calls(o)) :
            /\ Calls(o)[n] \in {<<o, "register">>, <<o, "start">>}
            /\ \A m \in 1 .. Len(Calls(o)) : Calls(o)[m] = Calls(o)[n] => m = n
            /\ Calls(o)[n] = <<o, "register">> => Backend[o] = "notify"
      /\ \E n \in 1 .. Len(Calls(o)) : Calls(o)[n] = <<o, "start">>
      /\ Backend[o] = "notify" => \E n \in 1 .. Len(Calls(o)) : Calls(o)[n] = <<o, "register">>
  <2>1. CASE Backend[o] = "notify"
    <3>1. Calls(o) = <<<<o, "register">>, <<o, "start">>>>
      BY <2>1 DEF Calls
    <3>2. 1 .. Len(Calls(o)) = {1, 2}
      BY <3>1
    <3> QED
      BY <2>1, <3>1, <3>2, <1>3
  <2>2. CASE Backend[o] # "notify"
    <3>1. Calls(o) = <<<<o, "start">>>>
      BY <2>2 DEF Calls
    <3>2. 1 .. Len(Calls(o)) = {1}
      BY <3>1
    <3> QED
      BY <2>2, <3>1, <3>2, <1>3
  <2> QED
    BY <2>1, <2>2
<1>5. DOMAIN Calls(o) = 1 .. Len(Calls(o))
  BY <1>4
<1>6. /\ queue' \in Seq(Job)
      /\ Len(queue) \in Nat /\ Len(Calls(o)) \in Nat
      /\ Len(queue') = Len(queue) + Len(Calls(o))
      /\ \A n \in 1 .. Len(queue) : queue'[n] = queue[n]
      /\ \A n \in 1 .. Len(Calls(o)) : queue'[Len(queue) + n] = Calls(o)[n]
  BY <1>1, <1>4, ConcatFacts DEF TypeInv, TypeOK
<1>7. \A n \in 1 .. Len(queue') :
         \/ n \in 1 .. Len(queue)
         \/ \E m \in 1 .. Len(Calls(o)) : n = Len(queue) + m
  <2> TAKE n \in 1 .. Len(queue')
  <2>1. CASE n > Len(queue)
    <3>1. n - Len(queue) \in 1 .. Len(Calls(o)) /\ n = Len(queue) + (n - Len(queue))
      BY <1>6, <2>1
    <3> QED
      BY <3>1
  <2> QED
    BY <1>6, <2>1
<1>8. /\ \A n \in 1 .. Len(queue) : n \in 1 .. Len(queue')
      /\ \A n \in 1 .. Len(Calls(o)) : Len(queue) + n \in 1 .. Len(queue')
  BY <1>6
<1>9. ASSUME NEW j \in Job
      PROVE  Due(j)' <=> Due(j) \/ \E n \in 1 .. Len(Calls(o)) : Calls(o)[n] = j
  <2>1. ASSUME NEW n \in 1 .. Len(queue'), queue'[n] = j
        PROVE  \/ \E m \in 1 .. Len(queue) : queue[m] = j
               \/ \E m \in 1 .. Len(Calls(o)) : Calls(o)[m] = j
    BY <2>1, <1>6, <1>7
  <2>2. ASSUME NEW n \in 1 .. Len(queue), queue[n] = j
        PROVE  \E m \in 1 .. Len(queue') : queue'[m] = j
    BY <2>2, <1>6, <1>8
  <2>3. ASSUME NEW n \in 1 .. Len(Calls(o)), Calls(o)[n] = j
        PROVE  \E m \in 1 .. Len(queue') : queue'[m] = j
    BY <2>3, <1>6, <1>8
  <2> QED
    BY <1>1, <2>1, <2>2, <2>3 DEF Due
<1>10. \A j \in Job : (\E n \in 1 .. Len(Calls(o)) : Calls(o)[n] = j)
            <=> (j = <<o, "start">> \/ (Backend[o] = "notify" /\ j = <<o, "register">>))
  <2> TAKE j \in Job
  <2>1. ASSUME NEW n \in 1 .. Len(Calls(o)), Calls(o)[n] = j
        PROVE  j = <<o, "start">> \/ (Backend[o] = "notify" /\ j = <<o, "register">>)
    BY <2>1, <1>4
  <2>2. ASSUME j = <<o, "start">> \/ (Backend[o] = "notify" /\ j = <<o, "register">>)
        PROVE  \E n \in 1 .. Len(Calls(o)) : Calls(o)[n] = j
    BY <2>2, <1>4
  <2> QED
    BY <2>1, <2>2
<1>11. fut' \in [Job -> FutState] /\ fut \in [Job -> FutState]
  BY <1>1 DEF TypeInv, TypeOK, FutState
<1>12. \A j \in Job : \/ fut'[j] = fut[j]
                      \/ j[1] = o /\ j \in Single /\ fut'[j] = "pending"
  <2> TAKE j \in Job
  <2>1. CASE \E n \in 1 .. Len(Calls(o)) : Calls(o)[n] = j
    <3>1. j \in {<<o, "start">>, <<o, "register">>}
      BY <2>1, <1>10
    <3>2. j[1] = o /\ j \in Single
      BY <3>1, <1>3
    <3>3. fut'[j] = "pending"
      BY <2>1, <1>1, <1>5
    <3> QED
      BY <3>2, <3>3
  <2> QED
    BY <2>1, <1>1, <1>5
<1>13. ASSUME DueOnce
       PROVE  DueOnce'
  <2> SUFFICES ASSUME NEW j \in Single
               PROVE  /\ running' = j => \A n \in 1 .. Len(queue') : queue'[n] # j
                      /\ \A m, n \in 1 .. Len(queue') :
                            queue'[m] = j /\ queue'[n] = j => m = n
    BY DEF DueOnce
  <2>1. CASE j[1] = o
    <3>1. j = <<o, "register">> \/ j = <<o, "start">>
      BY <2>1, JobFacts DEF Single
    <3>2. ~Due(j)
      BY <3>1, <1>1 DEF TypeInv, CallName
    <3>3. running' # j /\ \A n \in 1 .. Len(queue) : queue'[n] # j
      BY <3>2, <1>1, <1>6 DEF Due
    <3>4. \A n \in 1 .. Len(queue') : queue'[n] = j =>
             \E m \in 1 .. Len(Calls(o)) : n = Len(queue) + m /\ Calls(o)[m] = j
      BY <3>3, <1>6, <1>7
    <3>5. ASSUME NEW m \in 1 .. Len(queue'), NEW n \in 1 .. Len(queue'),
                 queue'[m] = j, queue'[n] = j
          PROVE  m = n
      <4>1. PICK k \in 1 .. Len(Calls(o)) : m = Len(queue) + k /\ Calls(o)[k] = j
        BY <3>4, <3>5
      <4>2. PICK l \in 1 .. Len(Calls(o)) : n = Len(queue) + l /\ Calls(o)[l] = j
        BY <3>4, <3>5
      <4>3. k = l
        BY <4>1, <4>2, <1>4
      <4> QED
        BY <4>1, <4>2, <4>3
    <3> QED
      BY <3>3, <3>5
  <2>2. CASE j[1] # o
    <3>1. j # <<o, "register">> /\ j # <<o, "start">>
      BY <2>2
    <3>2. ASSUME NEW n \in 1 .. Len(queue'), queue'[n] = j
          PROVE  n \in 1 .. Len(queue) /\ queue[n] = j
      <4>1. ASSUME NEW m \in 1 .. Len(Calls(o)), n = Len(queue) + m
            PROVE  FALSE
        <5>1. Calls(o)[m] = j
          BY <3>2, <4>1, <1>6
        <5> QED
          BY <5>1, <3>1, <1>4
      <4> QED
        BY <3>2, <4>1, <1>6, <1>7
    <3> QED
      BY <3>2, <1>1, <1>13 DEF DueOnce
  <2> QED
    BY <2>1, <2>2
<1> QED
  BY <1>1, <1>2, <1>6, <1>9, <1>10, <1>11, <1>12, <1>13

\* The calls it makes wait for their answers.
LEMMA InvokeAsks ==
    ASSUME TypeInv, NEW o \in Op, Invoke(o)
    PROVE  /\ fut'[<<o, "start">>] = "pending"
           /\ Backend[o] = "notify" => fut'[<<o, "register">>] = "pending"
           /\ \A j \in Job : fut'[j] # fut[j] => Due(j)'
<1>1. fut' = [j \in Job |-> IF \E n \in DOMAIN Calls(o) : Calls(o)[n] = j
                             THEN "pending" ELSE fut[j]]
  BY DEF Invoke, Calls
<1>2. <<o, "register">> \in Job /\ <<o, "start">> \in Job
  BY JobFacts DEF CallName
<1>3. CASE Backend[o] = "notify"
  <2>1. Calls(o) = <<<<o, "register">>, <<o, "start">>>>
    BY <1>3 DEF Calls
  <2>2. /\ DOMAIN Calls(o) = {1, 2}
        /\ Calls(o)[1] = <<o, "register">> /\ Calls(o)[2] = <<o, "start">>
    BY <2>1
  <2>3. ASSUME NEW j \in Job, fut'[j] # fut[j]
        PROVE  j = <<o, "register">> \/ j = <<o, "start">>
    BY <2>2, <2>3, <1>1
  <2>4. fut'[<<o, "start">>] = "pending" /\ fut'[<<o, "register">>] = "pending"
    BY <1>1, <1>2, <2>2
  <2>5. Due(<<o, "start">>)' /\ Due(<<o, "register">>)'
    BY <1>2, <1>3, InvokeDoes
  <2> QED
    BY <2>3, <2>4, <2>5
<1>4. CASE Backend[o] # "notify"
  <2>1. Calls(o) = <<<<o, "start">>>>
    BY <1>4 DEF Calls
  <2>2. DOMAIN Calls(o) = {1} /\ Calls(o)[1] = <<o, "start">>
    BY <2>1
  <2>3. ASSUME NEW j \in Job, fut'[j] # fut[j]
        PROVE  j = <<o, "start">>
    BY <2>2, <2>3, <1>1
  <2>4. fut'[<<o, "start">>] = "pending"
    BY <1>1, <1>2, <2>2
  <2>5. Due(<<o, "start">>)'
    BY <1>2, InvokeDoes
  <2> QED
    BY <1>4, <2>3, <2>4, <2>5
<1> QED
  BY <1>3, <1>4

Run == RunRegister \/ RunStart \/ RunRead \/ RunRelease

LEMMA RunDoes ==
    ASSUME TypeInv, Run
    PROVE  /\ running \in Job /\ Due(running) /\ running' = None /\ queue' = queue
           /\ pc[running[1]] # "idle"
           /\ UNCHANGED <<closed, counter, pc, result, id, deadline>>
           /\ fut' \in [Job -> FutState]
           /\ \A j \in Job :
                 \/ fut'[j] = fut[j] /\ (j = running => fut[j] # "pending")
                 \/ /\ j = running /\ fut[j] = "pending"
                    /\ fut'[j] \in {"ok", "error", "refused"}
                    /\ fut'[j] = "refused" => j[2] = "start"
<1>1. running \in Job
  BY DEF Run, RunRegister, RunStart, RunRead, RunRelease, TypeInv, TypeOK
<1>2. PICK outcome \in {"ok", "error", "refused"} :
         Answer(outcome) /\ (outcome = "refused" => running[2] = "start")
  BY DEF Run, RunRegister, RunStart, RunRead, RunRelease
<1>3. Due(running) /\ pc[running[1]] # "idle"
  BY <1>1, JobFacts DEF Due, TypeInv
<1>4. fut \in [Job -> FutState]
  BY DEF TypeInv, TypeOK, FutState
<1> QED
  BY <1>1, <1>2, <1>3, <1>4 DEF Answer, FutState
-----------------------------------------------------------------------------
(* Types *)

LEMMA TypeInit == Init => TypeInv
<1> SUFFICES ASSUME Init
             PROVE  TypeInv
  OBVIOUS
<1> USE DEF Init
<1>1. /\ closed \in BOOLEAN /\ counter \in Nat /\ queue \in Seq(Job)
      /\ running \in Job \cup {None} /\ status \in Status /\ owner \in Op \cup {None}
  <2>1. status \in Status
    BY DEF Status
  <2>2. queue \in Seq(Job)
    OBVIOUS
  <2> QED
    BY <2>1, <2>2
<1>2. /\ fut \in [Job -> FutState] /\ pc \in [Op -> PcState]
      /\ result \in [Op -> Ending \cup {"none"}] /\ id \in [Op -> Nat \cup {None}]
  BY DEF FutState, PcState
<1>3. /\ seen \in [Op -> Snapshot \cup {None}]
      /\ sampled \in [Op -> Status \cup {None}]
      /\ deadline \in [Op -> {"none", "ahead", "over"}]
      /\ chain \in [Op -> {"none", "busy", "done", "error"}]
  OBVIOUS
<1>4. handles \in [Op -> 0 .. Symbols] /\ events \in [Op -> 0 .. EventLimit]
  BY StepChainAssumption
<1>5. TypeOK
  BY <1>1, <1>2, <1>3, <1>4 DEF TypeOK, FutState, PcState
<1>6. \A j \in Job : ~Due(j) /\ fut[j] = "none"
  BY JobFacts DEF Due
<1>7. \A o \in Op : pc[o] = "idle" /\ id[o] = None
  OBVIOUS
<1> QED
  BY <1>5, <1>6, <1>7, JobFacts DEF TypeInv

\* The variables of the block and of the notifications keep their types.
PlcTypes ==
    /\ seen \in [Op -> Snapshot \cup {None}]
    /\ handles \in [Op -> 0 .. Symbols]
    /\ sampled \in [Op -> Status \cup {None}]
    /\ events \in [Op -> 0 .. EventLimit]
    /\ status \in Status
    /\ owner \in Op \cup {None}
    /\ chain \in [Op -> {"none", "busy", "done", "error"}]

LEMMA RunTypes ==
    ASSUME TypeInv, Run
    PROVE  PlcTypes'
<1>1. /\ PlcTypes /\ Symbols \in Nat \ {0}
  BY StepChainAssumption DEF TypeInv, TypeOK, PlcTypes
<1>2. running \in Job /\ running[1] \in Op /\ pc[running[1]] # "idle"
  BY RunDoes, JobFacts
<1>3. CASE RunRegister
  <2>1. PICK n \in 0 .. Symbols : handles' = [handles EXCEPT ![running[1]] = n]
    BY <1>1, <1>3 DEF RunRegister
  <2> QED
    BY <1>1, <1>2, <1>3, <2>1 DEF RunRegister, PlcTypes, plc
<1>4. CASE RunStart
  <2>1. Accept(running[1]) \/ UNCHANGED plc
    BY <1>4 DEF RunStart
  <2>2. id[running[1]] \in Nat
    BY <1>2 DEF TypeInv, TypeOK
  <2>3. /\ status' \in Status /\ owner' \in Op \cup {None}
        /\ chain' \in [Op -> {"none", "busy", "done", "error"}]
    BY <1>1, <1>2, <2>1, <2>2 DEF Accept, plc, Status, PlcTypes
  <2> QED
    BY <1>1, <1>4, <2>3 DEF RunStart, PlcTypes, notified
<1>5. CASE RunRead
  <2>1. \A missed :
           [id    |-> IF "id" \in missed THEN ErrorText ELSE status.id,
            done  |-> IF "done" \in missed THEN ErrorText ELSE status.state = "done",
            error |-> IF "error" \in missed THEN ErrorText ELSE status.state = "error"]
               \in Snapshot
    <3> TAKE missed
    <3>1. status.id \in Nat
      BY <1>1 DEF PlcTypes, Status
    <3>2. /\ (status.state = "done") \in BOOLEAN /\ (status.state = "error") \in BOOLEAN
      OBVIOUS
    <3> QED
      BY <3>1, <3>2, Zenon DEF Snapshot
  <2>2. \/ seen' = seen
        \/ \E x \in Snapshot : seen' = [seen EXCEPT ![running[1]] = x]
    BY <1>5, <2>1, Zenon DEF RunRead
  <2> QED
    BY <1>1, <1>5, <2>2 DEF RunRead, PlcTypes, notified, plc
<1>6. CASE RunRelease
  <2>1. PICK n \in 0 .. Symbols : handles' = [handles EXCEPT ![running[1]] = n]
    <3>1. handles[running[1]] \in 0 .. Symbols
      BY <1>1, <1>2 DEF PlcTypes
    <3>2. \A n \in 1 .. handles[running[1]] : n \in 0 .. Symbols
      BY <1>1, <3>1
    <3> QED
      BY <1>1, <1>6, <3>2 DEF RunRelease
  <2> QED
    BY <1>1, <1>2, <1>6, <2>1 DEF RunRelease, PlcTypes, plc
<1> QED
  BY <1>3, <1>4, <1>5, <1>6 DEF Run

LEMMA OtherTypes ==
    ASSUME TypeInv,
           ChainEnds \/ \E o \in Op : Notify(o)
    PROVE  PlcTypes'
<1>1. PlcTypes /\ EventLimit \in Nat \ {0}
  BY StepChainAssumption DEF TypeInv, TypeOK, PlcTypes
<1>2. CASE ChainEnds
  <2>1. PICK s \in {"done", "error"} : /\ status' = [status EXCEPT !.state = s]
                                       /\ chain' = [chain EXCEPT ![owner] = s]
    BY <1>2 DEF ChainEnds
  <2>2. status' \in Status /\ chain' \in [Op -> {"none", "busy", "done", "error"}]
    BY <1>1, <2>1 DEF PlcTypes, Status
  <2> QED
    BY <1>1, <1>2, <2>2 DEF ChainEnds, PlcTypes, notified, local
<1>3. ASSUME NEW o \in Op, Notify(o)
      PROVE  PlcTypes'
  <2>1. events[o] \in 0 .. EventLimit
    BY <1>1 DEF PlcTypes
  <2>2. PICK n \in 0 .. EventLimit : events' = [events EXCEPT ![o] = n]
    <3>1. events[o] < EventLimit => events[o] + 1 \in 0 .. EventLimit
      BY <1>1, <2>1
    <3>2. \/ events[o] < EventLimit /\ events' = [events EXCEPT ![o] = events[o] + 1]
          \/ events' = [events EXCEPT ![o] = events[o]]
      BY <1>3 DEF Notify
    <3> QED
      BY <2>1, <3>1, <3>2
  <2>3. sampled' = [sampled EXCEPT ![o] = status]
    BY <1>3 DEF Notify
  <2> QED
    BY <1>1, <1>3, <2>2, <2>3 DEF Notify, PlcTypes, local, plc
<1> QED
  BY <1>2, <1>3
\* Expire, Close, CancelAccepted, Notify and ChainEnds change no call and no task.
Aside ==
    \/ \E o \in Op : CancelAccepted(o) \/ Expire(o) \/ Notify(o)
    \/ Close
    \/ ChainEnds

LEMMA AsideDoes ==
    ASSUME TypeInv, Aside
    PROVE  /\ UNCHANGED <<counter, queue, running, pc, result, id, seen, handles, owner>>
           /\ closed' \in BOOLEAN
           /\ deadline' \in [Op -> {"none", "ahead", "over"}]
           /\ fut' \in [Job -> FutState]
           /\ \A j \in Job : \/ fut'[j] = fut[j]
                             \/ fut[j] = "pending" /\ fut'[j] = "cancelled" /\ j[2] = "start"
           /\ PlcTypes'
<1> USE DEF notified, plc, local
<1>1. /\ PlcTypes /\ closed \in BOOLEAN
      /\ deadline \in [Op -> {"none", "ahead", "over"}]
      /\ fut \in [Job -> FutState]
  BY DEF TypeInv, TypeOK, PlcTypes, FutState
<1>2. ASSUME NEW o \in Op, CancelAccepted(o)
      PROVE  /\ fut' \in [Job -> FutState]
             /\ \A j \in Job :
                   \/ fut'[j] = fut[j]
                   \/ fut[j] = "pending" /\ fut'[j] = "cancelled" /\ j[2] = "start"
             /\ UNCHANGED <<closed, counter, queue, running, deadline, pc, result, id, seen,
                            handles, sampled, events, status, owner, chain>>
  <2>1. PICK call \in Job : call = <<o, "start">>
    BY JobFacts DEF CallName
  <2>2. /\ fut[call] = "pending" /\ call[2] = "start"
        /\ fut' = [fut EXCEPT ![call] = "cancelled"]
    BY <1>2, <2>1 DEF CancelAccepted
  <2>3. /\ fut' \in [Job -> FutState]
        /\ \A j \in Job : fut'[j] = IF j = call THEN "cancelled" ELSE fut[j]
    BY <1>1, <2>2 DEF FutState
  <2> QED
    BY <1>2, <2>2, <2>3 DEF CancelAccepted
<1>3. CASE \E o \in Op : Expire(o)
  BY <1>1, <1>3 DEF Expire, PlcTypes
<1>4. CASE Close
  BY <1>1, <1>4 DEF Close, PlcTypes
<1>5. CASE \E o \in Op : Notify(o)
  BY <1>1, <1>5, OtherTypes DEF Notify
<1>6. CASE ChainEnds
  BY <1>1, <1>6, OtherTypes DEF ChainEnds
<1>7. CASE \E o \in Op : CancelAccepted(o)
  BY <1>1, <1>2, <1>7 DEF PlcTypes
<1> QED
  BY <1>3, <1>4, <1>5, <1>6, <1>7 DEF Aside

LEMMA AsideCloses ==
    ASSUME Aside
    PROVE  closed => closed'
<1>1. closed' = closed \/ closed' = TRUE
  BY Zenon DEF Aside, CancelAccepted, Expire, Notify, Close, ChainEnds
<1> QED
  BY <1>1

LEMMA StepCases ==
    ASSUME Next
    PROVE  \/ \E o \in Op : Invoke(o)
           \/ \E o \in Op : TaskStep(o)
           \/ Take
           \/ Run
           \/ Aside
  BY DEF Next, Worker, Run, Aside, TaskStep

LEMMA QueueTypes ==
    ASSUME TypeOK, NEW o \in Op, TaskQueue(o), running' = running
    PROVE  /\ queue' \in Seq(Job)
           /\ \A j \in Job : j[1] # o \/ j \in Single => (Due(j)' <=> Due(j))
           /\ \A j \in Job : Due(j) => Due(j)'
           /\ Due(<<o, "release">>)' => Due(<<o, "release">>) \/ pc'[o] = "releasing"
           /\ DueOnce => DueOnce'
<1>1. /\ <<o, "read">> \in Job /\ <<o, "release">> \in Job
      /\ <<o, "read">> \notin Single /\ <<o, "release">> \notin Single
      /\ queue \in Seq(Job)
  BY FrameTypes DEF CallName, Single
<1>2. CASE queue' = queue
  BY <1>1, <1>2 DEF Due, DueOnce
<1>3. ASSUME NEW i \in {<<o, "read">>, <<o, "release">>}, queue' = Append(queue, i)
      PROVE  /\ queue' \in Seq(Job)
             /\ \A j \in Job : j[1] # o \/ j \in Single => (Due(j)' <=> Due(j))
             /\ \A j \in Job : Due(j) => Due(j)'
             /\ Due(<<o, "release">>)' => Due(<<o, "release">>) \/ i = <<o, "release">>
             /\ DueOnce => DueOnce'
  <2>1. i \in Job /\ i \notin Single /\ i[1] = o
    BY <1>1
  <2>2. queue' \in Seq(Job)
    BY <1>1, <1>3, <2>1, AppendFacts
  <2>3. /\ \A j \in Job : Due(j)' <=> Due(j) \/ j = i
        /\ DueOnce => DueOnce'
    BY <1>1, <1>3, <2>1, DueAppend
  <2> QED
    BY <1>1, <2>1, <2>2, <2>3
<1> QED
  BY <1>2, <1>3 DEF TaskQueue

LEMMA TypeStep ==
    ASSUME TypeInv, [Next]_vars
    PROVE  TypeInv'
<1>1. TypeOK /\ PlcTypes
  BY DEF TypeInv, TypeOK, PlcTypes
<1>2. ASSUME NEW o \in Op, Invoke(o)
      PROVE  TypeInv'
  <2>1. TypeOK'
    <3>1. pc' \in [Op -> PcState] /\ pc \in [Op -> PcState]
      BY <1>1, <1>2, FrameTypes DEF Invoke, PcState
    <3> QED
      BY <1>1, <1>2, <3>1, InvokeDoes DEF TypeOK, PlcTypes, notified, plc, PcState, FutState
  <2>2. ASSUME NEW q \in Op
        PROVE  /\ pc'[q] = "idle" <=> id'[q] = None
               /\ pc'[q] = "idle" => \A name \in CallName :
                                       ~Due(<<q, name>>)' /\ fut'[<<q, name>>] = "none"
    <3>1. pc \in [Op -> PcState]
      BY <1>1, FrameTypes
    <3>2. CASE q = o
      BY <1>2, <3>1, <3>2, InvokeDoes, StepChainAssumption
    <3>3. CASE q # o
      <4>1. pc'[q] = pc[q] /\ id'[q] = id[q]
        BY <1>2, <3>1, <3>3, InvokeDoes
      <4>2. ASSUME pc[q] = "idle", NEW name \in CallName
            PROVE  ~Due(<<q, name>>)' /\ fut'[<<q, name>>] = "none"
        <5>1. PICK j \in Job : j = <<q, name>>
          BY JobFacts
        <5>2. j[1] # o /\ j # <<o, "start">> /\ j # <<o, "register">>
          BY <5>1, <3>3
        <5>3. ~Due(j) /\ fut[j] = "none"
          BY <4>2, <5>1 DEF TypeInv
        <5>4. ~Due(j)' /\ fut'[j] = "none"
          BY <1>2, <5>2, <5>3, InvokeDoes
        <5> QED
          BY <5>1, <5>4
      <4> QED
        BY <4>1, <4>2 DEF TypeInv
    <3> QED
      BY <3>2, <3>3
  <2> QED
    BY <2>1, <2>2 DEF TypeInv
<1>3. ASSUME NEW o \in Op, TaskStep(o)
      PROVE  TypeInv'
  <2>1. TaskEffect(o)
    BY <1>1, <1>3, TaskDoes
  <2>2. queue' \in Seq(Job) /\ fut' \in [Job -> FutState]
    BY <1>1, <2>1, QueueTypes DEF TaskEffect, TaskFrame, TaskFut
  <2>3. TypeOK'
    BY <1>1, <2>1, <2>2 DEF TaskEffect, TaskFrame, TypeOK, PcState, FutState, plc
  <2>4. ASSUME NEW q \in Op
        PROVE  /\ pc'[q] = "idle" <=> id'[q] = None
               /\ pc'[q] = "idle" => \A name \in CallName :
                                       ~Due(<<q, name>>)' /\ fut'[<<q, name>>] = "none"
    <3>1. /\ id' = id /\ pc[o] # "idle" /\ pc'[o] # "idle"
          /\ q # o => pc'[q] = pc[q]
      BY <2>1 DEF TaskEffect, TaskFrame
    <3>2. ASSUME pc[q] = "idle", NEW name \in CallName
          PROVE  ~Due(<<q, name>>)' /\ fut'[<<q, name>>] = "none"
      <4>1. PICK j \in Job : j = <<q, name>>
        BY JobFacts
      <4>2. j[1] # o /\ j # <<o, "read">> /\ j # <<o, "release">>
        BY <4>1, <3>1, <3>2
      <4>3. ~Due(j) /\ fut[j] = "none"
        BY <3>2, <4>1 DEF TypeInv
      <4>4. ~Due(j)'
        BY <1>1, <2>1, <4>2, <4>3, QueueTypes DEF TaskEffect, TaskFrame
      <4>5. fut'[j] = "none"
        BY <2>1, <4>2, <4>3 DEF TaskEffect, TaskFut
      <4> QED
        BY <4>1, <4>4, <4>5
    <3> QED
      BY <3>1, <3>2 DEF TypeInv
  <2> QED
    BY <2>3, <2>4 DEF TypeInv
<1>4. CASE Take
  <2>1. queue \in Seq(Job) /\ queue # <<>> /\ Head(queue) \in Job /\ Tail(queue) \in Seq(Job)
    BY <1>1, <1>4, HeadTail DEF Take, TypeOK
  <2>2. TypeOK'
    BY <1>1, <1>4, <2>1 DEF Take, TypeOK, local, notified, plc
  <2>3. \A j \in Job : Due(j)' => Due(j)
    BY <1>4, <2>1, DueTail DEF Take
  <2> QED
    BY <1>4, <2>2, <2>3, JobFacts DEF TypeInv, Take, local
<1>5. CASE Run
  <2>1. PlcTypes' /\ fut' \in [Job -> FutState]
    BY <1>5, RunTypes, RunDoes
  <2>2. TypeOK'
    BY <1>1, <1>5, <2>1, RunDoes DEF TypeOK, PlcTypes, FutState
  <2>3. \A j \in Job : Due(j)' => Due(j)
    BY <1>5, RunDoes, DueAnswered
  <2>4. \A j \in Job : fut[j] = "none" => fut'[j] = "none"
    BY <1>5, RunDoes
  <2> QED
    BY <1>5, <2>2, <2>3, <2>4, JobFacts, RunDoes DEF TypeInv
<1>6. CASE Aside
  <2>1. TypeOK'
    BY <1>1, <1>6, AsideDoes DEF TypeOK, PlcTypes, FutState
  <2>2. \A j \in Job : (Due(j)' <=> Due(j)) /\ (fut[j] = "none" => fut'[j] = "none")
    BY <1>6, AsideDoes DEF Due
  <2> QED
    BY <1>6, <2>1, <2>2, JobFacts, AsideDoes DEF TypeInv
<1>7. CASE UNCHANGED vars
  BY <1>7 DEF vars, local, notified, plc, TypeInv, TypeOK, Due
<1> QED
  BY <1>2, <1>3, <1>4, <1>5, <1>6, <1>7, StepCases

\* Type correctness, for every set of operations, backends, failures and cancellations.
THEOREM StepChainTypes == Spec => []TypeOK
<1>1. Init => TypeInv
  BY TypeInit
<1>2. TypeInv /\ [Next]_vars => TypeInv'
  BY TypeStep
<1>3. TypeInv => TypeOK
  BY DEF TypeInv
<1> QED
  BY <1>1, <1>2, <1>3, PTL DEF Spec
-----------------------------------------------------------------------------
(* The notifications of an operation *)

LEMMA RunHandles ==
    ASSUME TypeInv, Run
    PROVE  \A q \in Op :
              /\ running \notin {<<q, "register">>, <<q, "release">>} => handles'[q] = handles[q]
              /\ running = <<q, "release">> =>
                    \/ handles'[q] = 0
                    \/ /\ handles[q] > 0
                       /\ fut'[running] \in {fut[running], "error"}
<1>1. /\ handles \in [Op -> 0 .. Symbols] /\ Symbols \in Nat
      /\ running \in Job /\ running[1] \in Op /\ running = <<running[1], running[2]>>
      /\ fut \in [Job -> FutState] /\ Due(running)
  BY StepChainAssumption, JobFacts, RunDoes DEF TypeInv, TypeOK, FutState
<1>2. ASSUME NEW n, handles' = [handles EXCEPT ![running[1]] = n], NEW q \in Op
      PROVE  /\ q # running[1] => handles'[q] = handles[q]
             /\ q = running[1] => handles'[q] = n
  BY <1>1, <1>2
<1>3. CASE RunRegister
  <2>1. PICK n : handles' = [handles EXCEPT ![running[1]] = n]
    BY <1>3 DEF RunRegister
  <2> QED
    BY <1>1, <1>2, <1>3, <2>1 DEF RunRegister
<1>4. CASE RunRelease
  <2>1. CASE handles' = [handles EXCEPT ![running[1]] = 0]
    BY <1>1, <1>2, <1>4, <2>1 DEF RunRelease
  <2>2. CASE /\ Answer("error")
             /\ \E n \in 1 .. handles[running[1]] : handles' = [handles EXCEPT ![running[1]] = n]
    <3>1. PICK n \in 1 .. handles[running[1]] : handles' = [handles EXCEPT ![running[1]] = n]
      BY <2>2
    <3>2. handles[running[1]] > 0
      BY <1>1, <3>1
    <3>3. fut'[running] \in {fut[running], "error"}
      BY <1>1, <2>2 DEF Answer
    <3> QED
      BY <1>1, <1>2, <1>4, <3>1, <3>2, <3>3 DEF RunRelease
  <2> QED
    BY <1>4, <2>1, <2>2 DEF RunRelease
<1>5. CASE RunStart \/ RunRead
  BY <1>1, <1>5 DEF RunStart, RunRead, notified
<1> QED
  BY <1>3, <1>4, <1>5 DEF Run

LEMMA DueOnceStep ==
    ASSUME TypeInv, DueOnce, [Next]_vars
    PROVE  DueOnce'
<1>1. ASSUME NEW o \in Op, Invoke(o)
      PROVE  DueOnce'
  BY <1>1, InvokeDoes
<1>2. ASSUME NEW o \in Op, TaskStep(o)
      PROVE  DueOnce'
  <2>1. TypeOK /\ TaskEffect(o)
    BY <1>2, TaskDoes DEF TypeInv
  <2> QED
    BY <2>1, QueueTypes DEF TaskEffect, TaskFrame
<1>3. CASE Take
  BY <1>3, DueTail DEF Take, TypeInv, TypeOK
<1>4. CASE Run
  BY <1>4, RunDoes, DueAnswered
<1>5. CASE Aside
  BY <1>5, AsideDoes DEF DueOnce
<1>6. CASE UNCHANGED vars
  BY <1>6 DEF vars, DueOnce
<1> QED
  BY <1>1, <1>2, <1>3, <1>4, <1>5, <1>6, StepCases

LEMMA HandleInit == Init => HandleInv
<1> SUFFICES ASSUME Init
             PROVE  HandleInv
  OBVIOUS
<1>1. \A j \in Job : ~Due(j) /\ fut[j] = "none"
  BY JobFacts DEF Init, Due
<1>2. DueOnce
  BY <1>1 DEF Init, DueOnce, Single
<1>3. \A o \in Op : handles[o] = 0 /\ pc[o] = "idle" /\ fut[<<o, "release">>] = "none"
                      /\ ~Due(<<o, "register">>)
  BY <1>1, JobFacts DEF Init, CallName
<1> QED
  BY <1>2, <1>3 DEF Handled, HandleInv

LEMMA HandleStep ==
    ASSUME TypeInv, HandleInv, [Next]_vars
    PROVE  HandleInv'
<1>1. /\ DueOnce /\ \A o \in Op : Handled(o)
      /\ DueOnce'
      /\ TypeOK
  BY DueOnceStep DEF TypeInv, HandleInv
<1> SUFFICES ASSUME NEW q \in Op
             PROVE  Handled(q)'
  BY <1>1 DEF HandleInv, Handled, HandlesReleased
<1>2. /\ <<q, "register">> \in Job /\ <<q, "release">> \in Job
      /\ <<q, "register">> \in Single /\ <<q, "release">> \notin Single
      /\ Backend[q] \in {"poll", "notify"} /\ handles[q] \in Nat
  <2>1. handles \in [Op -> 0 .. Symbols]
    BY <1>1 DEF TypeOK
  <2>2. handles[q] \in Nat
    BY <2>1, StepChainAssumption
  <2>3. <<q, "register">> \in Job /\ <<q, "release">> \in Job
    BY JobFacts DEF CallName
  <2>4. <<q, "register">> \in Single /\ <<q, "release">> \notin Single
    BY <2>3 DEF Single
  <2>5. Backend[q] \in {"poll", "notify"}
    BY StepChainAssumption
  <2> QED
    BY <2>2, <2>3, <2>4, <2>5
<1>3. ASSUME NEW o \in Op, Invoke(o)
      PROVE  Handled(q)'
  <2>1. /\ fut'[<<q, "release">>] = fut[<<q, "release">>]
        /\ handles' = handles /\ result' = result /\ closed' = closed
    BY <1>2, <1>3, InvokeDoes DEF notified
  <2>2. CASE q = o
    <3>1. /\ pc'[q] = "created"
          /\ fut'[<<q, "register">>] \in {"none", "pending"}
          /\ fut[<<q, "release">>] = "none"
          /\ Due(<<q, "register">>)' <=> Backend[q] = "notify"
      <4>1. /\ pc[q] = "idle" /\ pc' = [pc EXCEPT ![q] = "created"] /\ pc \in [Op -> PcState]
        BY <1>1, <1>3, <2>2, InvokeDoes, FrameTypes
      <4>2. /\ fut[<<q, "register">>] = "none" /\ fut[<<q, "release">>] = "none"
            /\ ~Due(<<q, "register">>)
        BY <4>1 DEF TypeInv, CallName
      <4>3. <<q, "register">> # <<q, "start">>
        OBVIOUS
      <4> QED
        BY <1>2, <1>3, <2>2, <4>1, <4>2, <4>3, InvokeDoes
    <3> QED
      BY <1>1, <1>2, <2>1, <3>1 DEF Handled
  <2>3. CASE q # o
    <3>1. pc'[q] = pc[q] /\ pc \in [Op -> PcState]
      BY <1>1, <1>3, <2>3, InvokeDoes, FrameTypes
    <3>2. <<q, "register">>[1] # o /\ <<q, "register">> # <<o, "register">>
            /\ <<q, "register">> # <<o, "start">>
      BY <2>3
    <3>3. /\ fut'[<<q, "register">>] = fut[<<q, "register">>]
          /\ Due(<<q, "register">>)' <=> Due(<<q, "register">>)
      BY <1>2, <1>3, <3>2, InvokeDoes
    <3> QED
      BY <1>1, <2>1, <3>1, <3>3 DEF Handled
  <2> QED
    BY <2>2, <2>3
<1>4. ASSUME NEW o \in Op, TaskStep(o)
      PROVE  Handled(q)'
  <2>1. TaskEffect(o)
    BY <1>1, <1>4, TaskDoes
  <2>2. /\ closed' = closed /\ handles' = handles
        /\ Due(<<q, "register">>)' <=> Due(<<q, "register">>)
    BY <1>1, <1>2, <2>1, QueueTypes DEF TaskEffect, TaskFrame
  <2>3. CASE q # o
    <3>1. /\ pc'[q] = pc[q] /\ result'[q] = result[q]
      BY <2>1, <2>3 DEF TaskEffect, TaskFrame
    <3>2. \A name : <<q, name>>[1] # o /\ <<q, name>> # <<o, "read">> /\ <<q, name>> # <<o, "release">>
      BY <2>3
    <3>3. /\ fut'[<<q, "register">>] = fut[<<q, "register">>]
          /\ fut'[<<q, "release">>] = fut[<<q, "release">>]
      BY <1>2, <2>1, <3>2 DEF TaskEffect, TaskFut
    <3> QED
      BY <1>1, <2>2, <3>1, <3>3 DEF Handled
  <2>4. CASE q = o
    <3>1. \/ fut'[<<q, "register">>] = fut[<<q, "register">>]
          \/ fut'[<<q, "register">>] = "cancelled"
      <4>1. <<q, "register">> # <<o, "read">> /\ <<q, "register">> # <<o, "release">>
        OBVIOUS
      <4> QED
        BY <1>2, <2>1, <4>1 DEF TaskEffect, TaskFut
    <3>2. \/ fut'[<<q, "release">>] = fut[<<q, "release">>]
          \/ fut[<<q, "release">>] = "pending" /\ fut'[<<q, "release">>] = "cancelled"
          \/ /\ fut'[<<q, "release">>] = "pending"
             /\ pc[q] \notin {"created", "registering"}
             /\ pc'[q] = "releasing"
      <4>1. <<q, "release">> # <<o, "read">>
        OBVIOUS
      <4> QED
        BY <1>2, <2>1, <2>4, <4>1 DEF TaskEffect, TaskFut
    <3>3. /\ pc[q] \notin {"idle", "ended"} /\ pc'[q] # "created"
          /\ pc[q] \in {"created", "registering"} => pc'[q] \in {"registering", "accepting", "ended"}
          /\ pc'[q] = "registering" => pc[q] = "created"
          /\ pc'[q] = "accepting" => \/ Backend[q] = "poll"
                                     \/ fut[<<q, "register">>] = "ok"
      BY <2>1, <2>4 DEF TaskEffect, TaskFrame, TaskPc
    <3>4. pc'[q] = "ended" =>
          \/ pc[q] \in {"created", "registering"} /\ result'[q] = "cancelled"
          \/ pc[q] = "registering" /\ fut[<<q, "register">>] = "error" /\ result'[q] = "error"
          \/ /\ pc[q] \notin {"created", "registering"}
             /\ \/ Backend[q] = "poll" \/ closed \/ result'[q] = "error"
                \/ pc[q] = "releasing" /\ fut[<<q, "release">>] = "ok"
                \/ pc[q] = "releasing" /\ result'[q] = "cancelled" /\ fut'[<<q, "release">>] # "ok"
      BY <2>1, <2>4 DEF TaskEffect, TaskResult
    <3>5. Due(<<q, "register">>) => /\ pc[q] \in {"created", "registering"}
                                    /\ fut[<<q, "register">>] \notin {"ok", "error"}
                                    /\ Backend[q] # "poll"
      BY <1>1, <3>3 DEF Handled
    <3>6. Due(<<q, "register">>) =>
             \/ pc'[q] \in {"created", "registering"} /\ fut'[<<q, "register">>] \notin {"ok", "error"}
             \/ pc'[q] = "ended" /\ result'[q] = "cancelled"
      BY <3>1, <3>3, <3>4, <3>5
    <3>7. /\ pc'[q] \in {"created", "registering"} => fut'[<<q, "release">>] = "none"
          /\ fut'[<<q, "release">>] # "none" => ~Due(<<q, "register">>)
          /\ fut'[<<q, "release">>] = "ok" => handles[q] = 0
      BY <1>1, <3>2, <3>3, <3>5 DEF Handled
    <3>8. pc'[q] = "ended" /\ handles[q] > 0 =>
             \/ closed
             \/ result'[q] = "error"
             \/ result'[q] = "cancelled" /\ fut'[<<q, "release">>] # "ok"
      BY <1>1, <1>2, <3>2, <3>3, <3>4 DEF Handled
    <3>9. Backend[q] = "poll" => handles[q] = 0 /\ ~Due(<<q, "register">>)
      BY <1>1 DEF Handled
    <3> QED
      BY <2>2, <3>6, <3>7, <3>8, <3>9 DEF Handled
  <2> QED
    BY <2>3, <2>4
<1>5. CASE Take
  <2>1. /\ Due(<<q, "register">>)' => Due(<<q, "register">>)
        /\ UNCHANGED <<closed, fut, pc, result, handles>>
    BY <1>1, <1>2, <1>5, DueTail DEF Take, TypeOK, local, notified
  <2> QED
    BY <1>1, <2>1 DEF Handled
<1>6. CASE Run
  <2>1. /\ UNCHANGED <<closed, pc, result>> /\ running \in Job /\ Due(running)
        /\ Due(<<q, "register">>)' => Due(<<q, "register">>) /\ running # <<q, "register">>
    BY <1>1, <1>2, <1>6, RunDoes, DueAnswered
  <2>2. /\ running # <<q, "register">> => fut'[<<q, "register">>] = fut[<<q, "register">>]
        /\ running # <<q, "release">> => fut'[<<q, "release">>] = fut[<<q, "release">>]
        /\ fut'[<<q, "release">>] = "none" <=> fut[<<q, "release">>] = "none"
    BY <1>2, <1>6, RunDoes
  <2>3. CASE running = <<q, "register">>
    <3>1. Due(<<q, "register">>) /\ running # <<q, "release">>
      BY <2>1, <2>3
    <3>2. Backend[q] # "poll" /\ fut[<<q, "release">>] = "none"
      BY <1>1, <3>1 DEF Handled
    <3> QED
      BY <1>1, <2>1, <2>2, <2>3, <3>1, <3>2 DEF Handled
  <2>4. CASE running = <<q, "release">>
    <3>1. running # <<q, "register">>
      BY <2>4
    <3>2. \/ handles'[q] = 0
          \/ handles[q] > 0 /\ fut'[<<q, "release">>] \in {fut[<<q, "release">>], "error"}
      BY <1>6, <2>4, RunHandles
    <3> QED
      BY <1>1, <1>2, <2>1, <2>2, <3>1, <3>2 DEF Handled
  <2>5. CASE running \notin {<<q, "register">>, <<q, "release">>}
    <3>1. handles'[q] = handles[q]
      BY <1>6, <2>5, RunHandles
    <3> QED
      BY <1>1, <2>1, <2>2, <2>5, <3>1 DEF Handled
  <2> QED
    BY <2>3, <2>4, <2>5
<1>7. CASE Aside
  <2>1. /\ Due(<<q, "register">>)' <=> Due(<<q, "register">>)
        /\ UNCHANGED <<pc, result, handles>> /\ (closed => closed')
    BY <1>7, AsideDoes, AsideCloses DEF Due
  <2>2. \A name \in {"register", "release"} :
           \/ fut'[<<q, name>>] = fut[<<q, name>>]
           \/ fut[<<q, name>>] = "pending" /\ fut'[<<q, name>>] = "cancelled"
    BY <1>2, <1>7, AsideDoes
  <2> QED
    BY <1>1, <2>1, <2>2 DEF Handled
<1>8. CASE UNCHANGED vars
  BY <1>1, <1>8 DEF vars, local, notified, Handled, Due
<1> QED
  BY <1>3, <1>4, <1>5, <1>6, <1>7, <1>8, StepCases

\* Notifications stay behind only in the ways HandlesReleased lists, whatever fails
\* and whenever the operation is cancelled or the connection closed.
THEOREM HandlesReleasedHolds == Spec => []HandlesReleased
<1>1. Init => TypeInv /\ HandleInv
  BY TypeInit, HandleInit
<1>2. (TypeInv /\ HandleInv) /\ [Next]_vars => (TypeInv /\ HandleInv)'
  BY TypeStep, HandleStep
<1>3. HandleInv => HandlesReleased
  BY DEF HandleInv, Handled, HandlesReleased
<1> QED
  BY <1>1, <1>2, <1>3, PTL DEF Spec
-----------------------------------------------------------------------------
(* Starts and chains *)

LEMMA StartInit == Init => StartInv
<1> SUFFICES ASSUME Init
             PROVE  StartInv
  OBVIOUS
<1>1. \A j \in Job : ~Due(j) /\ fut[j] = "none"
  BY JobFacts DEF Init, Due
<1>2. DueOnce
  BY <1>1 DEF Init, DueOnce, Single
<1>3. \A o \in Op : Started(o)
  BY <1>1, JobFacts DEF Init, CallName, Started
<1>4. BlockInv
  BY DEF Init, BlockInv
<1> QED
  BY <1>2, <1>3, <1>4 DEF StartInv

\* A start is accepted, or it leaves the block alone; only a start touches it.
LEMMA RunPlc ==
    ASSUME TypeInv, Run
    PROVE  \/ /\ running[2] = "start"
              /\ Accept(running[1])
              /\ \/ fut'[running] = fut[running]
                 \/ fut'[running] \in {"ok", "error"}
           \/ /\ UNCHANGED plc
              /\ running[2] = "start" => \/ fut'[running] = fut[running]
                                         \/ fut'[running] \in {"refused", "error"}
<1>1. running \in Job /\ fut \in [Job -> FutState]
  BY RunDoes DEF TypeInv, TypeOK, FutState
<1>2. CASE RunStart
  <2>1. CASE Accept(running[1]) /\ Answer("ok")
    BY <1>1, <1>2, <2>1 DEF RunStart, Answer
  <2>2. CASE UNCHANGED plc /\ Answer("refused")
    BY <1>1, <1>2, <2>2 DEF RunStart, Answer
  <2>3. CASE (Accept(running[1]) \/ UNCHANGED plc) /\ Answer("error")
    BY <1>1, <1>2, <2>3 DEF RunStart, Answer
  <2> QED
    BY <1>2, <2>1, <2>2, <2>3 DEF RunStart
<1>3. CASE RunRegister \/ RunRead \/ RunRelease
  BY <1>3 DEF RunRegister, RunRead, RunRelease
<1> QED
  BY <1>2, <1>3 DEF Run

\* Where the block is left alone, starts are not made twice and answers stay.
LEMMA StartedStays ==
    ASSUME NEW q \in Op, Started(q),
           UNCHANGED <<owner, chain>>,
           pc'[q] = "idle" => pc[q] = "idle",
           Due(<<q, "start">>)' => Due(<<q, "start">>),
           \/ fut'[<<q, "start">>] = fut[<<q, "start">>]
           \/ fut[<<q, "start">>] = "pending" /\ fut'[<<q, "start">>] \in {"cancelled", "error"}
           \/ /\ fut[<<q, "start">>] = "pending" /\ fut'[<<q, "start">>] = "refused"
              /\ chain[q] = "none" /\ ~Due(<<q, "start">>)',
           result'[q] = "rejected" => result[q] = "rejected" \/ fut[<<q, "start">>] = "refused",
           pc'[q] \in {"reading", "sleeping", "waiting"} =>
              pc[q] \in {"reading", "sleeping", "waiting"} \/ fut[<<q, "start">>] = "ok"
    PROVE  Started(q)'
  BY DEF Started

LEMMA BlockStays ==
    ASSUME BlockInv, TypeOK, UNCHANGED <<status, owner, chain>>,
           \A o \in Op : pc[o] # "idle" => pc'[o] # "idle" /\ id'[o] = id[o]
    PROVE  BlockInv'
  BY DEF BlockInv, TypeOK

LEMMA StartStep ==
    ASSUME TypeInv, StartInv, [Next]_vars
    PROVE  StartInv'
<1>1. /\ DueOnce /\ BlockInv /\ \A o \in Op : Started(o)
      /\ DueOnce' /\ TypeOK
  BY DueOnceStep DEF TypeInv, StartInv
<1> SUFFICES BlockInv' /\ \A q \in Op : Started(q)'
  BY <1>1 DEF StartInv, Started, BlockInv
<1>2. \A q \in Op : <<q, "start">> \in Job /\ <<q, "start">> \in Single
                      /\ <<q, "start">> # <<q, "register">>
  BY JobFacts DEF CallName
<1>3. ASSUME NEW o \in Op, Invoke(o)
      PROVE  BlockInv' /\ \A q \in Op : Started(q)'
  <2>1. /\ UNCHANGED <<status, owner, chain, result>>
        /\ pc[o] = "idle" /\ pc' = [pc EXCEPT ![o] = "created"] /\ pc \in [Op -> PcState]
        /\ \A q \in Op \ {o} : id'[q] = id[q]
    BY <1>1, <1>3, InvokeDoes, FrameTypes DEF plc
  <2>2. BlockInv'
    BY <1>1, <2>1, BlockStays
  <2>3. ASSUME NEW q \in Op, q # o
        PROVE  Started(q)'
    <3>1. <<q, "start">>[1] # o /\ <<q, "start">> # <<o, "start">> /\ <<q, "start">> # <<o, "register">>
      BY <2>3
    <3>2. /\ fut'[<<q, "start">>] = fut[<<q, "start">>]
          /\ Due(<<q, "start">>)' <=> Due(<<q, "start">>)
      BY <1>2, <1>3, <3>1, InvokeDoes
    <3>3. pc'[q] = pc[q]
      BY <2>1, <2>3
    <3> QED
      BY <1>1, <2>1, <3>2, <3>3, StartedStays
  <2>4. Started(o)'
    <3>1. /\ fut[<<o, "start">>] = "none"
          /\ chain[o] = "none" /\ pc'[o] = "created"
      BY <1>1, <2>1 DEF TypeInv, CallName, Started
    <3>2. fut'[<<o, "start">>] \in {"none", "pending"}
      BY <1>2, <1>3, <3>1, InvokeDoes
    <3> QED
      BY <1>1, <2>1, <3>1, <3>2 DEF Started
  <2> QED
    BY <2>2, <2>3, <2>4
<1>4. ASSUME NEW o \in Op, TaskStep(o)
      PROVE  BlockInv' /\ \A q \in Op : Started(q)'
  <2>1. TaskEffect(o)
    BY <1>1, <1>4, TaskDoes
  <2>2. /\ UNCHANGED <<id, status, owner, chain>> /\ pc'[o] # "idle"
        /\ \A q \in Op \ {o} : pc'[q] = pc[q] /\ result'[q] = result[q]
    BY <2>1 DEF TaskEffect, TaskFrame, plc
  <2>3. BlockInv'
    BY <1>1, <2>2, BlockStays
  <2>4. ASSUME NEW q \in Op
        PROVE  Started(q)'
    <3>1. Due(<<q, "start">>)' <=> Due(<<q, "start">>)
      BY <1>1, <1>2, <2>1, QueueTypes DEF TaskEffect, TaskFrame
    <3>2. <<q, "start">> # <<o, "read">> /\ <<q, "start">> # <<o, "release">>
      OBVIOUS
    <3>3. \/ fut'[<<q, "start">>] = fut[<<q, "start">>]
          \/ fut[<<q, "start">>] = "pending" /\ fut'[<<q, "start">>] = "cancelled"
      BY <1>2, <2>1, <3>2 DEF TaskEffect, TaskFut
    <3>4. /\ pc'[q] = "idle" => pc[q] = "idle"
          /\ result'[q] = "rejected" => result[q] = "rejected" \/ fut[<<q, "start">>] = "refused"
          /\ pc'[q] \in {"reading", "sleeping", "waiting"} =>
                pc[q] \in {"reading", "sleeping", "waiting"} \/ fut[<<q, "start">>] = "ok"
      BY <2>1, <2>2 DEF TaskEffect, TaskPc, TaskResult
    <3> QED
      BY <1>1, <2>2, <3>1, <3>3, <3>4, StartedStays
  <2> QED
    BY <2>3, <2>4
<1>5. CASE Take
  <2>1. /\ \A j \in Job : Due(j)' => Due(j)
        /\ UNCHANGED <<fut, pc, result, id, status, owner, chain>>
    BY <1>1, <1>5, DueTail DEF Take, TypeOK, local, plc
  <2>2. \A q \in Op : Started(q)'
    BY <1>1, <1>2, <2>1, StartedStays
  <2> QED
    BY <1>1, <2>1, <2>2, BlockStays
<1>6. CASE Run
  <2>1. /\ UNCHANGED <<pc, result, id>> /\ running \in Job /\ Due(running)
        /\ running[1] \in Op /\ running = <<running[1], running[2]>>
        /\ pc[running[1]] # "idle"
        /\ \A j \in Job : Due(j)' => Due(j)
        /\ \A q \in Op : running = <<q, "start">> => ~Due(<<q, "start">>)'
        /\ \A j \in Job : \/ fut'[j] = fut[j]
                          \/ j = running /\ fut[j] = "pending"
    <3>1. /\ \A j \in Job : Due(j)' => Due(j)
          /\ \A j \in Single : running = j => ~Due(j)'
      BY <1>1, <1>6, RunDoes, DueAnswered
    <3>2. /\ \A j \in Job : \/ fut'[j] = fut[j]
                            \/ j = running /\ fut[j] = "pending"
          /\ UNCHANGED <<pc, result, id>> /\ running \in Job /\ Due(running)
          /\ pc[running[1]] # "idle"
      BY <1>6, RunDoes
    <3> QED
      BY <1>2, <3>1, <3>2, JobFacts
  <2>2. CASE /\ running[2] = "start"
             /\ Accept(running[1])
             /\ fut'[running] = fut[running] \/ fut'[running] \in {"ok", "error"}
    <3>1. PICK r \in Op : r = running[1]
      BY <2>1
    <3>2. /\ running = <<r, "start">> /\ Due(<<r, "start">>) /\ ~Due(<<r, "start">>)'
      BY <2>1, <2>2, <3>1
    <3>3. /\ owner' = r /\ status' = [id |-> id[r], state |-> "busy"]
          /\ chain'[r] = "busy" /\ \A q \in Op \ {r} : chain'[q] = chain[q]
      BY <1>1, <2>2, <3>1 DEF Accept, TypeOK
    <3>4. BlockInv'
      BY <2>1, <3>1, <3>3, StepChainAssumption DEF BlockInv
    <3>5. r # None
      BY StepChainAssumption
    <3>6. ASSUME NEW q \in Op
          PROVE  Started(q)'
      <4>1. CASE q = r
        <5>1. fut[<<r, "start">>] # "refused"
          BY <1>1, <3>2 DEF Started
        <5>2. fut'[<<r, "start">>] # "refused"
          BY <2>2, <3>2, <5>1
        <5>3. result[r] # "rejected"
          BY <1>1, <5>1 DEF Started
        <5>4. fut[<<r, "start">>] = "ok" => fut'[<<r, "start">>] = "ok"
          BY <1>2, <2>1
        <5> QED
          BY <1>1, <2>1, <3>1, <3>2, <3>3, <3>5, <4>1, <5>2, <5>3, <5>4 DEF Started
      <4>2. CASE q # r
        <5>1. /\ fut'[<<q, "start">>] = fut[<<q, "start">>]
              /\ Due(<<q, "start">>)' => Due(<<q, "start">>)
          BY <1>2, <2>1, <3>2, <4>2
        <5> QED
          BY <1>1, <2>1, <3>3, <3>5, <4>2, <5>1 DEF Started
      <4> QED
        BY <4>1, <4>2
    <3> QED
      BY <3>4, <3>6
  <2>3. CASE /\ UNCHANGED plc
             /\ running[2] = "start" => \/ fut'[running] = fut[running]
                                        \/ fut'[running] \in {"refused", "error"}
    <3>1. UNCHANGED <<status, owner, chain>>
      BY <2>3 DEF plc
    <3>2. BlockInv'
      BY <1>1, <2>1, <3>1, BlockStays
    <3>3. ASSUME NEW q \in Op
          PROVE  Started(q)'
      <4>1. CASE running = <<q, "start">>
        <5>1. /\ chain[q] = "none" /\ ~Due(<<q, "start">>)'
              /\ \/ fut'[<<q, "start">>] = fut[<<q, "start">>]
                 \/ /\ fut[<<q, "start">>] = "pending"
                    /\ fut'[<<q, "start">>] \in {"refused", "error"}
          BY <1>1, <1>2, <2>1, <2>3, <4>1 DEF Started
        <5> QED
          BY <1>1, <2>1, <3>1, <5>1, StartedStays
      <4>2. CASE running # <<q, "start">>
        <5>1. fut'[<<q, "start">>] = fut[<<q, "start">>]
          BY <1>2, <2>1, <4>2
        <5> QED
          BY <1>1, <1>2, <2>1, <3>1, <5>1, StartedStays
      <4> QED
        BY <4>1, <4>2
    <3> QED
      BY <3>2, <3>3
  <2> QED
    BY <1>6, <2>2, <2>3, RunPlc
<1>7. CASE Aside
  <2>1. /\ UNCHANGED <<pc, result, id, owner>>
        /\ \A j \in Job : Due(j)' <=> Due(j)
        /\ \A q \in Op : \/ fut'[<<q, "start">>] = fut[<<q, "start">>]
                         \/ fut[<<q, "start">>] = "pending" /\ fut'[<<q, "start">>] = "cancelled"
    BY <1>2, <1>7, AsideDoes DEF Due
  <2>2. CASE UNCHANGED <<status, chain>>
    <3>1. \A q \in Op : Started(q)'
      BY <1>1, <1>2, <2>1, <2>2, StartedStays
    <3> QED
      BY <1>1, <2>1, <2>2, <3>1, BlockStays
  <2>3. CASE ChainEnds
    <3>1. PICK s \in {"done", "error"} : /\ status' = [status EXCEPT !.state = s]
                                         /\ chain' = [chain EXCEPT ![owner] = s]
                                         /\ status.state = "busy"
      BY <2>3 DEF ChainEnds
    <3>2. /\ owner \in Op /\ owner # None /\ pc[owner] # "idle" /\ chain[owner] = "busy"
          /\ status' = [id |-> id[owner], state |-> s]
      <4>1. owner # None
        BY <1>1, <3>1 DEF BlockInv
      <4>2. /\ owner \in Op /\ pc[owner] # "idle"
            /\ status = [id |-> id[owner], state |-> chain[owner]]
        BY <1>1, <4>1 DEF BlockInv, TypeOK
      <4>3. chain[owner] = "busy"
        BY <3>1, <4>2
      <4>4. status' = [id |-> id[owner], state |-> s]
        BY <3>1, <4>2
      <4> QED
        BY <4>1, <4>2, <4>3, <4>4
    <3>3. chain'[owner] = s /\ \A q \in Op \ {owner} : chain'[q] = chain[q]
      BY <1>1, <3>1, <3>2 DEF TypeOK
    <3>4. BlockInv'
      BY <2>1, <3>2, <3>3 DEF BlockInv
    <3>5. ASSUME NEW q \in Op
          PROVE  Started(q)'
      <4>1. chain[q] = "none" => chain'[q] = "none"
        BY <3>2, <3>3
      <4> QED
        BY <1>1, <1>2, <2>1, <4>1 DEF Started
    <3> QED
      BY <3>4, <3>5
  <2> QED
    BY <1>7, <2>2, <2>3 DEF Aside, CancelAccepted, Expire, Notify, Close, plc
<1>8. CASE UNCHANGED vars
  <2>1. /\ UNCHANGED <<fut, pc, result, id, status, owner, chain>>
        /\ \A j \in Job : Due(j)' <=> Due(j)
    BY <1>8 DEF vars, local, plc, Due
  <2> QED
    BY <1>1, <1>2, <2>1, StartedStays, BlockStays
<1> QED
  BY <1>3, <1>4, <1>5, <1>6, <1>7, <1>8, StepCases
-----------------------------------------------------------------------------
(* What one step means for one operation *)

Begins(q) ==
    /\ pc[q] = "idle" /\ pc'[q] = "created"
    /\ result'[q] = result[q] /\ handles'[q] = handles[q]
    /\ fut'[<<q, "start">>] = "pending"
    /\ Backend[q] = "notify" => fut'[<<q, "register">>] = "pending"
    /\ \A name \in CallName : fut'[<<q, name>>] \in {"none", "pending"}
    /\ ~Due(<<q, "release">>)'

\* Its task, or a cancellation of it.
Goes(q) == TaskEffect(q)

\* The worker has answered the call of that name.
Gets(q, name) ==
    /\ Run
    /\ running = <<q, name>> /\ Due(<<q, name>>)
    /\ pc'[q] = pc[q] /\ result'[q] = result[q]
    /\ fut'[<<q, name>>] # "pending"
    /\ \/ fut'[<<q, name>>] = fut[<<q, name>>]
       \/ /\ fut[<<q, name>>] = "pending"
          /\ fut'[<<q, name>>] \in IF name = "start" THEN {"ok", "error", "refused"}
                                                     ELSE {"ok", "error"}
    /\ \A other \in CallName \ {name} : fut'[<<q, other>>] = fut[<<q, other>>]
    /\ \A other \in CallName : Due(<<q, other>>)' => Due(<<q, other>>)

\* Something else happens; its accepted future may be cancelled.
Rests(q) ==
    /\ pc'[q] = pc[q] /\ result'[q] = result[q] /\ handles'[q] = handles[q]
    /\ \A name \in CallName :
          /\ \/ fut'[<<q, name>>] = fut[<<q, name>>]
             \/ /\ name = "start" /\ fut[<<q, name>>] = "pending"
                /\ fut'[<<q, name>>] = "cancelled"
          /\ Due(<<q, name>>)' => Due(<<q, name>>)

LEMMA StepOf ==
    ASSUME TypeInv, [Next]_vars, NEW q \in Op
    PROVE  Begins(q) \/ Goes(q) \/ (\E name \in CallName : Gets(q, name)) \/ Rests(q)
<1>1. TypeOK /\ \A name \in CallName : <<q, name>> \in Job
  BY JobFacts DEF TypeInv
<1>2. ASSUME NEW o \in Op, Invoke(o)
      PROVE  Begins(q) \/ Rests(q)
  <2>1. /\ result' = result /\ handles' = handles
        /\ pc[o] = "idle" /\ pc' = [pc EXCEPT ![o] = "created"] /\ pc \in [Op -> PcState]
        /\ <<q, "release">> \in Job /\ <<q, "release">> \notin Single
    BY <1>1, <1>2, InvokeDoes, FrameTypes DEF notified, CallName, Single
  <2>2. Due(<<q, "release">>)' => Due(<<q, "release">>)
    BY <1>2, <2>1, InvokeDoes
  <2>3. CASE q = o
    <3>1. ~Due(<<q, "release">>) /\ \A name \in CallName : fut[<<q, name>>] = "none"
      BY <2>1, <2>3 DEF TypeInv, CallName
    <3>2. \A name \in CallName : fut'[<<q, name>>] \in {"none", "pending"}
      BY <1>1, <1>2, <2>3, <3>1, InvokeDoes
    <3> QED
      BY <1>2, <2>1, <2>2, <2>3, <3>1, <3>2, InvokeAsks DEF Begins
  <2>4. CASE q # o
    <3>1. pc'[q] = pc[q]
      BY <2>1, <2>4
    <3>2. ASSUME NEW name \in CallName
          PROVE  /\ fut'[<<q, name>>] = fut[<<q, name>>]
                 /\ Due(<<q, name>>)' => Due(<<q, name>>)
      <4>1. /\ <<q, name>> \in Job /\ <<q, name>>[1] # o
            /\ <<q, name>> # <<o, "start">> /\ <<q, name>> # <<o, "register">>
        BY <1>1, <2>4
      <4> QED
        BY <1>2, <4>1, InvokeDoes
    <3> QED
      BY <2>1, <3>1, <3>2 DEF Rests
  <2> QED
    BY <2>3, <2>4
<1>3. ASSUME NEW o \in Op, TaskStep(o)
      PROVE  Goes(q) \/ Rests(q)
  <2>1. TaskEffect(o)
    BY <1>1, <1>3, TaskDoes
  <2>2. CASE q = o
    BY <2>1, <2>2 DEF Goes
  <2>3. CASE q # o
    <3>1. pc'[q] = pc[q] /\ result'[q] = result[q] /\ handles' = handles /\ running' = running
      BY <2>1, <2>3 DEF TaskEffect, TaskFrame
    <3>2. ASSUME NEW name \in CallName
          PROVE  /\ fut'[<<q, name>>] = fut[<<q, name>>]
                 /\ Due(<<q, name>>)' => Due(<<q, name>>)
      <4>1. /\ <<q, name>> \in Job /\ <<q, name>>[1] # o
            /\ <<q, name>> # <<o, "read">> /\ <<q, name>> # <<o, "release">>
        BY <1>1, <2>3
      <4>2. fut'[<<q, name>>] = fut[<<q, name>>]
        BY <2>1, <4>1 DEF TaskEffect, TaskFut
      <4>3. Due(<<q, name>>)' => Due(<<q, name>>)
        BY <1>1, <2>1, <3>1, <4>1, QueueTypes DEF TaskEffect
      <4> QED
        BY <4>2, <4>3
    <3> QED
      BY <3>1, <3>2 DEF Rests
  <2> QED
    BY <2>2, <2>3
<1>4. CASE Take
  <2>1. /\ UNCHANGED <<pc, result, handles, fut>>
        /\ \A j \in Job : Due(j)' => Due(j)
    BY <1>1, <1>4, DueTail DEF Take, TypeOK, local, notified
  <2> QED
    BY <1>1, <2>1 DEF Rests
<1>5. CASE Run
  <2>1. /\ UNCHANGED <<pc, result>> /\ running \in Job /\ Due(running)
        /\ \A j \in Job : Due(j)' => Due(j)
        /\ \A j \in Job : j # running => fut'[j] = fut[j]
        /\ \/ fut'[running] = fut[running] /\ fut[running] # "pending"
           \/ /\ fut[running] = "pending"
              /\ fut'[running] \in {"ok", "error", "refused"}
              /\ fut'[running] = "refused" => running[2] = "start"
    BY <1>1, <1>5, RunDoes, DueAnswered
  <2>2. PICK o \in Op, name \in CallName : running = <<o, name>>
    BY <2>1, JobFacts
  <2>3. CASE q = o
    <3>1. /\ running = <<q, name>> /\ running[2] = name
          /\ \A other \in CallName \ {name} : <<q, other>> # running
      BY <2>2, <2>3
    <3>2. Gets(q, name)
      BY <1>1, <1>5, <2>1, <3>1 DEF Gets
    <3> QED
      BY <3>2
  <2>4. CASE q # o
    <3>1. \A other \in CallName : <<q, other>> # running
      BY <2>2, <2>4
    <3>2. handles'[q] = handles[q]
      BY <1>5, <3>1, RunHandles DEF CallName
    <3> QED
      BY <1>1, <2>1, <3>1, <3>2 DEF Rests
  <2> QED
    BY <2>3, <2>4
<1>6. CASE Aside
  <2>1. /\ UNCHANGED <<pc, result, handles>>
        /\ \A j \in Job : Due(j)' <=> Due(j)
        /\ \A j \in Job : \/ fut'[j] = fut[j]
                          \/ fut[j] = "pending" /\ fut'[j] = "cancelled" /\ j[2] = "start"
    BY <1>6, AsideDoes DEF Due
  <2>2. \A name \in CallName : <<q, name>>[2] = name
    OBVIOUS
  <2> QED
    BY <1>1, <2>1, <2>2 DEF Rests
<1>7. CASE UNCHANGED vars
  <2>1. UNCHANGED <<pc, result, handles, fut>> /\ \A j \in Job : Due(j)' <=> Due(j)
    BY <1>7 DEF vars, local, notified, Due
  <2> QED
    BY <1>1, <2>1 DEF Rests
<1> QED
  BY <1>2, <1>3, <1>4, <1>5, <1>6, <1>7, StepCases

-----------------------------------------------------------------------------
(* Every call that is awaited is answered *)

LEMMA PendingStep ==
    ASSUME TypeInv, [Next]_vars, NEW j \in Job,
           fut[j] = "pending" => Due(j), fut'[j] = "pending"
    PROVE  Due(j)'
<1>1. TypeOK
  BY DEF TypeInv
<1>2. ASSUME NEW o \in Op, Invoke(o)
      PROVE  Due(j)'
  BY <1>2, InvokeAsks, InvokeDoes
<1>3. ASSUME NEW o \in Op, TaskStep(o)
      PROVE  Due(j)'
  <2>1. TaskEffect(o)
    BY <1>1, <1>3, TaskDoes
  <2>2. running' = running /\ queue \in Seq(Job)
    BY <1>1, <2>1 DEF TaskEffect, TaskFrame, TypeOK
  <2>3. CASE fut'[j] = fut[j]
    BY <1>1, <2>1, <2>2, <2>3, QueueTypes DEF TaskEffect
  <2>4. CASE queue' = Append(queue, j)
    BY <2>2, <2>4, DueAppend
  <2> QED
    BY <2>1, <2>3, <2>4 DEF TaskEffect, TaskFut
<1>4. CASE Take
  <2>1. /\ queue \in Seq(Job) /\ queue # <<>> /\ queue' = Tail(queue) /\ running = None
        /\ running' = IF fut[Head(queue)] = "cancelled" THEN None ELSE Head(queue)
        /\ fut' = fut
    BY <1>1, <1>4 DEF Take, TypeOK
  <2>2. Due(j)' \/ (j = Head(queue) /\ running' = None)
    BY <2>1, DueTail
  <2>3. Head(queue) # None
    BY <2>1, HeadTail, JobFacts
  <2> QED
    BY <2>1, <2>2, <2>3
<1>5. CASE Run
  BY <1>5, RunDoes, DueAnswered
<1>6. CASE Aside
  BY <1>6, AsideDoes DEF Due
<1>7. CASE UNCHANGED vars
  BY <1>7 DEF vars, Due
<1> QED
  BY <1>2, <1>3, <1>4, <1>5, <1>6, <1>7, StepCases

LEMMA AnswerInit == Init => AnswerInv
  BY JobFacts DEF Init, AnswerInv, Answered

LEMMA AnswerStep ==
    ASSUME TypeInv, AnswerInv, [Next]_vars
    PROVE  AnswerInv'
<1> SUFFICES ASSUME NEW q \in Op
             PROVE  Answered(q)'
  BY DEF AnswerInv, Answered
<1>1. /\ Answered(q)
      /\ \A name \in CallName : <<q, name>> \in Job
      /\ Backend[q] \in {"poll", "notify"}
  BY JobFacts, StepChainAssumption DEF AnswerInv, Answered
<1>2. \A name \in CallName : fut'[<<q, name>>] = "pending" => Due(<<q, name>>)'
  BY <1>1, PendingStep DEF Answered
<1>3. CASE Begins(q)
  BY <1>2, <1>3 DEF Answered, Begins, CallName
<1>4. CASE Goes(q)
  <2>1. ASSUME NEW name \in CallName
        PROVE  \/ fut'[<<q, name>>] = fut[<<q, name>>]
               \/ /\ fut[<<q, name>>] = "pending" /\ fut'[<<q, name>>] = "cancelled"
                  /\ pc'[q] \in {"releasing", "ended"}
               \/ name \in {"read", "release"} /\ fut'[<<q, name>>] = "pending"
    BY <1>1, <1>4 DEF Goes, TaskEffect, TaskFut
  <2>2. /\ pc[q] # "idle" /\ pc'[q] # "created"
        /\ pc'[q] = "registering" => pc[q] = "created" /\ Backend[q] = "notify"
        /\ pc'[q] = "reading" => fut'[<<q, "read">>] = "pending"
        /\ pc'[q] = "releasing" => fut'[<<q, "release">>] = "pending"
    BY <1>4 DEF Goes, TaskEffect, TaskFrame, TaskPc
  <2>3. \A name \in CallName : fut'[<<q, name>>] = "refused" => name = "start"
    BY <1>1, <2>1 DEF Answered
  <2>4. fut'[<<q, "start">>] # "none"
    BY <1>1, <2>1, <2>2 DEF Answered, CallName
  <2>5. pc'[q] = "registering" => fut'[<<q, "register">>] \in {"pending", "ok", "error"}
    BY <1>1, <2>1, <2>2 DEF Answered, CallName
  <2> QED
    BY <1>2, <2>2, <2>3, <2>4, <2>5 DEF Answered
<1>5. ASSUME NEW name \in CallName, Gets(q, name)
      PROVE  Answered(q)'
  <2>1. \A other \in CallName :
           \/ fut'[<<q, other>>] = fut[<<q, other>>]
           \/ /\ fut[<<q, other>>] = "pending"
              /\ fut'[<<q, other>>] \in {"ok", "error", "refused"}
              /\ fut'[<<q, other>>] = "refused" => other = "start"
    BY <1>5 DEF Gets
  <2>2. pc'[q] = pc[q]
    BY <1>5 DEF Gets
  <2> QED
    BY <1>1, <1>2, <2>1, <2>2 DEF Answered, CallName
<1>6. CASE Rests(q)
  BY <1>1, <1>2, <1>6 DEF Answered, Rests, CallName
<1> QED
  BY <1>3, <1>4, <1>5, <1>6, StepOf

\* Whatever fails, is cancelled or closed, a task awaits a call that the worker still
\* has, or whose answer it knows how to take.
THEOREM AwaitsAnsweredHolds == Spec => []AwaitsAnswered
<1>1. Init => TypeInv /\ AnswerInv
  BY TypeInit, AnswerInit
<1>2. (TypeInv /\ AnswerInv) /\ [Next]_vars => (TypeInv /\ AnswerInv)'
  BY TypeStep, AnswerStep
<1>3. ASSUME TypeInv, AnswerInv
      PROVE  AwaitsAnswered
  <2> SUFFICES ASSUME NEW o \in Op, Awaited(o) # "none"
               PROVE  \/ fut[<<o, Awaited(o)>>] = "pending" /\ Due(<<o, Awaited(o)>>)
                      \/ fut[<<o, Awaited(o)>>] \in {"ok", "error"}
                      \/ fut[<<o, Awaited(o)>>] \in {"refused", "cancelled"} /\ pc[o] = "accepting"
    BY DEF AwaitsAnswered
  <2>1. PICK name \in CallName : name = Awaited(o)
    BY DEF Awaited, CallName
  <2>2. fut[<<o, name>>] \in FutState
    BY <1>3, JobFacts DEF TypeInv, TypeOK, FutState
  <2>3. /\ Answered(o)
        /\ fut[<<o, name>>] = "pending" => Due(<<o, name>>)
    BY <1>3 DEF AnswerInv, Answered
  <2>4. \/ pc[o] = "registering" /\ name = "register"
        \/ pc[o] = "accepting" /\ name = "start"
        \/ pc[o] = "reading" /\ name = "read"
        \/ pc[o] = "releasing" /\ name = "release"
    BY <2>1 DEF Awaited
  <2> QED
    BY <2>1, <2>2, <2>3, <2>4 DEF Answered, FutState
<1> QED
  BY <1>1, <1>2, <1>3, PTL DEF Spec

-----------------------------------------------------------------------------
(* Request ids *)

Generated == {o \in Op : GivenId[o] = None}

\* Fewer operations than the modulus have an id generated, and the ids that callers
\* give are different, none of them one that the counter reaches.
IdsApart ==
    /\ IsFiniteSet(Op)
    /\ Cardinality(Generated) < IdModulus
    /\ \A o \in Op : GivenId[o] # None =>
          /\ GivenId[o] \notin 1 .. Cardinality(Generated)
          /\ \A q \in Op \ {o} : GivenId[q] # GivenId[o]

Numbered == {o \in Generated : id[o] # None}

\* The counter is ahead of every id it gave.
IdInv ==
    /\ counter = Cardinality(Numbered) + 1
    /\ \A o \in Op \ Generated : id[o] \in {None, GivenId[o]}
    /\ \A o \in Numbered : id[o] \in 1 .. Cardinality(Numbered)
    /\ \A o, q \in Numbered : o # q => id[o] # id[q]

LEMMA GeneratedFinite ==
    ASSUME IdsApart, NEW S, S \subseteq Generated
    PROVE  /\ IsFiniteSet(S) /\ Cardinality(S) \in Nat
           /\ Cardinality(S) <= Cardinality(Generated)
           /\ Cardinality(Generated) \in Nat
<1>1. Generated \subseteq Op
  BY DEF Generated
<1>2. IsFiniteSet(Generated)
  BY <1>1, FS_Subset DEF IdsApart
<1> QED
  BY <1>2, FS_Subset, FS_CardinalityType

LEMMA IdsDiffer ==
    ASSUME IdsApart, TypeOK, IdInv
    PROVE  DistinctIds
<1> SUFFICES ASSUME NEW o \in Op, NEW q \in Op, o # q, id[o] = id[q], id[o] # None
             PROVE  FALSE
  BY DEF DistinctIds
<1>1. \A r \in Numbered : id[r] \in 1 .. Cardinality(Generated)
  <2>1. Numbered \subseteq Generated
    BY DEF Numbered
  <2> QED
    BY <2>1, GeneratedFinite DEF IdInv
<1>2. CASE o \in Generated /\ q \in Generated
  BY <1>2 DEF IdInv, Numbered
<1>3. CASE o \notin Generated /\ q \notin Generated
  BY <1>3 DEF IdInv, IdsApart, Generated
<1>4. CASE o \in Generated /\ q \notin Generated
  BY <1>1, <1>4 DEF IdInv, IdsApart, Numbered, Generated
<1>5. CASE o \notin Generated /\ q \in Generated
  BY <1>1, <1>5 DEF IdInv, IdsApart, Numbered, Generated
<1> QED
  BY <1>2, <1>3, <1>4, <1>5

LEMMA IdInit ==
    ASSUME IdsApart, Init
    PROVE  IdInv
<1>1. Numbered = {}
  BY DEF Init, Numbered, Generated
<1>2. Cardinality(Numbered) = 0
  BY <1>1, FS_EmptySet
<1> QED
  BY <1>1, <1>2 DEF Init, IdInv, Generated

LEMMA IdStep ==
    ASSUME IdsApart, TypeInv, IdInv, [Next]_vars
    PROVE  IdInv'
<1>1. id \in [Op -> Nat \cup {None}] /\ Generated \subseteq Op /\ Numbered \subseteq Generated
  BY DEF TypeInv, TypeOK, Generated, Numbered
<1>2. CASE UNCHANGED <<id, counter>>
  <2>1. Numbered' = Numbered
    BY <1>2 DEF Numbered
  <2> QED
    BY <1>2, <2>1 DEF IdInv
<1>3. ASSUME NEW o \in Op, Invoke(o), o \notin Generated
      PROVE  IdInv'
  <2>1. id' = [id EXCEPT ![o] = GivenId[o]] /\ counter' = counter
    BY <1>3 DEF Invoke, Generated
  <2>2. Numbered' = Numbered /\ \A q \in Numbered : id'[q] = id[q]
    BY <1>1, <1>3, <2>1 DEF Numbered
  <2>3. \A q \in Op \ Generated : id'[q] \in {None, GivenId[q]}
    BY <1>1, <2>1 DEF IdInv
  <2> QED
    BY <2>1, <2>2, <2>3 DEF IdInv
<1>4. ASSUME NEW o \in Op, Invoke(o), o \in Generated
      PROVE  IdInv'
  <2>1. id' = [id EXCEPT ![o] = counter % IdModulus] /\ counter' = counter + 1
    BY <1>4 DEF Invoke, Generated
  <2>2. o \notin Numbered
    BY <1>4 DEF Numbered, Invoke, TypeInv
  <2>3. /\ IsFiniteSet(Numbered) /\ Cardinality(Numbered) \in Nat
        /\ Cardinality(Generated) \in Nat
        /\ Cardinality(Numbered \cup {o}) = Cardinality(Numbered) + 1
        /\ Cardinality(Numbered \cup {o}) <= Cardinality(Generated)
    BY <1>1, <1>4, <2>2, GeneratedFinite, FS_AddElement
  <2>4. counter % IdModulus = counter
    <3>1. counter \in Nat /\ counter < IdModulus /\ IdModulus \in Nat \ {0}
      BY <2>3, StepChainAssumption DEF IdInv, IdsApart
    <3> QED
      BY <3>1
  <2>5. id'[o] = counter /\ counter # None /\ \A q \in Op \ {o} : id'[q] = id[q]
    BY <1>1, <2>1, <2>3, <2>4, StepChainAssumption DEF IdInv
  <2>6. Numbered' = Numbered \cup {o}
    BY <1>1, <1>4, <2>5 DEF Numbered
  <2>7. counter' = Cardinality(Numbered') + 1
    BY <2>1, <2>3, <2>6 DEF IdInv
  <2>8. \A q \in Op \ Generated : id'[q] \in {None, GivenId[q]}
    BY <1>4, <2>5 DEF IdInv
  <2>9. \A q \in Numbered' : id'[q] \in 1 .. Cardinality(Numbered')
    BY <1>1, <2>2, <2>3, <2>5, <2>6 DEF IdInv
  <2>10. \A q, r \in Numbered' : q # r => id'[q] # id'[r]
    BY <1>1, <2>2, <2>3, <2>5, <2>6 DEF IdInv
  <2> QED
    BY <2>7, <2>8, <2>9, <2>10 DEF IdInv
<1>5. ASSUME NEW o \in Op, TaskStep(o)
      PROVE  UNCHANGED <<id, counter>>
  BY <1>5, TaskDoes DEF TypeInv, TaskEffect, TaskFrame
<1> QED
  BY <1>2, <1>3, <1>4, <1>5, StepCases, RunDoes, AsideDoes DEF Take, vars, local
-----------------------------------------------------------------------------
(* Endings and wake-ups, as long as request ids differ *)

\* What a result says of the chain of its operation.
ResultInv ==
    \A o \in Op :
        /\ result[o] = "done" => chain[o] = "done"
        /\ result[o] = "failed" => chain[o] = "error"

EndInv == SeenInv /\ ResultInv

LEMMA OwnEndingParts ==
    ASSUME StartInv, ResultInv
    PROVE  OwnEnding
  BY DEF StartInv, Started, BlockInv, ResultInv, OwnEnding

\* Each chain goes from busy to its end and stays there.
LEMMA ChainStays ==
    ASSUME TypeInv, StartInv, [Next]_vars, NEW q \in Op, chain[q] \in {"done", "error"}
    PROVE  chain'[q] = chain[q]
<1>1. chain \in [Op -> {"none", "busy", "done", "error"}]
  BY DEF TypeInv, TypeOK
<1>2. CASE Run
  <2>1. running = <<running[1], running[2]>> /\ running[1] \in Op /\ Due(running)
    BY <1>2, RunDoes, JobFacts
  <2>2. CASE running[2] = "start" /\ Accept(running[1])
    <3>1. chain[running[1]] = "none"
      BY <2>1, <2>2 DEF StartInv, Started, BlockInv
    <3> QED
      BY <1>1, <2>2, <3>1 DEF Accept
  <2> QED
    BY <1>2, <2>2, RunPlc DEF plc
<1>3. CASE ChainEnds
  BY <1>1, <1>3 DEF ChainEnds, StartInv, Started, BlockInv, TypeInv, TypeOK
<1>4. ASSUME NEW o \in Op, TaskStep(o)
      PROVE  chain' = chain
  BY <1>4, TaskDoes DEF TypeInv, TaskEffect, TaskFrame, plc
<1> QED
  BY <1>2, <1>3, <1>4, StepCases, InvokeDoes
     DEF Take, Aside, CancelAccepted, Expire, Notify, Close, vars, plc
\* The status structure read with the sub-commands in missed failing.
Snap(missed) ==
    [id    |-> IF "id" \in missed THEN ErrorText ELSE status.id,
     done  |-> IF "done" \in missed THEN ErrorText ELSE status.state = "done",
     error |-> IF "error" \in missed THEN ErrorText ELSE status.state = "error"]

\* Only an answered read of an operation changes what it has seen.
LEMMA RunSeen ==
    ASSUME TypeInv, Run, NEW q \in Op
    PROVE  \/ /\ seen'[q] = seen[q]
              /\ fut'[<<q, "read">>] = "ok" => fut[<<q, "read">>] = "ok"
           \/ /\ running = <<q, "read">>
              /\ \E missed \in SUBSET MayMiss : seen'[q] = Snap(missed)
<1>1. /\ running \in Job /\ running = <<running[1], running[2]>> /\ running[1] \in Op
      /\ <<q, "read">> \in Job
      /\ fut \in [Job -> FutState] /\ seen \in [Op -> Snapshot \cup {None}]
  BY JobFacts, RunDoes DEF TypeInv, TypeOK, FutState, CallName
<1>2. CASE RunRead
  <2>1. CASE Answer("error") /\ UNCHANGED seen
    BY <1>1, <2>1 DEF Answer
  <2>2. CASE /\ Answer("ok")
             /\ \E missed \in SUBSET MayMiss :
                   seen' = [seen EXCEPT ![running[1]] = Snap(missed)]
    <3>1. PICK missed \in SUBSET MayMiss : seen' = [seen EXCEPT ![running[1]] = Snap(missed)]
      BY <2>2
    <3>2. CASE running[1] = q
      BY <1>1, <1>2, <3>1, <3>2 DEF RunRead
    <3>3. CASE running[1] # q
      <4>1. running # <<q, "read">>
        BY <3>3
      <4> QED
        BY <1>1, <2>2, <3>1, <3>3, <4>1 DEF Answer
    <3> QED
      BY <3>2, <3>3
  <2> QED
    BY <1>2, <2>1, <2>2 DEF RunRead, Snap
<1>3. CASE RunRegister \/ RunStart \/ RunRelease
  <2>1. running[2] # "read" /\ seen' = seen
    BY <1>3 DEF RunRegister, RunStart, RunRelease
  <2>2. running # <<q, "read">>
    BY <2>1
  <2> QED
    BY <1>1, <2>1, <2>2, RunDoes
<1> QED
  BY <1>2, <1>3 DEF Run

LEMMA SeenStays ==
    ASSUME TypeInv, StartInv, [Next]_vars, NEW q \in Op, Seen(q),
           seen'[q] = seen[q],
           fut'[<<q, "read">>] = "ok" => fut[<<q, "read">>] = "ok",
           pc[q] # "idle" => pc'[q] # "idle" /\ id'[q] = id[q]
    PROVE  Seen(q)'
<1>1. chain[q] \in {"done", "error"} => chain'[q] = chain[q]
  BY ChainStays
<1> QED
  BY <1>1 DEF Seen

\* A status shown as ended with the id of an operation is the end of its chain.
LEMMA StatusTrue ==
    ASSUME TypeInv, StartInv, DistinctIds, NEW q \in Op, pc[q] # "idle",
           status.id = id[q], status.state \in {"done", "error"}
    PROVE  owner = q /\ chain[q] = status.state
<1>1. owner # None /\ owner \in Op /\ status.id = id[owner] /\ status.state = chain[owner]
  BY DEF StartInv, Started, BlockInv, TypeInv, TypeOK
<1>2. id[q] # None
  BY DEF TypeInv
<1> QED
  BY <1>1, <1>2 DEF DistinctIds

LEMMA SnapTrue ==
    ASSUME TypeInv, StartInv, DistinctIds, MayMiss \subseteq {"id"},
           NEW q \in Op, pc[q] # "idle", NEW missed \in SUBSET MayMiss
    PROVE  /\ Snap(missed).done = (status.state = "done")
           /\ Snap(missed).error = (status.state = "error")
           /\ Snap(missed).id = id[q] /\ status.state \in {"done", "error"} =>
                 chain[q] = status.state
<1>1. /\ Snap(missed).done = (status.state = "done")
      /\ Snap(missed).error = (status.state = "error")
  BY DEF Snap
<1>2. id[q] \in Nat /\ ErrorText \notin Nat
  BY StepChainAssumption DEF TypeInv, TypeOK
<1>3. Snap(missed).id = id[q] => status.id = id[q]
  BY <1>2 DEF Snap
<1> QED
  BY <1>1, <1>3, StatusTrue

LEMMA SeenStep ==
    ASSUME TypeInv, StartInv, DistinctIds, MayMiss \subseteq {"id"}, SeenInv, [Next]_vars
    PROVE  SeenInv'
<1>1. /\ TypeOK /\ \A q \in Op : Seen(q)
      /\ \A q \in Op : <<q, "read">> \in Job /\ <<q, "read">> \notin Single
  BY JobFacts DEF SeenInv, Seen, TypeInv, CallName, Single
<1> SUFFICES ASSUME NEW q \in Op
             PROVE  Seen(q)'
  BY DEF SeenInv, Seen
<1>2. ASSUME NEW o \in Op, Invoke(o)
      PROVE  Seen(q)'
  <2>1. /\ seen' = seen /\ fut'[<<q, "read">>] = fut[<<q, "read">>]
        /\ pc[o] = "idle" /\ pc' = [pc EXCEPT ![o] = "created"] /\ pc \in [Op -> PcState]
        /\ \A r \in Op \ {o} : id'[r] = id[r]
    BY <1>1, <1>2, InvokeDoes, FrameTypes
  <2> QED
    BY <1>1, <2>1, SeenStays
<1>3. ASSUME NEW o \in Op, TaskStep(o)
      PROVE  Seen(q)'
  <2>1. TaskEffect(o)
    BY <1>1, <1>3, TaskDoes
  <2>2. /\ seen' = seen /\ id' = id
        /\ pc[q] # "idle" => pc'[q] # "idle"
    BY <2>1 DEF TaskEffect, TaskFrame
  <2>3. fut'[<<q, "read">>] = "ok" => fut[<<q, "read">>] = "ok"
    BY <1>1, <2>1 DEF TaskEffect, TaskFut
  <2> QED
    BY <1>1, <2>2, <2>3, SeenStays
<1>4. CASE Take
  BY <1>1, <1>4, SeenStays DEF Take, local
<1>5. CASE Run
  <2>1. pc' = pc /\ id' = id
    BY <1>5, RunDoes
  <2>2. CASE /\ seen'[q] = seen[q]
             /\ fut'[<<q, "read">>] = "ok" => fut[<<q, "read">>] = "ok"
    BY <1>1, <2>1, <2>2, SeenStays
  <2>3. ASSUME NEW missed \in SUBSET MayMiss, running = <<q, "read">>,
               seen'[q] = Snap(missed)
        PROVE  Seen(q)'
    <3>1. pc[q] # "idle" /\ running[2] # "start"
      BY <1>5, <2>3, RunDoes
    <3>2. chain' = chain
      BY <1>5, <3>1, RunPlc DEF plc
    <3>3. /\ seen'[q].done = (status.state = "done")
          /\ seen'[q].error = (status.state = "error")
          /\ seen'[q].id = id[q] /\ status.state \in {"done", "error"} =>
                chain[q] = status.state
      BY <2>3, <3>1, SnapTrue
    <3> QED
      BY <2>1, <3>1, <3>2, <3>3 DEF Seen
  <2> QED
    BY <1>5, <2>2, <2>3, RunSeen
<1>6. CASE Aside
  BY <1>1, <1>6, AsideDoes, SeenStays
<1>7. CASE UNCHANGED vars
  BY <1>1, <1>7, SeenStays DEF vars, local
<1> QED
  BY <1>2, <1>3, <1>4, <1>5, <1>6, <1>7, StepCases

LEMMA ResultStep ==
    ASSUME TypeInv, StartInv, SeenInv, ResultInv, [Next]_vars
    PROVE  ResultInv'
<1> SUFFICES ASSUME NEW q \in Op
             PROVE  /\ result'[q] = "done" => chain'[q] = "done"
                    /\ result'[q] = "failed" => chain'[q] = "error"
  BY DEF ResultInv
<1>1. /\ result[q] = "done" => chain[q] = "done"
      /\ result[q] = "failed" => chain[q] = "error"
      /\ chain[q] \in {"done", "error"} => chain'[q] = chain[q]
  BY ChainStays DEF ResultInv
<1>2. CASE result' = result
  BY <1>1, <1>2
<1>3. ASSUME NEW o \in Op, TaskStep(o)
      PROVE  /\ result'[q] = "done" => chain'[q] = "done"
             /\ result'[q] = "failed" => chain'[q] = "error"
  <2>1. TaskEffect(o)
    BY <1>3, TaskDoes DEF TypeInv
  <2>2. CASE q # o
    BY <1>1, <2>1, <2>2 DEF TaskEffect, TaskFrame
  <2>3. CASE q = o
    <3>1. fut[<<q, "read">>] = "ok" /\ IsDone(q) => chain[q] = "done"
      BY DEF SeenInv, Seen, IsDone, Own, Shows
    <3>2. fut[<<q, "read">>] = "ok" /\ IsFailed(q) => chain[q] = "error"
      BY DEF SeenInv, Seen, IsFailed, Own, Shows
    <3> QED
      BY <1>1, <2>1, <2>3, <3>1, <3>2 DEF TaskEffect, TaskResult
  <2> QED
    BY <2>2, <2>3
<1> QED
  BY <1>2, <1>3, StepCases, InvokeDoes, RunDoes, AsideDoes DEF Take, vars, local

\* With ids that differ, and sum reads that may miss no more than the id, every
\* operation ends as its own chain did.
THEOREM OwnEndingHolds ==
    ASSUME IdsApart, MayMiss \subseteq {"id"}
    PROVE  Spec => []OwnEnding
<1> DEFINE Inv == TypeInv /\ StartInv /\ IdInv /\ SeenInv /\ ResultInv
<1>1. ASSUME Init
      PROVE  Inv
  <2>1. SeenInv /\ ResultInv
    BY <1>1, JobFacts DEF Init, SeenInv, Seen, ResultInv, CallName
  <2> QED
    BY <1>1, <2>1, TypeInit, StartInit, IdInit
<1>2. ASSUME Inv, [Next]_vars
      PROVE  Inv'
  <2>1. DistinctIds
    BY <1>2, IdsDiffer DEF TypeInv
  <2> QED
    BY <1>2, <2>1, TypeStep, StartStep, IdStep, SeenStep, ResultStep
<1>3. Inv => OwnEnding
  BY OwnEndingParts
<1> HIDE DEF Inv
<1> QED
  BY <1>1, <1>2, <1>3, PTL DEF Spec
-----------------------------------------------------------------------------
LEMMA SampledStep ==
    ASSUME TypeInv, StartInv, SampledInv, [Next]_vars
    PROVE  SampledInv'
<1>1. \A q \in Op : id[q] # None => id'[q] = id[q]
  <2>1. ASSUME NEW o \in Op, Invoke(o)
        PROVE  \A q \in Op : id[q] # None => id'[q] = id[q]
    BY <2>1, InvokeDoes DEF TypeInv
  <2>2. ASSUME NEW o \in Op, TaskStep(o)
        PROVE  id' = id
    BY <2>2, TaskDoes DEF TypeInv, TaskEffect, TaskFrame
  <2> QED
    BY <2>1, <2>2, StepCases, RunDoes, AsideDoes DEF Take, vars, local
<1>2. \A q \in Op : chain[q] \in {"done", "error"} => chain'[q] = chain[q]
  BY ChainStays
<1>3. ASSUME NEW o \in Op, NEW x \in Status, x.state \in {"done", "error"},
             \E q \in Op : id[q] # None /\ x = [id |-> id[q], state |-> chain[q]]
      PROVE  \E q \in Op : id'[q] # None /\ x = [id |-> id'[q], state |-> chain'[q]]
  <2>1. PICK q \in Op : id[q] # None /\ x = [id |-> id[q], state |-> chain[q]]
    BY <1>3
  <2> QED
    BY <1>1, <1>2, <1>3, <2>1
<1>4. sampled \in [Op -> Status \cup {None}]
  BY DEF TypeInv, TypeOK
<1>5. CASE sampled' = sampled
  BY <1>3, <1>4, <1>5 DEF SampledInv
<1>6. ASSUME NEW r \in Op, Notify(r)
      PROVE  SampledInv'
  <2>1. /\ sampled' = [sampled EXCEPT ![r] = status]
        /\ UNCHANGED <<id, chain>>
    BY <1>6 DEF Notify, local, plc
  <2>2. status.state \in {"done", "error"} =>
           \E q \in Op : id[q] # None /\ status = [id |-> id[q], state |-> chain[q]]
    BY DEF StartInv, Started, BlockInv, TypeInv, TypeOK
  <2> QED
    BY <1>4, <2>1, <2>2 DEF SampledInv
<1>7. ASSUME NEW o \in Op, TaskStep(o)
      PROVE  sampled' = sampled
  BY <1>7, TaskDoes DEF TypeInv, TaskEffect, TaskFrame
<1>8. CASE Run
  BY <1>5, <1>8 DEF Run, RunRegister, RunStart, RunRead, RunRelease, notified
<1> QED
  BY <1>5, <1>6, <1>7, <1>8, StepCases, InvokeDoes
     DEF Take, Aside, CancelAccepted, Expire, Close, ChainEnds, vars, notified
\* Whatever makes no operation see less and notifies nothing keeps it awake.
LEMMA AwakeStays ==
    ASSUME NEW q \in Op, Awake(q),
           events'[q] = events[q], sampled'[q] = sampled[q], status' = status,
           id'[q] = id[q], seen'[q] = seen[q],
           pc'[q] = pc[q],
           fut'[<<q, "read">>] = "ok" => fut[<<q, "read">>] = "ok"
    PROVE  Awake(q)'
  BY DEF Awake, Notified, IsFailed, IsDone, Own

\* The end of a chain is a status that was never notified before.
LEMMA EndIsNew ==
    ASSUME TypeInv, StartInv, SampledInv, DistinctIds, ChainEnds, NEW q \in Op
    PROVE  ~Notified(q)'
<1>1. PICK s \in {"done", "error"} : status' = [status EXCEPT !.state = s]
  BY DEF ChainEnds
<1>2. /\ status.state = "busy" /\ sampled' = sampled
  BY DEF ChainEnds, notified
<1>3. /\ owner \in Op /\ id[owner] # None /\ chain[owner] = "busy"
      /\ status' = [id |-> id[owner], state |-> s]
  <2>1. owner # None
    BY <1>2 DEF StartInv, BlockInv
  <2>2. /\ owner \in Op /\ pc[owner] # "idle"
        /\ status = [id |-> id[owner], state |-> chain[owner]]
    BY <2>1 DEF StartInv, BlockInv, TypeInv, TypeOK
  <2>3. chain[owner] = "busy"
    BY <1>2, <2>2
  <2>4. status' = [id |-> id[owner], state |-> s]
    BY <1>1, <2>2
  <2>5. id[owner] # None
    BY <2>2 DEF TypeInv, TypeOK
  <2> QED
    BY <2>2, <2>3, <2>4, <2>5
<1>4. SUFFICES ASSUME sampled[q] = status'
               PROVE  FALSE
  BY <1>2 DEF Notified
<1>5. sampled[q] # None
  <2>1. status' \in Status
    BY OtherTypes DEF PlcTypes
  <2> QED
    BY <1>4, <2>1, StepChainAssumption
<1>6. PICK r \in Op : id[r] # None /\ sampled[q] = [id |-> id[r], state |-> chain[r]]
  BY <1>1, <1>3, <1>4, <1>5 DEF SampledInv
<1>7. id[r] = id[owner] /\ chain[r] = s
  BY <1>3, <1>4, <1>6
<1> QED
  BY <1>3, <1>7 DEF DistinctIds

LEMMA WakeStep ==
    ASSUME TypeInv, StartInv, SampledInv, DistinctIds, "id" \notin MayMiss, WakeInv, [Next]_vars
    PROVE  WakeInv'
<1>1. /\ TypeOK /\ \A q \in Op : Awake(q)
      /\ \A q \in Op : <<q, "read">> \in Job /\ <<q, "read">> \notin Single
  BY JobFacts DEF WakeInv, Awake, TypeInv, CallName, Single
<1> SUFFICES ASSUME NEW q \in Op
             PROVE  Awake(q)'
  BY DEF WakeInv, Awake
<1>2. ASSUME NEW o \in Op, Invoke(o)
      PROVE  Awake(q)'
  <2>1. /\ UNCHANGED <<seen, status, sampled, events>>
        /\ fut'[<<q, "read">>] = fut[<<q, "read">>]
        /\ pc[o] = "idle" /\ pc' = [pc EXCEPT ![o] = "created"] /\ pc \in [Op -> PcState]
        /\ \A r \in Op \ {o} : id'[r] = id[r]
    BY <1>1, <1>2, InvokeDoes, FrameTypes DEF notified, plc
  <2>2. CASE q = o
    BY <2>1, <2>2 DEF Awake
  <2>3. CASE q # o
    BY <1>1, <2>1, <2>3, AwakeStays
  <2> QED
    BY <2>2, <2>3
<1>3. ASSUME NEW o \in Op, TaskStep(o)
      PROVE  Awake(q)'
  <2>1. TaskEffect(o)
    BY <1>1, <1>3, TaskDoes
  <2>2. UNCHANGED <<seen, id, status, sampled>>
    BY <2>1 DEF TaskEffect, TaskFrame, plc
  <2>3. CASE q = o
    <3>1. pc'[q] = "reading" => fut'[<<q, "read">>] = "pending"
      BY <2>1, <2>3 DEF TaskEffect, TaskPc
    <3>2. pc'[q] = "waiting" => /\ pc[q] = "reading" /\ fut[<<q, "read">>] = "ok"
                                /\ ~IsFailed(q) /\ ~IsDone(q)
                                /\ events' = events
      BY <2>1, <2>3 DEF TaskEffect, TaskPc
    <3> QED
      BY <1>1, <2>2, <3>1, <3>2 DEF Awake, Notified
  <2>4. CASE q # o
    <3>1. <<q, "read">>[1] # o /\ <<q, "read">> # <<o, "read">> /\ <<q, "read">> # <<o, "release">>
      BY <2>4
    <3>2. fut'[<<q, "read">>] = fut[<<q, "read">>]
      BY <1>1, <2>1, <3>1 DEF TaskEffect, TaskFut
    <3>3. events'[q] = events[q] /\ pc'[q] = pc[q]
      BY <2>1, <2>4 DEF TaskEffect, TaskFrame
    <3> QED
      BY <1>1, <2>2, <3>2, <3>3, AwakeStays
  <2> QED
    BY <2>3, <2>4
<1>4. CASE Take
  BY <1>1, <1>4, AwakeStays DEF Take, local, notified, plc
<1>5. CASE Run
  <2>1. UNCHANGED <<pc, id, sampled, events>>
    BY <1>5, RunDoes DEF Run, RunRegister, RunStart, RunRead, RunRelease, notified
  <2>2. status' = status \/ status'.state = "busy"
    BY <1>5, RunPlc DEF Accept, plc
  <2>3. CASE status' = status
    <3>1. CASE /\ seen'[q] = seen[q]
               /\ fut'[<<q, "read">>] = "ok" => fut[<<q, "read">>] = "ok"
      BY <1>1, <2>1, <2>3, <3>1, AwakeStays
    <3>2. ASSUME NEW missed \in SUBSET MayMiss, seen'[q] = Snap(missed), Notified(q)
          PROVE  (IsFailed(q) \/ IsDone(q))' /\ pc[q] # "waiting"
      <4>1. seen'[q].id = id'[q]
        BY <2>1, <3>2 DEF Snap, Notified
      <4>2. ErrorText # FALSE
        BY StepChainAssumption
      <4>3. status.state = "error" => Shows(seen'[q].error)
        <5>1. status.state = "error" => Snap(missed).error \in {ErrorText, TRUE}
          BY Zenon DEF Snap
        <5> QED
          BY <3>2, <4>2, <5>1 DEF Shows
      <4>4. status.state = "done" => Shows(seen'[q].done)
        <5>1. status.state = "done" => Snap(missed).done \in {ErrorText, TRUE}
          BY Zenon DEF Snap
        <5> QED
          BY <3>2, <4>2, <5>1 DEF Shows
      <4> QED
        BY <1>1, <3>2, <4>1, <4>3, <4>4 DEF IsFailed, IsDone, Own, Notified, Awake
    <3>3. Notified(q)' <=> Notified(q)
      BY <2>1, <2>3 DEF Notified
    <3> QED
      BY <1>5, <2>1, <3>1, <3>2, <3>3, RunSeen DEF Awake
  <2>4. CASE status'.state = "busy"
    BY <2>4 DEF Awake, Notified
  <2> QED
    BY <2>2, <2>3, <2>4
<1>6. CASE Aside
  <2>1. /\ UNCHANGED <<pc, id, seen>>
        /\ fut'[<<q, "read">>] = "ok" => fut[<<q, "read">>] = "ok"
    BY <1>1, <1>6, AsideDoes
  <2>2. CASE ChainEnds
    BY <2>2, EndIsNew DEF Awake
  <2>3. ASSUME NEW o \in Op, Notify(o)
        PROVE  Awake(q)'
    <3>1. status' = status
      BY <2>3 DEF Notify, plc
    <3>2. CASE q = o
      <4>1. events'[q] # 0
        <5>1. events \in [Op -> 0 .. EventLimit] /\ EventLimit \in Nat \ {0}
          BY <1>1, FrameTypes
        <5>2. events'[q] = IF events[q] < EventLimit THEN events[q] + 1 ELSE events[q]
          BY <2>3, <3>2, <5>1 DEF Notify
        <5> QED
          BY <5>1, <5>2
      <4> QED
        BY <4>1 DEF Awake, Notified
    <3>3. CASE q # o
      <4>1. events'[q] = events[q] /\ sampled'[q] = sampled[q]
        BY <2>3, <3>3 DEF Notify
      <4> QED
        BY <1>1, <2>1, <3>1, <4>1, AwakeStays
    <3> QED
      BY <3>2, <3>3
  <2>4. CASE UNCHANGED <<status, sampled, events>>
    BY <1>1, <2>1, <2>4, AwakeStays
  <2> QED
    BY <1>6, <2>2, <2>3, <2>4 DEF Aside, CancelAccepted, Expire, Close, plc, notified
<1>7. CASE UNCHANGED vars
  BY <1>1, <1>7, AwakeStays DEF vars, local, notified, plc
<1> QED
  BY <1>2, <1>3, <1>4, <1>5, <1>6, <1>7, StepCases

LEMMA RunRegistered ==
    ASSUME TypeInv, Run, NEW q \in Op, running = <<q, "register">>,
           fut[running] = "pending", fut'[running] = "ok"
    PROVE  handles'[q] = Symbols
<1>1. /\ RunRegister /\ running[1] = q /\ running \in Job
      /\ handles \in [Op -> 0 .. Symbols] /\ fut \in [Job -> FutState]
  <2>1. running[2] = "register" /\ running[1] = q
    BY Zenon
  <2> QED
    BY <2>1, RunDoes DEF Run, RunStart, RunRead, RunRelease, TypeInv, TypeOK, FutState
<1>2. CASE Answer("ok") /\ handles' = [handles EXCEPT ![running[1]] = Symbols]
  BY <1>1, <1>2
<1>3. CASE Answer("error")
  BY <1>1, <1>3 DEF Answer
<1> QED
  BY <1>1, <1>2, <1>3 DEF RunRegister

LEMMA KeptInit == Init => KeptInv
<1> SUFFICES ASSUME Init, NEW o \in Op
             PROVE  Kept(o)
  BY DEF KeptInv, Kept
<1>1. ~Due(<<o, "release">>)
  <2>1. <<o, "release">> \in Job
    BY JobFacts DEF CallName
  <2> QED
    BY <2>1, JobFacts DEF Init, Due
<1>2. pc[o] = "idle"
  BY DEF Init
<1> QED
  BY <1>1, <1>2 DEF Kept

LEMMA KeptStep ==
    ASSUME TypeInv, HandleInv, KeptInv, [Next]_vars
    PROVE  KeptInv'
<1> SUFFICES ASSUME NEW q \in Op
             PROVE  Kept(q)'
  BY DEF KeptInv, Kept
<1>1. /\ TypeOK /\ Kept(q) /\ Handled(q)
      /\ \A name \in CallName : <<q, name>> \in Job
      /\ Backend[q] \in {"poll", "notify"}
  BY JobFacts, StepChainAssumption DEF KeptInv, Kept, HandleInv, TypeInv
<1>2. CASE Begins(q)
  BY <1>1, <1>2 DEF Begins, Kept, CallName
<1>3. CASE Goes(q)
  <2>1. Due(<<q, "release">>)' => pc'[q] \in {"releasing", "ended"}
    <3>1. Due(<<q, "release">>)' => Due(<<q, "release">>) \/ pc'[q] = "releasing"
      BY <1>1, <1>3, QueueTypes DEF Goes, TaskEffect, TaskFrame
    <3> QED
      BY <1>1, <1>3, <3>1 DEF Goes, TaskEffect, TaskFrame, TaskPc, Kept
  <2>2. fut'[<<q, "register">>] = "ok" => fut[<<q, "register">>] = "ok"
    <3>1. /\ <<q, "register">> \in Job
          /\ <<q, "register">> # <<q, "read">> /\ <<q, "register">> # <<q, "release">>
      BY <1>1 DEF CallName
    <3> QED
      BY <1>3, <3>1 DEF Goes, TaskEffect, TaskFut
  <2>3. handles' = handles
    BY <1>3 DEF Goes, TaskEffect, TaskFrame
  <2> QED
    BY <1>1, <1>3, <2>1, <2>2, <2>3 DEF Goes, TaskEffect, TaskPc, Kept
<1>4. ASSUME NEW name \in CallName, Gets(q, name)
      PROVE  Kept(q)'
  <2>1. /\ Run /\ running = <<q, name>> /\ Due(<<q, name>>) /\ pc'[q] = pc[q]
        /\ Due(<<q, "release">>)' => Due(<<q, "release">>)
        /\ name # "register" => fut'[<<q, "register">>] = fut[<<q, "register">>]
    BY <1>4 DEF Gets, CallName
  <2>2. CASE name = "register"
    <3>1. /\ running # <<q, "release">>
          /\ \/ pc[q] \in {"created", "registering"} /\ fut[<<q, "register">>] \notin {"ok", "error"}
             \/ pc[q] = "ended"
      BY <1>1, <2>1, <2>2 DEF Handled
    <3>2. fut[<<q, "register">>] = "pending" /\ fut'[<<q, "register">>] = "ok" =>
             handles'[q] = Symbols
      BY <2>1, <2>2, RunRegistered
    <3>3. \/ fut'[<<q, "register">>] = fut[<<q, "register">>]
          \/ fut[<<q, "register">>] = "pending"
      BY <1>4, <2>2 DEF Gets
    <3> QED
      BY <1>1, <2>1, <3>1, <3>2, <3>3 DEF Kept
  <2>3. CASE name = "release"
    BY <1>1, <2>1, <2>3 DEF Kept
  <2>4. CASE name \in {"start", "read"}
    <3>1. running # <<q, "register">> /\ running # <<q, "release">>
      BY <2>1, <2>4
    <3>2. handles'[q] = handles[q]
      BY <2>1, <3>1, RunHandles
    <3> QED
      BY <1>1, <2>1, <2>4, <3>2 DEF Kept
  <2> QED
    BY <2>2, <2>3, <2>4 DEF CallName
<1>5. CASE Rests(q)
  BY <1>1, <1>5 DEF Rests, Kept, CallName
<1> QED
  BY <1>2, <1>3, <1>4, <1>5, StepOf

\* With ids that differ, and sum reads that never miss the id, a notify operation
\* does not wait for an event once the end of its chain was notified and consumed.
THEOREM NoLostWakeupHolds ==
    ASSUME IdsApart, "id" \notin MayMiss
    PROVE  Spec => []NoLostWakeup
<1> DEFINE Inv == /\ TypeInv /\ HandleInv /\ StartInv /\ IdInv /\ SampledInv /\ WakeInv
                  /\ KeptInv
<1>1. ASSUME Init
      PROVE  Inv
  <2>1. SampledInv /\ WakeInv
    BY <1>1 DEF Init, SampledInv, WakeInv, Awake
  <2> QED
    BY <1>1, <2>1, TypeInit, HandleInit, StartInit, IdInit, KeptInit
<1>2. ASSUME Inv, [Next]_vars
      PROVE  Inv'
  <2>1. DistinctIds
    BY <1>2, IdsDiffer DEF TypeInv
  <2> QED
    BY <1>2, <2>1, TypeStep, HandleStep, StartStep, IdStep, SampledStep, WakeStep, KeptStep
<1>3. ASSUME Inv
      PROVE  NoLostWakeup
  <2> SUFFICES ASSUME NEW o \in Op, pc[o] = "waiting",
                      status.id = id[o], status.state # "busy"
               PROVE  events[o] > 0 \/ (handles[o] > 0 /\ sampled[o] # status)
    BY DEF NoLostWakeup
  <2>1. owner # None /\ owner \in Op /\ status.state = chain[owner]
    <3>1. fut[<<o, "start">>] = "ok"
      BY <1>3 DEF StartInv, Started, BlockInv
    <3>2. owner # None
      BY <1>3, <3>1 DEF StartInv, Started, BlockInv
    <3> QED
      BY <1>3, <3>2 DEF StartInv, Started, BlockInv, TypeInv, TypeOK
  <2>2. status.state \in {"done", "error"}
    BY <1>3, <2>1 DEF TypeInv, TypeOK, Status
  <2>3. events[o] = 0 => sampled[o] # status
    BY <1>3, <2>2 DEF WakeInv, Awake, Notified
  <2>4. handles[o] = Symbols /\ Symbols \in Nat \ {0}
    BY <1>3, StepChainAssumption DEF KeptInv, Kept
  <2>5. events[o] \in Nat
    <3>1. events \in [Op -> 0 .. EventLimit]
      BY <1>3 DEF TypeInv, TypeOK
    <3> QED
      BY <3>1, StepChainAssumption
  <2> QED
    BY <2>3, <2>4, <2>5
<1> HIDE DEF Inv
<1> QED
  BY <1>1, <1>2, <1>3, PTL DEF Spec
-----------------------------------------------------------------------------
(* StepChain keeps the promise of StepChainOperation *)

LEMMA BusyStep ==
    ASSUME TypeInv, StartInv, BusyInv, [Next]_vars
    PROVE  /\ BusyInv'
           /\ \A q \in Op : chain[q] # "none" => chain'[q] # "none"
<1>1. /\ chain \in [Op -> {"none", "busy", "done", "error"}]
      /\ \A q \in Op : chain[q] = "busy" => q = owner
  BY DEF TypeInv, TypeOK, BusyInv
<1>2. CASE UNCHANGED <<owner, chain>>
  BY <1>2 DEF BusyInv
<1>3. ASSUME NEW r \in Op, Accept(r)
      PROVE  /\ BusyInv'
             /\ \A q \in Op : chain[q] # "none" => chain'[q] # "none"
  <2>1. /\ status.state # "busy" /\ owner' = r
        /\ chain' = [chain EXCEPT ![r] = "busy"]
    BY <1>3 DEF Accept
  <2>2. \A q \in Op : chain[q] # "busy"
    <3>1. owner \in Op => owner # None
      BY StepChainAssumption
    <3> QED
      BY <1>1, <2>1, <3>1 DEF StartInv, BlockInv
  <2> QED
    BY <1>1, <2>1, <2>2 DEF BusyInv
<1>4. CASE ChainEnds
  <2>1. PICK s \in {"done", "error"} : chain' = [chain EXCEPT ![owner] = s]
    BY <1>4 DEF ChainEnds
  <2>2. owner' = owner
    BY <1>4 DEF ChainEnds
  <2> QED
    BY <1>1, <2>1, <2>2 DEF BusyInv
<1>5. CASE Run
  <2>1. running \in Job /\ running[1] \in Op
    BY <1>5, RunDoes, JobFacts
  <2> QED
    BY <1>2, <1>3, <1>5, <2>1, RunPlc DEF plc
<1>6. ASSUME NEW o \in Op, TaskStep(o)
      PROVE  UNCHANGED <<owner, chain>>
  BY <1>6, TaskDoes DEF TypeInv, TaskEffect, TaskFrame, plc
<1> QED
  BY <1>2, <1>4, <1>5, <1>6, StepCases, InvokeDoes
     DEF Take, Aside, CancelAccepted, Expire, Notify, Close, vars, plc

LEMMA PromiseInit == Init => PromiseInv
<1> SUFFICES ASSUME Init
             PROVE  PromiseInv
  OBVIOUS
<1>1. \A j \in Job : ~Due(j) /\ fut[j] = "none"
  BY JobFacts DEF Init, Due
<1>2. \A o \in Op : <<o, "start">> \in Job
  BY JobFacts DEF CallName
<1>3. \A o \in Op : pc[o] = "idle" /\ result[o] = "none" /\ chain[o] = "none"
  BY DEF Init
<1> QED
  BY <1>1, <1>2, <1>3 DEF PromiseInv, BusyInv, Promised

LEMMA PromiseStep ==
    ASSUME TypeInv, StartInv, PromiseInv, [Next]_vars
    PROVE  PromiseInv'
<1>1. /\ BusyInv' /\ \A q \in Op : chain[q] # "none" => chain'[q] # "none"
  BY BusyStep DEF PromiseInv
<1> SUFFICES ASSUME NEW q \in Op
             PROVE  Promised(q)'
  BY <1>1 DEF PromiseInv, Promised
<1>2. /\ TypeOK /\ Promised(q) /\ Started(q) /\ DueOnce
      /\ chain[q] # "none" => chain'[q] # "none"
      /\ "start" \in CallName /\ <<q, "start">> \in Job /\ <<q, "start">> \in Single
  BY <1>1, JobFacts DEF PromiseInv, StartInv, TypeInv, CallName
<1>3. CASE Begins(q)
  <2>1. fut[<<q, "start">>] = "none"
    BY <1>2, <1>3 DEF Begins, TypeInv
  <2> QED
    BY <1>2, <1>3, <2>1 DEF Begins, Promised
<1>4. CASE Goes(q)
  <2>1. <<q, "start">> # <<q, "read">> /\ <<q, "start">> # <<q, "release">>
    OBVIOUS
  <2>2. \/ fut'[<<q, "start">>] = fut[<<q, "start">>]
        \/ fut[<<q, "start">>] = "pending" /\ fut'[<<q, "start">>] = "cancelled"
    BY <1>2, <1>4, <2>1 DEF Goes, TaskEffect, TaskFut
  <2>3. Due(<<q, "start">>)' <=> Due(<<q, "start">>)
    BY <1>2, <1>4, QueueTypes DEF Goes, TaskEffect, TaskFrame
  <2>4. /\ result'[q] \in {"done", "failed", "timeout"} =>
              result'[q] = result[q] \/ pc[q] \in {"reading", "waiting"}
        /\ pc'[q] = "ended" => \/ result'[q] \in Ending
                               \/ pc[q] = "releasing" /\ result'[q] = result[q]
        /\ pc'[q] = "releasing" => result'[q] \in Ending
    BY <1>4 DEF Goes, TaskEffect, TaskPc, TaskResult
  <2> QED
    BY <1>2, <2>2, <2>3, <2>4 DEF Promised, Started
<1>5. ASSUME NEW name \in CallName, Gets(q, name)
      PROVE  Promised(q)'
  <2>1. /\ Run /\ running = <<q, name>> /\ Due(<<q, name>>)
        /\ pc'[q] = pc[q] /\ result'[q] = result[q]
        /\ Due(<<q, "start">>)' => Due(<<q, "start">>)
        /\ name # "start" => fut'[<<q, "start">>] = fut[<<q, "start">>]
    BY <1>2, <1>5 DEF Gets
  <2>2. CASE name # "start"
    BY <1>2, <2>1, <2>2 DEF Promised
  <2>3. CASE name = "start"
    <3>1. ~Due(<<q, "start">>)' /\ running[1] = q
      BY <1>2, <2>1, <2>3, RunDoes, DueAnswered
    <3>2. fut[<<q, "start">>] \in {"pending", "cancelled"}
      BY <1>2, <2>1, <2>3 DEF Promised
    <3>3. fut'[<<q, "start">>] = "ok" => chain'[q] # "none"
      <4>1. CASE Accept(q)
        <5>1. chain' = [chain EXCEPT ![q] = "busy"]
          BY <4>1 DEF Accept
        <5> QED
          BY <1>2, <5>1 DEF TypeOK
      <4>2. CASE fut'[running] = fut[running] \/ fut'[running] \in {"refused", "error"}
        BY <2>1, <2>3, <3>2, <4>2
      <4> QED
        BY <2>1, <2>3, <3>1, <4>1, <4>2, RunPlc
    <3> QED
      BY <1>2, <2>1, <3>1, <3>2, <3>3 DEF Promised
  <2> QED
    BY <2>2, <2>3
<1>6. CASE Rests(q)
  BY <1>2, <1>6 DEF Rests, Promised
<1> QED
  BY <1>3, <1>4, <1>5, <1>6, StepOf

\* The steps that leave both futures and the chains alone.
LEMMA PromiseStutters ==
    ASSUME UNCHANGED <<pc, result, chain>>,
           \A o \in Op : fut'[<<o, "start">>] = fut[<<o, "start">>]
    PROVE  UNCHANGED Promise!vars
  BY DEF Promise!vars, AcceptedFuture, DoneFuture

LEMMA PromiseFutures ==
    ASSUME NEW o \in Op
    PROVE  /\ AcceptedFuture[o] = fut[<<o, "start">>]
           /\ AcceptedFuture'[o] = fut'[<<o, "start">>]
           /\ DoneFuture[o] = IF pc[o] = "idle" THEN "none"
                              ELSE IF pc[o] = "ended" THEN result[o] ELSE "pending"
           /\ DoneFuture'[o] = IF pc'[o] = "idle" THEN "none"
                               ELSE IF pc'[o] = "ended" THEN result'[o] ELSE "pending"
  BY DEF AcceptedFuture, DoneFuture

\* Only the futures of o may change, accepted to x and done to y.
LEMMA PromiseChanges ==
    ASSUME NEW o \in Op, NEW x, NEW y,
           fut'[<<o, "start">>] = x, DoneFuture'[o] = y,
           \A q \in Op \ {o} : /\ fut'[<<q, "start">>] = fut[<<q, "start">>]
                               /\ pc'[q] = pc[q] /\ result'[q] = result[q]
    PROVE  /\ AcceptedFuture' = [AcceptedFuture EXCEPT ![o] = x]
           /\ DoneFuture' = [DoneFuture EXCEPT ![o] = y]
  BY DEF AcceptedFuture, DoneFuture

LEMMA TaskKeeps ==
    ASSUME TypeInv, StartInv, PromiseInv, ResultInv,
           StartInv', PromiseInv', ResultInv', NEW o \in Op, TaskEffect(o)
    PROVE  [Promise!Next]_(Promise!vars)
<1>1. /\ chain' = chain /\ pc[o] \notin {"idle", "ended"} /\ pc'[o] # "idle"
      /\ \A q \in Op \ {o} : pc'[q] = pc[q] /\ result'[q] = result[q]
  BY DEF TaskEffect, TaskFrame, plc
<1>2. \A q \in Op : /\ <<q, "start">> \in Job
                    /\ <<q, "start">> # <<o, "read">> /\ <<q, "start">> # <<o, "release">>
  BY JobFacts DEF CallName
<1>3. /\ \A q \in Op \ {o} : fut'[<<q, "start">>] = fut[<<q, "start">>]
      /\ \/ fut'[<<o, "start">>] = fut[<<o, "start">>]
         \/ /\ fut[<<o, "start">>] = "pending" /\ fut'[<<o, "start">>] = "cancelled"
            /\ pc'[o] \in {"releasing", "ended"} /\ result'[o] = "cancelled"
  BY <1>2 DEF TaskEffect, TaskFut
<1>4. DoneFuture[o] = "pending"
  BY <1>1, PromiseFutures
<1>5. CASE pc'[o] = "ended"
  <2>1. /\ DoneFuture'[o] = result'[o] /\ result'[o] \in Ending
    BY <1>5, PromiseFutures DEF PromiseInv, Promised
  <2>2. /\ AcceptedFuture' = [AcceptedFuture EXCEPT ![o] = fut'[<<o, "start">>]]
        /\ DoneFuture' = [DoneFuture EXCEPT ![o] = result'[o]]
    BY <1>1, <1>3, <2>1, PromiseChanges
  <2>3. /\ result'[o] \in {"done", "failed", "timeout"} =>
              fut'[<<o, "start">>] = "ok" /\ chain'[o] # "none"
        /\ result'[o] = "done" => chain'[o] = "done"
        /\ result'[o] = "failed" => chain'[o] = "error"
        /\ result'[o] = "rejected" => fut'[<<o, "start">>] = "refused" /\ chain'[o] = "none"
    BY DEF PromiseInv, Promised, ResultInv, StartInv, Started, BlockInv
  <2>4. Promise!Says(o, result'[o])
    BY <1>1, <1>3, <2>1, <2>3, PromiseFutures DEF Promise!Says, Ending
  <2>5. \/ AcceptedFuture' = AcceptedFuture
        \/ result'[o] = "cancelled" /\ Promise!Answer(o, "cancelled")
    BY <1>3, <2>2, PromiseFutures DEF Promise!Answer, AcceptedFuture
  <2>6. Promise!Resolve(o)
    BY <1>1, <1>4, <2>1, <2>2, <2>4, <2>5 DEF Promise!Resolve, Ending
  <2> QED
    BY <2>6 DEF Promise!Next
<1>6. CASE pc'[o] # "ended"
  <2>1. DoneFuture'[o] = "pending"
    BY <1>1, <1>6, PromiseFutures
  <2>2. /\ AcceptedFuture' = [AcceptedFuture EXCEPT ![o] = fut'[<<o, "start">>]]
        /\ DoneFuture' = [DoneFuture EXCEPT ![o] = "pending"]
    BY <1>1, <1>3, <2>1, PromiseChanges
  <2>3. DoneFuture' = DoneFuture
    BY <1>4, <2>2 DEF DoneFuture
  <2>4. CASE fut'[<<o, "start">>] = fut[<<o, "start">>]
    <3>1. AcceptedFuture' = AcceptedFuture
      BY <2>2, <2>4, PromiseFutures DEF AcceptedFuture
    <3> QED
      BY <1>1, <2>3, <3>1 DEF Promise!vars
  <2>5. CASE fut[<<o, "start">>] = "pending" /\ fut'[<<o, "start">>] = "cancelled"
    <3>1. Promise!CancelAccepted(o)
      BY <1>1, <2>2, <2>3, <2>5, PromiseFutures DEF Promise!CancelAccepted
    <3> QED
      BY <3>1 DEF Promise!Next
  <2> QED
    BY <1>3, <2>4, <2>5
<1> QED
  BY <1>5, <1>6

LEMMA InvokeKeeps ==
    ASSUME TypeInv, NEW o \in Op, Invoke(o)
    PROVE  Promise!Start(o)
<1>1. /\ pc[o] = "idle" /\ pc'[o] = "created"
      /\ result' = result /\ chain' = chain
      /\ \A q \in Op \ {o} : pc'[q] = pc[q]
  <2>1. pc' = [pc EXCEPT ![o] = "created"] /\ pc \in [Op -> PcState]
    BY InvokeDoes, FrameTypes DEF TypeInv
  <2> QED
    BY <2>1, InvokeDoes DEF plc
<1>2. fut'[<<o, "start">>] = "pending"
  BY InvokeAsks
<1>3. ASSUME NEW q \in Op \ {o}
      PROVE  fut'[<<q, "start">>] = fut[<<q, "start">>]
  <2>1. <<q, "start">> \in Job /\ <<q, "start">>[1] # o
    BY JobFacts DEF CallName
  <2> QED
    BY <2>1, InvokeDoes
<1>4. DoneFuture[o] = "none" /\ DoneFuture'[o] = "pending"
  BY <1>1, PromiseFutures
<1>5. /\ AcceptedFuture' = [AcceptedFuture EXCEPT ![o] = "pending"]
      /\ DoneFuture' = [DoneFuture EXCEPT ![o] = "pending"]
  BY <1>1, <1>2, <1>3, <1>4, PromiseChanges
<1> QED
  BY <1>1, <1>4, <1>5 DEF Promise!Start

LEMMA RunKeeps ==
    ASSUME TypeInv, StartInv, PromiseInv, Run
    PROVE  [Promise!Next]_(Promise!vars)
<1>1. /\ running \in Job /\ Due(running) /\ UNCHANGED <<pc, result>>
      /\ running[1] \in Op /\ running = <<running[1], running[2]>>
      /\ \A j \in Job : j # running => fut'[j] = fut[j]
      /\ fut \in [Job -> FutState]
  BY RunDoes, JobFacts DEF TypeInv, TypeOK, FutState
<1>2. \A q \in Op : <<q, "start">> \in Job
  BY JobFacts DEF CallName
<1>3. CASE RunRegister \/ RunRead \/ RunRelease
  <2>1. running[2] # "start" /\ chain' = chain
    BY <1>3 DEF RunRegister, RunRead, RunRelease, plc
  <2>2. \A q \in Op : <<q, "start">> # running
    BY <2>1
  <2> QED
    BY <1>1, <1>2, <2>1, <2>2, PromiseStutters
<1>4. CASE RunStart
  <2>1. PICK o \in Op : running = <<o, "start">> /\ running[1] = o
    BY <1>1, <1>4 DEF RunStart
  <2>2. /\ AcceptedFuture[o] \in {"pending", "cancelled"} /\ chain[o] = "none"
        /\ AcceptedFuture[o] = fut[running]
    BY <1>1, <2>1, PromiseFutures DEF PromiseInv, Promised, StartInv, Started, BlockInv
  <2>3. DoneFuture' = DoneFuture
    BY <1>1 DEF DoneFuture
  <2>4. ASSUME NEW answer, Answer(answer)
        PROVE  Promise!Answer(o, answer)
    <3>1. fut'[running] = IF fut[running] = "pending" THEN answer ELSE fut[running]
      BY <1>1, <2>4 DEF Answer
    <3>2. \A q \in Op \ {o} : fut'[<<q, "start">>] = fut[<<q, "start">>]
      BY <1>1, <1>2, <2>1
    <3>3. DoneFuture'[o] = DoneFuture[o]
      BY <2>3
    <3>4. AcceptedFuture' = [AcceptedFuture EXCEPT ![o] = fut'[<<o, "start">>]]
      BY <1>1, <3>2, <3>3, PromiseChanges
    <3> QED
      BY <2>1, <2>2, <3>1, <3>4 DEF Promise!Answer
  <2>5. ASSUME NEW answer, Promise!Answer(o, answer), AcceptedFuture[o] = "cancelled",
               UNCHANGED plc
        PROVE  UNCHANGED Promise!vars
    <3>1. AcceptedFuture' = AcceptedFuture
      BY <2>5 DEF Promise!Answer, AcceptedFuture
    <3> QED
      BY <2>3, <2>5, <3>1 DEF Promise!vars, plc
  <2>6. ASSUME NEW answer \in {"ok", "error"}, Accept(o), Answer(answer)
        PROVE  Promise!Serve(o)
    <3>1. \A q \in Op : chain[q] # "busy"
      <4>1. owner \in Op => owner # None
        BY StepChainAssumption
      <4> QED
        BY <2>6, <4>1 DEF Accept, StartInv, BlockInv, PromiseInv, BusyInv
    <3>2. chain' = [chain EXCEPT ![o] = "busy"]
      BY <2>6 DEF Accept
    <3>3. \E ans \in {"ok", "error"} : Promise!Answer(o, ans)
      BY <2>4, <2>6
    <3> QED
      BY <2>2, <2>3, <3>1, <3>2, <3>3 DEF Promise!Serve
  <2>7. CASE status.state = "busy" /\ Answer("refused") /\ UNCHANGED plc
    <3>1. \E q \in Op : chain[q] = "busy"
      <4>1. owner # None
        BY <2>7 DEF StartInv, BlockInv
      <4>2. owner \in Op /\ status.state = chain[owner]
        BY <4>1 DEF StartInv, BlockInv, TypeInv, TypeOK
      <4> QED
        BY <2>7, <4>2
    <3>2. CASE AcceptedFuture[o] = "pending"
      <4>1. Promise!Refuse(o)
        BY <2>3, <2>4, <2>7, <3>1, <3>2 DEF Promise!Refuse, plc
      <4> QED
        BY <4>1 DEF Promise!Next
    <3> QED
      BY <2>2, <2>4, <2>5, <2>7, <3>2
  <2>8. CASE Answer("error") /\ UNCHANGED plc
    <3>1. CASE AcceptedFuture[o] = "pending"
      <4>1. Promise!Lose(o)
        BY <2>3, <2>4, <2>8, <3>1 DEF Promise!Lose, plc
      <4> QED
        BY <4>1 DEF Promise!Next
    <3> QED
      BY <2>2, <2>4, <2>5, <2>8, <3>1
  <2>9. CASE \E answer \in {"ok", "error"} : Accept(o) /\ Answer(answer)
    BY <2>6, <2>9 DEF Promise!Next
  <2> QED
    BY <1>4, <2>1, <2>7, <2>8, <2>9 DEF RunStart
<1> QED
  BY <1>3, <1>4 DEF Run

LEMMA AsideKeeps ==
    ASSUME TypeInv, StartInv, Aside
    PROVE  [Promise!Next]_(Promise!vars)
<1>1. /\ UNCHANGED <<pc, result>> /\ fut \in [Job -> FutState]
      /\ \A q \in Op : <<q, "start">> \in Job
  BY AsideDoes, JobFacts DEF TypeInv, TypeOK, FutState, CallName
<1>2. ASSUME NEW o \in Op, CancelAccepted(o)
      PROVE  Promise!CancelAccepted(o)
  <2>1. PICK call \in Job : call = <<o, "start">>
    BY <1>1
  <2>2. /\ fut[call] = "pending" /\ fut' = [fut EXCEPT ![call] = "cancelled"]
        /\ chain' = chain
    BY <1>2, <2>1 DEF CancelAccepted, plc
  <2>3. /\ fut'[<<o, "start">>] = "cancelled"
        /\ \A q \in Op \ {o} : fut'[<<q, "start">>] = fut[<<q, "start">>]
    BY <1>1, <2>1, <2>2
  <2>4. DoneFuture' = DoneFuture
    BY <1>1 DEF DoneFuture
  <2>5. AcceptedFuture' = [AcceptedFuture EXCEPT ![o] = "cancelled"]
    BY <1>1, <2>3, <2>4, PromiseChanges
  <2> QED
    BY <2>1, <2>2, <2>4, <2>5, PromiseFutures DEF Promise!CancelAccepted
<1>3. CASE ChainEnds
  <2>1. PICK s \in {"done", "error"} : chain' = [chain EXCEPT ![owner] = s]
    BY <1>3 DEF ChainEnds
  <2>2. /\ status.state = "busy" /\ fut' = fut
    BY <1>3 DEF ChainEnds
  <2>3. owner # None
    BY <2>2 DEF StartInv, BlockInv
  <2>4. owner \in Op /\ chain[owner] = "busy"
    BY <2>2, <2>3 DEF StartInv, BlockInv, TypeInv, TypeOK
  <2>5. AcceptedFuture' = AcceptedFuture /\ DoneFuture' = DoneFuture
    BY <1>1, <2>2 DEF AcceptedFuture, DoneFuture
  <2>6. Promise!End(owner)
    BY <2>1, <2>4, <2>5 DEF Promise!End
  <2> QED
    BY <2>4, <2>6 DEF Promise!Next
<1>4. CASE UNCHANGED <<fut, chain>>
  BY <1>1, <1>4, PromiseStutters
<1> QED
  BY <1>2, <1>3, <1>4 DEF Promise!Next, Aside, Expire, Close, Notify, plc

\* With ids that differ, and sum reads that may miss no more than the id, the proxies,
\* the worker and the block implement StepChainOperation.
THEOREM KeepsPromiseHolds ==
    ASSUME IdsApart, MayMiss \subseteq {"id"}
    PROVE  Spec => KeepsPromise
<1> DEFINE Inv == TypeInv /\ StartInv /\ IdInv /\ SeenInv /\ ResultInv /\ PromiseInv
<1>1. ASSUME Init
      PROVE  Inv
  <2>1. SeenInv /\ ResultInv
    BY <1>1, JobFacts DEF Init, SeenInv, Seen, ResultInv, CallName
  <2> QED
    BY <1>1, <2>1, TypeInit, StartInit, IdInit, PromiseInit
<1>2. ASSUME Inv, [Next]_vars
      PROVE  Inv'
  <2>1. DistinctIds
    BY <1>2, IdsDiffer DEF TypeInv
  <2> QED
    BY <1>2, <2>1, TypeStep, StartStep, IdStep, SeenStep, ResultStep, PromiseStep
<1>3. ASSUME Init
      PROVE  Promise!Init
  <2>1. \A o \in Op : <<o, "start">> \in Job
    BY JobFacts DEF CallName
  <2> QED
    BY <1>3, <2>1 DEF Init, Promise!Init, AcceptedFuture, DoneFuture
<1>4. ASSUME Inv, Inv', [Next]_vars
      PROVE  [Promise!Next]_(Promise!vars)
  <2>1. ASSUME NEW o \in Op, TaskStep(o)
        PROVE  [Promise!Next]_(Promise!vars)
    <3>1. TaskEffect(o)
      BY <1>4, <2>1, TaskDoes DEF TypeInv
    <3> QED
      BY <1>4, <3>1, TaskKeeps
  <2>2. ASSUME NEW o \in Op, Invoke(o)
        PROVE  [Promise!Next]_(Promise!vars)
    BY <1>4, <2>2, InvokeKeeps DEF Promise!Next
  <2>3. CASE Take \/ UNCHANGED vars
    BY <2>3, PromiseStutters DEF Take, vars, local, plc
  <2> QED
    BY <1>4, <2>1, <2>2, <2>3, RunKeeps, AsideKeeps, StepCases
<1> HIDE DEF Inv
<1> QED
  BY <1>1, <1>2, <1>3, <1>4, PTL DEF Spec, KeepsPromise, Promise!Spec
=============================================================================
