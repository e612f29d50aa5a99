------------------------- MODULE AsyncConnectionProofs -------------------------
(***************************************************************************)
(* Theorems about AsyncConnection, for any set of requests, event loops,   *)
(* failures, cancellations and closed loops.                               *)
(***************************************************************************)
EXTENDS AsyncConnection, TLAPS

-----------------------------------------------------------------------------
(* Facts about the constants and about sequences *)

LEMMA RequestFacts ==
    /\ Call \subseteq Item /\ Closer \subseteq Item
    /\ LoopOf \in [Item -> Loop]
    /\ Shutdown \notin Item /\ None \notin Item
    /\ \A i \in Call : i \notin Closer
  BY RequestsAssumption DEF Item

LEMMA HeadTail ==
    ASSUME NEW S, NEW s \in Seq(S), s # <<>>
    PROVE  /\ Head(s) \in S /\ Head(s) = s[1]
           /\ Tail(s) \in Seq(S)
           /\ Len(s) \in Nat \ {0}
           /\ Len(Tail(s)) = Len(s) - 1
           /\ \A n \in 1 .. Len(Tail(s)) : Tail(s)[n] = s[n + 1]
  OBVIOUS

LEMMA AppendFacts ==
    ASSUME NEW S, NEW s \in Seq(S), NEW x \in S
    PROVE  /\ Append(s, x) \in Seq(S)
           /\ Len(s) \in Nat
           /\ Len(Append(s, x)) = Len(s) + 1
           /\ \A n \in 1 .. Len(s) : Append(s, x)[n] = s[n]
           /\ Append(s, x)[Len(s) + 1] = x
  OBVIOUS
-----------------------------------------------------------------------------
(* Types *)

\* TypeOK is inductive together with the worker holding a request while it works.
TypeInv ==
    /\ TypeOK
    /\ worker \in {"running", "posting"} => current \in Item
    /\ worker = "posting" => outcome[current] \in Settled

LEMMA TypeInit == Init => TypeInv
<1> SUFFICES ASSUME Init PROVE TypeInv
  OBVIOUS
<1> USE DEF Init
<1>1. outcome \in [Item -> Settled \cup {"none"}]
  OBVIOUS
<1>2. ready \in [Loop -> Seq(Callback)]
  OBVIOUS
<1>3. fut \in [Item -> Settled \cup {"none", "refused", "pending", "cancelled"}]
  OBVIOUS
<1>4. aclose \in [Closer -> {"idle", "noop", "closing", "joining", "returned", "raised", "cancelled"}]
  OBVIOUS
<1>5. /\ up \in [Loop -> BOOLEAN] /\ thread \in [Loop -> Item \cup {None}]
      /\ queue \in Seq(Item \cup {Shutdown}) /\ order \in Seq(Item \cup {Shutdown})
  OBVIOUS
<1> QED
  BY <1>1, <1>2, <1>3, <1>4, <1>5 DEF TypeInv, TypeOK

LEMMA TypeStep == TypeInv /\ [Next]_vars => TypeInv'
<1> SUFFICES ASSUME TypeInv, [Next]_vars PROVE TypeInv'
  OBVIOUS
<1> USE RequestFacts DEF TypeInv, TypeOK
<1>1. ASSUME NEW c \in Call, SubmitCheck(c) PROVE TypeInv'
  <2>1. fut' \in [Item -> Settled \cup {"none", "refused", "pending", "cancelled"}]
    BY <1>1 DEF SubmitCheck
  <2>2. thread' \in [Loop -> Item \cup {None}]
    BY <1>1 DEF SubmitCheck
  <2> QED
    BY <1>1, <2>1, <2>2 DEF SubmitCheck
<1>2. ASSUME NEW c \in Call, CancelFuture(c) PROVE TypeInv'
  BY <1>2 DEF CancelFuture
<1>3. ASSUME NEW k \in Closer, AcloseCheck(k) PROVE TypeInv'
  <2>1. aclose' \in [Closer -> {"idle", "noop", "closing", "joining", "returned", "raised", "cancelled"}]
    BY <1>3 DEF AcloseCheck
  <2>2. closed' \in BOOLEAN /\ thread' \in [Loop -> Item \cup {None}]
    BY ZenonT(60), <1>3 DEF AcloseCheck
  <2> QED
    BY <1>3, <2>1, <2>2 DEF AcloseCheck
<1>4. ASSUME NEW k \in Closer, CancelAclose(k) PROVE TypeInv'
  <2>1. aclose' \in [Closer -> {"idle", "noop", "closing", "joining", "returned", "raised", "cancelled"}]
    BY <1>4 DEF CancelAclose
  <2>2. fut' \in [Item -> Settled \cup {"none", "refused", "pending", "cancelled"}]
    BY <1>4 DEF CancelAclose
  <2> QED
    BY <1>4, <2>1, <2>2 DEF CancelAclose
<1>5. ASSUME NEW k \in Closer, AcloseResume(k) PROVE TypeInv'
  <2>1. aclose' \in [Closer -> {"idle", "noop", "closing", "joining", "returned", "raised", "cancelled"}]
    BY <1>5 DEF AcloseResume
  <2>2. queue' \in Seq(Item \cup {Shutdown}) /\ order' \in Seq(Item \cup {Shutdown})
    <3>1. CASE UNCHANGED <<queue, order>>
      BY <3>1
    <3>2. CASE queue' = Append(queue, Shutdown) /\ order' = Append(order, Shutdown)
      BY <3>2, AppendFacts
    <3> QED
      BY <1>5, <3>1, <3>2 DEF AcloseResume
  <2> QED
    BY <1>5, <2>1, <2>2 DEF AcloseResume
<1>6. ASSUME NEW k \in Closer, AcloseJoined(k) PROVE TypeInv'
  BY <1>6 DEF AcloseJoined
<1>7. ASSUME NEW i \in Item, Put(i) PROVE TypeInv'
  <2>1. fut' \in [Item -> Settled \cup {"none", "refused", "pending", "cancelled"}]
    BY <1>7 DEF Put
  <2>2. queue' \in Seq(Item \cup {Shutdown}) /\ order' \in Seq(Item \cup {Shutdown})
    BY <1>7 DEF Put
  <2>3. thread' \in [Loop -> Item \cup {None}]
    BY <1>7 DEF Put
  <2> QED
    BY <1>7, <2>1, <2>2, <2>3 DEF Put
<1>8. ASSUME NEW l \in Loop, RunCallback(l) PROVE TypeInv'
  <2> DEFINE r == Head(ready[l])
  <2>1. r \in Callback /\ Tail(ready[l]) \in Seq(Callback)
    BY <1>8, HeadTail DEF RunCallback
  <2>2. ready' \in [Loop -> Seq(Callback)]
    BY <1>8, <2>1 DEF RunCallback
  <2>3. fut' \in [Item -> Settled \cup {"none", "refused", "pending", "cancelled"}]
    BY <1>8, <2>1 DEF RunCallback, Callback
  <2> QED
    BY <1>8, <2>2, <2>3 DEF RunCallback
<1>9. ASSUME NEW l \in Loop, CloseLoop(l) PROVE TypeInv'
  BY <1>9 DEF CloseLoop
<1>10. CASE WorkerStop
  BY <1>10, HeadTail DEF WorkerStop, HasItem
<1>11. CASE WorkerSkip
  BY <1>11, HeadTail DEF WorkerSkip, HasItem
<1>12. CASE WorkerStart
  BY <1>12, HeadTail DEF WorkerStart, HasItem
<1>13. CASE WorkerFinish
  <2>1. outcome' \in [Item -> Settled \cup {"none"}] /\ outcome'[current] \in Settled
    <3>1. \E v \in Settled : outcome' = [outcome EXCEPT ![current] = v]
      BY <1>13 DEF WorkerFinish, Settled
    <3> QED
      BY <1>13, <3>1 DEF WorkerFinish
  <2>2. open' \in BOOLEAN
    <3>1. CASE open' = open
      BY <3>1
    <3>2. CASE open' = OpenAfter(current, open)
      BY <3>2, <1>13, RequestsAssumption DEF WorkerFinish, OpenAfter, Kind, Item
    <3> QED
      BY <1>13, <3>1, <3>2 DEF WorkerFinish
  <2> QED
    BY <1>13, <2>1, <2>2 DEF WorkerFinish
<1>14. CASE WorkerPost
  <2>1. ready' \in [Loop -> Seq(Callback)]
    <3> DEFINE l == LoopOf[current]
               r == [future |-> current, with |-> outcome[current]]
    <3>1. CASE ready' = ready
      BY <3>1
    <3>2. CASE ready' = [ready EXCEPT ![l] = Append(@, r)]
      <4>1. l \in Loop /\ r \in Callback /\ ready[l] \in Seq(Callback)
        BY <1>14 DEF WorkerPost, Callback
      <4>2. Append(ready[l], r) \in Seq(Callback)
        BY <4>1, AppendFacts
      <4> QED
        BY <4>2, <3>2
    <3> QED
      BY <1>14, <3>1, <3>2 DEF WorkerPost
  <2> QED
    BY <1>14, <2>1 DEF WorkerPost
<1>15. CASE UNCHANGED vars
  BY <1>15 DEF vars
<1> QED
  BY <1>1, <1>2, <1>3, <1>4, <1>5, <1>6, <1>7, <1>8, <1>9, <1>10, <1>11, <1>12,
     <1>13, <1>14, <1>15 DEF Next, Worker

\* Every variable keeps its type and the worker only ever runs requests, whatever
\* fails, is cancelled or is closed under it.
THEOREM TypeCorrect == Spec => []TypeOK
<1>1. TypeInv => TypeOK
  BY DEF TypeInv
<1> QED
  BY <1>1, TypeInit, TypeStep, PTL DEF Spec
-----------------------------------------------------------------------------
(* The inductive invariant *)

\* How much of order the worker has taken from the queue.
Taken == Len(order) - Len(queue)

\* The queue is what is left of order.
QueueInv ==
    /\ Len(queue) <= Len(order)
    /\ \A n \in 1 .. Len(queue) : queue[n] = order[Taken + n]

\* Nothing is put twice: a request that is not yet put has no future, and only one
\* aclose gets past _closed.
OnceInv ==
    /\ \A p, q \in 1 .. Len(order) : order[p] = order[q] => p = q
    /\ \A p \in 1 .. Len(order) : order[p] \in Item => fut[order[p]] \notin {"none", "refused"}
    /\ \A l \in Loop : thread[l] \in Item => LoopOf[thread[l]] = l /\ fut[thread[l]] = "none"

AcloseInv ==
    /\ \A l \in Loop : thread[l] \in Closer => aclose[thread[l]] = "closing"
    /\ \A k \in Closer : aclose[k] \in {"idle", "noop"} => fut[k] = "none"
    /\ \A k \in Closer : aclose[k] \notin {"idle", "noop"} => closed
    /\ \A j, k \in Closer :
          aclose[j] \notin {"idle", "noop"} /\ aclose[k] \notin {"idle", "noop"} => j = k
    /\ (\E p \in 1 .. Len(order) : order[p] = Shutdown) =>
          \E k \in Closer : aclose[k] \in {"joining", "returned", "cancelled"}

\* Where the worker is, and what has been run: only what it has taken.
WorkInv ==
    /\ worker \in {"running", "posting"} => Taken >= 1 /\ order[Taken] = current
    /\ worker \notin {"running", "posting"} => current = None
    /\ worker = "running" => outcome[current] = "none"
    /\ \A i \in Item : outcome[i] # "none" => \E p \in 1 .. Taken : order[p] = i
    /\ OwnOutcome

\* A posted callback carries the outcome of its own call to its own loop, and the
\* callbacks of a loop are in the order of submission.
ReadyInv ==
    /\ \A l \in Loop : \A n \in 1 .. Len(ready[l]) :
          /\ LoopOf[ready[l][n].future] = l
          /\ outcome[ready[l][n].future] = ready[l][n].with
          /\ ready[l][n].future # current
    /\ \A l \in Loop : \A m, n \in 1 .. Len(ready[l]) : \A p, q \in 1 .. Len(order) :
          m < n /\ order[p] = ready[l][m].future /\ order[q] = ready[l][n].future => p < q

\* A taken request that is still unanswered is in the worker's hands or in a posted
\* callback, unless its loop has gone.
PendInv ==
    \A p \in 1 .. Taken :
        (order[p] \in Item /\ fut[order[p]] = "pending" /\ up[LoopOf[order[p]]]) =>
            \/ order[p] = current
            \/ \E n \in 1 .. Len(ready[LoopOf[order[p]]]) :
                  ready[LoopOf[order[p]]][n].future = order[p]

Inv == TypeInv /\ QueueInv /\ OnceInv /\ AcloseInv /\ WorkInv /\ ReadyInv /\ PendInv

LEMMA InvInit == Init => Inv
<1> SUFFICES ASSUME Init PROVE Inv
  OBVIOUS
<1>1. TypeInv
  BY TypeInit
<1>2. /\ queue = <<>> /\ order = <<>> /\ Taken = 0
      /\ Len(queue) = 0 /\ Len(order) = 0
  BY DEF Init, Taken
<1>3. QueueInv /\ PendInv
  BY <1>2 DEF QueueInv, PendInv
<1>4. OnceInv
  BY <1>2, RequestFacts DEF OnceInv, Init
<1>5. AcloseInv
  BY <1>2, RequestFacts DEF AcloseInv, Init
<1>6. WorkInv
  BY <1>2 DEF WorkInv, OwnOutcome, Settled, Init
<1>7. ReadyInv
  BY <1>2 DEF ReadyInv, Init
<1> QED
  BY <1>1, <1>3, <1>4, <1>5, <1>6, <1>7 DEF Inv

\* What a step does to the queue and its history.
LEMMA QueueMoves ==
    ASSUME TypeInv, [Next]_vars
    PROVE  \/ queue' = queue /\ order' = order
           \/ \E x \in Item \cup {Shutdown} :
                 queue' = Append(queue, x) /\ order' = Append(order, x)
           \/ HasItem /\ order' = order
<1>1. ASSUME NEW c \in Call, SubmitCheck(c) \/ CancelFuture(c)
      PROVE  queue' = queue /\ order' = order
  BY <1>1 DEF SubmitCheck, CancelFuture
<1>2. ASSUME NEW k \in Closer, AcloseCheck(k) \/ CancelAclose(k) \/ AcloseJoined(k)
      PROVE  queue' = queue /\ order' = order
  BY <1>2 DEF AcloseCheck, CancelAclose, AcloseJoined
<1>3. ASSUME NEW k \in Closer, AcloseResume(k)
      PROVE  \/ queue' = queue /\ order' = order
             \/ queue' = Append(queue, Shutdown) /\ order' = Append(order, Shutdown)
  BY <1>3 DEF AcloseResume
<1>4. ASSUME NEW l \in Loop, RunCallback(l) \/ CloseLoop(l)
      PROVE  queue' = queue /\ order' = order
  BY <1>4 DEF RunCallback, CloseLoop
<1>5. CASE WorkerStop \/ WorkerSkip \/ WorkerStart
  BY <1>5 DEF WorkerStop, WorkerSkip, WorkerStart
<1>6. CASE WorkerFinish \/ WorkerPost
  BY <1>6 DEF WorkerFinish, WorkerPost
<1>7. ASSUME NEW i \in Item, Put(i)
      PROVE  queue' = Append(queue, i) /\ order' = Append(order, i)
  BY <1>7 DEF Put
<1>8. CASE UNCHANGED vars
  BY <1>8 DEF vars
<1> QED
  BY <1>1, <1>2, <1>3, <1>4, <1>5, <1>6, <1>7, <1>8 DEF Next, Worker

LEMMA QueueStep ==
    ASSUME TypeInv, QueueInv, [Next]_vars
    PROVE  QueueInv'
<1> USE DEF TypeInv, TypeOK, QueueInv, Taken
<1>1. CASE queue' = queue /\ order' = order
  BY <1>1
<1>2. ASSUME NEW x \in Item \cup {Shutdown},
             queue' = Append(queue, x), order' = Append(order, x)
      PROVE  QueueInv'
  <2>1. /\ Len(queue') = Len(queue) + 1 /\ Len(order') = Len(order) + 1
        /\ Len(queue) \in Nat /\ Len(order) \in Nat
        /\ \A n \in 1 .. Len(queue) : queue'[n] = queue[n]
        /\ \A n \in 1 .. Len(order) : order'[n] = order[n]
        /\ queue'[Len(queue) + 1] = x /\ order'[Len(order) + 1] = x
    BY <1>2, AppendFacts
  <2>2. ASSUME NEW n \in 1 .. Len(queue') PROVE queue'[n] = order'[Taken' + n]
    <3>1. CASE n \in 1 .. Len(queue)
      BY <3>1, <2>1
    <3>2. CASE n = Len(queue) + 1
      BY <3>2, <2>1
    <3> QED
      BY <2>1, <3>1, <3>2
  <2> QED
    BY <2>1, <2>2
<1>3. CASE HasItem /\ order' = order
  <2>1. queue # <<>> /\ queue' = Tail(queue)
    BY <1>3 DEF HasItem
  <2> QED
    BY <1>3, <2>1, HeadTail
<1> QED
  BY <1>1, <1>2, <1>3, QueueMoves

\* What a step does to the futures: they are created, refused, and settled or
\* cancelled once, and most steps leave the submissions alone.
Quiet ==
    /\ order' = order
    /\ thread' = thread
    /\ \A i \in Item : \/ fut'[i] = fut[i]
                       \/ fut[i] = "pending" /\ fut'[i] \in Settled \cup {"cancelled"}

LEMMA QuietSteps ==
    ASSUME TypeInv, [Next]_vars
    PROVE  \/ /\ Quiet
              /\ \/ aclose' = aclose /\ closed' = closed
                 \/ \E k \in Closer : CancelAclose(k) \/ AcloseJoined(k)
           \/ \E c \in Call : SubmitCheck(c)
           \/ \E k \in Closer : AcloseCheck(k) \/ AcloseResume(k)
           \/ \E i \in Item : Put(i)
<1> USE RequestFacts DEF TypeInv, TypeOK, Quiet
<1>1. ASSUME NEW c \in Call, CancelFuture(c) PROVE Quiet /\ aclose' = aclose /\ closed' = closed
  BY <1>1 DEF CancelFuture
<1>2. ASSUME NEW k \in Closer, CancelAclose(k) PROVE Quiet
  BY <1>2 DEF CancelAclose
<1>3. ASSUME NEW k \in Closer, AcloseJoined(k) PROVE Quiet
  BY <1>3 DEF AcloseJoined
<1>4. ASSUME NEW l \in Loop, RunCallback(l) PROVE Quiet /\ aclose' = aclose /\ closed' = closed
  <2>1. Head(ready[l]) \in Callback
    BY <1>4, HeadTail DEF RunCallback
  <2> QED
    BY <1>4, <2>1 DEF RunCallback, Callback
<1>5. ASSUME NEW l \in Loop, CloseLoop(l) PROVE Quiet /\ aclose' = aclose /\ closed' = closed
  BY <1>5 DEF CloseLoop
<1>6. CASE Worker
  BY <1>6 DEF Worker, WorkerStop, WorkerSkip, WorkerStart, WorkerFinish, WorkerPost, HasItem
<1>7. CASE UNCHANGED vars
  BY <1>7 DEF vars
<1> QED
  BY <1>1, <1>2, <1>3, <1>4, <1>5, <1>6, <1>7 DEF Next

\* The effects of the actions that make requests, spelled out.
LEMMA SubmitCheckEffect ==
    ASSUME TypeInv, NEW c \in Call, SubmitCheck(c)
    PROVE  /\ order' = order /\ queue' = queue /\ aclose' = aclose
           /\ fut[c] = "none" /\ thread[LoopOf[c]] = None /\ up[LoopOf[c]]
           /\ \A i \in Item : i # c => fut'[i] = fut[i]
           /\ \A l \in Loop : l # LoopOf[c] => thread'[l] = thread[l]
           /\ \/ fut'[c] = "refused" /\ thread' = thread /\ closed
              \/ fut' = fut /\ thread'[LoopOf[c]] = c /\ ~closed
<1> USE RequestFacts DEF TypeInv, TypeOK
<1>1. \/ fut' = [fut EXCEPT ![c] = "refused"] /\ thread' = thread /\ closed
      \/ fut' = fut /\ thread' = [thread EXCEPT ![LoopOf[c]] = c] /\ ~closed
  BY DEF SubmitCheck
<1>2. /\ order' = order /\ queue' = queue /\ aclose' = aclose
      /\ fut[c] = "none" /\ thread[LoopOf[c]] = None /\ up[LoopOf[c]]
  BY DEF SubmitCheck, Free
<1> QED
  BY <1>1, <1>2

LEMMA AcloseCheckEffect ==
    ASSUME TypeInv, NEW k \in Closer, AcloseCheck(k)
    PROVE  /\ order' = order /\ queue' = queue /\ fut' = fut
           /\ aclose[k] = "idle" /\ thread[LoopOf[k]] = None /\ up[LoopOf[k]]
           /\ \A j \in Closer : j # k => aclose'[j] = aclose[j]
           /\ \A l \in Loop : l # LoopOf[k] => thread'[l] = thread[l]
           /\ \/ closed /\ closed' /\ thread' = thread /\ aclose'[k] = "noop"
              \/ ~closed /\ closed' /\ thread'[LoopOf[k]] = k /\ aclose'[k] = "closing"
<1> USE RequestFacts DEF TypeInv, TypeOK
<1>1. \/ /\ closed /\ closed' = closed /\ thread' = thread
         /\ aclose' = [aclose EXCEPT ![k] = "noop"]
      \/ /\ ~closed /\ closed' = TRUE /\ thread' = [thread EXCEPT ![LoopOf[k]] = k]
         /\ aclose' = [aclose EXCEPT ![k] = "closing"]
  BY DEF AcloseCheck
<1>2. /\ order' = order /\ queue' = queue /\ fut' = fut
      /\ aclose[k] = "idle" /\ thread[LoopOf[k]] = None /\ up[LoopOf[k]]
  BY DEF AcloseCheck, Free
<1> QED
  BY <1>1, <1>2

LEMMA PutEffect ==
    ASSUME TypeInv, NEW i \in Item, Put(i)
    PROVE  /\ aclose' = aclose /\ closed' = closed
           /\ thread[LoopOf[i]] = i /\ thread'[LoopOf[i]] = None
           /\ \A l \in Loop : l # LoopOf[i] => thread'[l] = thread[l]
           /\ fut'[i] = "pending"
           /\ \A j \in Item : j # i => fut'[j] = fut[j]
           /\ queue' = Append(queue, i)
           /\ Len(order) \in Nat /\ Len(order') = Len(order) + 1
           /\ \A p \in 1 .. Len(order) : order'[p] = order[p]
           /\ order'[Len(order) + 1] = i
<1>1. /\ thread[LoopOf[i]] = i /\ aclose' = aclose /\ closed' = closed
      /\ queue' = Append(queue, i) /\ order' = Append(order, i)
      /\ thread' = [thread EXCEPT ![LoopOf[i]] = None]
      /\ fut' = [fut EXCEPT ![i] = "pending"]
  BY DEF Put
<1>2. /\ Len(order) \in Nat /\ Len(order') = Len(order) + 1
      /\ \A p \in 1 .. Len(order) : order'[p] = order[p]
      /\ order'[Len(order) + 1] = i
  BY <1>1, AppendFacts DEF TypeInv, TypeOK
<1>3. /\ thread'[LoopOf[i]] = None
      /\ \A l \in Loop : l # LoopOf[i] => thread'[l] = thread[l]
  BY <1>1, RequestFacts DEF TypeInv, TypeOK
<1>4. fut'[i] = "pending" /\ \A j \in Item : j # i => fut'[j] = fut[j]
  BY <1>1 DEF TypeInv, TypeOK
<1> QED
  BY <1>1, <1>2, <1>3, <1>4

LEMMA AcloseResumeEffect ==
    ASSUME TypeInv, NEW k \in Closer, AcloseResume(k)
    PROVE  /\ fut' = fut /\ thread' = thread /\ closed' = closed
           /\ aclose[k] = "closing" /\ thread[LoopOf[k]] = None /\ up[LoopOf[k]]
           /\ \A j \in Closer : j # k => aclose'[j] = aclose[j]
           /\ \/ /\ order' = order /\ queue' = queue
                 /\ fut[k] = "error" /\ aclose'[k] = "raised"
              \/ /\ fut[k] = "ok" /\ aclose'[k] = "joining"
                 /\ queue' = Append(queue, Shutdown)
                 /\ Len(order) \in Nat /\ Len(order') = Len(order) + 1
                 /\ \A p \in 1 .. Len(order) : order'[p] = order[p]
                 /\ order'[Len(order) + 1] = Shutdown
<1>1. \/ /\ order' = order /\ queue' = queue
         /\ fut[k] = "error" /\ aclose' = [aclose EXCEPT ![k] = "raised"]
      \/ /\ fut[k] = "ok" /\ aclose' = [aclose EXCEPT ![k] = "joining"]
         /\ queue' = Append(queue, Shutdown) /\ order' = Append(order, Shutdown)
  BY DEF AcloseResume
<1>2. /\ fut' = fut /\ thread' = thread /\ closed' = closed
      /\ aclose[k] = "closing" /\ thread[LoopOf[k]] = None /\ up[LoopOf[k]]
  BY DEF AcloseResume, Free
<1>3. CASE fut[k] = "error"
  BY <1>1, <1>2, <1>3 DEF TypeInv, TypeOK
<1>4. CASE fut[k] = "ok"
  <2>1. /\ Len(order) \in Nat /\ Len(order') = Len(order) + 1
        /\ \A p \in 1 .. Len(order) : order'[p] = order[p]
        /\ order'[Len(order) + 1] = Shutdown
    <3>1. order' = Append(order, Shutdown)
      BY <1>1, <1>4
    <3> QED
      BY <3>1, AppendFacts DEF TypeInv, TypeOK
  <2>2. aclose'[k] = "joining" /\ \A j \in Closer : j # k => aclose'[j] = aclose[j]
    BY <1>1, <1>4 DEF TypeInv, TypeOK
  <2> QED
    BY <1>1, <1>2, <1>4, <2>1, <2>2
<1> QED
  BY <1>1, <1>3, <1>4

LEMMA OnceStep ==
    ASSUME TypeInv, OnceInv, AcloseInv, [Next]_vars
    PROVE  OnceInv'
<1> USE RequestFacts DEF OnceInv
<1>1. CASE Quiet
  BY <1>1 DEF Quiet, Settled
<1>2. ASSUME NEW c \in Call, SubmitCheck(c) PROVE OnceInv'
  BY <1>2, SubmitCheckEffect
<1>3. ASSUME NEW k \in Closer, AcloseCheck(k) PROVE OnceInv'
  BY <1>3, AcloseCheckEffect DEF AcloseInv
<1>4. ASSUME NEW k \in Closer, AcloseResume(k) PROVE OnceInv'
  <2>1. \A p \in 1 .. Len(order) : order[p] # Shutdown
    BY <1>4, AcloseResumeEffect DEF AcloseInv
  <2>2. CASE order' = order
    BY <1>4, <2>2, AcloseResumeEffect
  <2>3. CASE order'[Len(order) + 1] = Shutdown /\ Len(order') = Len(order) + 1
    <3>1. /\ Len(order) \in Nat /\ fut' = fut /\ thread' = thread
          /\ \A p \in 1 .. Len(order) : order'[p] = order[p]
      BY <1>4, <2>3, AcloseResumeEffect
    <3> QED
      BY <2>1, <2>3, <3>1
  <2> QED
    BY <1>4, <2>2, <2>3, AcloseResumeEffect
<1>5. ASSUME NEW i \in Item, Put(i) PROVE OnceInv'
  <2>1. \A p \in 1 .. Len(order) : order[p] # i
    BY <1>5, PutEffect
  <2>2. ASSUME NEW l \in Loop, thread'[l] \in Item
        PROVE  LoopOf[thread'[l]] = l /\ fut'[thread'[l]] = "none"
    BY <1>5, <2>2, PutEffect
  <2>3. ASSUME NEW p \in 1 .. Len(order'), order'[p] \in Item
        PROVE  fut'[order'[p]] \notin {"none", "refused"}
    BY <1>5, <2>1, <2>3, PutEffect
  <2>4. ASSUME NEW p \in 1 .. Len(order'), NEW q \in 1 .. Len(order'), order'[p] = order'[q]
        PROVE  p = q
    BY <1>5, <2>1, <2>4, PutEffect
  <2> QED
    BY <2>2, <2>3, <2>4
<1> QED
  BY <1>1, <1>2, <1>3, <1>4, <1>5, QuietSteps

LEMMA AcloseStep ==
    ASSUME TypeInv, OnceInv, AcloseInv, [Next]_vars
    PROVE  AcloseInv'
<1> USE RequestFacts DEF AcloseInv
<1>1. ASSUME NEW c \in Call, SubmitCheck(c) PROVE AcloseInv'
  <2>1. closed' = closed
    BY <1>1 DEF SubmitCheck
  <2> QED
    BY <1>1, <2>1, SubmitCheckEffect
<1>2. ASSUME NEW k \in Closer, AcloseCheck(k) PROVE AcloseInv'
  <2>1. fut[k] = "none" /\ \A l \in Loop : thread[l] # k
    BY <1>2, AcloseCheckEffect
  <2>2. CASE closed
    BY <1>2, <2>1, <2>2, AcloseCheckEffect
  <2>3. CASE ~closed
    <3>1. \A j \in Closer : aclose[j] \in {"idle", "noop"}
      BY <2>3
    <3>2. \A p \in 1 .. Len(order) : order[p] # Shutdown
      BY <3>1
    <3> QED
      BY <1>2, <2>1, <2>3, <3>1, <3>2, AcloseCheckEffect
  <2> QED
    BY <2>2, <2>3
<1>3. ASSUME NEW k \in Closer, AcloseResume(k) PROVE AcloseInv'
  <2>1. \A l \in Loop : thread[l] # k
    BY <1>3, AcloseResumeEffect DEF OnceInv
  <2>2. /\ \A p \in 1 .. Len(order) : order[p] # Shutdown
        /\ \A j \in Closer : j # k => aclose[j] \in {"idle", "noop"}
    BY <1>3, AcloseResumeEffect
  <2> QED
    BY <1>3, <2>1, <2>2, AcloseResumeEffect
<1>4. ASSUME NEW i \in Item, Put(i) PROVE AcloseInv'
  BY SMTT(30), <1>4, PutEffect DEF OnceInv
<1>5. CASE Quiet /\ aclose' = aclose /\ closed' = closed
  BY <1>5 DEF Quiet
<1>6. ASSUME NEW k \in Closer, CancelAclose(k) \/ AcloseJoined(k), Quiet PROVE AcloseInv'
  <2>1. /\ closed' = closed /\ thread[LoopOf[k]] = None
        /\ aclose[k] \in {"closing", "joining"}
        /\ \/ aclose' = [aclose EXCEPT ![k] = "cancelled"]
           \/ aclose' = [aclose EXCEPT ![k] = "returned"]
    BY <1>6 DEF CancelAclose, AcloseJoined, Free
  <2>2. aclose'[k] \in {"cancelled", "returned"} /\ \A j \in Closer : j # k => aclose'[j] = aclose[j]
    BY <2>1 DEF TypeInv, TypeOK
  <2>3. \A l \in Loop : thread[l] # k
    BY <2>1 DEF OnceInv
  <2> QED
    BY <1>6, <2>1, <2>2, <2>3 DEF Quiet
<1> QED
  BY <1>1, <1>2, <1>3, <1>4, <1>5, <1>6, QuietSteps

\* What a step does to how much the worker has taken: the history only grows.
LEMMA TakenFacts ==
    ASSUME TypeInv, QueueInv
    PROVE  Taken \in Nat /\ Len(order) \in Nat /\ Taken <= Len(order)
  BY DEF TypeInv, TypeOK, QueueInv, Taken

LEMMA TakenMoves ==
    ASSUME TypeInv, QueueInv, [Next]_vars
    PROVE  /\ Taken' = Taken \/ (HasItem /\ order' = order)
           /\ Len(order') \in Nat /\ Len(order') >= Len(order)
           /\ \A p \in 1 .. Len(order) : order'[p] = order[p]
<1> USE DEF TypeInv, TypeOK, Taken
<1>1. CASE queue' = queue /\ order' = order
  BY <1>1
<1>2. ASSUME NEW x \in Item \cup {Shutdown},
             queue' = Append(queue, x), order' = Append(order, x)
      PROVE  /\ Taken' = Taken
             /\ Len(order') \in Nat /\ Len(order') >= Len(order)
             /\ \A p \in 1 .. Len(order) : order'[p] = order[p]
  BY <1>2, AppendFacts
<1>3. CASE HasItem /\ order' = order
  BY <1>3
<1> QED
  BY <1>1, <1>2, <1>3, QueueMoves

LEMMA TakeEffect ==
    ASSUME TypeInv, QueueInv, HasItem, order' = order
    PROVE  /\ Taken' = Taken + 1 /\ Taken + 1 <= Len(order)
           /\ Head(queue) = order[Taken + 1]
           /\ Head(queue) \in Item \cup {Shutdown}
  BY HeadTail DEF HasItem, TypeInv, TypeOK, QueueInv, Taken

LEMMA WorkStep ==
    ASSUME TypeInv, QueueInv, OnceInv, WorkInv, ReadyInv, [Next]_vars
    PROVE  WorkInv'
<1> USE TakenFacts, TakenMoves DEF WorkInv
<1>1. ASSUME Taken' = Taken, worker' = worker, current' = current, outcome' = outcome,
             \A i \in Item : fut'[i] \in Settled => outcome[i] = fut'[i]
      PROVE  WorkInv'
  BY <1>1 DEF OwnOutcome
<1>2. ASSUME NEW i \in Item, \/ SubmitCheck(i) \/ CancelFuture(i) \/ Put(i) \/ AcloseCheck(i)
                               \/ CancelAclose(i) \/ AcloseResume(i) \/ AcloseJoined(i)
      PROVE  WorkInv'
  <2>1. worker' = worker /\ current' = current /\ outcome' = outcome
    BY <1>2 DEF SubmitCheck, CancelFuture, Put, AcloseCheck, CancelAclose, AcloseResume, AcloseJoined
  <2>2. Taken' = Taken
    <3>1. CASE queue' = queue /\ order' = order
      BY <3>1 DEF Taken
    <3>2. CASE \E x \in Item \cup {Shutdown} : queue' = Append(queue, x) /\ order' = Append(order, x)
      BY <3>2, AppendFacts DEF Taken, TypeInv, TypeOK
    <3> QED
      BY <1>2, <3>1, <3>2 DEF SubmitCheck, CancelFuture, Put, AcloseCheck, CancelAclose,
                              AcloseResume, AcloseJoined
  <2>3. \/ fut' = fut
        \/ \E v \in {"refused", "pending", "cancelled"} : fut' = [fut EXCEPT ![i] = v]
    BY <1>2 DEF SubmitCheck, CancelFuture, Put, AcloseCheck, CancelAclose, AcloseResume, AcloseJoined
  <2>4. \A j \in Item : fut'[j] \in Settled => outcome[j] = fut'[j]
    BY <2>3 DEF OwnOutcome, Settled, TypeInv, TypeOK
  <2> QED
    BY <1>1, <2>1, <2>2, <2>4
<1>3. ASSUME NEW l \in Loop, RunCallback(l) PROVE WorkInv'
  <2>1. /\ queue' = queue /\ order' = order /\ worker' = worker /\ current' = current
        /\ outcome' = outcome /\ ready[l] # <<>>
        /\ \/ fut' = fut
           \/ fut' = [fut EXCEPT ![Head(ready[l]).future] = Head(ready[l]).with]
    BY <1>3 DEF RunCallback
  <2>2. Head(ready[l]) \in Callback /\ Head(ready[l]) = ready[l][1] /\ 1 \in 1 .. Len(ready[l])
    BY <2>1, HeadTail DEF TypeInv, TypeOK
  <2>3. outcome[Head(ready[l]).future] = Head(ready[l]).with
    BY <2>2 DEF ReadyInv
  <2>4. \A i \in Item : fut'[i] \in Settled => outcome[i] = fut'[i]
    <3>1. PICK r : r = Head(ready[l]) /\ r \in Callback /\ outcome[r.future] = r.with
      BY <2>2, <2>3
    <3>2. fut' = fut \/ fut' = [fut EXCEPT ![r.future] = r.with]
      BY <2>1, <3>1
    <3> QED
      BY <2>1, <3>1, <3>2 DEF OwnOutcome, TypeInv, TypeOK
  <2> QED
    BY <1>1, <2>1, <2>4 DEF Taken
<1>4. CASE WorkerStop \/ WorkerSkip
  <2>1. /\ HasItem /\ order' = order /\ fut' = fut /\ outcome' = outcome /\ current' = current
        /\ worker = "idle" /\ worker' \in {"idle", "stopped"}
    BY <1>4 DEF WorkerStop, WorkerSkip, HasItem
  <2> QED
    BY <2>1, TakeEffect DEF OwnOutcome
<1>5. CASE WorkerStart
  <2>1. /\ HasItem /\ order' = order /\ fut' = fut /\ outcome' = outcome
        /\ current' = Head(queue) /\ worker' = "running" /\ Head(queue) # Shutdown
    BY <1>5 DEF WorkerStart
  <2>2. \A p \in 1 .. Taken : order[p] # Head(queue)
    BY SMTT(30), <2>1, TakeEffect DEF OnceInv
  <2>3. outcome[Head(queue)] = "none"
    BY <2>1, <2>2, TakeEffect
  <2> QED
    BY <2>1, <2>3, TakeEffect DEF OwnOutcome
<1>6. CASE WorkerFinish
  <2>1. /\ worker = "running" /\ worker' = "posting" /\ current' = current
        /\ queue' = queue /\ order' = order /\ fut' = fut /\ current \in Item
        /\ \E v \in Settled : outcome' = [outcome EXCEPT ![current] = v]
    BY <1>6 DEF WorkerFinish, Settled, TypeInv
  <2>2. /\ \A i \in Item : i # current => outcome'[i] = outcome[i]
        /\ outcome[current] = "none" /\ "none" \notin Settled
    BY <2>1 DEF TypeInv, TypeOK, Settled
  <2>3. Taken' = Taken
    BY <2>1 DEF Taken
  <2> QED
    BY <2>1, <2>2, <2>3 DEF OwnOutcome
<1>7. CASE WorkerPost
  <2>1. /\ worker' \in {"idle", "dead"} /\ current' = None
        /\ queue' = queue /\ order' = order /\ fut' = fut /\ outcome' = outcome
    BY <1>7 DEF WorkerPost
  <2>2. Taken' = Taken
    BY <2>1 DEF Taken
  <2> QED
    BY <2>1, <2>2 DEF OwnOutcome
<1>8. ASSUME NEW l \in Loop, CloseLoop(l) PROVE WorkInv'
  BY <1>8 DEF CloseLoop, Taken, OwnOutcome
<1>9. CASE UNCHANGED vars
  BY <1>9 DEF vars, Taken, OwnOutcome
<1> QED
  BY <1>2, <1>3, <1>4, <1>5, <1>6, <1>7, <1>8, <1>9, RequestFacts DEF Next, Worker

\* A callback posted is of a request that has been taken and run.
LEMMA PostedFacts ==
    ASSUME TypeInv, WorkInv, ReadyInv, NEW l \in Loop, NEW n \in 1 .. Len(ready[l])
    PROVE  /\ ready[l][n].future \in Item /\ ready[l][n].with \in Settled
           /\ LoopOf[ready[l][n].future] = l
           /\ outcome[ready[l][n].future] = ready[l][n].with
           /\ ready[l][n].future # current
           /\ \E p \in 1 .. Taken : order[p] = ready[l][n].future
<1>1. ready[l][n] \in Callback
  BY DEF TypeInv, TypeOK
<1>2. /\ LoopOf[ready[l][n].future] = l
      /\ outcome[ready[l][n].future] = ready[l][n].with
      /\ ready[l][n].future # current
  BY DEF ReadyInv
<1> QED
  BY <1>1, <1>2 DEF WorkInv, Callback, Settled

\* Steps that post nothing: on each loop they leave the callbacks, or a tail of them.
NothingPosted ==
    \A l \in Loop : \E d \in Nat : \A n \in 1 .. Len(ready'[l]) :
        n + d \in 1 .. Len(ready[l]) /\ ready'[l][n] = ready[l][n + d]

LEMMA ReadyKept ==
    ASSUME TypeInv, QueueInv, OnceInv, WorkInv, ReadyInv, [Next]_vars, OnceInv', NothingPosted,
           \A i \in Item : outcome[i] # "none" => outcome'[i] = outcome[i],
           \A i \in Item : \A p \in 1 .. Taken : order[p] = i /\ i # current => i # current'
    PROVE  ReadyInv'
<1>1. ASSUME NEW l \in Loop, NEW n \in 1 .. Len(ready'[l])
      PROVE  /\ LoopOf[ready'[l][n].future] = l
             /\ outcome'[ready'[l][n].future] = ready'[l][n].with
             /\ ready'[l][n].future # current'
  <2>1. PICK d \in Nat : n + d \in 1 .. Len(ready[l]) /\ ready'[l][n] = ready[l][n + d]
    BY DEF NothingPosted
  <2> DEFINE r == ready[l][n + d]
  <2>2. /\ r.future \in Item /\ r.with \in Settled /\ LoopOf[r.future] = l
        /\ outcome[r.future] = r.with /\ r.future # current
        /\ \E p \in 1 .. Taken : order[p] = r.future
    BY <2>1, PostedFacts
  <2>3. outcome'[r.future] = outcome[r.future] /\ r.future # current'
    BY <2>2 DEF Settled
  <2> QED
    BY <2>1, <2>2, <2>3
<1>2. ASSUME NEW l \in Loop, NEW m \in 1 .. Len(ready'[l]), NEW n \in 1 .. Len(ready'[l]),
             NEW p \in 1 .. Len(order'), NEW q \in 1 .. Len(order'),
             m < n, order'[p] = ready'[l][m].future, order'[q] = ready'[l][n].future
      PROVE  p < q
  <2>1. PICK d \in Nat : \A x \in 1 .. Len(ready'[l]) :
                           x + d \in 1 .. Len(ready[l]) /\ ready'[l][x] = ready[l][x + d]
    BY DEF NothingPosted
  <2>2. /\ m + d \in 1 .. Len(ready[l]) /\ n + d \in 1 .. Len(ready[l]) /\ m + d < n + d
        /\ ready'[l][m] = ready[l][m + d] /\ ready'[l][n] = ready[l][n + d]
    BY <1>2, <2>1
  <2>3. PICK pp \in 1 .. Taken : order[pp] = ready[l][m + d].future
    BY <2>2, PostedFacts
  <2>4. PICK qq \in 1 .. Taken : order[qq] = ready[l][n + d].future
    BY <2>2, PostedFacts
  <2>5. /\ pp \in 1 .. Len(order) /\ qq \in 1 .. Len(order)
        /\ pp \in 1 .. Len(order') /\ qq \in 1 .. Len(order')
        /\ order'[pp] = order[pp] /\ order'[qq] = order[qq]
    <3>1. /\ Taken \in Nat /\ Len(order) \in Nat /\ Taken <= Len(order)
          /\ Len(order') \in Nat /\ Len(order') >= Len(order)
          /\ \A x \in 1 .. Len(order) : order'[x] = order[x]
      BY TakenFacts, TakenMoves
    <3> QED
      BY <2>3, <2>4, <3>1
  <2>6. pp < qq
    BY <2>2, <2>3, <2>4, <2>5 DEF ReadyInv
  <2>7. pp = p /\ qq = q
    BY <1>2, <2>2, <2>3, <2>4, <2>5 DEF OnceInv
  <2> QED
    BY <2>6, <2>7
<1> QED
  BY <1>1, <1>2 DEF ReadyInv

LEMMA ReadyStep ==
    ASSUME TypeInv, QueueInv, OnceInv, WorkInv, ReadyInv, [Next]_vars, OnceInv'
    PROVE  ReadyInv'
<1> USE TakenFacts
<1>0. \A l \in Loop : ready[l] \in Seq(Callback) /\ Len(ready[l]) \in Nat
  BY DEF TypeInv, TypeOK
<1>1. ready' = ready => NothingPosted
  <2>1. ASSUME NEW l \in Loop, NEW n \in 1 .. Len(ready[l]) PROVE n + 0 \in 1 .. Len(ready[l]) /\ n + 0 = n
    OBVIOUS
  <2> QED
    BY <2>1 DEF NothingPosted
<1>10. ASSUME ready' = ready, outcome' = outcome, current' = current PROVE ReadyInv'
  BY <1>1, <1>10, ReadyKept
<1>2. ASSUME NEW l \in Loop, RunCallback(l) PROVE ReadyInv'
  <2>1. /\ ready[l] # <<>> /\ outcome' = outcome /\ current' = current
        /\ ready' = [ready EXCEPT ![l] = Tail(ready[l])]
    BY <1>2 DEF RunCallback
  <2>2. /\ ready'[l] = Tail(ready[l])
        /\ \A m \in Loop : m # l => ready'[m] = ready[m]
    BY <2>1 DEF TypeInv, TypeOK
  <2>3. \A n \in 1 .. Len(ready'[l]) :
            n + 1 \in 1 .. Len(ready[l]) /\ ready'[l][n] = ready[l][n + 1]
    <3>1. /\ Len(ready[l]) \in Nat /\ Len(Tail(ready[l])) = Len(ready[l]) - 1
          /\ \A n \in 1 .. Len(Tail(ready[l])) : Tail(ready[l])[n] = ready[l][n + 1]
      BY <1>0, <2>1, HeadTail
    <3> QED
      BY <2>2, <3>1
  <2>4. ASSUME NEW m \in Loop
        PROVE  \E d \in Nat : \A n \in 1 .. Len(ready'[m]) :
                 n + d \in 1 .. Len(ready[m]) /\ ready'[m][n] = ready[m][n + d]
    <3>1. CASE m = l
      BY <2>3, <3>1
    <3>2. CASE m # l
      <4>1. \A n \in 1 .. Len(ready'[m]) :
               n + 0 \in 1 .. Len(ready[m]) /\ ready'[m][n] = ready[m][n + 0]
        BY <1>0, <2>2, <3>2
      <4> QED
        BY <4>1
    <3> QED
      BY <3>1, <3>2
  <2>5. NothingPosted
    BY <2>4 DEF NothingPosted
  <2> QED
    BY <2>1, <2>5, ReadyKept
<1>3. ASSUME NEW l \in Loop, CloseLoop(l) PROVE ReadyInv'
  <2>1. /\ outcome' = outcome /\ current' = current
        /\ ready'[l] = <<>> /\ \A m \in Loop : m # l => ready'[m] = ready[m]
    BY <1>3 DEF CloseLoop, TypeInv, TypeOK
  <2>2. ASSUME NEW m \in Loop
        PROVE  \A n \in 1 .. Len(ready'[m]) :
                 n + 0 \in 1 .. Len(ready[m]) /\ ready'[m][n] = ready[m][n + 0]
    BY <1>0, <2>1
  <2>3. NothingPosted
    BY <2>2 DEF NothingPosted
  <2> QED
    BY <2>1, <2>3, ReadyKept
<1>4. CASE WorkerStop \/ WorkerSkip
  BY <1>10, <1>4 DEF WorkerStop, WorkerSkip
<1>5. CASE WorkerStart
  <2>1. /\ HasItem /\ order' = order /\ outcome' = outcome /\ ready' = ready
        /\ current' = Head(queue)
    BY <1>5 DEF WorkerStart
  <2>2. \A p \in 1 .. Taken : order[p] # current'
    BY <2>1, TakeEffect DEF OnceInv
  <2> QED
    BY <1>1, <2>1, <2>2, ReadyKept
<1>6. CASE WorkerFinish
  <2>1. /\ current' = current /\ ready' = ready /\ worker = "running"
        /\ \A i \in Item : i # current => outcome'[i] = outcome[i]
    BY <1>6 DEF WorkerFinish, TypeInv, TypeOK
  <2>2. outcome[current] = "none"
    BY <2>1 DEF WorkInv
  <2> QED
    BY <1>1, <2>1, <2>2, ReadyKept
<1>8. ASSUME NEW i \in Item, \/ SubmitCheck(i) \/ CancelFuture(i) \/ Put(i) \/ AcloseCheck(i)
                               \/ CancelAclose(i) \/ AcloseResume(i) \/ AcloseJoined(i)
      PROVE  ReadyInv'
  BY <1>10, <1>8 DEF SubmitCheck, CancelFuture, Put, AcloseCheck, CancelAclose, AcloseResume, AcloseJoined
<1>9. CASE UNCHANGED vars
  BY <1>10, <1>9 DEF vars
<1>7. CASE WorkerPost
  <2> DEFINE l == LoopOf[current]
             r == [future |-> current, with |-> outcome[current]]
  <2>1. /\ worker = "posting" /\ current' = None /\ outcome' = outcome
        /\ order' = order /\ queue' = queue
        /\ ready' = ready \/ ready' = [ready EXCEPT ![l] = Append(@, r)]
    BY <1>7 DEF WorkerPost
  <2>2. Taken' = Taken /\ current \in Item /\ order[Taken] = current /\ Taken >= 1 /\ l \in Loop
    BY <2>1, RequestFacts DEF WorkInv, TypeInv, Taken
  <2>3. CASE ready' = ready
    BY <1>1, <2>1, <2>3, RequestFacts, ReadyKept
  <2>4. CASE ready' = [ready EXCEPT ![l] = Append(@, r)]
    <3>1. r \in Callback
      BY <2>1, <2>2 DEF TypeInv, Callback
    <3>2. /\ Len(ready'[l]) = Len(ready[l]) + 1 /\ ready'[l][Len(ready[l]) + 1] = r
          /\ \A n \in 1 .. Len(ready[l]) : ready'[l][n] = ready[l][n]
          /\ \A m \in Loop : m # l => ready'[m] = ready[m]
      BY <1>0, <2>2, <2>4, <3>1, AppendFacts DEF TypeInv, TypeOK
    <3>3. ASSUME NEW m \in Loop, NEW n \in 1 .. Len(ready'[m])
          PROVE  /\ LoopOf[ready'[m][n].future] = m
                 /\ outcome'[ready'[m][n].future] = ready'[m][n].with
                 /\ ready'[m][n].future # current'
      <4>1. CASE n \in 1 .. Len(ready[m]) /\ ready'[m][n] = ready[m][n]
        BY <2>1, <4>1, PostedFacts, RequestFacts
      <4>2. CASE m = l /\ ready'[m][n] = r
        BY <2>1, <2>2, <4>2, RequestFacts
      <4> QED
        BY <1>0, <3>2, <4>1, <4>2
    <3>4. ASSUME NEW k \in Loop, NEW m \in 1 .. Len(ready'[k]), NEW n \in 1 .. Len(ready'[k]),
                 NEW p \in 1 .. Len(order), NEW q \in 1 .. Len(order),
                 m < n, order[p] = ready'[k][m].future, order[q] = ready'[k][n].future
          PROVE  p < q
      <4>0. \/ m \in 1 .. Len(ready[k]) /\ ready'[k][m] = ready[k][m] /\ n \in 1 .. Len(ready[k])
                /\ ready'[k][n] = ready[k][n]
            \/ m \in 1 .. Len(ready[k]) /\ ready'[k][m] = ready[k][m] /\ ready'[k][n] = r
        <5>1. CASE k # l
          BY <3>2, <5>1
        <5>2. CASE k = l
          <6>1. Len(ready[l]) \in Nat
            BY <1>0, <2>2
          <6>2. n \in 1 .. Len(ready[l]) \/ n = Len(ready[l]) + 1
            BY <3>2, <5>2, <6>1
          <6>3. m \in 1 .. Len(ready[l])
            BY <3>4, <5>2, <6>1, <6>2
          <6> QED
            BY <3>2, <5>2, <6>2, <6>3
        <5> QED
          BY <5>1, <5>2
      <4>1. m \in 1 .. Len(ready[k]) /\ ready'[k][m] = ready[k][m]
        BY <4>0
      <4>2. CASE n \in 1 .. Len(ready[k]) /\ ready'[k][n] = ready[k][n]
        BY <3>4, <4>1, <4>2 DEF ReadyInv
      <4>3. CASE ready'[k][n] = r
        <5>1. q = Taken
          BY <2>2, <3>4, <4>3 DEF OnceInv
        <5>2. PICK pp \in 1 .. Taken : order[pp] = ready[k][m].future /\ order[pp] # current
          BY ZenonT(60), <4>1, PostedFacts
        <5>3. pp = p
          BY <3>4, <4>1, <5>2 DEF OnceInv
        <5> QED
          BY <2>2, <5>1, <5>2, <5>3
      <4> QED
        BY <4>0, <4>2, <4>3
    <3> QED
      BY <2>1, <3>3, <3>4 DEF ReadyInv
  <2> QED
    BY <2>1, <2>3, <2>4
<1> QED
  BY <1>2, <1>3, <1>4, <1>5, <1>6, <1>7, <1>8, <1>9, RequestFacts DEF Next, Worker

\* One request of PendInv: where an unanswered request has gone.
Held(i) ==
    \/ i = current
    \/ \E n \in 1 .. Len(ready[LoopOf[i]]) : ready[LoopOf[i]][n].future = i

LEMMA PendStep ==
    ASSUME TypeInv, QueueInv, OnceInv, WorkInv, ReadyInv, PendInv, [Next]_vars
    PROVE  PendInv'
<1>0. /\ Taken \in Nat /\ Len(order) \in Nat /\ Taken <= Len(order)
      /\ \A p \in 1 .. Len(order) : order'[p] = order[p]
  BY TakenFacts, TakenMoves
<1>1. ASSUME NEW i \in Item, NEW p \in 1 .. Taken, order[p] = i, fut[i] = "pending", up[LoopOf[i]]
      PROVE  Held(i)
  BY <1>1 DEF PendInv, Held
\* It is enough to follow each request taken before, and the one taken now.
<1>2. ASSUME \A i \in Item : \A p \in 1 .. Taken :
                order[p] = i /\ fut'[i] = "pending" /\ up'[LoopOf[i]] => Held(i)',
             \A i \in Item :
                HasItem /\ order' = order /\ Head(queue) = i /\ fut'[i] = "pending" => Held(i)'
      PROVE  PendInv'
  <2>1. CASE Taken' = Taken
    BY <1>0, <1>2, <2>1 DEF PendInv, Held
  <2>2. CASE HasItem /\ order' = order
    <3>1. Taken' = Taken + 1 /\ Taken + 1 <= Len(order) /\ Head(queue) = order[Taken + 1]
      BY <2>2, TakeEffect
    <3>2. ASSUME NEW p \in 1 .. Taken', order'[p] \in Item, fut'[order'[p]] = "pending",
                 up'[LoopOf[order'[p]]]
          PROVE  Held(order[p])'
      <4>1. CASE p \in 1 .. Taken
        BY <1>2, <2>2, <3>2, <4>1
      <4>2. CASE p = Taken + 1
        BY <1>2, <2>2, <3>1, <3>2, <4>2
      <4> QED
        BY <1>0, <3>1, <4>1, <4>2
    <3> QED
      BY <2>2, <3>2 DEF PendInv, Held
  <2> QED
    BY <2>1, <2>2, TakenMoves
<1>3. ASSUME NEW c \in Item, \/ SubmitCheck(c) \/ CancelFuture(c) \/ AcloseCheck(c)
                               \/ CancelAclose(c) \/ AcloseResume(c) \/ AcloseJoined(c) \/ Put(c)
      PROVE  PendInv'
  <2>1. /\ ready' = ready /\ current' = current /\ up' = up
        /\ worker' = worker
        /\ \/ fut' = fut
           \/ \E v \in {"refused", "cancelled"} : fut' = [fut EXCEPT ![c] = v]
           \/ Put(c) /\ fut' = [fut EXCEPT ![c] = "pending"]
    BY <1>3 DEF SubmitCheck, CancelFuture, AcloseCheck, CancelAclose, AcloseResume, AcloseJoined, Put
  <2>2. ASSUME NEW i \in Item, NEW p \in 1 .. Taken, order[p] = i, fut'[i] = "pending"
        PROVE  fut[i] = "pending"
    <3>1. CASE Put(c)
      <4>1. fut[c] = "none" /\ fut[i] # "none"
        BY <1>0, <2>2, <3>1, PutEffect, RequestFacts DEF OnceInv
      <4> QED
        BY <2>2, <3>1, <4>1, PutEffect
    <3> QED
      BY <2>1, <2>2, <3>1 DEF TypeInv, TypeOK
  <2>3. Taken' = Taken
    <3>1. CASE queue' = queue /\ order' = order
      BY <3>1 DEF Taken
    <3>2. CASE \E x \in Item \cup {Shutdown} : queue' = Append(queue, x) /\ order' = Append(order, x)
      BY <3>2, AppendFacts DEF Taken, TypeInv, TypeOK
    <3> QED
      BY <1>3, <3>1, <3>2 DEF SubmitCheck, CancelFuture, Put, AcloseCheck, CancelAclose,
                              AcloseResume, AcloseJoined
  <2> QED
    BY <1>0, <1>1, <2>1, <2>2, <2>3 DEF PendInv, Held
<1>4. ASSUME NEW l \in Loop, RunCallback(l) PROVE PendInv'
  <2> DEFINE r == Head(ready[l])
  <2>1. /\ ready[l] # <<>> /\ current' = current /\ up' = up /\ queue' = queue /\ order' = order
        /\ ready' = [ready EXCEPT ![l] = Tail(ready[l])]
        /\ fut' = IF fut[r.future] = "pending" THEN [fut EXCEPT ![r.future] = r.with] ELSE fut
    BY <1>4 DEF RunCallback
  <2>2. /\ ready'[l] = Tail(ready[l]) /\ r = ready[l][1] /\ r \in Callback
        /\ \A m \in Loop : m # l => ready'[m] = ready[m]
        /\ Len(ready[l]) \in Nat /\ Len(Tail(ready[l])) = Len(ready[l]) - 1
        /\ \A n \in 1 .. Len(Tail(ready[l])) : Tail(ready[l])[n] = ready[l][n + 1]
    BY <2>1, HeadTail DEF TypeInv, TypeOK
  <2>3. ASSUME NEW i \in Item, NEW p \in 1 .. Taken,
               order[p] = i, fut'[i] = "pending", up'[LoopOf[i]]
        PROVE  Held(i)'
    <3>1. fut[i] = "pending" /\ r.future # i
      BY <2>1, <2>2, <2>3 DEF Callback, Settled, TypeInv, TypeOK
    <3>2. Held(i)
      BY <1>1, <2>1, <2>3, <3>1
    <3>3. CASE i = current
      BY <2>1, <3>3 DEF Held
    <3>4. ASSUME NEW n \in 1 .. Len(ready[LoopOf[i]]), ready[LoopOf[i]][n].future = i
          PROVE  Held(i)'
      <4>1. CASE LoopOf[i] # l
        BY <2>2, <3>4, <4>1, RequestFacts DEF Held
      <4>2. CASE LoopOf[i] = l
        <5>1. n # 1
          BY <2>2, <3>1, <3>4, <4>2
        <5>2. n - 1 \in 1 .. Len(Tail(ready[l])) /\ Tail(ready[l])[n - 1] = ready[l][n]
          BY <2>2, <3>4, <4>2, <5>1
        <5> QED
          BY ZenonT(60), <2>2, <3>4, <4>2, <5>2 DEF Held
      <4> QED
        BY <4>1, <4>2
    <3> QED
      BY <3>2, <3>3, <3>4 DEF Held
  <2>4. Taken' = Taken
    BY <2>1 DEF Taken
  <2> QED
    BY <2>1, <2>3, <2>4 DEF PendInv, Held
<1>5. ASSUME NEW l \in Loop, CloseLoop(l) PROVE PendInv'
  <2>1. /\ current' = current /\ queue' = queue /\ order' = order /\ fut' = fut
        /\ ~up'[l] /\ \A m \in Loop : m # l => ready'[m] = ready[m] /\ up'[m] = up[m]
    BY <1>5 DEF CloseLoop, TypeInv, TypeOK
  <2>2. Taken' = Taken
    BY <2>1 DEF Taken
  <2> QED
    BY <1>1, <2>1, <2>2, RequestFacts DEF PendInv, Held
<1>6. CASE WorkerStop \/ WorkerSkip
  <2>1. /\ ready' = ready /\ current' = current /\ up' = up /\ fut' = fut
        /\ (Head(queue) = Shutdown \/ fut[Head(queue)] = "cancelled")
    BY <1>6 DEF WorkerStop, WorkerSkip
  <2> QED
    BY <1>1, <1>2, <2>1, RequestFacts DEF Held
<1>7. CASE WorkerStart
  <2>1. /\ ready' = ready /\ current' = Head(queue) /\ up' = up /\ fut' = fut
        /\ worker = "idle"
    BY <1>7 DEF WorkerStart, HasItem
  <2>2. current = None
    BY <2>1 DEF WorkInv
  <2> QED
    BY <1>1, <1>2, <2>1, <2>2, RequestFacts DEF Held
<1>8. CASE WorkerFinish
  <2>1. /\ ready' = ready /\ current' = current /\ up' = up /\ fut' = fut
        /\ queue' = queue /\ order' = order
    BY <1>8 DEF WorkerFinish
  <2>2. Taken' = Taken
    BY <2>1 DEF Taken
  <2> QED
    BY <1>1, <2>1, <2>2 DEF PendInv, Held
<1>9. CASE WorkerPost
  <2> DEFINE l == LoopOf[current]
             r == [future |-> current, with |-> outcome[current]]
  <2>1. /\ worker = "posting" /\ up' = up /\ fut' = fut /\ queue' = queue /\ order' = order
        /\ \/ up[l] /\ ready' = [ready EXCEPT ![l] = Append(@, r)]
           \/ ~up[l] /\ ready' = ready
    BY <1>9 DEF WorkerPost
  <2>2. Taken' = Taken
    BY <2>1 DEF Taken
  <2>3. ASSUME NEW i \in Item, NEW p \in 1 .. Taken,
               order[p] = i, fut'[i] = "pending", up'[LoopOf[i]]
        PROVE  Held(i)'
    <3>1. Held(i)
      BY <1>1, <2>1, <2>3
    <3>2. CASE ~up[l]
      BY <2>1, <2>3, <3>1, <3>2 DEF Held
    <3>3. CASE up[l]
      <4>1. ready' = [ready EXCEPT ![l] = Append(@, r)] /\ r \in Callback /\ l \in Loop
        BY <2>1, <3>3, RequestFacts DEF TypeInv, Callback
      <4>2. /\ Len(ready[l]) \in Nat /\ Len(ready'[l]) = Len(ready[l]) + 1
            /\ ready'[l][Len(ready[l]) + 1] = r
            /\ \A n \in 1 .. Len(ready[l]) : ready'[l][n] = ready[l][n]
            /\ \A m \in Loop : m # l => ready'[m] = ready[m]
        BY <4>1, AppendFacts DEF TypeInv, TypeOK
      <4>3. CASE i = current
        BY SMTT(30), <4>2, <4>3 DEF Held
      <4>4. ASSUME NEW n \in 1 .. Len(ready[LoopOf[i]]), ready[LoopOf[i]][n].future = i
            PROVE  Held(i)'
        <5>1. CASE LoopOf[i] = l
          BY SMTT(30), <4>2, <4>4, <5>1 DEF Held
        <5>2. CASE LoopOf[i] # l
          BY <4>2, <4>4, <5>2, RequestFacts DEF Held
        <5> QED
          BY <5>1, <5>2
      <4> QED
        BY <3>1, <4>3, <4>4 DEF Held
    <3> QED
      BY <3>2, <3>3
  <2> QED
    BY <2>1, <2>2, <2>3 DEF PendInv, Held
<1>10. CASE UNCHANGED vars
  <2>1. Taken' = Taken
    BY <1>10 DEF vars, Taken
  <2> QED
    BY <1>1, <1>10, <2>1 DEF vars, PendInv, Held
<1> QED
  BY <1>3, <1>4, <1>5, <1>6, <1>7, <1>8, <1>9, <1>10, RequestFacts DEF Next, Worker

LEMMA InvStep == Inv /\ [Next]_vars => Inv'
<1> SUFFICES ASSUME Inv, [Next]_vars PROVE Inv'
  OBVIOUS
<1>1. OnceInv'
  BY OnceStep DEF Inv
<1> QED
  BY <1>1, TypeStep, QueueStep, AcloseStep, WorkStep, ReadyStep, PendStep DEF Inv

LEMMA Invariance == Spec => []Inv
  BY InvInit, InvStep, PTL DEF Spec
-----------------------------------------------------------------------------
(* What a caller sees *)

\* Whatever fails, is cancelled or is closed, a future never shows an outcome that
\* is not the one of its own call.
THEOREM OutcomeCorrect == Spec => []OwnOutcome
<1>1. Inv => OwnOutcome
  BY DEF Inv, WorkInv
<1> QED
  BY <1>1, Invariance, PTL

\* A step changes a future that has an answer in no way.
LEMMA FutMoves ==
    ASSUME Inv, [Next]_vars, NEW i \in Item
    PROVE  /\ fut[i] \notin {"none", "pending"} => fut'[i] = fut[i]
           /\ fut[i] = "pending" => fut'[i] \in Settled \cup {"pending", "cancelled"}
           /\ fut[i] = "none" => fut'[i] \in {"none", "refused", "pending"}
<1> USE RequestFacts
<1>1. CASE Quiet
  BY <1>1 DEF Quiet, Settled
<1>2. ASSUME NEW c \in Call, SubmitCheck(c)
      PROVE  fut'[i] = fut[i] \/ (fut[i] = "none" /\ fut'[i] = "refused")
  <2>1. /\ fut[c] = "none"
        /\ \A j \in Item : j # c => fut'[j] = fut[j]
        /\ fut' = fut \/ fut'[c] = "refused"
    BY <1>2, SubmitCheckEffect DEF Inv
  <2>2. CASE i = c
    BY <2>1, <2>2
  <2>3. CASE i # c
    BY <2>1, <2>3
  <2> QED
    BY <2>2, <2>3
<1>3. ASSUME NEW k \in Closer, AcloseCheck(k) \/ AcloseResume(k)
      PROVE  fut'[i] = fut[i]
  BY <1>3 DEF AcloseCheck, AcloseResume
<1>4. ASSUME NEW j \in Item, Put(j)
      PROVE  fut'[i] = fut[i] \/ (fut[i] = "none" /\ fut'[i] = "pending")
  <2>1. /\ \A m \in Item : m # j => fut'[m] = fut[m]
        /\ fut'[j] = "pending" /\ thread[LoopOf[j]] = j
    BY <1>4, PutEffect DEF Inv
  <2>2. fut[j] = "none"
    BY <2>1 DEF Inv, OnceInv
  <2>3. CASE i = j
    BY <2>1, <2>2, <2>3
  <2>4. CASE i # j
    BY <2>1, <2>4
  <2> QED
    BY <2>3, <2>4
<1> QED
  BY <1>1, <1>2, <1>3, <1>4, QuietSteps DEF Inv, TypeInv, TypeOK, Settled

\* Once it is settled, cancelled or refused, a future stays so: a late answer of the
\* worker changes nothing.
THEOREM AnswersAreFinal == Spec => SettledForever
<1>1. Inv /\ [Next]_vars =>
        [\A i \in Item : fut[i] \notin {"none", "pending"} => fut'[i] = fut[i]]_vars
  BY FutMoves
<1> QED
  BY <1>1, Invariance, PTL DEF Spec, SettledForever

\* The first callback of a loop is of the oldest unanswered request of that loop.
LEMMA FirstIsOldest ==
    ASSUME Inv, NEW l \in Loop, up[l], ready[l] # <<>>,
           NEW p \in 1 .. Len(order), NEW q \in 1 .. Len(order), p < q,
           order[q] = Head(ready[l]).future,
           order[p] \in Item, LoopOf[order[p]] = l
    PROVE  fut[order[p]] # "pending"
<1> SUFFICES ASSUME fut[order[p]] = "pending" PROVE FALSE
  OBVIOUS
<1>1. Head(ready[l]) = ready[l][1] /\ 1 \in 1 .. Len(ready[l])
  BY HeadTail DEF Inv, TypeInv, TypeOK
<1>2. PICK t \in 1 .. Taken : order[t] = ready[l][1].future /\ order[t] # current
  BY SMTT(30), <1>1, PostedFacts DEF Inv
<1>3. Taken \in Nat /\ Len(order) \in Nat /\ Taken <= Len(order)
  BY TakenFacts DEF Inv
<1>4. t = q
  BY <1>1, <1>2, <1>3 DEF Inv, OnceInv
<1>5. order[p] = current \/ \E n \in 1 .. Len(ready[l]) : ready[l][n].future = order[p]
  BY <1>2, <1>3, <1>4 DEF Inv, PendInv
<1>6. order[p] # current
  <2>1. CASE worker \in {"running", "posting"}
    <3>1. order[Taken] = current /\ Taken \in 1 .. Len(order)
      BY <1>3, <2>1 DEF Inv, WorkInv
    <3> QED
      BY <1>2, <1>3, <1>4, <3>1 DEF Inv, OnceInv
  <2>2. CASE worker \notin {"running", "posting"}
    BY <2>2, RequestFacts DEF Inv, WorkInv
  <2> QED
    BY <2>1, <2>2
<1>7. PICK n \in 1 .. Len(ready[l]) : ready[l][n].future = order[p]
  BY <1>5, <1>6
<1>8. CASE n = 1
  BY <1>1, <1>7, <1>8 DEF Inv, OnceInv
<1>9. CASE 1 < n
  BY <1>1, <1>7, <1>9 DEF Inv, ReadyInv
<1> QED
  BY <1>8, <1>9

LEMMA OrderStep == Inv /\ InOrder /\ [Next]_vars => InOrder'
<1> SUFFICES ASSUME Inv, InOrder, [Next]_vars,
                    NEW p \in 1 .. Len(order'), NEW q \in 1 .. Len(order'),
                    p < q, order'[p] \in Item, order'[q] \in Item,
                    LoopOf[order'[p]] = LoopOf[order'[q]],
                    fut'[order'[q]] \in Settled
             PROVE  fut'[order'[p]] # "pending"
  BY DEF InOrder
<1>1. Len(order) \in Nat /\ \A n \in 1 .. Len(order) : order'[n] = order[n]
  BY TakenFacts, TakenMoves DEF Inv
<1>2. q \in 1 .. Len(order)
  <2>1. CASE order' = order
    BY <2>1
  <2>2. ASSUME NEW i \in Item, Put(i) PROVE q \in 1 .. Len(order)
    <3>1. fut'[i] = "pending" /\ order'[Len(order) + 1] = i /\ Len(order') = Len(order) + 1
      BY <2>2, PutEffect DEF Inv
    <3>2. q # Len(order) + 1
      BY <3>1 DEF Settled
    <3> QED
      BY <1>1, <3>1, <3>2
  <2>3. ASSUME NEW k \in Closer, AcloseResume(k) PROVE q \in 1 .. Len(order)
    <3>1. CASE order'[Len(order) + 1] = Shutdown /\ Len(order') = Len(order) + 1
      BY <1>1, <3>1, RequestFacts
    <3> QED
      BY <2>1, <2>3, <3>1, AcloseResumeEffect DEF Inv
  <2>4. \/ order' = order
        \/ \E i \in Item : Put(i)
        \/ \E k \in Closer : AcloseResume(k)
    BY QuietSteps, SubmitCheckEffect, AcloseCheckEffect DEF Quiet, Inv
  <2> QED
    BY <2>1, <2>2, <2>3, <2>4
<1>3. /\ p \in 1 .. Len(order) /\ order[p] \in Item /\ order[q] \in Item
      /\ LoopOf[order[p]] = LoopOf[order[q]] /\ fut'[order[q]] \in Settled
      /\ order'[p] = order[p] /\ order'[q] = order[q]
  BY <1>1, <1>2
<1>4. fut'[order[p]] = "pending" => fut[order[p]] = "pending"
  BY <1>3, FutMoves DEF Inv, OnceInv
<1>5. CASE fut[order[q]] \in Settled
  BY <1>2, <1>3, <1>4, <1>5 DEF InOrder
<1>6. CASE fut[order[q]] \notin Settled
  <2>1. PICK l \in Loop : RunCallback(l)
    <3>1. ASSUME NEW c \in Item, \/ SubmitCheck(c) \/ CancelFuture(c) \/ AcloseCheck(c)
                                   \/ CancelAclose(c) \/ AcloseResume(c) \/ AcloseJoined(c) \/ Put(c)
          PROVE  FALSE
      <4>1. \/ fut' = fut
            \/ \E v \in {"refused", "cancelled", "pending"} : fut' = [fut EXCEPT ![c] = v]
        BY <3>1 DEF SubmitCheck, CancelFuture, AcloseCheck, CancelAclose, AcloseResume, AcloseJoined, Put
      <4> QED
        BY <1>3, <1>6, <4>1 DEF Settled, Inv, TypeInv, TypeOK
    <3>2. ASSUME NEW l \in Loop, CloseLoop(l) PROVE FALSE
      BY <1>3, <1>6, <3>2 DEF CloseLoop
    <3>3. ASSUME Worker PROVE FALSE
      BY <1>3, <1>6, <3>3
         DEF Worker, WorkerStop, WorkerSkip, WorkerStart, WorkerFinish, WorkerPost
    <3>4. ASSUME UNCHANGED vars PROVE FALSE
      BY <1>3, <1>6, <3>4 DEF vars
    <3> QED
      BY <3>1, <3>2, <3>3, <3>4, RequestFacts DEF Next
  <2> DEFINE r == Head(ready[l])
  <2>2. /\ up[l] /\ ready[l] # <<>>
        /\ fut' = fut \/ fut' = [fut EXCEPT ![r.future] = r.with]
    BY <2>1 DEF RunCallback, Free
  <2>3. order[q] = r.future
    BY <1>3, <1>6, <2>2 DEF Inv, TypeInv, TypeOK
  <2>4. LoopOf[r.future] = l
    <3>1. r = ready[l][1] /\ 1 \in 1 .. Len(ready[l])
      BY <2>2, HeadTail DEF Inv, TypeInv, TypeOK
    <3> QED
      BY <3>1, PostedFacts DEF Inv
  <2> QED
    BY <1>2, <1>3, <1>4, <2>2, <2>3, <2>4, FirstIsOldest
<1> QED
  BY <1>3, <1>5, <1>6

\* The futures of a loop settle in the order of their submission, also when other
\* loops, failures and cancellations come between.
THEOREM OrderCorrect == Spec => []InOrder
<1>1. Init => InOrder
  BY DEF Init, InOrder
<1> QED
  BY <1>1, OrderStep, Invariance, PTL DEF Spec
-----------------------------------------------------------------------------
(* Every unanswered future is on its way to its answer *)

\* A pending request has been put.
PutInv ==
    \A i \in Item : fut[i] = "pending" => \E p \in 1 .. Len(order) : order[p] = i

\* What has been put stays in order.
LEMMA OrderGrows ==
    ASSUME Inv, [Next]_vars, NEW p \in 1 .. Len(order)
    PROVE  p \in 1 .. Len(order') /\ order'[p] = order[p]
<1>1. order \in Seq(Item \cup {Shutdown})
  BY DEF Inv, TypeInv, TypeOK
<1>2. CASE order' = order
  BY <1>2
<1>3. ASSUME NEW x \in Item \cup {Shutdown}, order' = Append(order, x)
      PROVE  p \in 1 .. Len(order') /\ order'[p] = order[p]
  BY <1>1, <1>3
<1> QED
  BY <1>2, <1>3, QueueMoves DEF Inv

LEMMA PutStep == Inv /\ PutInv /\ [Next]_vars => PutInv'
<1> SUFFICES ASSUME Inv, PutInv, [Next]_vars, NEW i \in Item, fut'[i] = "pending"
             PROVE  \E p \in 1 .. Len(order') : order'[p] = i
  BY DEF PutInv
<1>1. CASE fut[i] = "pending"
  BY <1>1, OrderGrows DEF PutInv
<1>2. CASE fut[i] # "pending"
  <2>1. fut[i] = "none"
    BY <1>2, FutMoves
  <2>2. PICK j \in Item : Put(j)
    <3>1. CASE Quiet
      BY <3>1, <1>2 DEF Quiet, Settled
    <3>2. ASSUME NEW c \in Call, SubmitCheck(c)
          PROVE  FALSE
      BY <3>2, <1>2, SubmitCheckEffect DEF Inv
    <3>3. ASSUME NEW k \in Closer, AcloseCheck(k) \/ AcloseResume(k)
          PROVE  FALSE
      BY <3>3, <1>2 DEF AcloseCheck, AcloseResume
    <3> QED
      BY <3>1, <3>2, <3>3, QuietSteps DEF Inv
  <2>3. i = j
    BY <2>2, <1>2, PutEffect DEF Inv
  <2>4. order' = Append(order, i) /\ order \in Seq(Item \cup {Shutdown})
    BY <2>2, <2>3 DEF Put, Inv, TypeInv, TypeOK
  <2>5. Len(order) + 1 \in 1 .. Len(order') /\ order'[Len(order) + 1] = i
    BY <2>4
  <2> QED
    BY <2>5
<1> QED
  BY <1>1, <1>2

\* What is in the queue has not been taken, what has an outcome has; so the three
\* places exclude each other.
LEMMA OnePlace ==
    ASSUME Inv, PutInv
    PROVE  NobodyForgotten
<1> SUFFICES ASSUME NEW i \in Item, fut[i] = "pending", up[LoopOf[i]]
             PROVE  \E place \in {"queue", "worker", "loop"} : WaitsIn(i) = {place}
  BY DEF NobodyForgotten
<1> DEFINE l == LoopOf[i]
           inQueue == \E n \in DOMAIN queue : queue[n] = i
           inLoop == \E n \in DOMAIN ready[l] : ready[l][n].future = i
<1>1. /\ queue \in Seq(Item \cup {Shutdown}) /\ order \in Seq(Item \cup {Shutdown})
      /\ l \in Loop /\ ready[l] \in Seq(Callback)
  BY RequestsAssumption DEF Inv, TypeInv, TypeOK
<1>2. /\ DOMAIN queue = 1 .. Len(queue) /\ DOMAIN ready[l] = 1 .. Len(ready[l])
      /\ Len(queue) \in Nat /\ Len(order) \in Nat /\ Taken \in Nat
      /\ Taken + Len(queue) = Len(order)
  BY <1>1 DEF Inv, QueueInv, Taken
<1>3. PICK p \in 1 .. Len(order) : order[p] = i
  BY DEF PutInv
<1>4. \A q \in 1 .. Len(order) : order[q] = i => q = p
  BY <1>3 DEF Inv, OnceInv
<1>5. inQueue <=> p > Taken
  <2>1. ASSUME p > Taken PROVE inQueue
    <3>1. p - Taken \in 1 .. Len(queue) /\ Taken + (p - Taken) = p
      BY <1>2, <2>1
    <3>2. queue[p - Taken] = order[p]
      BY <3>1 DEF Inv, QueueInv
    <3> QED
      BY <3>1, <3>2, <1>2, <1>3
  <2>2. ASSUME NEW n \in DOMAIN queue, queue[n] = i PROVE p > Taken
    <3>1. Taken + n \in 1 .. Len(order) /\ order[Taken + n] = i
      BY <1>2, <2>2 DEF Inv, QueueInv
    <3> QED
      BY <3>1, <1>4, <1>2
  <2> QED
    BY <2>1, <2>2
<1>6. ASSUME current = i PROVE p <= Taken /\ ~inLoop
  <2>1. Taken >= 1 /\ order[Taken] = i
    BY <1>6, RequestsAssumption DEF Inv, WorkInv
  <2>2. p = Taken
    BY <2>1, <1>2, <1>4
  <2> QED
    BY <2>2, <1>1, <1>2, <1>6 DEF Inv, ReadyInv
<1>7. ASSUME inLoop PROVE p <= Taken
  <2>1. PICK n \in 1 .. Len(ready[l]) : ready[l][n].future = i
    BY <1>7, <1>2
  <2>2. ready[l][n] \in Callback
    BY <1>1, <2>1
  <2>3. outcome[i] \in Settled
    BY <2>1, <2>2, <1>1 DEF Inv, ReadyInv, Callback
  <2>4. PICK q \in 1 .. Taken : order[q] = i
    BY <2>3 DEF Inv, WorkInv, Settled
  <2> QED
    BY <2>4, <1>2, <1>4
<1>8. ASSUME p <= Taken PROVE current = i \/ inLoop
  <2>1. p \in 1 .. Taken
    BY <1>8, <1>2
  <2> QED
    BY <2>1, <1>3, <1>2 DEF Inv, PendInv
<1>9. WaitsIn(i) = {place \in {"queue", "worker", "loop"} :
                       \/ place = "queue" /\ inQueue
                       \/ place = "worker" /\ current = i
                       \/ place = "loop" /\ inLoop}
  BY DEF WaitsIn
<1> HIDE DEF inQueue, inLoop
<1>10. CASE inQueue
  <2>1. current # i /\ ~inLoop
    BY <1>10, <1>5, <1>6, <1>7, <1>2
  <2>2. WaitsIn(i) = {"queue"}
    BY <1>9, <1>10, <2>1
  <2> QED
    BY <2>2
<1>11. CASE ~inQueue /\ current = i
  <2>1. ~inLoop
    BY <1>11, <1>6
  <2>2. WaitsIn(i) = {"worker"}
    BY <1>9, <1>11, <2>1
  <2> QED
    BY <2>2
<1>12. CASE ~inQueue /\ current # i
  <2>1. inLoop
    BY <1>12, <1>5, <1>8, <1>2
  <2>2. WaitsIn(i) = {"loop"}
    BY <1>9, <1>12, <2>1
  <2> QED
    BY <2>2
<1> QED
  BY <1>10, <1>11, <1>12

\* No unanswered future is dropped or answered from two places, whatever fails, is
\* cancelled or is closed: between queue.get and its callback each call is held by
\* exactly one of the queue, the worker and its loop.
THEOREM NobodyForgottenHolds == Spec => []NobodyForgotten
<1>1. Init => PutInv
  BY DEF Init, PutInv
<1>2. Inv /\ PutInv => NobodyForgotten
  BY OnePlace
<1> QED
  BY <1>1, <1>2, PutStep, Invariance, PTL DEF Spec
-----------------------------------------------------------------------------
(* AsyncConnection implements SerialExecutor *)

\* What the executor sees of the worker.
Active == IF worker = "running" THEN current ELSE None
Stopped == worker = "stopped"

LEMMA SerialInit == Init => Serial!Init
  BY DEF Init, Serial!Init, Serial!Item, Item

LEMMA SerialStutter ==
    ASSUME order' = order, Taken' = Taken, Active' = Active, outcome' = outcome,
           fut' = fut, open' = open, Stopped' = Stopped
    PROVE  UNCHANGED Serial!vars
  BY DEF Serial!vars, Taken, Active, Stopped

\* The executor's turns are the worker's.
LEMMA SerialTurn ==
    ASSUME Inv, HasItem, order' = order
    PROVE  Serial!HasTurn(Head(queue)) /\ Active = None
<1>1. worker = "idle"
  BY DEF HasItem
<1>2. TypeInv /\ QueueInv
  BY DEF Inv
<1>3. /\ Taken' = Taken + 1 /\ Taken + 1 <= Len(order) /\ Head(queue) = order[Taken + 1]
      /\ Taken \in Nat /\ Len(order) \in Nat
  BY <1>2, TakeEffect, TakenFacts
<1>4. Active = None /\ ~Stopped
  BY <1>1 DEF Active, Stopped
<1> QED
  BY <1>3, <1>4 DEF Serial!HasTurn, Taken, Active, Stopped

LEMMA SerialStep == Inv /\ [Next]_vars => [Serial!Next]_(Serial!vars)
<1> SUFFICES ASSUME Inv, [Next]_vars
             PROVE  Serial!Next \/ UNCHANGED Serial!vars
  OBVIOUS
<1> USE RequestFacts
<1>1. ASSUME NEW c \in Call, SubmitCheck(c) PROVE Serial!Refuse(c) \/ UNCHANGED Serial!vars
  <2>1. /\ fut[c] = "none" /\ order' = order /\ queue' = queue /\ worker' = worker
        /\ current' = current /\ outcome' = outcome /\ open' = open
        /\ fut' = fut \/ fut' = [fut EXCEPT ![c] = "refused"]
    BY <1>1 DEF SubmitCheck
  <2>2. Taken' = Taken /\ Active' = Active /\ Stopped' = Stopped
    BY <2>1 DEF Taken, Active, Stopped
  <2>3. CASE fut' = fut
    BY <2>1, <2>2, <2>3, SerialStutter
  <2>4. CASE fut' = [fut EXCEPT ![c] = "refused"]
    BY <2>1, <2>2, <2>4 DEF Serial!Refuse, Taken, Active, Stopped
  <2> QED
    BY <2>1, <2>3, <2>4
<1>2. ASSUME NEW c \in Item, CancelFuture(c) \/ CancelAclose(c)
      PROVE  Serial!Cancel(c) \/ UNCHANGED Serial!vars
  <2>1. /\ order' = order /\ queue' = queue /\ worker' = worker
        /\ current' = current /\ outcome' = outcome /\ open' = open
        /\ \/ fut' = fut
           \/ fut[c] = "pending" /\ fut' = [fut EXCEPT ![c] = "cancelled"]
    BY <1>2 DEF CancelFuture, CancelAclose
  <2>2. Taken' = Taken /\ Active' = Active /\ Stopped' = Stopped
    BY <2>1 DEF Taken, Active, Stopped
  <2>3. CASE fut' = fut
    BY <2>1, <2>2, <2>3, SerialStutter
  <2>4. CASE fut[c] = "pending" /\ fut' = [fut EXCEPT ![c] = "cancelled"]
    BY <2>1, <2>2, <2>4 DEF Serial!Cancel, Taken, Active, Stopped
  <2> QED
    BY <2>1, <2>3, <2>4
<1>3. ASSUME NEW k \in Closer, AcloseCheck(k) \/ AcloseJoined(k) PROVE UNCHANGED Serial!vars
  <2>1. /\ order' = order /\ queue' = queue /\ worker' = worker /\ fut' = fut
        /\ current' = current /\ outcome' = outcome /\ open' = open
    BY <1>3 DEF AcloseCheck, AcloseJoined
  <2> QED
    BY <2>1, SerialStutter DEF Taken, Active, Stopped
<1>4. ASSUME NEW k \in Closer, AcloseResume(k)
      PROVE  Serial!SubmitShutdown \/ UNCHANGED Serial!vars
  <2>1. /\ worker' = worker /\ fut' = fut
        /\ current' = current /\ outcome' = outcome /\ open' = open
        /\ aclose[k] = "closing"
        /\ \/ queue' = queue /\ order' = order
           \/ fut[k] = "ok" /\ queue' = Append(queue, Shutdown) /\ order' = Append(order, Shutdown)
    BY <1>4 DEF AcloseResume
  <2>2. CASE queue' = queue /\ order' = order
    BY <2>1, <2>2, SerialStutter DEF Taken, Active, Stopped
  <2>3. CASE fut[k] = "ok" /\ queue' = Append(queue, Shutdown) /\ order' = Append(order, Shutdown)
    <3>1. outcome[k] = "ok"
      BY <2>3 DEF Inv, WorkInv, OwnOutcome, Settled
    <3>2. \A n \in 1 .. Len(order) : order[n] # Shutdown
      BY <2>1 DEF Inv, AcloseInv
    <3>3. Taken' = Taken
      BY <2>3, AppendFacts DEF Taken, Inv, TypeInv, TypeOK
    <3> QED
      BY <2>1, <2>3, <3>1, <3>2, <3>3 DEF Serial!SubmitShutdown, Taken
  <2> QED
    BY <2>1, <2>2, <2>3
<1>5. ASSUME NEW i \in Item, Put(i) PROVE Serial!Submit(i)
  <2>1. /\ worker' = worker /\ current' = current /\ outcome' = outcome /\ open' = open
        /\ queue' = Append(queue, i) /\ order' = Append(order, i) /\ thread[LoopOf[i]] = i
        /\ fut' = [fut EXCEPT ![i] = "pending"]
    BY <1>5 DEF Put
  <2>2. fut[i] = "none"
    BY <2>1 DEF Inv, OnceInv
  <2>3. Taken' = Taken
    BY <2>1, AppendFacts DEF Taken, Inv, TypeInv, TypeOK
  <2> QED
    BY <2>1, <2>2, <2>3 DEF Serial!Submit, Taken
<1>6. ASSUME NEW l \in Loop, RunCallback(l)
      PROVE  (\E i \in Item : Serial!Settle(i)) \/ UNCHANGED Serial!vars
  <2> DEFINE r == Head(ready[l])
  <2>1. /\ order' = order /\ queue' = queue /\ worker' = worker /\ up[l] /\ ready[l] # <<>>
        /\ current' = current /\ outcome' = outcome /\ open' = open
        /\ \/ fut' = fut
           \/ fut[r.future] = "pending" /\ fut' = [fut EXCEPT ![r.future] = r.with]
    BY <1>6 DEF RunCallback, Free
  <2>2. CASE fut' = fut
    BY <2>1, <2>2, SerialStutter DEF Taken, Active, Stopped
  <2>3. CASE fut[r.future] = "pending" /\ fut' = [fut EXCEPT ![r.future] = r.with]
    <3>1. r = ready[l][1] /\ 1 \in 1 .. Len(ready[l])
      BY <2>1, HeadTail DEF Inv, TypeInv, TypeOK
    <3>2. /\ r.future \in Item /\ r.with \in Settled /\ LoopOf[r.future] = l
          /\ outcome[r.future] = r.with
      BY <3>1, PostedFacts DEF Inv
    <3>3. Serial!NoneWaitsBefore(r.future)
      BY <2>1, <3>2, FirstIsOldest DEF Serial!NoneWaitsBefore, Serial!Item, Item
    <3> QED
      BY <2>1, <2>3, <3>2, <3>3 DEF Serial!Settle, Settled
  <2> QED
    BY <2>1, <2>2, <2>3
<1>7. ASSUME NEW l \in Loop, CloseLoop(l) PROVE UNCHANGED Serial!vars
  BY <1>7, SerialStutter DEF CloseLoop, Taken, Active, Stopped
<1>8. CASE WorkerStop
  <2>1. /\ HasItem /\ order' = order /\ Head(queue) = Shutdown /\ worker = "idle"
        /\ worker' = "stopped" /\ outcome' = outcome /\ fut' = fut /\ open' = open
    BY <1>8 DEF WorkerStop, HasItem
  <2> QED
    BY <2>1, SerialTurn DEF Serial!Stop, Serial!Next
<1>9. CASE WorkerSkip
  <2>1. /\ HasItem /\ order' = order /\ Head(queue) # Shutdown /\ worker = "idle"
        /\ worker' = "idle" /\ outcome' = outcome /\ fut' = fut /\ open' = open
        /\ fut[Head(queue)] = "cancelled"
    BY <1>9 DEF WorkerSkip, HasItem
  <2>2. Head(queue) \in Item
    BY <2>1, TakeEffect DEF Inv
  <2>3. Serial!Skip(Head(queue))
    BY <2>1, SerialTurn DEF Serial!Skip
  <2> QED
    BY <2>2, <2>3 DEF Serial!Next, Serial!Item, Item
<1>10. CASE WorkerStart
  <2>1. /\ HasItem /\ order' = order /\ Head(queue) # Shutdown /\ worker = "idle"
        /\ worker' = "running" /\ current' = Head(queue)
        /\ outcome' = outcome /\ fut' = fut /\ open' = open
        /\ fut[Head(queue)] # "cancelled"
    BY <1>10 DEF WorkerStart, HasItem
  <2>2. Head(queue) \in Item
    BY <2>1, TakeEffect DEF Inv
  <2>3. Serial!Start(Head(queue))
    BY <2>1, SerialTurn DEF Serial!Start
  <2> QED
    BY <2>2, <2>3 DEF Serial!Next, Serial!Item, Item
<1>11. CASE WorkerFinish
  <2>1. /\ worker = "running" /\ worker' = "posting" /\ order' = order /\ queue' = queue
        /\ fut' = fut /\ current \in Item
        /\ \/ /\ outcome' = [outcome EXCEPT ![current] = "ok"]
              /\ open' = OpenAfter(current, open)
           \/ /\ MayRaise(current, open)
              /\ outcome' = [outcome EXCEPT ![current] = "error"]
              /\ open' = open
    BY <1>11 DEF WorkerFinish, Inv, TypeInv
  <2>2. Serial!Finish(current)
    BY <2>1 DEF Serial!Finish, Serial!OpenAfter, Serial!MayRaise, Serial!Kind,
                OpenAfter, MayRaise, Kind
  <2> QED
    BY <2>1, <2>2 DEF Serial!Next, Serial!Item, Item
<1>12. CASE WorkerPost
  <2>1. /\ worker = "posting" /\ worker' \in {"idle", "dead"} /\ order' = order /\ queue' = queue
        /\ fut' = fut /\ outcome' = outcome /\ open' = open
    BY <1>12 DEF WorkerPost
  <2> QED
    BY <2>1, SerialStutter DEF Taken, Active, Stopped
<1>13. CASE UNCHANGED vars
  BY <1>13, SerialStutter DEF vars, Taken, Active, Stopped
<1> QED
  BY <1>1, <1>2, <1>3, <1>4, <1>5, <1>6, <1>7, <1>8, <1>9, <1>10, <1>11, <1>12, <1>13
     DEF Next, Worker, Serial!Next, Serial!Item, Item

\* Everything AsyncConnection does, with its threads, locks, callbacks and failures,
\* is something the serial executor may do.
THEOREM Implements == Spec => SerialSpec
  BY SerialInit, SerialStep, Invariance, PTL DEF Spec, SerialSpec, Serial!Spec
-----------------------------------------------------------------------------
(* One event loop: what aclose leaves behind *)

SingleLoop == \A i, j \in Item : LoopOf[i] = LoopOf[j]

\* With one loop, an aclose that has passed the lock has passed every submission.
AloneInv ==
    /\ \A k \in Closer : aclose[k] \notin {"idle", "noop"} =>
          \A l \in Loop : thread[l] \in Item => thread[l] = k
    /\ \A k \in Closer : fut[k] # "none" => \A l \in Loop : thread[l] \notin Item

\* So nothing follows its close in the queue but the shutdown signal.
LastInv ==
    /\ \A i \in Item : fut[i] \notin {"none", "refused"} => \E p \in 1 .. Len(order) : order[p] = i
    /\ \A k \in Closer : \A p, q \in 1 .. Len(order) : order[p] = k /\ p < q => order[q] = Shutdown
    /\ \A k \in Closer : aclose[k] \in {"joining", "returned"} =>
          fut[k] = "ok" /\ Len(order) >= 1 /\ order[Len(order)] = Shutdown

\* And the port stays closed; the worker ends at the signal, or with the loop.
EndInv ==
    /\ \A k \in Closer : outcome[k] = "ok" => ~open
    /\ worker = "stopped" => \E p \in 1 .. Taken : order[p] = Shutdown
    /\ worker = "dead" => \E i \in Item : ~up[LoopOf[i]]

DrainInv == Inv /\ InOrder /\ AloneInv /\ LastInv /\ EndInv /\ AcloseDrains

LEMMA DrainInit == Init => DrainInv
<1> SUFFICES ASSUME Init PROVE DrainInv
  OBVIOUS
<1>1. Inv
  BY InvInit
<1>2. /\ Len(order) = 0 /\ \A i \in Item : fut[i] = "none" /\ outcome[i] = "none"
      /\ \A k \in Closer : aclose[k] = "idle"
      /\ worker = "idle"
  BY DEF Init
<1>3. InOrder /\ AloneInv /\ LastInv /\ EndInv /\ AcloseDrains
  BY <1>2, RequestFacts DEF InOrder, AloneInv, LastInv, EndInv, AcloseDrains
<1> QED
  BY <1>1, <1>3 DEF DrainInv

LEMMA AloneStep ==
    ASSUME SingleLoop, DrainInv, [Next]_vars
    PROVE  AloneInv'
<1> USE RequestFacts
<1>0. TypeInv /\ OnceInv /\ AcloseInv /\ AloneInv /\ Inv
  BY DEF DrainInv, Inv
<1>1. CASE Quiet
  <2>1. ASSUME NEW k \in Closer, aclose'[k] \notin {"idle", "noop"}
        PROVE  aclose[k] \notin {"idle", "noop"}
    <3>1. CASE aclose' = aclose
      BY <2>1, <3>1
    <3>2. ASSUME NEW j \in Closer, CancelAclose(j) \/ AcloseJoined(j)
          PROVE  aclose[k] \notin {"idle", "noop"}
      BY <1>0, <2>1, <3>2 DEF CancelAclose, AcloseJoined, TypeInv, TypeOK
    <3>3. \/ aclose' = aclose
          \/ \E j \in Closer : CancelAclose(j) \/ AcloseJoined(j) \/ AcloseCheck(j) \/ AcloseResume(j)
      BY <1>0, QuietSteps, SubmitCheckEffect, PutEffect
    <3>4. ASSUME NEW j \in Closer, AcloseCheck(j) PROVE aclose[k] \notin {"idle", "noop"}
      <4>1. thread'[LoopOf[j]] = thread[LoopOf[j]] /\ j # None
        BY <1>1 DEF Quiet
      <4> QED
        BY <1>0, <2>1, <3>4, <4>1, AcloseCheckEffect
    <3>5. ASSUME NEW j \in Closer, AcloseResume(j) PROVE aclose[k] \notin {"idle", "noop"}
      BY <1>0, <2>1, <3>5, AcloseResumeEffect
    <3> QED
      BY <3>1, <3>2, <3>3, <3>4, <3>5
  <2>2. thread' = thread /\ \A k \in Closer : fut'[k] # "none" => fut[k] # "none"
    BY <1>1 DEF Quiet
  <2> QED
    BY <1>0, <2>1, <2>2 DEF AloneInv
<1>2. ASSUME NEW c \in Call, SubmitCheck(c) PROVE AloneInv'
  <2>1. aclose' = aclose /\ \A k \in Closer : fut'[k] = fut[k]
    BY <1>0, <1>2, SubmitCheckEffect
  <2>2. CASE closed
    BY <1>0, <1>2, <2>1, <2>2, SubmitCheckEffect DEF AloneInv
  <2>3. CASE ~closed
    BY <1>0, <2>1, <2>3 DEF AloneInv, AcloseInv
  <2> QED
    BY <2>2, <2>3
<1>3. ASSUME NEW k \in Closer, AcloseCheck(k) PROVE AloneInv'
  <2>1. fut' = fut /\ \A j \in Closer : j # k => aclose'[j] = aclose[j]
    BY <1>0, <1>3, AcloseCheckEffect
  <2>2. CASE closed
    BY <1>0, <1>3, <2>1, <2>2, AcloseCheckEffect DEF AloneInv
  <2>3. CASE ~closed
    <3>1. \A j \in Closer : aclose[j] \in {"idle", "noop"} /\ fut[j] = "none"
      BY <1>0, <2>3 DEF AcloseInv
    <3>2. ASSUME NEW l \in Loop, thread'[l] \in Item PROVE thread'[l] = k
      <4>1. CASE l = LoopOf[k]
        BY <1>0, <1>3, <2>3, <4>1, AcloseCheckEffect
      <4>2. CASE l # LoopOf[k]
        BY <1>0, <1>3, <3>2, <4>2, AcloseCheckEffect DEF OnceInv, SingleLoop
      <4> QED
        BY <4>1, <4>2
    <3> QED
      BY <2>1, <3>1, <3>2 DEF AloneInv
  <2> QED
    BY <2>2, <2>3
<1>4. ASSUME NEW k \in Closer, AcloseResume(k) PROVE AloneInv'
  BY <1>0, <1>4, AcloseResumeEffect DEF AloneInv
<1>5. ASSUME NEW i \in Item, Put(i) PROVE AloneInv'
  <2>1. ASSUME NEW l \in Loop PROVE thread'[l] \notin Item
    BY <1>0, <1>5, PutEffect DEF OnceInv, SingleLoop
  <2> QED
    BY <2>1 DEF AloneInv
<1> QED
  BY <1>0, <1>1, <1>2, <1>3, <1>4, <1>5, QuietSteps

\* Once the close of an aclose is in the queue nothing is in the middle of a submission.
LEMMA NoLatePut ==
    ASSUME DrainInv, NEW k \in Closer, fut[k] # "none", NEW i \in Item, Put(i)
    PROVE  FALSE
  BY RequestFacts DEF DrainInv, AloneInv, Put

LEMMA LastStep ==
    ASSUME DrainInv, [Next]_vars
    PROVE  LastInv'
<1> USE RequestFacts
<1>0. TypeInv /\ OnceInv /\ AcloseInv /\ LastInv /\ Inv /\ QueueInv
  BY DEF DrainInv, Inv
<1>1. ASSUME order' = order, ~\E k \in Closer : AcloseResume(k) /\ fut[k] = "ok" PROVE LastInv'
  <2>1. ASSUME NEW i \in Item, fut'[i] \notin {"none", "refused"}
        PROVE  fut[i] \notin {"none", "refused"}
    <3>1. CASE \E j \in Item : Put(j)
      BY <1>0, <1>1, <3>1, PutEffect
    <3>2. ASSUME NEW c \in Call, SubmitCheck(c) PROVE fut[i] \notin {"none", "refused"}
      BY <1>0, <2>1, <3>2, SubmitCheckEffect
    <3>3. ASSUME NEW k \in Closer, AcloseCheck(k) \/ AcloseResume(k)
          PROVE  fut[i] \notin {"none", "refused"}
      BY <2>1, <3>3 DEF AcloseCheck, AcloseResume
    <3>4. CASE Quiet
      BY <2>1, <3>4 DEF Quiet
    <3> QED
      BY <1>0, <3>1, <3>2, <3>3, <3>4, QuietSteps
  <2>2. ASSUME NEW k \in Closer, aclose'[k] \in {"joining", "returned"}
        PROVE  aclose[k] \in {"joining", "returned"}
    <3>1. ASSUME NEW j \in Closer, AcloseCheck(j) PROVE aclose[k] \in {"joining", "returned"}
      BY <1>0, <2>2, <3>1, AcloseCheckEffect
    <3>2. ASSUME NEW j \in Closer, AcloseResume(j) PROVE aclose[k] \in {"joining", "returned"}
      BY <1>0, <1>1, <2>2, <3>2, AcloseResumeEffect
    <3>3. ASSUME NEW j \in Closer, CancelAclose(j) \/ AcloseJoined(j)
          PROVE aclose[k] \in {"joining", "returned"}
      BY <1>0, <2>2, <3>3 DEF CancelAclose, AcloseJoined, TypeInv, TypeOK
    <3>4. CASE aclose' = aclose
      BY <2>2, <3>4
    <3> QED
      BY <1>0, <3>1, <3>2, <3>3, <3>4, QuietSteps, SubmitCheckEffect, PutEffect
  <2>3. \A k \in Closer : fut[k] = "ok" => fut'[k] = "ok"
    BY <1>0, FutMoves
  <2> QED
    BY <1>0, <1>1, <2>1, <2>2, <2>3 DEF LastInv
<1>2. ASSUME NEW k \in Closer, AcloseResume(k), fut[k] = "ok" PROVE LastInv'
  <2>1. /\ fut' = fut /\ aclose'[k] = "joining" /\ \A j \in Closer : j # k => aclose'[j] = aclose[j]
        /\ Len(order) \in Nat /\ Len(order') = Len(order) + 1
        /\ \A p \in 1 .. Len(order) : order'[p] = order[p]
        /\ order'[Len(order) + 1] = Shutdown
        /\ aclose[k] = "closing"
    BY <1>0, <1>2, AcloseResumeEffect
  <2>2. \A j \in Closer : j # k => aclose[j] \in {"idle", "noop"}
    BY <1>0, <2>1 DEF AcloseInv
  <2>3. \A i \in Item : fut'[i] \notin {"none", "refused"} => \E p \in 1 .. Len(order') : order'[p] = i
    BY <1>0, <2>1 DEF LastInv
  <2>4. ASSUME NEW j \in Closer, NEW p \in 1 .. Len(order'), NEW q \in 1 .. Len(order'),
               order'[p] = j, p < q
        PROVE  order'[q] = Shutdown
    <3>1. CASE q = Len(order) + 1
      BY <2>1, <3>1
    <3>2. CASE q \in 1 .. Len(order)
      BY <1>0, <2>1, <2>4, <3>2 DEF LastInv
    <3> QED
      BY <2>1, <3>1, <3>2
  <2>5. ASSUME NEW j \in Closer, aclose'[j] \in {"joining", "returned"}
        PROVE  fut'[j] = "ok" /\ Len(order') >= 1 /\ order'[Len(order')] = Shutdown
    BY <1>2, <2>1, <2>2, <2>5
  <2> QED
    BY <2>3, <2>4, <2>5 DEF LastInv
<1>3. ASSUME NEW i \in Item, Put(i) PROVE LastInv'
  <2>1. /\ aclose' = aclose /\ fut'[i] = "pending"
        /\ \A j \in Item : j # i => fut'[j] = fut[j]
        /\ Len(order) \in Nat /\ Len(order') = Len(order) + 1
        /\ \A p \in 1 .. Len(order) : order'[p] = order[p]
        /\ order'[Len(order) + 1] = i
    BY <1>0, <1>3, PutEffect
  <2>2. \A k \in Closer : fut[k] = "none"
    BY <1>3, NoLatePut
  <2>3. \A p \in 1 .. Len(order) : order[p] \notin Closer
    BY <1>0, <2>2 DEF OnceInv
  <2>4. ASSUME NEW m \in Item, fut'[m] \notin {"none", "refused"}
        PROVE  \E p \in 1 .. Len(order') : order'[p] = m
    <3>1. CASE m = i
      BY <2>1, <3>1
    <3>2. CASE m # i
      <4>1. PICK p \in 1 .. Len(order) : order[p] = m
        BY <1>0, <2>1, <2>4, <3>2 DEF LastInv
      <4> QED
        BY <2>1, <4>1
    <3> QED
      BY <3>1, <3>2
  <2>5. ASSUME NEW j \in Closer, NEW p \in 1 .. Len(order'), NEW q \in 1 .. Len(order'),
               order'[p] = j, p < q
        PROVE  FALSE
    BY <2>1, <2>3, <2>5
  <2>6. \A k \in Closer : aclose'[k] \notin {"joining", "returned"}
    BY <1>0, <2>1, <2>2 DEF LastInv
  <2> QED
    BY <2>4, <2>5, <2>6 DEF LastInv
<1>4. \/ order' = order /\ ~\E k \in Closer : AcloseResume(k) /\ fut[k] = "ok"
      \/ \E k \in Closer : AcloseResume(k) /\ fut[k] = "ok"
      \/ \E i \in Item : Put(i)
  BY <1>0, QuietSteps, SubmitCheckEffect, AcloseCheckEffect, AcloseResumeEffect DEF Quiet
<1> QED
  BY <1>1, <1>2, <1>3, <1>4

LEMMA EndStep ==
    ASSUME DrainInv, [Next]_vars
    PROVE  EndInv'
<1> USE RequestFacts
<1>0. TypeInv /\ OnceInv /\ WorkInv /\ LastInv /\ EndInv /\ Inv /\ QueueInv
  BY DEF DrainInv, Inv
<1>1. /\ Taken \in Nat /\ Len(order) \in Nat /\ Taken <= Len(order)
      /\ \A p \in 1 .. Len(order) : order'[p] = order[p]
  BY <1>0, TakenFacts, TakenMoves
<1>2. ASSUME NEW k \in Closer, outcome'[k] = "ok" PROVE ~open'
  <2>1. CASE WorkerFinish
    <3>1. /\ worker = "running" /\ current \in Item
          /\ \/ outcome' = [outcome EXCEPT ![current] = "ok"] /\ open' = OpenAfter(current, open)
             \/ outcome' = [outcome EXCEPT ![current] = "error"] /\ open' = open
      BY <1>0, <2>1 DEF WorkerFinish, TypeInv
    <3>2. outcome[current] = "none" /\ order[Taken] = current /\ Taken >= 1
      BY <1>0, <3>1 DEF WorkInv
    <3>3. CASE current = k
      <4>1. ~OpenAfter(current, open)
        BY <3>3 DEF OpenAfter, Kind
      <4>2. outcome'[k] = "ok" => open' = OpenAfter(current, open)
        BY <1>0, <3>1, <3>3 DEF TypeInv, TypeOK
      <4> QED
        BY <1>2, <4>1, <4>2
    <3>4. CASE current # k
      <4>1. outcome[k] = "ok"
        BY <1>0, <1>2, <3>1, <3>4 DEF TypeInv, TypeOK
      <4>2. PICK p \in 1 .. Taken : order[p] = k
        BY <1>0, <4>1 DEF WorkInv
      <4>3. p < Taken
        BY <1>1, <3>2, <3>4, <4>2
      <4>4. order[Taken] = Shutdown
        BY <1>0, <1>1, <3>2, <4>2, <4>3 DEF LastInv
      <4> QED
        BY <3>1, <3>2, <4>4
    <3> QED
      BY <3>3, <3>4
  <2>2. CASE outcome' = outcome /\ open' = open
    BY <1>0, <1>2, <2>2 DEF EndInv
  <2>3. ASSUME NEW i \in Item, \/ SubmitCheck(i) \/ CancelFuture(i) \/ Put(i) \/ AcloseCheck(i)
                                 \/ CancelAclose(i) \/ AcloseResume(i) \/ AcloseJoined(i)
        PROVE  outcome' = outcome /\ open' = open
    BY <2>3 DEF SubmitCheck, CancelFuture, Put, AcloseCheck, CancelAclose, AcloseResume, AcloseJoined
  <2>4. ASSUME NEW l \in Loop, RunCallback(l) \/ CloseLoop(l) PROVE outcome' = outcome /\ open' = open
    BY <2>4 DEF RunCallback, CloseLoop
  <2>5. CASE WorkerStop \/ WorkerSkip \/ WorkerStart \/ WorkerPost
    BY <2>2, <2>5 DEF WorkerStop, WorkerSkip, WorkerStart, WorkerPost
  <2>6. CASE UNCHANGED vars
    BY <2>2, <2>6 DEF vars
  <2> QED
    BY <2>1, <2>2, <2>3, <2>4, <2>5, <2>6 DEF Next, Worker
<1>3. /\ worker' = "stopped" => \E p \in 1 .. Taken' : order'[p] = Shutdown
      /\ worker' = "dead" => \E i \in Item : ~up'[LoopOf[i]]
  <2>1. CASE worker' = worker /\ Taken' = Taken
    <3>1. \A l \in Loop : up'[l] => up[l]
      <4>1. ASSUME NEW l \in Loop, CloseLoop(l) PROVE \A m \in Loop : up'[m] => up[m]
        BY <1>0, <4>1 DEF CloseLoop, TypeInv, TypeOK
      <4>2. ASSUME NEW i \in Item, \/ SubmitCheck(i) \/ CancelFuture(i) \/ Put(i) \/ AcloseCheck(i)
                                     \/ CancelAclose(i) \/ AcloseResume(i) \/ AcloseJoined(i)
            PROVE  up' = up
        BY <4>2 DEF SubmitCheck, CancelFuture, Put, AcloseCheck, CancelAclose, AcloseResume, AcloseJoined
      <4>3. ASSUME NEW l \in Loop, RunCallback(l) PROVE up' = up
        BY <4>3 DEF RunCallback
      <4>4. CASE Worker \/ UNCHANGED vars
        BY <4>4 DEF Worker, WorkerStop, WorkerSkip, WorkerStart, WorkerFinish, WorkerPost, vars
      <4> QED
        BY <4>1, <4>2, <4>3, <4>4 DEF Next
    <3> QED
      BY <1>0, <1>1, <2>1, <3>1 DEF EndInv
  <2>2. CASE WorkerStop
    <3>1. HasItem /\ order' = order /\ Head(queue) = Shutdown /\ worker' = "stopped"
      BY <2>2 DEF WorkerStop
    <3>2. Taken' = Taken + 1 /\ order[Taken + 1] = Shutdown
      BY <1>0, <3>1, TakeEffect
    <3> QED
      BY <1>1, <3>1, <3>2
  <2>3. CASE WorkerSkip \/ WorkerStart \/ WorkerFinish
    BY <2>3 DEF WorkerSkip, WorkerStart, WorkerFinish, HasItem
  <2>4. CASE WorkerPost
    <3>1. /\ worker = "posting" /\ worker' # "stopped" /\ up' = up
          /\ worker' = "dead" => ~up[LoopOf[current]]
      BY <2>4 DEF WorkerPost
    <3> QED
      BY <1>0, <3>1 DEF TypeInv
  <2>5. ASSUME ~Worker PROVE worker' = worker /\ Taken' = Taken
    <3>1. ASSUME NEW i \in Item, \/ SubmitCheck(i) \/ CancelFuture(i) \/ Put(i) \/ AcloseCheck(i)
                                   \/ CancelAclose(i) \/ AcloseResume(i) \/ AcloseJoined(i)
          PROVE  worker' = worker /\ Taken' = Taken
      <4>1. worker' = worker
        BY <3>1 DEF SubmitCheck, CancelFuture, Put, AcloseCheck, CancelAclose, AcloseResume, AcloseJoined
      <4>2. CASE queue' = queue /\ order' = order
        BY <4>1, <4>2 DEF Taken
      <4>3. CASE \E x \in Item \cup {Shutdown} : queue' = Append(queue, x) /\ order' = Append(order, x)
        BY <1>0, <4>1, <4>3, AppendFacts DEF Taken, TypeInv, TypeOK
      <4> QED
        BY <3>1, <4>2, <4>3 DEF SubmitCheck, CancelFuture, Put, AcloseCheck, CancelAclose,
                                AcloseResume, AcloseJoined
    <3>2. ASSUME NEW l \in Loop, RunCallback(l) \/ CloseLoop(l) PROVE worker' = worker /\ Taken' = Taken
      BY <3>2 DEF RunCallback, CloseLoop, Taken
    <3>3. CASE UNCHANGED vars
      BY <3>3 DEF vars, Taken
    <3> QED
      BY <2>5, <3>1, <3>2, <3>3 DEF Next
  <2> QED
    BY <2>1, <2>2, <2>3, <2>4, <2>5 DEF Worker
<1> QED
  BY <1>2, <1>3 DEF EndInv

LEMMA DrainsStep ==
    ASSUME SingleLoop, DrainInv, [Next]_vars
    PROVE  AcloseDrains'
<1> USE RequestFacts
<1>0. /\ TypeInv /\ OnceInv /\ WorkInv /\ LastInv /\ EndInv /\ Inv /\ QueueInv
      /\ InOrder /\ AcloseDrains
  BY DEF DrainInv, Inv
<1>1. SUFFICES ASSUME NEW k \in Closer, aclose'[k] = "returned"
               PROVE  ~open' /\ worker' = "stopped" /\ queue' = <<>> /\ \A i \in Item : fut'[i] # "pending"
  BY DEF AcloseDrains
<1>2. CASE aclose[k] = "returned"
  <2>1. /\ ~open /\ worker = "stopped" /\ queue = <<>> /\ \A i \in Item : fut[i] # "pending"
        /\ fut[k] = "ok"
    BY <1>0, <1>2 DEF AcloseDrains, LastInv
  <2>2. ASSUME NEW i \in Item, Put(i) PROVE FALSE
    BY <2>1, <2>2, NoLatePut
  <2>3. ASSUME NEW j \in Closer, AcloseResume(j) PROVE FALSE
    BY <1>0, <1>2, <2>3, AcloseResumeEffect DEF Inv, AcloseInv
  <2>4. ~Worker
    BY <2>1 DEF Worker, WorkerStop, WorkerSkip, WorkerStart, WorkerFinish, WorkerPost, HasItem
  <2>5. open' = open /\ worker' = worker /\ queue' = queue
    <3>1. ASSUME NEW i \in Item, \/ SubmitCheck(i) \/ CancelFuture(i) \/ AcloseCheck(i)
                                   \/ CancelAclose(i) \/ AcloseJoined(i)
          PROVE  open' = open /\ worker' = worker /\ queue' = queue
      BY <3>1 DEF SubmitCheck, CancelFuture, AcloseCheck, CancelAclose, AcloseJoined
    <3>2. ASSUME NEW l \in Loop, RunCallback(l) \/ CloseLoop(l)
          PROVE  open' = open /\ worker' = worker /\ queue' = queue
      BY <3>2 DEF RunCallback, CloseLoop
    <3> QED
      BY <2>2, <2>3, <2>4, <3>1, <3>2 DEF Next, vars
  <2>6. ASSUME NEW i \in Item PROVE fut'[i] # "pending"
    <3>1. CASE Quiet
      BY <2>1, <3>1 DEF Quiet, Settled
    <3>2. ASSUME NEW c \in Call, SubmitCheck(c) PROVE fut'[i] # "pending"
      BY <1>0, <2>1, <3>2, SubmitCheckEffect
    <3>3. ASSUME NEW j \in Closer, AcloseCheck(j) PROVE fut'[i] # "pending"
      BY <1>0, <2>1, <3>3, AcloseCheckEffect
    <3> QED
      BY <1>0, <2>2, <2>3, <3>1, <3>2, <3>3, QuietSteps
  <2> QED
    BY <2>1, <2>5, <2>6
<1>3. CASE aclose[k] # "returned"
  <2>1. AcloseJoined(k)
    <3>1. ASSUME NEW j \in Closer, AcloseCheck(j) \/ AcloseResume(j) PROVE FALSE
      BY <1>0, <1>1, <1>3, <3>1, AcloseCheckEffect, AcloseResumeEffect
    <3>2. ASSUME NEW j \in Closer, CancelAclose(j) PROVE FALSE
      BY <1>0, <1>1, <1>3, <3>2 DEF CancelAclose, TypeInv, TypeOK
    <3>3. aclose' # aclose
      BY <1>1, <1>3
    <3>4. PICK j \in Closer : AcloseJoined(j)
      BY <1>0, <3>1, <3>2, <3>3, QuietSteps, SubmitCheckEffect, PutEffect
    <3> QED
      BY <1>0, <1>1, <1>3, <3>4 DEF AcloseJoined, TypeInv, TypeOK
  <2>2. /\ aclose[k] = "joining" /\ worker \in {"stopped", "dead"} /\ up[LoopOf[k]]
        /\ open' = open /\ worker' = worker /\ queue' = queue /\ fut' = fut
    BY <2>1 DEF AcloseJoined, Free
  <2>3. worker = "stopped"
    BY <1>0, <2>2 DEF EndInv, SingleLoop
  <2>4. /\ fut[k] = "ok" /\ Len(order) >= 1 /\ order[Len(order)] = Shutdown
    BY <1>0, <2>2 DEF LastInv
  <2>5. outcome[k] = "ok" /\ ~open
    BY <1>0, <2>4 DEF WorkInv, OwnOutcome, Settled, EndInv
  <2>6. /\ Taken \in Nat /\ Len(order) \in Nat /\ Taken <= Len(order)
    BY <1>0, TakenFacts
  <2>7. Taken = Len(order)
    <3>1. PICK p \in 1 .. Taken : order[p] = Shutdown
      BY <1>0, <2>3 DEF EndInv
    <3>2. p = Len(order)
      BY <1>0, <2>4, <2>6, <3>1 DEF OnceInv
    <3> QED
      BY <2>6, <3>1, <3>2
  <2>8. queue = <<>>
    <3>1. Len(queue) = 0 /\ queue \in Seq(Item \cup {Shutdown})
      BY <1>0, <2>6, <2>7 DEF Taken, TypeInv, TypeOK
    <3> QED
      BY <3>1
  <2>9. ASSUME NEW i \in Item PROVE fut[i] # "pending"
    <3>1. SUFFICES ASSUME fut[i] = "pending" PROVE FALSE
      OBVIOUS
    <3>2. PICK p \in 1 .. Len(order) : order[p] = i
      BY <1>0, <3>1 DEF LastInv
    <3>3. PICK q \in 1 .. Len(order) : order[q] = k
      BY <1>0, <2>4 DEF LastInv
    <3>4. p # q /\ order[p] # Shutdown
      BY <2>4, <3>1, <3>2, <3>3
    <3>5. ~(q < p)
      BY <1>0, <3>2, <3>3, <3>4 DEF LastInv
    <3>6. p < q
      BY <3>4, <3>5
    <3> QED
      BY <1>0, <2>4, <3>1, <3>2, <3>3, <3>6 DEF InOrder, SingleLoop, Settled
  <2> QED
    BY <2>2, <2>3, <2>5, <2>8, <2>9
<1> QED
  BY <1>2, <1>3

\* With one event loop, an aclose that has returned has closed the port, ended the
\* worker and left no request unanswered, whatever else failed or was cancelled.
THEOREM DrainCorrect ==
    ASSUME SingleLoop
    PROVE  Spec => []AcloseDrains
<1>1. DrainInv /\ [Next]_vars => DrainInv'
  <2>1. SUFFICES ASSUME DrainInv, [Next]_vars PROVE DrainInv'
    OBVIOUS
  <2>2. Inv' /\ InOrder'
    BY <2>1, InvStep, OrderStep DEF DrainInv
  <2> QED
    BY <2>1, <2>2, AloneStep, LastStep, EndStep, DrainsStep DEF DrainInv
<1>2. DrainInv => AcloseDrains
  BY DEF DrainInv
<1> QED
  BY <1>1, <1>2, DrainInit, PTL DEF Spec
=============================================================================
