# pyads-agile: formal models, checks and proofs

pyads-agile is a Python library for ADS, the protocol of Beckhoff TwinCAT PLCs.
Beside the synchronous `Connection` it has an asyncio layer, `AsyncConnection`,
which runs every ADS call in one worker thread, and on top of that *stepchain*
operations, which start a long-running PLC workflow by RPC and follow its
status until it ends. This directory holds TLA+ models of the parts whose
behaviour depends on the order of events or on how bytes are laid out, the TLC
runs that check them, and proofs that TLAPS checks.

Paths below are relative to `src/pyads` of the repository.

## Inventory

| Component | State it keeps | Operations | Modelled in |
|---|---|---|---|
| `AsyncConnection` (queue, worker, shutdown) | `_closed`, `_queue`, the worker thread, futures, callbacks posted to loops | `_submit` (behind all `submit_*`), `_worker_main`, `aclose`, cancellation | `Requests`, `AsyncConnection`, `SerialExecutor` |
| Stepchain operations | request id, task position, deadline, notification handles, event queue; the block's status structure | start call, `_wait_until_done`, `_wait_until_done_notify`, `cancel` | `StepChain`, `StepChainOperation` |
| `Connection`: port and route | `_port`, `_open`, `ams_net_id`, `_adr`; the router's ports and route table | `open`, `close`, the address setters | `Connection` |
| `Connection`: access by name | symbol handles on the target, `_symbol_info_cache` | `read_by_name`, `write_by_name`, structures, lists, `get_handle`, `release_handle`, `call_rpc_method` | handles in `Connection`, data in `DataAccess` |
| Notifications, `AdsSymbol` | `callback_store`, `_handles_list`, `_auto_update_handle`, `_value` | add, delete, clear, the destructor, callbacks, auto update, read and write of the buffer | `Notifications`; counted in `StepChain` |
| `RpcObject` | `_method_return_types`, `_return_spec_cache` | method lookup, return type inference, `set_return_type`, the call | `RpcObject` |
| RPC interfaces | definitions kept on interface classes | `get_object`, `get_async_object`, resolution | `RpcInterface` |
| Sum commands | none (pure) | chunking, request and response layout | `PlcBytes`, `PlcData`, `DataAccess` |
| Structures (`ads.py`, `structs.py`) | none (pure) | `size_of_structure`, `dict_from_bytes`, `bytes_from_dict` | `PlcBytes`, `PlcData` |
| Module functions of `ads.py` | one global port | as `Connection` | as one more connection of `Connection` |
| Test server threads | client list, run flags, sockets | `start`, `run`, `stop`, `close` | `TestServer` |
| Test server handlers | variables, handles, notification handles | one per ADS command | variables in `DataAccess`; handles and notifications not |
| Constants, error codes, file times | none | tables, one conversion | not modelled: no states to explore |
| TwinCAT router and target | external | | as far as the code relies on it |

How they interact: a coroutine calls `_submit`, which checks `_closed` under a
lock, creates a future and puts a call in the queue; the worker thread takes
calls one by one, runs the method of the synchronous `Connection` and posts the
outcome to the future's loop (`call_soon_threadsafe`), whose callback settles
the future unless it is done. `aclose` puts the close of the connection and,
after it has succeeded, a shutdown signal in the same queue, and joins the
worker. A stepchain proxy submits the start RPC and creates a task that reads
the block's status through the same queue, either at intervals or each time an
ADS notification (a callback in a router thread) has put an event in the
operation's `asyncio.Queue`.

Below the queue, and used directly by synchronous programs, a `Connection` holds
resources in two other processes: a port and a route of the local router, and
symbol and notification handles of the target. Each is taken and given back by
a request that may fail, and the router's thread runs notification callbacks
between any two requests of the user's thread. `RpcObject` and the typed
interfaces sit on a `Connection` and remember what they have found out about
methods and classes for ever. Lists of variables are read and written with sum
commands, whose data is laid out by symbol infos that are also kept for ever.

What is hard: the two steps of a submission against `aclose` in another thread;
cancellation against a call that is queued, running or already answered; a loop
that is closed while calls are under way; an `aclose` that fails half-way; one
status structure that several operations read and the PLC overwrites;
notifications that arrive between a read and the next wait; resources of the
router and the target that must be given back on every path, also when the
giving back is refused, or fails in a destructor that drops the error; handle
numbers that come back after a close; caches
that are filled from a moment that has passed; texts whose length in
characters, in bytes and in the PLC differ; `stop` of the test server against
threads that are only starting. `PROJECT.json` lists the hazards line by line
under `hazards`, with the properties aimed at them.

What makes each component correct:

* `AsyncConnection`: submission order, one call at a time, none twice, none
  after its cancellation; every caller sees its own outcome, once; nobody waits
  for ever; after `aclose` the port is closed and the worker gone.
* Stepchain operations: an operation reports the end of its own chain and of no
  other; it misses no wake-up; it gives its notifications back; it ends.
* `Connection`: every open port belongs to a connection, routes balance, a
  handle taken by a call by name is released by it, a user's handle stays.
* Notifications: a callback is in the store exactly as long as the target may
  call it; a subscription can be deleted as long as its symbol lives, and ends
  with it; a symbol deletes only its own;
  `auto_update` and the buffer tell the truth.
* RPC objects: a call executes one method at most, and its result is decoded
  with the type that was configured or that the PLC declares.
* RPC interfaces: a class means its own definition, whoever asked before.
* Data: list reads agree with single reads, writes change what they name and
  nothing else, structures survive a round trip.
* Test server: answers match requests, `stop` ends and ends its clients.

## Modules

### Requests

The requests made of one `AsyncConnection` (`Call`: uses of `_submit`, `Closer`:
`aclose` coroutines), the event loop of each, and what the synchronous method
behind it does to `_open` (`connection.py`). Operations other than open
and close may return or raise; their data is left out, because the queue never
looks at it.

### SerialExecutor

What `AsyncConnection` promises: an executor that takes requests in the order
of submission, one at a time, each at most once, skips those cancelled before
their turn, and settles each future with the outcome of its own call, in order
on each loop. It knows nothing of threads, locks, callbacks or the steps of
`aclose`.

### AsyncConnection

One action for every piece of code between two points where another thread can
come in:

| Action | Code (`async_connection.py`) |
|---|---|
| `SubmitCheck` / `Put` | `_submit`: the check under the lock (582-586), then the future and the put (588-599) |
| `AcloseCheck` / `Put` / `AcloseResume` / `AcloseJoined` | `aclose`: lock (658-661), put (663-673), after `await close_future` (674-676), after the join |
| `WorkerStop`, `WorkerSkip`, `WorkerStart`, `WorkerFinish`, `WorkerPost` | `_worker_main` (549-568) |
| `RunCallback` | `_set_result_if_pending`, `_set_exception_if_pending` (570-580) |
| `CancelFuture`, `CancelAclose`, `CloseLoop` | what callers and asyncio do around it |

An event loop is a thread: while it is between the lock and the put of a
submission (`thread[l]`) it runs nothing else, but the worker and other loops
do. `order` is a history variable: all that was ever put. `MayFail`, `MayCancel`
and `MayEnd` say which calls may raise, which futures may be cancelled and
which loops may be closed.

### StepChain

Operations on one function block, each with the backend of its proxy ("poll" or
"notify"). The queue is reduced to what `SerialExecutor` promises: calls run in
order, a cancelled one is skipped, a late answer leaves a cancelled future as
it is; the answer and its callback are one step. Closing is reduced to what an
operation sees of it, the refusal of further submissions; the close call itself
belongs to `AsyncConnection` and, for ports and notifications, to `Connection`
and `Notifications`. The tasks are modelled await
by await (`pc`), with the `finally` block of the notify task (`Leave`, then
`Released`). The target is external and modelled from the reference block in
`examples/twincat_reference/pyads_agile_reference.st`: it refuses a start while
busy, writes its status in one piece, and the notification of a changed status
comes some time after the change (several changes may be seen as one). A status
read may lose single fields (`MayMiss`): then the error text of the sub-command
stands in the place of the value, as `adsSumRead` returns it, and `Shows` is
the truth value that `_matches` takes of it.

`chain` is a history variable: what the block made of each operation.

### StepChainOperation

The promise of the class `StepChainOperation` to its callers, for all the
operations of one block: `accepted` settles with the block's answer to this
start, `done` settles once, and what it says of the chain is true of the chain
of this very operation (`Says`); the block runs one chain at a time and none
twice. It knows no queue, no status, no ids and no notifications. `StepChain`
implements it (`KeepsPromise`) with `accepted` mapped to the future of the start
call and `done` to `DoneFuture`: pending until the task has ended, then its
result. A cancellation that takes `accepted` with it is one step of both, as in
the code, or the cancellation of `accepted` first when the task still has its
`finally` block to go through.

### Connection

A `pyads.Connection` as a user of three outside resources: a port of the local
router, a route to the target, and symbol handles of the target. One action for
each call of the ADS library, since other threads come in between:

| Action | Code |
|---|---|
| `SetNetId` | the setters of `ams_netid` and its kin, refused while open (`connection.py`) |
| `OpenBegin`, `Lookup`, `PortOpen`, `AddRoute`, `Undo` | `open`: the checks, `adsGetNetIdForPLC`, `adsPortOpenEx`, `adsAddRoute`, and the closing of the port when the route is refused |
| `CloseBegin`, `DelRoute`, `ClosePort` | `close` |
| `ByName`, `HandleByName`, `Access`, `Release` | `read_by_name`, `write_by_name` and their like, with a handle of their own or of the caller (`pyads_ex.py`) |
| `CallRpc` | `call_rpc_method`: the same three requests, the last in a `finally` |
| `GetHandle`, `ReleaseHandle` | `get_handle`, `release_handle` |

`call[t]` is the method thread `t` is inside: a read by name keeps the port it
saw at the start, an RPC call looks at `_port` again in each request. The router
and the target are external: ports and handles are new when they are handed
out, a request through a port that is not open is refused, and the requests in
`MayRefuse` may be refused at any time. `refused`, `unrouted` and `stranded`
are history variables: they record the failures after which something is left
behind, so that the properties can say that nothing else ever is.

The module functions of `ads.py` do the same with one global port, and so are
one more connection.

### Notifications

Device notifications of one connection and its `AdsSymbol`s, a user thread
against the router's thread:

| Action | Code |
|---|---|
| `Open`, `Close` | the connection; a close ends every subscription on the target and touches neither `callback_store` nor the symbols |
| `Add`, `Register`, `Store` | `add_device_notification`: the checks, the request, then the store, the symbol's list and `_auto_update_handle` |
| `DelBegin`, `Del` | `del_device_notification`, `auto_update = False` |
| `ClearBegin`, `Clear` | `clear_device_notifications`, one deletion a step, called by the user or by `__del__` |
| `ReadBegin`, `ReadAnswer`, `ReadKeep` | `read`: the request, and later the store in `_value` |
| `WriteBegin`, `WriteBuffer`, `WriteAnswer` | the `value` setter and `write`: the buffer first, then the request |
| `Callback` | `_value_callback`, in the router's thread |
| `PlcChanges`, `Sample` | the target: a value changes, and is sampled and sent |

`life` is what becomes of a symbol object. The program may drop its last
reference to a symbol of `Mortal`; then `__del__` clears its notifications, but
only when no callback refers to the symbol: the callback of `auto_update` is a
bound method, which `callback_store` keeps, and `keeps` says for which symbol
it does. A destructor that the last such reference sets off inside `Store` or
`Delete` is modelled right after that step, before the user's thread does
anything else or later. When a deletion raises in `__del__`, the error is
dropped and the object vanishes with the rest of its list (`cut`): the list
stays in the state as history only, for no later action reads it.

A deletion leaves what is on its way to the callback as it is: the router has no
callback for it any more and drops it when its turn comes (`Callback`).

The target reuses the numbers of handles that are gone, and a list entry is
compared by its number only, as the tuples of the code are. `id` numbers the
registrations and is history, so that the properties can tell an old handle
from a new one with the same number.

### PlcBytes, PlcData and DataAccess

`PlcBytes` and `PlcData` hold the pure part: how values become bytes and back
in the single requests of `pyads_ex.py`, in the structures of `ads.py` and in
the sum commands. A byte is a number, a text a sequence of code points of one or
two bytes, so that a text's length in characters, in UTF-8 and in UTF-16 differ.
One numeric type stands for all.

`PlcBytes` has what works on bytes alone: Python's slices and slice
assignments, chunks, the layout of a sum request and its answer, the search for
the terminator, UTF-8 and UTF-16, and the padding of texts. Nothing in it is `RECURSIVE`,
so that it can be proved about. `PlcData` has what follows a declaration; its
structure operators are `RECURSIVE`, as the code is, and TLC evaluates them.

`DataAccess` has the calls: `Write` (`write_by_name`,
`write_structure_by_name`), `WriteList` (`write_list_by_name`), `ReadList`
(the symbol infos that `read_list_by_name` keeps) and `Download` (external).
`target` is a PLC, whose variables keep their size, or the repository's
`AdvancedHandler`, which replaces what it has stored; `cache` is
`_symbol_info_cache`. What a read returns is an operator of the state
(`ReadListByName`, `Read`), and `ReadsAgree` compares the two ways to read
against `Meaning`, the reference definition of what the bytes of a declaration
mean. `lost` is what the last write left other than it promises.

### RpcObject and RpcInterface

`RpcObject` is a call of a method by its short name: the candidate names with
and without the prefix `m_`, for each the return type (`InferReturnSpec`,
`GetSymbolInfo`, `StoreSpec`: cache, configured types, symbol info, cache) and
the call (`CallRpcMethod`), and whether the next name is tried after an error.
`SetReturnType` runs in any thread between any two of these steps. `first` is
the order in which a Python set of the two forms of a name is gone through,
which differs from process to process.

`RpcInterface` is `resolve_rpc_interface_definition` with its definitions kept
as attributes of the interface classes, which Python looks up through
inheritance: `GetObject` (the look at the cache) and `ResolveDefinition` (the
store) in several threads. The ancestors of a class (`Ancestors`) are the least
set that holds it and the bases of its members. `shadowed` and `raced` record
when a class was asked for after its base, or resolved together with it.

### TestServer

The thread of `AdsTestServer` (`ServerRun`, `ServerLoop`, `ServerSelect`,
`ServerAccept`, `ServerSpawn`), the threads of its clients (`ClientRun`,
`ClientSelect`, `ClientHandle`), and `stop` in a third (`StopBegin`,
`StopLoop`, `StopJoin`, `StopServer`), against peers that connect, send and
leave. A peer that has connected is in the backlog of the listening socket
(`queued`) until it is accepted, also when it has left by then; the system then
hands out its socket, or reports it as aborted and `accept` raises.

Requests are of three kinds: a plain one, one too short to be a request, and
one that the handler raises `KeyError` for. One `recv` takes any number of those
that have come in (`ClientHandle`), and what it took is handled as one packet:
its length is that of all of them together. Short packets alone are discarded,
or, when together they are long enough, taken for a request, as is a short packet
with any other request behind it: its fields are then wrong, and its peer gets an
answer to no request, or the handler raises and the thread ends (`misread`). In
every other case the first request is handled and the others are lost. A request
that arrives in two parts is not modelled.

### The proof modules

`AsyncConnectionProofs`, `StepChainProofs`, `ConnectionProofs`,
`NotificationsProofs`, `RpcObjectProofs`, `RpcInterfaceProofs`,
`TestServerProofs` and `PlcBytesProofs` have the theorems about the modules of
these names, see "Proofs".

### MC modules

`MCAsyncConnection`, `MCStepChain`, `MCConnection` and `MCNotifications` give the
constants of the TLC instances. `MCLibrary` puts four parts that share no state
(`DataAccess`, `RpcObject`, `RpcInterface`, `TestServer`) side by side in one
run: `focus` is chosen in the initial state and never changes, and only
the part it names moves, so TLC explores the sum of the four state spaces and
not their product. A property of one part is trivially true while another part
moves.

## Runs

| Run | Instance | Checks |
|---|---|---|
| `async_serial` | 3 calls (an open, two operations), 2 `aclose`, 2 loops; calls that raise, cancellations, one loop that may be closed | `TypeOK`, `OwnOutcome`, `InOrder`, `SettledForever`, `NobodyForgotten`, refinement `SerialSpec` |
| `async_single` | the same on one loop that stays | `AcloseDrains`, `EveryCallSettles`, `AcloseEnds` |
| `async_reopened` | 2 loops | `ClosedForGood` is violated |
| `async_loop_gone` | 2 loops, one closed | `EveryCallIsTaken` is violated |
| `async_aclose_again` | 1 loop, 2 `aclose`, the first one's close raises | `AcloseReturnsClosed` is violated |
| `stepchain_safety` | a poll and a notify operation on one block; timeouts, failing calls, cancellation, a closed connection | `TypeOK`, `OwnEnding`, `NoLostWakeup`, `HandlesReleased`, `AwaitsAnswered`, refinement `KeepsPromise` |
| `stepchain_ends` | the same without failing calls | `EveryOperationEnds` |
| `stepchain_overwritten` | two poll operations without a timeout | `ChainEndIsSeen` is violated |
| `stepchain_missed` | one poll operation, the sub-command of xDone may fail | `DoneIsTrue` is violated |
| `connection` | 2 connections to one target, 2 threads of which one opens and closes both, 2 ports, 2 handles; every request may be refused | `TypeOK`, `PortsAccounted`, `RoutesMatch`, `HandlesReturned`, `UserHandlesStay` |
| `notifications` | 2 symbols, one with `auto_update` that is read, written and mortal, 3 registrations, 2 handle numbers, 2 openings; every request may be refused | `TypeOK`, `CallbackAlive`, `NoOrphans`, `AutoIsLive`, `BufferFollows`, `DeletesOwn` |
| `library` | 5 variables on a PLC or the test server; 1 method name with 2 prefixes; 4 interface classes and 2 threads; 2 peers of a test server, of which one sends a short packet and two requests without waiting, and one asks for an unknown variable | `LibraryTypeOK`, `ListReadsAgree`, `WritesLand`, `RecordRoundTrip`, `SpecsTrue`, `CallsOnce`, `StableDefinition`, `RightConnection`, `StoppedClients`, `StopIsHeard`, `AnswersInOrder`, `StopEnds` |

The violation runs show real disagreements of the code with its docstrings;
`PROJECT.json` quotes them under `findings`:

* An `open()` from another thread's loop that passed the check of `_closed`
  just before `aclose` took the lock can be queued after the close: the port is
  open after `aclose` has returned.
* A call whose loop was closed kills the worker thread: `call_soon_threadsafe`
  raises and nothing catches it.
* An `aclose` whose close raises cannot be repeated: the second one returns at
  once and nothing is closed.
* A polling operation without a timeout never resolves if the block has
  accepted the next start before the end of its chain was read.
* A status field that could not be read counts as true; xDone in particular.

What the passing runs of the synchronous parts show is as much in what their
properties leave out. These are the ways in which the code does lose something,
each excluded by name in a property or an action:

* `PortsAccounted`: a port whose `AdsPortCloseEx` was refused. In `open`'s undo
  the connection keeps `_port` though it is not open, and the next `open`
  overwrites it.
* `RoutesMatch`: a close that fails after `AdsDelRoute` has deleted its route
  for good, and a second close deletes it again, which takes it from another
  connection to the same target.
* `HandlesReturned`: a read or write by name whose request is refused keeps its
  handle on the target; only `call_rpc_method` has a `finally`, and even that
  cannot release after a close.
* `CallbackAlive`: a deletion that the target refuses has dropped the callback.
* `NoOrphans`: what is live can be deleted through the list of its symbol, and a
  symbol destructed without an error leaves nothing; but when a deletion fails in
  the destructor, what was behind it in the list stays, and so may what the
  target refused to delete (`life[s] = "cut"`), although the docstring says that
  a destructed symbol frees its notifications (symbol.py:253-254). It need not be
  the target that refuses: the `None` that `add_device_notification` lists on a
  closed connection, or a handle that is gone since the connection was closed
  and opened again, stops the destructor as well. `DeletesOwn` and
  `AutoIsLive` exclude symbols that kept the handle of a subscription that is
  gone, after a close or a failed deletion: such a handle may be the number of
  another symbol's subscription.
* `BufferFollows`: a user's read or write that finishes after a callback puts
  its older value over the newer one (`ahead`).
* `WritesLand`: a list written with symbol infos from before a download; a
  single `WSTRING` shorter than the one it replaces, which goes without its
  terminator; a single write to the test server. `ReadsAgree`: infos from before a download; values whose size is
  not the declared one, as the test server keeps them.
* `SpecsTrue`: a type that is set after a call in the other form of the name,
  or while a call looks it up (`outdated`); `None` after a lookup that failed
  or ran on a closed connection is kept for ever (`unseen`).
* `StableDefinition`, `RightConnection`: a class asked for after its base gets
  the base's definition (`shadowed`); two threads that resolve both (`raced`).
* `StoppedClients`: a client that was being accepted while `stop` ran lives on.
  `StopEnds`: a client told to stop before its first line sets its flag again,
  and `stop` waits for its peer (`unheard`).
* `AnswersInOrder`: of several requests in one `recv` only the first is
  answered, and one that follows a short packet in the same `recv` is taken
  apart wrongly (`misread`).

### Bounds, and why they are enough

Two loops and three calls are enough for every pair of requests to share a loop
or not and for a third to stand before, between or behind them; two `aclose`
are enough for the second to meet the first at every stage. Requests are made
at most once each, so the queue is bounded by them. Proofs remove these bounds
for the properties listed under "Proofs". Two stepchain operations are enough
for one to write over the other's status; more operations only repeat this.
`EventLimit` is 1 (64 in the code): the queue is then full as soon as it is not
empty, so dropping an event is the normal case. `Symbols` is 2, so that a
registration or a release can fail between two handles. `IdModulus` (2^32 in
the code) is larger than the number of operations. The proofs hold for any
number of operations, symbols and events, as long as request ids differ.

`connection`: two connections to one target meet in its route count, two ports
are one for each, two handles let one be the user's while another is in use.
`MaxFailed` bounds the history `unrouted`, whose counter would otherwise grow
with every failed close. Connections and ports are interchangeable in every
action and property, so they are symmetric; the threads are not, because one
owns both connections. The proofs remove all these bounds.

`notifications`: two symbols are enough for one to hold the other's handle
number; two handle numbers, three registrations and two openings make numbers
come back; a list of two lets a `clear`, or a destructor, fail half-way; one
pending notification is always between two requests. The symbol that is updated
automatically is the one that may be dropped, so that its callback keeps it
alive; the other one registers, deletes and may be left with a handle number that
comes back. All these bounds are constants, and the proofs hold for all of their
values.

`library`: two writes, or a write and a download, are enough for one to leave
what the other finds; texts of one character, with and without a second byte,
exceed, fill and undercut their variables; sum commands of one and two values
cut each list with a rest and without. One worker calls methods, as an
`AsyncConnection` has it, while types are set twice from outside. Three classes
in a line and one apart give every shape of inheritance that the lookup tells
apart. For methods and interfaces the proofs remove these bounds; for the data
they remove them for what `PlcBytes` does with texts, buffers and lists, and for
`DataAccess` they stay.

Of the two peers of the test server one sends three requests without waiting, so
that a read may take one, two or all of them and leave some behind: a short packet
first, which may be read alone or with others, then two that can be answered in
the wrong order. The other waits for the answer to a request that ends its
thread, and so never sends its second. The proofs hold for any number of peers
and whatever each sends.

All runs switch the deadlock check off: a program that makes no further
requests may stop in any state, and hanging is what the liveness properties are
for.

### Fairness

`AsyncConnection`: weak fairness for the worker thread, for the put that
follows a passed check, for the callbacks of a loop and for the steps of
`aclose`: these are threads and loops that run whatever is ready. No fairness
for requests, cancellations and the end of a loop: these are choices of the
program. A call that never returns from the router is not modelled; ADS calls
have a timeout. `StepChain`: weak fairness for the worker, for each task
(a sleep ends) and for clocks. None for the target: a chain need never end and
a notification need never come. `TestServer`: weak fairness for the server's
thread, each client's thread and `stop`, which have been started and run; none
for peers, which need never send, read or leave, and none for the start of the
server. `select` with a timeout always returns, so a thread never hangs in it.
`Connection`, `Notifications`, `DataAccess`, `RpcObject` and `RpcInterface` have
no fairness: what they promise is safety.

## Proofs

### AsyncConnectionProofs

Proves, for any sets of requests and loops and whatever fails, is cancelled or
is closed:

* `TypeCorrect`: `Spec => []TypeOK`;
* `OutcomeCorrect`: `Spec => []OwnOutcome`;
* `AnswersAreFinal`: `Spec => SettledForever`;
* `OrderCorrect`: `Spec => []InOrder`;
* `Implements`: `Spec => SerialSpec`, the refinement;
* `NobodyForgottenHolds`: `Spec => []NobodyForgotten`;
* `DrainCorrect`: `Spec => []AcloseDrains` if all requests are made on one loop.

The only assumptions are those of the modules on their constants
(`RequestsAssumption`, `EnvironmentAssumption`): requests are distinct from the
signal and from "none".

None of the properties is inductive. The invariant `Inv` that carries them says:

* `QueueInv`: the queue is the tail of `order`, so `Len(order) - Len(queue)` is
  how much was taken, which is also the refinement mapping of `taken`;
* `OnceInv`, `AcloseInv`: nothing is put twice, and only one `aclose` gets past
  `_closed`, so there is one shutdown signal at most;
* `WorkInv`: the worker holds the item it took last, and only taken items have
  an outcome;
* `ReadyInv`: a posted callback carries the outcome of its own call to its own
  loop, and the callbacks of a loop are in the order of submission;
* `PendInv`: a taken request that is still pending is in the worker or in the
  callbacks of its loop. With `ReadyInv` this gives `InOrder`: when a callback
  runs, everything older on its loop has been answered.

`InOrder` is then proved step by step over `Inv`, and each action of
`AsyncConnection` is mapped to an action of `SerialExecutor` or a stutter:
`Put` to `Submit`, the failed check to `Refuse`, `WorkerStart`, `WorkerSkip`,
`WorkerFinish` and `WorkerStop` to `Start`, `Skip`, `Finish` and `Stop`,
`RunCallback` to `Settle` if the future was pending, `AcloseResume` to
`SubmitShutdown`, and `WorkerPost`, `AcloseCheck`, `AcloseJoined` and
`CloseLoop` to nothing.

`NobodyForgotten` is the safety half of `EveryCallSettles`: a pending future is
in the queue, in the hands of the worker or in a callback of its own loop, and
in one of them only, so that nothing but the progress of that one keeps its
caller waiting. It follows from `Inv` and `PutInv` (a pending request was put)
by `OnePlace`: what is in the queue is not taken, what is taken and pending is
with the worker or the loop (`PendInv`), and what has an outcome is no longer
with the worker. A future whose loop was closed is left out, which is the run
`async_loop_gone`; a worker that has stopped may leave a call in the queue, which
`AcloseDrains` excludes on one loop.

`DrainCorrect` needs more (`DrainInv`): on one loop an `aclose` that has passed
the lock has passed every submission (`AloneInv`), so only the shutdown signal
follows its close in the queue (`LastInv`), so the port stays closed and a
worker that has stopped has taken everything (`EndInv`). With several loops
this fails, as the run `async_reopened` shows.

### ConnectionProofs

Proves, for any finite set of connections, any threads, owners, net ids, ports
and handles, on Linux or not, whatever requests are refused:

* `ConnectionTypes`: `Spec => []TypeOK`;
* `PortsHold`: `Spec => []PortsAccounted`;
* `RoutesHold`: `Spec => []RoutesMatch`;
* `HandlesHold`: `Spec => []HandlesReturned`;
* `UserHandlesHold`: `Spec => []UserHandlesStay`.

The assumption is `ConnectionAssumption`; that each connection has one `Owner`,
the thread that opens and closes it, is part of it and is what the proofs rest
on: the code has no lock, and two threads that close one connection at a time
could delete its route twice.

The invariant that carries them, `ConnectionInv`, says:

* `TypeInv`: besides types, which steps each method goes through and what it
  holds at each (`Fits`), so that an open and a close run in the owner, hence
  one at a time for each connection;
* `OpenInv`: an open works on a connection that is not open, a close on one
  that is (`CallsOpen`), and a connection has a port while it is open, between
  `adsPortOpenEx` and the end of its `open` (`Busy`), or after a refusal
  (`PortInv`);
* `HandleInv`: a handle that a call is to give back (`Owned`) is not the user's
  and not another call's. Without this part `UserHandlesStay` is not inductive:
  the release of one call could end the handle of another;
* `RoutesMatch`, which is inductive over the others: the set of routed
  connections changes by the one whose route is added or deleted.

The steps are of two kinds (`TwoKinds`): those of open and close leave the
handles alone (`OpensAside`), those of calls by name leave ports and routes
alone (`NamesAside`).

### RpcObjectProofs

Proves, for any names, types and threads, whatever the target knows and refuses:

* `RpcTypes`: `RpcSpec => []RpcTypeOK`;
* `CallsOnceHolds`: `RpcSpec => []CallsOnce`;
* `SpecsTrueHolds`: `RpcSpec => []SpecsTrue`.

`CallInv` says what a call that goes on has behind it: nothing executed, and
every candidate before the one it tries unknown to the target, since only
"symbol not found" leads to the next name. `SpecsInv` says of a type that a
call is about to store what `SpecsTrue` says of one that is stored.

### StepChainProofs

Proves, for any operations of either kind, whatever fails, is cancelled, times
out or is closed:

* `StepChainTypes`: `Spec => []TypeOK`;
* `HandlesReleasedHolds`: `Spec => []HandlesReleased`;
* `OwnEndingHolds`: `Spec => []OwnEnding`, if `IdsApart` and
  `MayMiss \subseteq {"id"}`;
* `NoLostWakeupHolds`: `Spec => []NoLostWakeup`, if `IdsApart` and
  `"id" \notin MayMiss`;
* `AwaitsAnsweredHolds`: `Spec => []AwaitsAnswered`;
* `KeepsPromiseHolds`: `Spec => KeepsPromise`, the refinement of
  `StepChainOperation`, if `IdsApart` and `MayMiss \subseteq {"id"}`.

`IdsApart` says that fewer ids are generated than the counter has and that those
given by callers differ from each other and from the generated ones. The code
does not check it: an operation with the id of another takes the other's end for
its own. The other hypotheses are as real. A field other than the id that could
not be read counts as true, so an operation may report an end that never came
(`stepchain_missed`); an id that could not be read is not the operation's own,
so that read finds nothing, and the end it should have seen may have no further
notification. The instance of `stepchain_safety` satisfies all of them. None is
needed to give the notifications back, or to be answered.

The invariants are built on one idea: an ADS call is *due* while it is in the
queue or being run, and calls made once by an operation are due once (`DueOnce`).

* `StartInv`: so a chain is begun only by the start that asks for it, and the
  status of the block is that of the operation it accepted last (`BlockInv`);
* `HandleInv`: registration comes before the completion task goes on, at most
  once and never after a release; what was registered is released unless the
  release failed, was overtaken by a cancellation or by the close;
* `IdInv`: the counter is ahead of every id it gave, hence ids differ
  (`IdsDiffer`);
* `SeenInv`, `ResultInv`: a status read that carries the operation's id tells
  what became of its chain, and it still does when the result is taken from it,
  since a chain that has ended does not change;
* `SampledInv`, `WakeInv`: once the end of an operation's chain has been
  notified and its event consumed, the operation is not waiting, and the read it
  is at, if answered, has found the end. The event is put before it can be
  consumed and the read is made after, which is why no wake-up is lost although
  the queue holds few events;
* `KeptInv`: as long as it may wait it holds all its notifications, since they are
  registered before it goes on and a release is submitted only by its `finally`
  block: an end that was not notified yet still will be;
* `AnswerInv`: a call is made before it is awaited, and a pending future has its
  call still due. `PendingStep` is the heart of it: only a cancelled call is
  taken without being run, and a call that is run is answered;
* `BusyInv`, `PromiseInv`: at most one chain is busy, a start is answered well
  only when its chain was begun, and only an operation that was accepted reads its
  status or times out. These are the guards of `StepChainOperation`.

`StepOf` says what one step means for one operation (`Begins`, `Goes`, `Gets`,
`Rests`), and the last four invariants are proved over these four cases. The
refinement then has one lemma per kind of step: `InvokeKeeps`, `TaskKeeps`,
`RunKeeps`, `AsideKeeps`. A step of a task maps to `Resolve` when it ends the
task, to `CancelAccepted` when it takes `accepted` with it and has its `finally`
block to go through, and otherwise to a stutter; the answer to a start maps to
`Serve`, `Refuse` or `Lose`, or to a stutter when the caller has gone.

### NotificationsProofs

Proves, for any symbols, values, handle numbers and bounds, whatever requests
the target refuses:

* `NotificationTypes`: `Spec => []TypeOK`;
* `CallbackAliveHolds`: `Spec => []CallbackAlive`;
* `NoOrphansHolds`: `Spec => []NoOrphans`;
* `AutoIsLiveHolds`: `Spec => []AutoIsLive`;
* `DeletesOwnHolds`: `Spec => DeletesOwn`, about steps;
* `BufferFollowsHolds`: `Spec => []BufferFollows`.

The assumption is `NotificationsAssumption`. Handle numbers come back, so what a
symbol remembers may be the number of another's subscription, and none of the
properties is inductive. `SafeInv` says:

* `SubsInv`, `ListInv`: live subscriptions differ in number and registration,
  and one entry is listed once;
* `AddInv`, `DelInv`: what a registration or a deletion has found before its
  request still holds at the answer, because only the router's thread comes in
  between: what was registered is live and not yet listed, what is deleted is
  listed;
* `OwnerInv`, `KeptInv`, `AutoInv`: a live subscription is remembered by the
  symbol that registered it, in its list and, if automatic, in `auto_update`,
  and by no other;
* `ClearInv`: `clear_device_notifications` has not passed what is still live;
* `StaleInv`, `TrueInv`: a symbol that remembers something that is gone had a
  close or a failed deletion (`lapsed`), or is clearing just now.

`NoOrphans` needs `GoneInv` beside: a symbol that is gone lists nothing, and no
call of it is under way, so that nothing it registered is still live.
`BufferFollows` needs `PendingInv`: of the notifications on their way to
a symbol, the last has the value that was sampled last.

### RpcInterfaceProofs

Proves, for any classes with one base or none each, any paths, stepchains and
threads:

* `InterfaceInvariant`: `InterfaceSpec => []InterfaceInv`, types included;
* `StableDefinitionHolds`: `InterfaceSpec => []StableDefinition`;
* `RightConnectionHolds`: `InterfaceSpec => []RightConnection`.

The assumption `RpcInterfaceAssumption` contains what Python gives: there are
finitely many classes and a base is made before the classes on it. With it the
ancestors of a class form a chain (`Ancestors`, the least set that holds the
class and the bases of its members), so that an inherited attribute has one
nearest holder (`NearestFacts`); that one is found by induction over the order
in which classes were made.

`InterfaceInv` says that a class keeps its own definition or none, and that of
each object made: its definition is kept by its class or an ancestor, and is
what its class would be given now unless two threads raced. That a later
resolution cannot change what a class is given is the lemma `GivenStays`.

### TestServerProofs

Proves, for any finite number of peers and whatever each sends:

* `ServerInvariant`: `ServerSpec => []ServerInv`;
* `ServerTypes`: `ServerSpec => []ServerTypeOK`;
* `StoppedClientsHolds`: `ServerSpec => []StoppedClients`;
* `StopIsHeardHolds`: `ServerSpec => []StopIsHeard`;
* `AnswersInOrderHolds`: `ServerSpec => []AnswersInOrder`.

`StopIsHeard` is the safety half of `StopEnds`: the thread that `stop` waits for
has ended or its flag is down, or it is one of the `unheard`, which were told to
stop before their first line. It is not inductive: a thread at its first line
raises its flag whatever the flag is. `HearInv` says in addition that a
thread whose flag is down is past that line.

`ServerInv` says besides types (`BaseOK`):

* `ThreadInv`: a client is accepted once and its thread is started before it is
  put in `clients`. So the list has no client twice, and by a pigeonhole it is
  no longer than the number of peers: the bound of `ServerTypes`;
* `StopInv`: the clients that `stop` is to end are in the list that it goes
  through, and those it has passed are over (`Over`): their thread has ended
  and their socket is closed, for good;
* `InboxInv`: what waits in a socket are the last requests sent, in order, and
  a peer that waits for its answers has at most one there;
* `AwayInv`: a peer connects once, so one that has left stays away;
* `OrderInv`: answers are in the order of the requests, and each request of a
  peer that waits is answered, on its way, too short, or lost with its thread
  or peer. This is what fails for a peer that does not wait, of whose requests
  one `recv` takes several;
* `MisreadInv`: a read that was taken apart wrongly had a short packet in front
  and a request behind it, which only a peer that does not wait sends.

### PlcBytesProofs

Proves, for texts, buffers and lists of any length, what TLC checks on a few
bytes only. The bytes are `Octet`; `Wide` are the characters of one UTF-16 unit
that are not the terminator.

* `SpliceIsLocal`: a slice assignment of bytes of the slice's length puts them
  there and neither changes nor moves another byte. The length is a
  hypothesis since `adsSumWrite` takes it from the characters of a text and the
  bytes from its encoding: a STRING that is not ASCII makes the buffer grow, a
  case that only `WritesLand` covers;
* `WideRoundTrip`: a WSTRING and its terminator read back as the text, whatever
  follows. The scan steps over whole characters, so neither a zero high byte nor
  a zero low byte ends it;
* `WideFieldRoundTrip`: an item of a structure that holds a WSTRING has the size
  that `size_of_structure` counts and is read back, for every text of as many
  characters as declared, or as the default;
* `WideWriteLeavesTail`: what a single write of a WSTRING, which goes without its
  terminator, leaves to read: the new text if it is as long as the old one,
  else the new text and the rest of the old one. `WritesLand` excludes just the
  latter, and while only zeros follow the old text nothing else needs excluding;
* `TerminatedTextEnds`: a STRING written as a C string reads back up to its first
  zero byte, and the bytes behind its terminator stay;
* `StringWriteLands`: with that, a STRING whose characters have one or two bytes,
  in any order, reads back as the text when the variable has room for its bytes.
  That its *characters* fit is not enough, which is why the bytes are in the
  hypothesis;
* `SumAnswersFound`: an answer to a sum read in which each command was answered
  with the size it asked for is as long as the sizes together, and the data of
  each are where `adsSumRead` looks for them;
* `ChunksCover`: the chunks of a list, however long and whatever the chunk size,
  are the list again when put together; none is empty or larger than asked for.

Three kinds of lemmas carry these. `Joins` and `Cuts` say what `\o` and a slice
are element by element; each theorem names the buffers on its way and applies
them. `NullFound` and `NullIs` say where the first terminator is. The library's
induction theorems take an operator as parameter, which the provers cannot
instantiate, but an induction over a *set* of numbers is a consequence of the
well-foundedness of `<` (`Least`, `Induction`); by it `Recursion` shows that a
function given by its first value and a step exists, and `StartOfIs` and
`FlattenLies` what `StartOf` and the library's `FlattenSeq` compute. `Utf8Spells` and
`Decode8Spelt` follow from it: each byte of a text is the first or the second of
one character, no second byte looks like a first, and as many characters are
decoded before a byte as were encoded.

### What is only model-checked

* Liveness (`EveryCallSettles`, `AcloseEnds`, `EveryOperationEnds`, `StopEnds`):
  TLAPS does not prove ENABLED and fairness here. `AcloseDrains`,
  `NobodyForgotten`, `AwaitsAnswered` and `StopIsHeard` are the part of them that
  is safety, and proved.
* The data properties `ListReadsAgree`, `WritesLand`, `RecordRoundTrip` and the
  types of `DataAccess`: the operators of `PlcData` on structures are
  `RECURSIVE`, which the provers do not accept, and so are those that say what a
  declaration means. What they build on is proved in `PlcBytesProofs`.

The five violation runs are counterexamples, for which TLC is enough.

## Not modelled

* How arguments of an RPC call are packed and how type hints become PLC types
  (`_pack_single_argument`, `_coerce_plc_type`): one value at a time, without
  state. The `submit_*` and awaiting wrappers of `AsyncConnection` differ only
  in the method they hand over, so they are one action of the queue.
* The handles and notifications of the test server's `AdvancedHandler`: it
  numbers notification handles from 10 for each variable, never releases a
  symbol handle, and sends notifications synchronously from the write it
  handles. `BasicHandler` answers with fixed data.
* The decoding of a notification's header and time stamp
  (`parse_notification`); number formats other than one byte; byte order.
* The tables of constants and error codes, the conversion of file times, texts
  and logging, the ctypes binding itself.
* Two connections on one stepchain block with request ids that repeat:
  `StepChain` has one id per operation, given or counted.

Further limits of the code that a reader of the models may run into, none of
which a document of the repository denies: non-ASCII texts in a structure are
padded by characters, so that later items shift (`RecordRoundTrip` excludes
them); a nested structure read as a dict cannot be written back as it is, but
only in a list; in a list read, an array of structures gives its first element.

## Further work

1. An abstract specification of one subscription, refined by `Notifications`.
2. Two connections on one stepchain block.
3. The handles and notifications of the test server's `AdvancedHandler`.
4. Structures as recursive functions on their definitions, so that the round
   trip of a whole structure can be proved from that of its items.
