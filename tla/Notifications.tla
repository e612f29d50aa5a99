---------------------------- MODULE Notifications ----------------------------
(***************************************************************************)
(* Device notifications of one pyads.Connection, as its AdsSymbols use     *)
(* them: a user thread registers, deletes, reads and writes, while the     *)
(* router's thread calls back.  Every request to the target is a step of   *)
(* its own, so callbacks come between any two of them.                     *)
(*                                                                         *)
(* External: the target answers a registration with a handle that no live  *)
(* subscription has (numbers come back after a deletion or a close), sends *)
(* the value at once and then one notification per cycle in which the      *)
(* sampled value has changed; closing the port ends every subscription.    *)
(* The router calls the C callback of a live subscription directly: the    *)
(* callback_store is all that keeps it from being freed.                   *)
(***************************************************************************)
EXTENDS Naturals, Sequences, SequencesExt

CONSTANTS
    Sym,         \* AdsSymbol objects
    AutoSym,     \* symbols whose auto_update is used
    Moving,      \* symbols that are read and written, and that the PLC changes
    Mortal,      \* symbols whose objects the user may drop
    Value,       \* values of a PLC variable
    Zero,        \* the value it starts with
    MaxHandle,   \* bound: notification handles are 1 .. MaxHandle
    MaxAdds,     \* bound: registrations
    MaxListed,   \* bound: entries of one _handles_list
    MaxOpens,    \* bound: openings of the connection
    MaxPending,  \* bound: notifications on their way
    MayRefuse,   \* requests the target may refuse although the port is open
    None

Handle == 1 .. MaxHandle
Id == 1 .. MaxAdds
Entry == [id : Id, handle : Handle]  \* the tuple (handle, None); id is history

ASSUME NotificationsAssumption ==
    /\ AutoSym \subseteq Sym
    /\ Moving \subseteq Sym
    /\ Mortal \subseteq Sym
    /\ Zero \in Value
    /\ None \notin Value \cup Entry \cup Sym
    /\ MaxHandle \in Nat /\ MaxAdds \in Nat /\ MaxListed \in Nat
    /\ MaxOpens \in Nat /\ MaxPending \in Nat \ {0}

VARIABLES
    opened,   \* Connection._port is not None
    opens,    \* bound: how often it was opened
    subs,     \* target: the live subscriptions, each with its last sample
    store,    \* callback_store: per handle, the registration it belongs to
    keeps,    \* and the symbol its callback keeps alive: that of an auto_update
    life,     \* per symbol, what its destructor did with the object
    list,     \* per symbol, _handles_list
    auto,     \* per symbol, _auto_update_handle
    buffer,   \* per symbol, _value
    plc,      \* target: the value of each variable
    pending,  \* notifications sent and not yet called back, in order
    call,     \* the method call the user's thread is inside
    made,     \* history: number of registrations
    dangling, \* history: registrations that are live after a refused deletion
    lapsed,   \* history: symbols whose list holds a handle that is gone
    ahead     \* history: symbols whose buffer the user set past the last sample

vars == <<opened, opens, subs, store, keeps, life, list, auto, buffer, plc,
          pending, call, made, dangling, lapsed, ahead>>
-----------------------------------------------------------------------------
Sub == [id : Id, handle : Handle, sym : Sym, auto : BOOLEAN, last : Value]

Idle == [op |-> "none"]
Call == {Idle}
    \cup [op : {"add"}, sym : Sym, auto : BOOLEAN, got : Entry \cup {None}]
    \cup [op : {"del", "auto_off"}, sym : Sym, entry : Entry \cup {None}]
    \cup [op : {"clear"}, sym : Sym, next : 1 .. MaxListed + 1]
    \cup [op : {"read"}, sym : Sym, got : Value \cup {None}]
    \cup [op : {"write"}, sym : Sym, value : Value]

\* cut: the destructor stopped at a deletion that failed.
Life == {"alive", "dying", "cut", "gone"}

TypeOK ==
    /\ opened \in BOOLEAN
    /\ opens \in 0 .. MaxOpens
    /\ subs \subseteq Sub
    /\ store \in [Handle -> Id \cup {None}]
    /\ keeps \in [Handle -> Sym \cup {None}]
    /\ life \in [Sym -> Life]
    /\ list \in [Sym -> Seq(Entry \cup {None})]
    /\ auto \in [Sym -> Entry \cup {None}]
    /\ buffer \in [Sym -> Value \cup {None}]
    /\ plc \in [Sym -> Value]
    /\ pending \in Seq([id : Id, sym : Sym, value : Value])
    /\ call \in Call
    /\ made \in 0 .. MaxAdds
    /\ dangling \subseteq Id
    /\ lapsed \subseteq Sym
    /\ ahead \subseteq Sym

Init ==
    /\ opened = FALSE
    /\ opens = 0
    /\ subs = {}
    /\ store = [h \in Handle |-> None]
    /\ keeps = [h \in Handle |-> None]
    /\ life = [s \in Sym |-> "alive"]
    /\ list = [s \in Sym |-> <<>>]
    /\ auto = [s \in Sym |-> None]
    /\ buffer = [s \in Sym |-> None]
    /\ plc = [s \in Sym |-> Zero]
    /\ pending = <<>>
    /\ call = Idle
    /\ made = 0
    /\ dangling = {}
    /\ lapsed = {}
    /\ ahead = {}

plcVars == <<plc, buffer, ahead>>
history == <<made, dangling, lapsed>>
objects == <<keeps, life>>
Listed == {s \in Sym : list[s] # <<>>}
Live(h) == {x \in subs : x.handle = h}
-----------------------------------------------------------------------------
(* The connection                                                          *)

Open ==
    /\ call = Idle
    /\ ~opened
    /\ opens < MaxOpens
    /\ opened' = TRUE
    /\ opens' = opens + 1
    /\ UNCHANGED <<objects, subs, store, list, auto, pending, call, plcVars,
                   history>>

Close ==
    /\ call = Idle
    /\ opened
    /\ opened' = FALSE
    /\ subs' = {}
    /\ pending' = <<>>
    /\ dangling' = {}
    /\ lapsed' = lapsed \cup Listed
    /\ UNCHANGED <<objects, opens, store, list, auto, call, plcVars, made>>
-----------------------------------------------------------------------------
(* Registration                                                            *)

\* add_device_notification of a symbol, on its own (auto FALSE) or from the
\* auto_update setter; on a closed connection it lists what it got: None.
Add(s, isAuto) ==
    /\ call = Idle
    /\ life[s] = "alive"
    /\ isAuto => s \in AutoSym /\ auto[s] = None
    /\ made < MaxAdds
    /\ Len(list[s]) < MaxListed
    /\ IF opened
       THEN /\ call' = [op |-> "add", sym |-> s, auto |-> isAuto, got |-> None]
            /\ UNCHANGED list
       ELSE /\ list' = [list EXCEPT ![s] = Append(@, None)]
            /\ UNCHANGED call
    /\ UNCHANGED <<objects, opened, opens, subs, store, auto, pending, plcVars,
                   history>>

Register ==
    /\ call.op = "add"
    /\ call.got = None
    /\ \/ \E h \in Handle :
            LET s == call.sym
                id == made + 1
            IN  /\ Live(h) = {}
                /\ Len(pending) < MaxPending
                /\ made' = id
                /\ subs' = subs \cup {[id |-> id, handle |-> h, sym |-> s,
                                       auto |-> call.auto, last |-> plc[s]]}
                /\ pending' = IF call.auto
                              THEN Append(pending, [id |-> id, sym |-> s,
                                                    value |-> plc[s]])
                              ELSE pending
                /\ call' = [call EXCEPT !.got = [id |-> id, handle |-> h]]
       \/ /\ "add" \in MayRefuse
          /\ call' = Idle
          /\ UNCHANGED <<made, subs, pending>>
    /\ UNCHANGED <<objects, opened, opens, store, list, auto, plcVars,
                   dangling, lapsed>>

\* The callback of an auto_update is a bound method of its symbol; what another
\* callback refers to is its user's affair.
Kept == IF call.auto THEN call.sym ELSE None

\* A mutant: the handles are not appended to the list.
StoreOnly ==
    /\ call.op = "add"
    /\ call.got # None
    /\ store' = [store EXCEPT ![call.got.handle] = call.got.id]
    /\ keeps' = [keeps EXCEPT ![call.got.handle] = Kept]
    /\ auto' = IF call.auto THEN [auto EXCEPT ![call.sym] = call.got] ELSE auto
    /\ call' = Idle
    /\ UNCHANGED <<opened, opens, life, subs, list, pending, plcVars, history>>

\* A mutant: an entry that is there already is kept.
StoreFirst ==
    /\ call.op = "add"
    /\ call.got # None
    /\ store' = [store EXCEPT ![call.got.handle] =
                                 IF @ = None THEN call.got.id ELSE @]
    /\ keeps' = IF store[call.got.handle] = None
                THEN [keeps EXCEPT ![call.got.handle] = Kept] ELSE keeps
    /\ list' = [list EXCEPT ![call.sym] = Append(@, call.got)]
    /\ auto' = IF call.auto THEN [auto EXCEPT ![call.sym] = call.got] ELSE auto
    /\ call' = Idle
    /\ UNCHANGED <<opened, opens, life, subs, pending, plcVars, history>>

Store ==
    /\ call.op = "add"
    /\ call.got # None
    /\ store' = [store EXCEPT ![call.got.handle] = call.got.id]
    /\ keeps' = [keeps EXCEPT ![call.got.handle] = Kept]
    /\ list' = [list EXCEPT ![call.sym] = Append(@, call.got)]
    /\ auto' = IF call.auto THEN [auto EXCEPT ![call.sym] = call.got] ELSE auto
    /\ call' = Idle
    /\ UNCHANGED <<opened, opens, life, subs, pending, plcVars, history>>
-----------------------------------------------------------------------------
(* Deletion                                                                *)

\* Connection.del_device_notification(e): a closed connection does nothing;
\* otherwise the target ends the subscription that has this handle now, or
\* refuses, and the callback is dropped before the answer is looked at.
\* ok says whether the call returns.
Delete(e, ok) ==
    \/ /\ e # None /\ ~opened
       /\ ok
       /\ UNCHANGED <<subs, store, keeps, dangling, lapsed>>
    \/ /\ e # None /\ opened
       /\ Live(e.handle) # {}
       /\ ok <=> store[e.handle] # None
       /\ subs' = subs \ Live(e.handle)
       /\ store' = [store EXCEPT ![e.handle] = None]
       /\ keeps' = [keeps EXCEPT ![e.handle] = None]
       /\ lapsed' = lapsed \cup {x.sym : x \in {y \in Live(e.handle) : y.id # e.id}}
                           \cup (IF ok THEN {} ELSE {call.sym})
       /\ dangling' = dangling \ {x.id : x \in Live(e.handle)}
    \/ /\ e # None /\ opened
       /\ Live(e.handle) = {} \/ "delete" \in MayRefuse
       /\ ~ok
       /\ store' = [store EXCEPT ![e.handle] = None]
       /\ keeps' = [keeps EXCEPT ![e.handle] = None]
       /\ dangling' = dangling \cup {x.id : x \in Live(e.handle)}
       /\ lapsed' = lapsed \cup {call.sym}
       /\ UNCHANGED subs
    \/ /\ e = None  \* del_device_notification(*None) is a TypeError
       /\ ~ok
       /\ lapsed' = lapsed \cup {call.sym}
       /\ UNCHANGED <<subs, store, keeps, dangling>>

\* list.remove and list membership compare the tuples, so the numbers.
SameEntry(e, f) == \/ e = f
                   \/ e # None /\ f # None /\ e.handle = f.handle
Without(l, e) ==
    IF \E i \in DOMAIN l : SameEntry(l[i], e)
    THEN RemoveAt(l, CHOOSE i \in DOMAIN l :
                         /\ SameEntry(l[i], e)
                         /\ \A j \in 1 .. i - 1 : ~SameEntry(l[j], e))
    ELSE l
IsListed(s, e) == \E i \in DOMAIN list[s] : SameEntry(list[s][i], e)

\* del_device_notification of a symbol, and auto_update = False.
DelBegin(s, op) ==
    /\ call = Idle
    /\ life[s] = "alive"
    /\ \/ /\ op = "del"
          /\ \E i \in DOMAIN list[s] :
                /\ list[s][i] # None
                /\ list[s][i] # auto[s]
                /\ call' = [op |-> op, sym |-> s, entry |-> list[s][i]]
          /\ UNCHANGED auto
       \/ /\ op = "auto_off"
          /\ auto[s] # None
          /\ IF IsListed(s, auto[s])
             THEN /\ call' = [op |-> op, sym |-> s, entry |-> auto[s]]
                  /\ UNCHANGED auto
             ELSE /\ auto' = [auto EXCEPT ![s] = None]
                  /\ UNCHANGED call
    /\ UNCHANGED <<objects, opened, opens, subs, store, list, pending, plcVars,
                   history>>

\* A mutant: the entry stays in the list.
DelKeepsEntry ==
    /\ call.op \in {"del", "auto_off"}
    /\ \E ok \in BOOLEAN :
        /\ Delete(call.entry, ok)
        /\ UNCHANGED list
        /\ auto' = IF ok /\ call.op = "auto_off"
                   THEN [auto EXCEPT ![call.sym] = None] ELSE auto
    /\ call' = Idle
    /\ UNCHANGED <<opened, opens, life, pending, plcVars, made>>

Del ==
    /\ call.op \in {"del", "auto_off"}
    /\ \E ok \in BOOLEAN :
        /\ Delete(call.entry, ok)
        /\ list' = IF ok THEN [list EXCEPT ![call.sym] = Without(@, call.entry)]
                         ELSE list
        /\ auto' = IF ok /\ call.op = "auto_off"
                   THEN [auto EXCEPT ![call.sym] = None] ELSE auto
    /\ call' = Idle
    /\ UNCHANGED <<opened, opens, life, pending, plcVars, made>>

\* clear_device_notifications, or __del__, which calls it when nothing refers
\* to the symbol any more (Store and Delete drop the references of callbacks):
\* one deletion per step, then the list and auto_update are reset.
ClearBegin(s, dying) ==
    /\ call = Idle
    /\ life[s] = "alive"
    /\ dying => s \in Mortal /\ \A h \in Handle : keeps[h] # s
    /\ call' = [op |-> "clear", sym |-> s, next |-> 1]
    /\ life' = IF dying THEN [life EXCEPT ![s] = "dying"] ELSE life
    /\ UNCHANGED <<opened, opens, subs, store, keeps, list, auto, pending,
                   plcVars, history>>

\* A destructor swallows the error, and the object vanishes with its list.
Ends(s, how) ==
    life' = IF life[s] = "dying" THEN [life EXCEPT ![s] = how] ELSE life

\* A mutant: auto_update stays on when the list is cleared.
ClearKeepsAuto ==
    /\ call.op = "clear"
    /\ LET s == call.sym
       IN  IF call.next <= Len(list[s])
           THEN \E ok \in BOOLEAN :
                  /\ Delete(list[s][call.next], ok)
                  /\ call' = IF ok THEN [call EXCEPT !.next = @ + 1] ELSE Idle
                  /\ IF ok THEN UNCHANGED life ELSE Ends(s, "cut")
                  /\ UNCHANGED <<list, auto>>
           ELSE /\ list' = [list EXCEPT ![s] = <<>>]
                /\ lapsed' = lapsed \ {s}
                /\ call' = Idle
                /\ Ends(s, "gone")
                /\ UNCHANGED <<auto, subs, store, keeps, dangling>>
    /\ UNCHANGED <<opened, opens, pending, plcVars, made>>

Clear ==
    /\ call.op = "clear"
    /\ LET s == call.sym
       IN  IF call.next <= Len(list[s])
           THEN \E ok \in BOOLEAN :
                  /\ Delete(list[s][call.next], ok)
                  /\ call' = IF ok THEN [call EXCEPT !.next = @ + 1] ELSE Idle
                  /\ IF ok THEN UNCHANGED life ELSE Ends(s, "cut")
                  /\ UNCHANGED <<list, auto>>
           ELSE /\ list' = [list EXCEPT ![s] = <<>>]
                /\ auto' = [auto EXCEPT ![s] = None]
                /\ lapsed' = lapsed \ {s}
                /\ call' = Idle
                /\ Ends(s, "gone")
                /\ UNCHANGED <<subs, store, keeps, dangling>>
    /\ UNCHANGED <<opened, opens, pending, plcVars, made>>
-----------------------------------------------------------------------------
(* The buffered value                                                      *)

\* The last sample that was sent to the auto update of s, if it has one.
LastSample(s) == {x.last : x \in {y \in subs : y.auto /\ y.sym = s}}
Put(s, v) ==
    /\ buffer' = [buffer EXCEPT ![s] = v]
    /\ ahead' = IF LastSample(s) \subseteq {v} THEN ahead \ {s} ELSE ahead \cup {s}

ReadBegin(s) ==
    /\ call = Idle
    /\ life[s] = "alive"
    /\ opened  \* _check_for_open_connection
    /\ call' = [op |-> "read", sym |-> s, got |-> None]
    /\ UNCHANGED <<objects, opened, opens, subs, store, list, auto, pending,
                   plcVars, history>>

ReadAnswer ==
    /\ call.op = "read"
    /\ call.got = None
    /\ \/ call' = [call EXCEPT !.got = plc[call.sym]]
       \/ "read" \in MayRefuse /\ call' = Idle
    /\ UNCHANGED <<objects, opened, opens, subs, store, list, auto, pending,
                   plcVars, history>>

ReadKeep ==
    /\ call.op = "read"
    /\ call.got # None
    /\ Put(call.sym, call.got)
    /\ call' = Idle
    /\ UNCHANGED <<objects, opened, opens, subs, store, list, auto, pending,
                   plc, history>>

\* The value setter, and write(v): the buffer first, then the request, which
\* the setter makes only with auto_update and an open connection.
WriteBegin(s, v, setter) ==
    /\ call = Idle
    /\ life[s] = "alive"
    /\ setter \/ opened
    /\ Put(s, v)
    /\ call' = IF opened /\ (setter => auto[s] # None)
               THEN [op |-> "write", sym |-> s, value |-> v] ELSE call
    /\ UNCHANGED <<objects, opened, opens, subs, store, list, auto, pending,
                   plc, history>>

\* A mutant: a buffer that was never filled is sent.
WriteEmptyBuffer(s) ==
    /\ call = Idle
    /\ life[s] = "alive"
    /\ opened
    /\ call' = [op |-> "write", sym |-> s, value |-> buffer[s]]
    /\ UNCHANGED <<objects, opened, opens, subs, store, list, auto, pending,
                   plcVars, history>>

\* write() sends the buffer as it is now; an empty one cannot be converted.
WriteBuffer(s) ==
    /\ call = Idle
    /\ life[s] = "alive"
    /\ opened
    /\ buffer[s] # None
    /\ call' = [op |-> "write", sym |-> s, value |-> buffer[s]]
    /\ UNCHANGED <<objects, opened, opens, subs, store, list, auto, pending,
                   plcVars, history>>

WriteAnswer ==
    /\ call.op = "write"
    /\ \/ plc' = [plc EXCEPT ![call.sym] = call.value]
       \/ "write" \in MayRefuse /\ UNCHANGED plc
    /\ call' = Idle
    /\ UNCHANGED <<objects, opened, opens, subs, store, list, auto, pending,
                   buffer, ahead, history>>

PlcChanges(s) ==
    /\ \E v \in Value \ {plc[s]} : plc' = [plc EXCEPT ![s] = v]
    /\ UNCHANGED <<objects, opened, opens, subs, store, list, auto, pending,
                   buffer, ahead, call, history>>

Sample(x) ==
    /\ x.auto
    /\ x.last # plc[x.sym]
    /\ Len(pending) < MaxPending
    /\ subs' = (subs \ {x}) \cup {[x EXCEPT !.last = plc[x.sym]]}
    /\ pending' = Append(pending, [id |-> x.id, sym |-> x.sym,
                                   value |-> plc[x.sym]])
    /\ UNCHANGED <<objects, opened, opens, store, list, auto, call, plcVars,
                   history>>

\* A mutant: a callback gives way to a read in progress.
CallbackYields ==
    /\ pending # <<>>
    /\ pending' = Tail(pending)
    /\ IF \/ call.op = "read" /\ call.sym = Head(pending).sym
          \/ \A x \in subs : x.id # Head(pending).id
       THEN UNCHANGED <<buffer, ahead>>
       ELSE /\ buffer' = [buffer EXCEPT ![Head(pending).sym] = Head(pending).value]
            /\ ahead' = ahead \ {Head(pending).sym}
    /\ UNCHANGED <<objects, opened, opens, subs, store, list, auto, plc, call,
                   history>>

\* _value_callback, on the router's thread, which drops the notifications of a
\* subscription that was deleted meanwhile.
Callback ==
    /\ pending # <<>>
    /\ pending' = Tail(pending)
    /\ IF \E x \in subs : x.id = Head(pending).id
       THEN /\ buffer' = [buffer EXCEPT ![Head(pending).sym] = Head(pending).value]
            /\ ahead' = ahead \ {Head(pending).sym}
       ELSE UNCHANGED <<buffer, ahead>>
    /\ UNCHANGED <<objects, opened, opens, subs, store, list, auto, plc, call,
                   history>>
-----------------------------------------------------------------------------
Next ==
    \/ Open
    \/ Close
    \/ \E s \in Sym : \E isAuto \in BOOLEAN : Add(s, isAuto)
    \/ Register
    \/ Store
    \/ \E s \in Sym : \E op \in {"del", "auto_off"} : DelBegin(s, op)
    \/ Del
    \/ \E s \in Sym : \E dying \in BOOLEAN : ClearBegin(s, dying)
    \/ Clear
    \/ \E s \in Moving : ReadBegin(s)
    \/ ReadAnswer
    \/ ReadKeep
    \/ \E s \in Moving : \E v \in Value :
          \E setter \in BOOLEAN : WriteBegin(s, v, setter)
    \/ \E s \in Moving : WriteBuffer(s)
    \/ WriteAnswer
    \/ \E s \in Moving : PlcChanges(s)
    \/ \E x \in subs : Sample(x)
    \/ Callback

Spec == Init /\ [][Next]_vars
-----------------------------------------------------------------------------
Adding(x) == call.op = "add" /\ call.got = [id |-> x.id, handle |-> x.handle]
Clearing(s) == call.op = "clear" /\ call.sym = s

(* The router never calls into freed memory: a live subscription has its   *)
(* callback in callback_store, under its own handle, unless it is being    *)
(* registered or the target refused to delete it (the callback is dropped  *)
(* before the error is looked at).                                         *)
CallbackAlive ==
    \A x \in subs : store[x.handle] = x.id \/ Adding(x) \/ x.id \in dangling

(* No subscription is forgotten: what is live on the target can still be   *)
(* deleted through the list of the symbol that registered it, so a symbol  *)
(* that is gone has none; except those of a symbol whose destructor was    *)
(* cut short, whose list is gone with the error that was swallowed.        *)
NoOrphans ==
    \A x \in subs :
        \/ Adding(x)
        \/ life[x.sym] = "cut"
        \/ /\ life[x.sym] # "gone"
           /\ \E i \in DOMAIN list[x.sym] :
                 list[x.sym][i] = [id |-> x.id, handle |-> x.handle]

(* auto_update tells the truth: it is True only of a symbol with a live    *)
(* automatic subscription, and False only of one with none, unless the     *)
(* connection was closed, a deletion failed, or another symbol with such a *)
(* stale handle deleted it.                                                *)
AutoIsLive ==
    \A s \in Sym : s \notin lapsed /\ ~Clearing(s) =>
        \/ /\ auto[s] # None
           /\ \E x \in subs : /\ x.auto
                              /\ x.sym = s
                              /\ [id |-> x.id, handle |-> x.handle] = auto[s]
        \/ /\ auto[s] = None
           /\ \A x \in subs : x.auto /\ x.sym = s => Adding(x)

(* A symbol ends only subscriptions of its own, unless its list kept the   *)
(* handle of one that is gone (after a close or a deletion that failed).   *)
DeletesOwn ==
    [][\A x \in subs :
          /\ \A y \in subs' : y.id # x.id
          /\ opened'
          => x.sym = call.sym \/ call.sym \in lapsed]_vars

(* With auto_update the buffer follows: once the callbacks have caught up  *)
(* it is the last sampled value, unless a read or a write of the user put  *)
(* another value there since the last callback.                            *)
BufferFollows ==
    \A x \in subs :
        /\ x.auto
        /\ x.sym \notin ahead
        /\ \A i \in DOMAIN pending : pending[i].id # x.id
        => buffer[x.sym] = x.last
=============================================================================
