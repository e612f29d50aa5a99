------------------------------ MODULE Connection ------------------------------
(***************************************************************************)
(* pyads.Connection as a user of three outside resources: a port of the    *)
(* local AMS router, a route to the target, and symbol handles on the      *)
(* target.  Each call of the ADS library is one step; what comes between   *)
(* two of them in other threads (an owner closing, a notification callback *)
(* reading by name) is any interleaving of the steps.                      *)
(*                                                                         *)
(* The router and the target are external: a port number they hand out is  *)
(* free, a handle is new, a request through a port that is not open is     *)
(* refused, and every other request may be refused if MayRefuse says so.   *)
(***************************************************************************)
EXTENDS Integers, FiniteSets

CONSTANTS
    Conn,        \* Connection objects
    Thread,      \* threads that call their methods
    Owner,       \* the thread that opens and closes each connection
    NetId,       \* AMS net ids
    KnownNetId,  \* the ams_net_id each connection was made with, or None
    PlcNetId,    \* what adsGetNetIdForPLC answers for its ip_address
    Port,        \* ports of the local router
    MaxHandle,   \* bound: the target hands out 1 .. MaxHandle
    MaxFailed,   \* bound: no close fails after MaxFailed have for one net id
    Linux,       \* ads.linux: routes are managed in this process
    MayRefuse,   \* requests that may fail although the port is open
    None

ASSUME ConnectionAssumption ==
    /\ IsFiniteSet(Conn)
    /\ Owner \in [Conn -> Thread]
    /\ KnownNetId \in [Conn -> NetId \cup {None}]
    /\ PlcNetId \in [Conn -> NetId]
    /\ None \notin NetId \cup Port \cup Conn
    /\ MaxHandle \in Nat
    /\ MaxFailed \in Nat
    /\ None \notin 1 .. MaxHandle
    /\ Linux \in BOOLEAN

VARIABLES
    port,      \* Connection._port
    open,      \* Connection._open
    netid,     \* Connection.ams_net_id
    adr,       \* Connection._adr.netid
    call,      \* per thread, the method call it is inside
    ports,     \* router: the open ports
    routes,    \* router: AdsAddRoute minus AdsDelRoute, per net id
    handles,   \* target: the handles in existence
    fresh,     \* target: the next handle
    held,      \* handles the user got from get_handle and has not given back
    refused,   \* history: open ports whose AdsPortCloseEx failed
    unrouted,  \* history: closes that failed after AdsDelRoute, per net id
    stranded   \* history: handles given up with no answered release, and why

vars == <<port, open, netid, adr, call, ports, routes, handles, fresh, held,
          refused, unrouted, stranded>>
-----------------------------------------------------------------------------
Handle == 1 .. MaxHandle
Op == {"open", "close", "by_name", "with_handle", "rpc", "get", "free"}
Step == {"lookup", "port_open", "route", "undo", "unroute", "port_close",
         "handle", "access", "release"}
Why == {"access", "release", "no port"}

Idle == [op |-> "none", step |-> "idle", conn |-> None, port |-> None,
         handle |-> None]
Call == [op : Op, step : Step, conn : Conn, port : Port \cup {None},
         handle : Handle \cup {None}]

TypeOK ==
    /\ port \in [Conn -> Port \cup {None}]
    /\ open \in [Conn -> BOOLEAN]
    /\ netid \in [Conn -> NetId \cup {None}]
    /\ adr \in [Conn -> NetId \cup {None}]
    /\ call \in [Thread -> Call \cup {Idle}]
    /\ ports \subseteq Port
    /\ routes \in [NetId \cup {None} -> Int]
    /\ handles \subseteq Handle
    /\ fresh \in 1 .. MaxHandle + 1
    /\ held \subseteq Handle
    /\ refused \subseteq Port
    /\ unrouted \in [NetId \cup {None} -> Nat]
    /\ stranded \subseteq [handle : Handle, op : Op, why : Why]

Init ==
    /\ port = [c \in Conn |-> None]
    /\ open = [c \in Conn |-> FALSE]
    /\ netid = KnownNetId
    /\ adr = KnownNetId
    /\ call = [t \in Thread |-> Idle]
    /\ ports = {}
    /\ routes = [n \in NetId \cup {None} |-> 0]
    /\ handles = {}
    /\ fresh = 1
    /\ held = {}
    /\ refused = {}
    /\ unrouted = [n \in NetId \cup {None} |-> 0]
    /\ stranded = {}

connection == <<port, open, netid, adr>>
target == <<handles, fresh, held>>
-----------------------------------------------------------------------------
Begin(t, op, step, c, p, h) ==
    /\ call[t] = Idle
    /\ call' = [call EXCEPT ![t] = [op |-> op, step |-> step, conn |-> c,
                                    port |-> p, handle |-> h]]

At(t, step) == call[t].step = step
Goto(t, step) == call' = [call EXCEPT ![t].step = step]
End(t) == call' = [call EXCEPT ![t] = Idle]

\* A request of kind step through port p may fail.
Refusable(step, p) == step \in MayRefuse \/ p \notin ports
-----------------------------------------------------------------------------
(* open, close and the address                                             *)

SetNetId(t, c, n) ==
    /\ call[t] = Idle
    /\ t = Owner[c]
    /\ ~open[c]
    /\ adr' = [adr EXCEPT ![c] = n]
    /\ UNCHANGED <<port, open, netid, call, ports, routes, target, refused,
                   unrouted, stranded>>

OpenBegin(t, c) ==
    /\ t = Owner[c]
    /\ ~open[c]
    /\ Begin(t, "open", IF netid[c] = None THEN "lookup" ELSE "port_open",
             c, None, None)
    /\ UNCHANGED <<connection, ports, routes, target, refused, unrouted,
                   stranded>>

Lookup(t) ==
    /\ At(t, "lookup")
    /\ LET c == call[t].conn
       IN  \/ /\ netid' = [netid EXCEPT ![c] = PlcNetId[c]]
              /\ adr' = [adr EXCEPT ![c] = PlcNetId[c]]
              /\ Goto(t, "port_open")
           \/ /\ "lookup" \in MayRefuse
              /\ End(t)
              /\ UNCHANGED <<netid, adr>>
    /\ UNCHANGED <<port, open, ports, routes, target, refused, unrouted,
                   stranded>>

PortOpen(t) ==
    /\ At(t, "port_open")
    /\ LET c == call[t].conn
       IN  \/ \E p \in Port \ ports :
                /\ ports' = ports \cup {p}
                /\ port' = [port EXCEPT ![c] = p]
                /\ open' = [open EXCEPT ![c] = ~Linux]
                /\ IF Linux THEN Goto(t, "route") ELSE End(t)
           \/ /\ "port_open" \in MayRefuse
              /\ End(t)
              /\ UNCHANGED <<ports, port, open>>
    /\ UNCHANGED <<netid, adr, routes, target, refused, unrouted, stranded>>

AddRoute(t) ==
    /\ At(t, "route")
    /\ LET c == call[t].conn
       IN  \/ /\ routes' = [routes EXCEPT ![adr[c]] = @ + 1]
              /\ open' = [open EXCEPT ![c] = TRUE]
              /\ End(t)
           \/ /\ "route" \in MayRefuse
              /\ Goto(t, "undo")
              /\ UNCHANGED <<routes, open>>
    /\ UNCHANGED <<port, netid, adr, ports, target, refused, unrouted, stranded>>

\* AdsPortCloseEx answered for the port of c.
PortClosed(c) ==
    /\ ports' = ports \ {port[c]}
    /\ refused' = refused \ {port[c]}
    /\ port' = [port EXCEPT ![c] = None]

\* A mutant: a failed open forgets the port without closing it.
UndoKeepsPort(t) ==
    /\ At(t, "undo")
    /\ ports' = ports
    /\ refused' = refused
    /\ port' = [port EXCEPT ![call[t].conn] = None]
    /\ End(t)
    /\ UNCHANGED <<open, netid, adr, routes, target, unrouted, stranded>>

Undo(t) ==
    /\ At(t, "undo")
    /\ LET c == call[t].conn
       IN  \/ PortClosed(c)
           \/ /\ "port_close" \in MayRefuse
              /\ refused' = refused \cup {port[c]}
              /\ UNCHANGED <<ports, port>>
    /\ End(t)
    /\ UNCHANGED <<open, netid, adr, routes, target, unrouted, stranded>>

\* A mutant: close leaves the route.
CloseSkipsRoute(t, c) ==
    /\ t = Owner[c]
    /\ open[c]
    /\ Begin(t, "close", "port_close", c, None, None)
    /\ UNCHANGED <<connection, ports, routes, target, refused, unrouted,
                   stranded>>

CloseBegin(t, c) ==
    /\ t = Owner[c]
    /\ open[c]
    /\ Begin(t, "close", IF Linux THEN "unroute" ELSE "port_close",
             c, None, None)
    /\ UNCHANGED <<connection, ports, routes, target, refused, unrouted,
                   stranded>>

DelRoute(t) ==
    /\ At(t, "unroute")
    /\ routes' = [routes EXCEPT ![adr[call[t].conn]] = @ - 1]
    /\ Goto(t, "port_close")
    /\ UNCHANGED <<connection, ports, target, refused, unrouted, stranded>>

ClosePort(t) ==
    /\ At(t, "port_close")
    /\ LET c == call[t].conn
       IN  \/ /\ PortClosed(c)
              /\ open' = [open EXCEPT ![c] = FALSE]
              /\ UNCHANGED unrouted
           \/ /\ "port_close" \in MayRefuse
              /\ \A n \in DOMAIN unrouted : unrouted[n] < MaxFailed
              /\ refused' = refused \cup {port[c]}
              /\ unrouted' = [unrouted EXCEPT ![adr[c]] = @ + 1]
              /\ UNCHANGED <<ports, port, open>>
    /\ End(t)
    /\ UNCHANGED <<netid, adr, routes, target, stranded>>
-----------------------------------------------------------------------------
(* Access by name: handle, request, release                                *)

\* read_by_name and write_by_name look at _port, never at _open, and keep
\* the port they saw; h is the caller's handle, or None.
ByName(t, c, h) ==
    /\ port[c] # None
    /\ IF h = None
       THEN Begin(t, "by_name", "handle", c, port[c], None)
       ELSE Begin(t, "with_handle", "access", c, port[c], h)
    /\ UNCHANGED <<connection, ports, routes, target, refused, unrouted,
                   stranded>>

\* A mutant: call_rpc_method goes on without a handle.
CallRpcAnyway(t, c) ==
    /\ port[c] # None
    /\ Begin(t, "rpc", "access", c, port[c], None)
    /\ UNCHANGED <<connection, ports, routes, target, refused, unrouted,
                   stranded>>

\* call_rpc_method looks at _port again in each of its three calls.
CallRpc(t, c) ==
    /\ port[c] # None
    /\ Begin(t, "rpc", "handle", c, port[c], None)
    /\ UNCHANGED <<connection, ports, routes, target, refused, unrouted,
                   stranded>>

GetHandle(t, c) ==
    /\ port[c] # None
    /\ Begin(t, "get", "handle", c, port[c], None)
    /\ UNCHANGED <<connection, ports, routes, target, refused, unrouted,
                   stranded>>

Strand(t, h, op, why) ==
    stranded' = stranded \cup {[handle |-> h, op |-> op, why |-> why]}

ReleaseHandle(t, c, h) ==
    /\ h \in held
    /\ held' = held \ {h}
    /\ IF port[c] = None
       THEN /\ call[t] = Idle
            /\ Strand(t, h, "free", "no port")
            /\ UNCHANGED call
       ELSE /\ Begin(t, "free", "release", c, port[c], h)
            /\ UNCHANGED stranded
    /\ UNCHANGED <<connection, ports, routes, handles, fresh, refused, unrouted>>

HandleByName(t) ==
    /\ At(t, "handle")
    /\ \/ /\ call[t].port \in ports
          /\ fresh <= MaxHandle
          /\ handles' = handles \cup {fresh}
          /\ fresh' = fresh + 1
          /\ IF call[t].op = "get"
             THEN /\ held' = held \cup {fresh}
                  /\ End(t)
             ELSE /\ call' = [call EXCEPT ![t].handle = fresh,
                                          ![t].step = "access"]
                  /\ UNCHANGED held
       \/ /\ Refusable("handle", call[t].port)
          /\ End(t)
          /\ UNCHANGED target
    /\ UNCHANGED <<connection, ports, routes, refused, unrouted, stranded>>

\* A mutant: the call by name releases whatever handle it used.
AccessReleasesAny(t) ==
    /\ At(t, "access")
    /\ Goto(t, "release")
    /\ UNCHANGED <<connection, ports, routes, target, refused, unrouted,
                   stranded>>

\* A mutant: call_rpc_method without its finally.
AccessNoFinally(t) ==
    LET u == call[t]
    IN  /\ At(t, "access")
        /\ \/ /\ IF u.op = "with_handle" THEN End(t) ELSE Goto(t, "release")
              /\ UNCHANGED stranded
           \/ /\ Refusable("access", u.port)
              /\ End(t)
              /\ IF u.op = "with_handle"
                 THEN UNCHANGED stranded
                 ELSE Strand(t, u.handle, u.op, "access")
        /\ UNCHANGED <<connection, ports, routes, target, refused, unrouted>>

\* A request on a handle: the call by name that made its own handle releases
\* it only after an answer, the RPC call in any case (its finally).
Access(t) ==
    LET u == call[t]
    IN  /\ At(t, "access")
        /\ \/ /\ u.op = "with_handle"
              /\ End(t)
              /\ UNCHANGED stranded
           \/ /\ u.op = "rpc" \/ u.port \in ports
              /\ u.op # "with_handle"
              /\ Goto(t, "release")
              /\ UNCHANGED stranded
           \/ /\ u.op = "by_name"
              /\ Refusable("access", u.port)
              /\ Strand(t, u.handle, u.op, "access")
              /\ End(t)
        /\ UNCHANGED <<connection, ports, routes, target, refused, unrouted>>

Release(t) ==
    LET u == call[t]
        p == IF u.op = "rpc" THEN port[u.conn] ELSE u.port
    IN  /\ At(t, "release")
        /\ End(t)
        /\ \/ /\ p \in ports
              /\ handles' = handles \ {u.handle}
              /\ UNCHANGED <<held, stranded>>
           \/ /\ p = None \/ Refusable("release", p)
              /\ IF u.op = "free"
                 THEN /\ held' = held \cup {u.handle}
                      /\ UNCHANGED stranded
                 ELSE /\ Strand(t, u.handle, u.op,
                                IF p = None THEN "no port" ELSE "release")
                      /\ UNCHANGED held
              /\ UNCHANGED handles
        /\ UNCHANGED <<connection, ports, routes, fresh, refused, unrouted>>
-----------------------------------------------------------------------------
Next ==
    \E t \in Thread :
        \/ \E c \in Conn :
              \/ \E n \in NetId : SetNetId(t, c, n)
              \/ OpenBegin(t, c)
              \/ CloseBegin(t, c)
              \/ \E h \in held \cup {None} : ByName(t, c, h)
              \/ CallRpc(t, c)
              \/ GetHandle(t, c)
              \/ \E h \in held : ReleaseHandle(t, c, h)
        \/ Lookup(t)
        \/ PortOpen(t)
        \/ AddRoute(t)
        \/ Undo(t)
        \/ DelRoute(t)
        \/ ClosePort(t)
        \/ HandleByName(t)
        \/ Access(t)
        \/ Release(t)

Spec == Init /\ [][Next]_vars
-----------------------------------------------------------------------------
Opening(c) == call[Owner[c]].conn = c /\ call[Owner[c]].op = "open"

(* No port is lost: every open port of the router is the _port of exactly  *)
(* one connection or its AdsPortCloseEx was refused, and a connection that *)
(* is neither open nor opening has a _port only after such a refusal (so   *)
(* calls by name, which look at _port alone, work only on an open one).    *)
PortsAccounted ==
    /\ \A p \in ports : p \in refused \/ \E c \in Conn : port[c] = p
    /\ \A c \in Conn : port[c] # None =>
          /\ port[c] \in ports
          /\ \A d \in Conn : port[d] = port[c] => d = c
          /\ open[c] \/ Opening(c) \/ port[c] \in refused
    /\ \A c \in Conn : open[c] => port[c] # None

\* close has called AdsDelRoute and has not finished.
PastDelRoute(c) == call[Owner[c]].conn = c /\ At(Owner[c], "port_close")
Routed(n) == {c \in Conn : open[c] /\ adr[c] = n /\ ~PastDelRoute(c)}

(* AdsAddRoute and AdsDelRoute balance: every open connection stands for   *)
(* one route to its net id, and each close that failed after AdsDelRoute   *)
(* costs one for good (close deletes again when it is called again, and an *)
(* open connection next to it loses the route it opened).                  *)
RoutesMatch ==
    Linux => \A n \in NetId :
        routes[n] = Cardinality(Routed(n)) - unrouted[n]

InFlight == {call[t].handle : t \in Thread} \ {None}

(* No handle is lost in silence: a handle on the target is the user's, in  *)
(* use by a call, or was given up because its release was refused or found *)
(* no port, or, only in read_by_name and write_by_name, because the access *)
(* was refused; an RPC call whose request fails still releases.            *)
HandlesReturned ==
    /\ \A h \in handles :
          \/ h \in held
          \/ h \in InFlight
          \/ \E r \in stranded : r.handle = h
    /\ \A r \in stranded : r.why = "access" => r.op = "by_name"

(* A handle the user got stays valid until the user releases it: no call   *)
(* by name that it was passed to, and no other call's release, ends it.    *)
UserHandlesStay == held \subseteq handles
=============================================================================
