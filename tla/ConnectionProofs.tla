--------------------------- MODULE ConnectionProofs ---------------------------
(***************************************************************************)
(* Theorems about Connection, for any connections, threads, owners, net    *)
(* ids, ports and handles, and any requests that fail.                     *)
(***************************************************************************)
EXTENDS Connection, FiniteSetTheorems, TLAPS

-----------------------------------------------------------------------------
(* The call a thread is in *)

\* The steps each method goes through, and what it holds at each.
Fits(t, u) ==
    \/ u = Idle
    \/ /\ u.op = "open"
       /\ u.step \in {"lookup", "port_open", "route", "undo"}
       /\ t = Owner[u.conn]
       /\ u.handle = None
    \/ /\ u.op = "close"
       /\ u.step \in {"unroute", "port_close"}
       /\ t = Owner[u.conn]
       /\ u.handle = None
    \/ /\ u.op \in {"by_name", "rpc", "get"}
       /\ u.step = "handle"
       /\ u.handle = None
    \/ /\ u.op \in {"by_name", "with_handle", "rpc"}
       /\ u.step = "access"
       /\ u.handle \in Handle
    \/ /\ u.op \in {"by_name", "rpc", "free"}
       /\ u.step = "release"
       /\ u.handle \in Handle

TypeInv ==
    /\ TypeOK
    /\ \A t \in Thread : Fits(t, call[t])

\* A connection whose open has its port and no route yet.
Busy(c) == call[Owner[c]].conn = c /\ (At(Owner[c], "route") \/ At(Owner[c], "undo"))

\* open works on a connection that is not open, close on one that is, and an
\* open connection, or one whose open has its port, has a port.
CallsOpen ==
    /\ \A c \in Conn : open[c] => port[c] # None
    /\ \A t \in Thread :
          /\ call[t].op = "open" => ~open[call[t].conn]
          /\ At(t, "route") \/ At(t, "undo") => port[call[t].conn] # None
          /\ call[t].op = "close" => open[call[t].conn]

LEMMA CallFields ==
    ASSUME TypeOK, NEW t \in Thread, call[t] # Idle
    PROVE  /\ call[t] \in Call
           /\ call[t].op \in Op /\ call[t].step \in Step /\ call[t].conn \in Conn
           /\ call[t].port \in Port \cup {None}
           /\ call[t].handle \in Handle \cup {None}
<1>1. call[t] \in Call
  BY DEF TypeOK
<1> QED
  BY <1>1 DEF Call

LEMMA InCall ==
    ASSUME NEW t \in Thread, NEW step \in Step, At(t, step)
    PROVE  call[t] # Idle
<1>1. call[t].step = step
  BY DEF At
<1>2. "idle" \notin Step
  BY DEF Step
<1> QED
  BY <1>1, <1>2 DEF Idle

LEMMA Going ==
    ASSUME TypeOK, NEW t \in Thread, call[t] # Idle, NEW step \in Step, Goto(t, step)
    PROVE  /\ call' \in [Thread -> Call \cup {Idle}]
           /\ call'[t] = [op |-> call[t].op, step |-> step, conn |-> call[t].conn,
                          port |-> call[t].port, handle |-> call[t].handle]
           /\ \A v \in Thread : v # t => call'[v] = call[v]
<1> DEFINE u == [op |-> call[t].op, step |-> step, conn |-> call[t].conn,
                 port |-> call[t].port, handle |-> call[t].handle]
<1>1. call \in [Thread -> Call \cup {Idle}] /\ call[t] \in Call
  BY CallFields DEF TypeOK
<1>2. u \in Call
  BY CallFields DEF Call
<1>3. call'[t] = u
  BY <1>1 DEF Goto, Call
<1>4. \A v \in Thread : v # t => call'[v] = call[v]
  BY <1>1 DEF Goto
<1>5. call' \in [Thread -> Call \cup {Idle}]
  <2>1. call' = [v \in Thread |-> call'[v]]
    BY <1>1 DEF Goto
  <2> HIDE DEF u
  <2> QED
    BY <1>1, <1>2, <1>3, <1>4, <2>1
<1> QED
  BY <1>3, <1>4, <1>5

LEMMA Ending ==
    ASSUME TypeOK, NEW t \in Thread, End(t)
    PROVE  /\ call' \in [Thread -> Call \cup {Idle}]
           /\ call'[t] = Idle
           /\ \A v \in Thread : v # t => call'[v] = call[v]
<1>1. call \in [Thread -> Call \cup {Idle}]
  BY DEF TypeOK
<1> QED
  BY <1>1 DEF End

LEMMA Beginning ==
    ASSUME TypeOK, NEW t \in Thread, NEW op \in Op, NEW step \in Step, NEW c \in Conn,
           NEW p \in Port \cup {None}, NEW h \in Handle \cup {None},
           Begin(t, op, step, c, p, h)
    PROVE  /\ call[t] = Idle
           /\ call' \in [Thread -> Call \cup {Idle}]
           /\ call'[t] = [op |-> op, step |-> step, conn |-> c, port |-> p, handle |-> h]
           /\ \A v \in Thread : v # t => call'[v] = call[v]
<1> DEFINE u == [op |-> op, step |-> step, conn |-> c, port |-> p, handle |-> h]
<1>1. call \in [Thread -> Call \cup {Idle}] /\ u \in Call
  BY DEF TypeOK, Call
<1>2. call' = [call EXCEPT ![t] = u] /\ call[t] = Idle
  BY DEF Begin
<1> HIDE DEF u
<1>3. /\ call' \in [Thread -> Call \cup {Idle}]
      /\ call'[t] = u
      /\ \A v \in Thread : v # t => call'[v] = call[v]
  BY <1>1, <1>2
<1> QED
  BY <1>2, <1>3 DEF u

\* At each step, the methods that may be there.
LEMMA OpAt ==
    ASSUME TypeInv, NEW t \in Thread
    PROVE  /\ \A step \in {"lookup", "port_open", "route", "undo"} :
                 At(t, step) => /\ call[t].op = "open" /\ t = Owner[call[t].conn]
                                /\ call[t].handle = None
           /\ \A step \in {"unroute", "port_close"} :
                 At(t, step) => /\ call[t].op = "close" /\ t = Owner[call[t].conn]
                                /\ call[t].handle = None
           /\ At(t, "handle") => /\ call[t].op \in {"by_name", "rpc", "get"}
                                 /\ call[t].handle = None
           /\ At(t, "access") => /\ call[t].op \in {"by_name", "with_handle", "rpc"}
                                 /\ call[t].handle \in Handle
           /\ At(t, "release") => /\ call[t].op \in {"by_name", "rpc", "free"}
                                  /\ call[t].handle \in Handle
<1>1. Fits(t, call[t])
  BY DEF TypeInv
<1> QED
  BY <1>1 DEF Fits, At, Idle

LEMMA Words ==
    /\ {"lookup", "port_open", "route", "undo", "unroute", "port_close",
        "handle", "access", "release"} = Step
    /\ {"open", "close", "by_name", "with_handle", "rpc", "get", "free"} = Op
  BY DEF Step, Op
-----------------------------------------------------------------------------
(* Types *)

LEMMA TypeInit == Init => TypeInv
<1> SUFFICES ASSUME Init PROVE TypeInv
  OBVIOUS
<1>1. TypeOK
  <2>1. netid \in [Conn -> NetId \cup {None}] /\ adr \in [Conn -> NetId \cup {None}]
    BY ConnectionAssumption DEF Init
  <2>2. call \in [Thread -> Call \cup {Idle}]
    BY DEF Init
  <2>3. routes \in [NetId \cup {None} -> Int] /\ unrouted \in [NetId \cup {None} -> Nat]
    BY DEF Init
  <2>4. fresh \in 1 .. MaxHandle + 1
    BY ConnectionAssumption DEF Init
  <2> QED
    BY <2>1, <2>2, <2>3, <2>4 DEF Init, TypeOK
<1>2. \A t \in Thread : call[t] = Idle
  BY DEF Init
<1> QED
  BY <1>1, <1>2 DEF TypeInv, Fits

LEMMA FitsKept ==
    ASSUME TypeInv, NEW t \in Thread, Fits(t, call'[t]),
           \A v \in Thread : v # t => call'[v] = call[v]
    PROVE  \A v \in Thread : Fits(v, call'[v])
  BY DEF TypeInv

\* A step that changes nothing but the call of a thread.
LEMMA CallOnly ==
    ASSUME TypeInv, NEW t \in Thread, Fits(t, call'[t]),
           call' \in [Thread -> Call \cup {Idle}],
           \A v \in Thread : v # t => call'[v] = call[v],
           UNCHANGED <<connection, ports, routes, target, refused, unrouted, stranded>>
    PROVE  TypeInv'
<1>1. TypeOK'
  BY DEF TypeInv, TypeOK, connection, target
<1>2. \A v \in Thread : Fits(v, call'[v])
  BY FitsKept
<1> QED
  BY <1>1, <1>2 DEF TypeInv, Fits

\* An open or a close that goes on or ends.
LEMMA Moving ==
    ASSUME TypeOK, NEW t \in Thread, call[t] # Idle, t = Owner[call[t].conn],
           call[t].handle = None, NEW step \in Step, Goto(t, step) \/ End(t),
           \/ call[t].op = "open" /\ step \in {"port_open", "route", "undo"}
           \/ call[t].op = "close" /\ step = "port_close"
    PROVE  /\ call' \in [Thread -> Call \cup {Idle}]
           /\ Fits(t, call'[t])
           /\ \A v \in Thread : v # t => call'[v] = call[v]
<1>1. CASE Goto(t, step)
  <2>1. /\ call' \in [Thread -> Call \cup {Idle}]
        /\ call'[t] = [op |-> call[t].op, step |-> step, conn |-> call[t].conn,
                       port |-> call[t].port, handle |-> call[t].handle]
        /\ \A v \in Thread : v # t => call'[v] = call[v]
    BY <1>1, Going
  <2> QED
    BY <2>1 DEF Fits
<1>2. CASE End(t)
  <2>1. /\ call' \in [Thread -> Call \cup {Idle}]
        /\ call'[t] = Idle
        /\ \A v \in Thread : v # t => call'[v] = call[v]
    BY <1>2, Ending
  <2> QED
    BY <2>1 DEF Fits
<1> QED
  BY <1>1, <1>2

LEMMA IdleFits == \A t \in Thread : Fits(t, Idle)
  BY DEF Fits

LEMMA TypeStep == TypeInv /\ CallsOpen /\ [Next]_vars => TypeInv'
<1> SUFFICES ASSUME TypeInv, CallsOpen, [Next]_vars PROVE TypeInv'
  OBVIOUS
<1>0. TypeOK /\ None \in Port \cup {None} /\ None \in Handle \cup {None}
  BY DEF TypeInv
<1>1. ASSUME NEW t \in Thread, NEW c \in Conn, NEW n \in NetId, SetNetId(t, c, n)
      PROVE  TypeInv'
  <2>1. adr' \in [Conn -> NetId \cup {None}]
    BY <1>0, <1>1 DEF SetNetId, TypeOK
  <2>2. TypeOK' /\ call' = call
    BY <1>0, <1>1, <2>1 DEF SetNetId, TypeOK, target
  <2> QED
    BY <2>2 DEF TypeInv, Fits
<1>2. ASSUME NEW t \in Thread, NEW c \in Conn, OpenBegin(t, c) PROVE TypeInv'
  <2>1. PICK step \in {"lookup", "port_open"} : Begin(t, "open", step, c, None, None)
    BY <1>2 DEF OpenBegin
  <2>2. /\ call' \in [Thread -> Call \cup {Idle}]
        /\ call'[t] = [op |-> "open", step |-> step, conn |-> c, port |-> None, handle |-> None]
        /\ \A v \in Thread : v # t => call'[v] = call[v]
    BY <1>0, <2>1, Words, Beginning
  <2>3. Fits(t, call'[t])
    BY <1>2, <2>2 DEF Fits, OpenBegin
  <2> QED
    BY <1>2, <2>2, <2>3, CallOnly DEF OpenBegin
<1>3. ASSUME NEW t \in Thread, Lookup(t) PROVE TypeInv'
  <2>1. call[t] # Idle /\ call[t].conn \in Conn /\ call[t].op = "open"
        /\ t = Owner[call[t].conn] /\ call[t].handle = None
    BY <1>0, <1>3, Words, InCall, CallFields, OpAt DEF Lookup
  <2>2. /\ netid' \in [Conn -> NetId \cup {None}]
        /\ adr' \in [Conn -> NetId \cup {None}]
    BY <1>0, <1>3, <2>1, ConnectionAssumption DEF Lookup, TypeOK
  <2>3. Goto(t, "port_open") \/ End(t)
    BY <1>3 DEF Lookup
  <2>4. /\ call' \in [Thread -> Call \cup {Idle}]
        /\ Fits(t, call'[t])
        /\ \A v \in Thread : v # t => call'[v] = call[v]
    BY <1>0, <2>1, <2>3, Words, Moving
  <2>5. TypeOK'
    BY <1>0, <1>3, <2>2, <2>4 DEF Lookup, TypeOK, target
  <2>6. \A v \in Thread : Fits(v, call'[v])
    BY <2>4, FitsKept
  <2> QED
    BY <2>5, <2>6 DEF TypeInv, Fits
<1>4. ASSUME NEW t \in Thread, PortOpen(t) PROVE TypeInv'
  <2>1. call[t] # Idle /\ call[t].conn \in Conn /\ call[t].op = "open"
        /\ t = Owner[call[t].conn] /\ call[t].handle = None
    BY <1>0, <1>4, Words, InCall, CallFields, OpAt DEF PortOpen
  <2>2. /\ ports' \subseteq Port
        /\ port' \in [Conn -> Port \cup {None}]
        /\ open' \in [Conn -> BOOLEAN]
    <3>1. \/ /\ UNCHANGED <<ports, port, open>>
          \/ \E p \in Port : /\ ports' = ports \cup {p}
                             /\ port' = [port EXCEPT ![call[t].conn] = p]
                             /\ open' = [open EXCEPT ![call[t].conn] = ~Linux]
      BY <1>4 DEF PortOpen
    <3>2. ports' \subseteq Port /\ port' \in [Conn -> Port \cup {None}]
      BY <1>0, <2>1, <3>1 DEF TypeOK
    <3>3. open' = open \/ open' = [open EXCEPT ![call[t].conn] = ~Linux]
      BY <3>1
    <3>4. open \in [Conn -> BOOLEAN] /\ (~Linux) \in BOOLEAN
      BY <1>0 DEF TypeOK
    <3>5. open' \in [Conn -> BOOLEAN]
      BY <3>3, <3>4, Zenon
    <3> QED
      BY <3>2, <3>5
  <2>3. Goto(t, "route") \/ End(t)
    BY <1>4 DEF PortOpen
  <2>4. /\ call' \in [Thread -> Call \cup {Idle}]
        /\ Fits(t, call'[t])
        /\ \A v \in Thread : v # t => call'[v] = call[v]
    BY <1>0, <2>1, <2>3, Words, Moving
  <2>5. TypeOK'
    BY <1>0, <1>4, <2>2, <2>4 DEF PortOpen, TypeOK, target
  <2>6. \A v \in Thread : Fits(v, call'[v])
    BY <2>4, FitsKept
  <2> QED
    BY <2>5, <2>6 DEF TypeInv, Fits
<1>5. ASSUME NEW t \in Thread, AddRoute(t) PROVE TypeInv'
  <2>1. call[t] # Idle /\ call[t].conn \in Conn /\ call[t].op = "open"
        /\ t = Owner[call[t].conn] /\ call[t].handle = None
    BY <1>0, <1>5, Words, InCall, CallFields, OpAt DEF AddRoute
  <2>2. /\ routes' \in [NetId \cup {None} -> Int]
        /\ open' \in [Conn -> BOOLEAN]
    <3>1. \/ /\ UNCHANGED <<routes, open>>
          \/ /\ routes' = [routes EXCEPT ![adr[call[t].conn]] = @ + 1]
             /\ open' = [open EXCEPT ![call[t].conn] = TRUE]
      BY <1>5 DEF AddRoute
    <3>2. routes' \in [NetId \cup {None} -> Int]
      <4>1. adr[call[t].conn] \in NetId \cup {None} /\ routes \in [NetId \cup {None} -> Int]
        BY <1>0, <2>1 DEF TypeOK
      <4> QED
        BY <3>1, <4>1
    <3>3. open' = open \/ open' = [open EXCEPT ![call[t].conn] = TRUE]
      BY <3>1
    <3>4. open \in [Conn -> BOOLEAN]
      BY <1>0 DEF TypeOK
    <3>5. open' \in [Conn -> BOOLEAN]
      BY <3>3, <3>4, Zenon
    <3> QED
      BY <3>2, <3>5
  <2>3. Goto(t, "undo") \/ End(t)
    BY <1>5 DEF AddRoute
  <2>4. /\ call' \in [Thread -> Call \cup {Idle}]
        /\ Fits(t, call'[t])
        /\ \A v \in Thread : v # t => call'[v] = call[v]
    BY <1>0, <2>1, <2>3, Words, Moving
  <2>5. TypeOK'
    BY <1>0, <1>5, <2>2, <2>4 DEF AddRoute, TypeOK, target
  <2>6. \A v \in Thread : Fits(v, call'[v])
    BY <2>4, FitsKept
  <2> QED
    BY <2>5, <2>6 DEF TypeInv, Fits
<1>6. ASSUME NEW t \in Thread, Undo(t) PROVE TypeInv'
  <2>1. call[t] # Idle /\ call[t].conn \in Conn
    BY <1>0, <1>6, Words, InCall, CallFields DEF Undo
  <2>2. /\ ports' \subseteq Port
        /\ port' \in [Conn -> Port \cup {None}]
    BY <1>0, <1>6, <2>1 DEF Undo, PortClosed, TypeOK
  <2>3. refused' \subseteq Port
    <3>1. port[call[t].conn] \in Port
      BY <1>0, <1>6, <2>1 DEF CallsOpen, Undo, TypeOK
    <3> QED
      BY <1>0, <1>6, <3>1 DEF Undo, PortClosed, TypeOK
  <2>4. /\ call' \in [Thread -> Call \cup {Idle}]
        /\ Fits(t, call'[t])
        /\ \A v \in Thread : v # t => call'[v] = call[v]
    BY <1>0, <1>6, Ending, IdleFits DEF Undo
  <2>5. TypeOK'
    BY <1>0, <1>6, <2>2, <2>3, <2>4 DEF Undo, TypeOK, target
  <2>6. \A v \in Thread : Fits(v, call'[v])
    BY <2>4, FitsKept
  <2> QED
    BY <2>5, <2>6 DEF TypeInv, Fits
<1>7. ASSUME NEW t \in Thread, NEW c \in Conn, CloseBegin(t, c) PROVE TypeInv'
  <2>1. PICK step \in {"unroute", "port_close"} : Begin(t, "close", step, c, None, None)
    BY <1>7 DEF CloseBegin
  <2>2. /\ call' \in [Thread -> Call \cup {Idle}]
        /\ call'[t] = [op |-> "close", step |-> step, conn |-> c, port |-> None, handle |-> None]
        /\ \A v \in Thread : v # t => call'[v] = call[v]
    BY <1>0, <2>1, Words, Beginning
  <2>3. Fits(t, call'[t])
    BY <1>7, <2>2 DEF Fits, CloseBegin
  <2> QED
    BY <1>7, <2>2, <2>3, CallOnly DEF CloseBegin
<1>8. ASSUME NEW t \in Thread, DelRoute(t) PROVE TypeInv'
  <2>1. call[t] # Idle /\ call[t].conn \in Conn /\ call[t].op = "close"
        /\ t = Owner[call[t].conn] /\ call[t].handle = None
    BY <1>0, <1>8, Words, InCall, CallFields, OpAt DEF DelRoute
  <2>2. routes' \in [NetId \cup {None} -> Int]
    BY <1>0, <1>8, <2>1 DEF DelRoute, TypeOK
  <2>3. Goto(t, "port_close")
    BY <1>8 DEF DelRoute
  <2>4. /\ call' \in [Thread -> Call \cup {Idle}]
        /\ Fits(t, call'[t])
        /\ \A v \in Thread : v # t => call'[v] = call[v]
    BY <1>0, <2>1, <2>3, Words, Moving
  <2>5. TypeOK'
    BY <1>0, <1>8, <2>2, <2>4 DEF DelRoute, TypeOK, target, connection
  <2>6. \A v \in Thread : Fits(v, call'[v])
    BY <2>4, FitsKept
  <2> QED
    BY <2>5, <2>6 DEF TypeInv, Fits
<1>9. ASSUME NEW t \in Thread, ClosePort(t) PROVE TypeInv'
  <2>1. call[t] # Idle /\ call[t].conn \in Conn /\ call[t].op = "close"
    BY <1>0, <1>9, Words, InCall, CallFields, OpAt DEF ClosePort
  <2>2. /\ ports' \subseteq Port
        /\ port' \in [Conn -> Port \cup {None}]
        /\ open' \in [Conn -> BOOLEAN]
    BY <1>0, <1>9, <2>1 DEF ClosePort, PortClosed, TypeOK
  <2>3. /\ refused' \subseteq Port
        /\ unrouted' \in [NetId \cup {None} -> Nat]
    <3>1. port[call[t].conn] \in Port
      BY <1>0, <1>9, <2>1 DEF CallsOpen, TypeOK
    <3> QED
      BY <1>0, <1>9, <2>1, <3>1 DEF ClosePort, PortClosed, TypeOK
  <2>4. /\ call' \in [Thread -> Call \cup {Idle}]
        /\ Fits(t, call'[t])
        /\ \A v \in Thread : v # t => call'[v] = call[v]
    BY <1>0, <1>9, Ending, IdleFits DEF ClosePort
  <2>5. TypeOK'
    BY <1>0, <1>9, <2>2, <2>3, <2>4 DEF ClosePort, TypeOK, target
  <2>6. \A v \in Thread : Fits(v, call'[v])
    BY <2>4, FitsKept
  <2> QED
    BY <2>5, <2>6 DEF TypeInv, Fits
<1>10. ASSUME NEW t \in Thread, NEW c \in Conn, NEW h \in held \cup {None}, ByName(t, c, h)
       PROVE  TypeInv'
  <2>1. port[c] \in Port /\ held \subseteq Handle
    BY <1>0, <1>10 DEF ByName, TypeOK
  <2>2. CASE h = None
    <3>1. Begin(t, "by_name", "handle", c, port[c], None)
      BY <1>10, <2>2 DEF ByName
    <3>2. /\ call' \in [Thread -> Call \cup {Idle}]
          /\ call'[t] = [op |-> "by_name", step |-> "handle", conn |-> c, port |-> port[c],
                         handle |-> None]
          /\ \A v \in Thread : v # t => call'[v] = call[v]
      BY <1>0, <2>1, <3>1, Words, Beginning
    <3> QED
      BY <1>10, <3>2, CallOnly DEF ByName, Fits
  <2>3. CASE h # None
    <3>1. Begin(t, "with_handle", "access", c, port[c], h) /\ h \in Handle
      BY <1>10, <2>1, <2>3 DEF ByName
    <3>2. /\ call' \in [Thread -> Call \cup {Idle}]
          /\ call'[t] = [op |-> "with_handle", step |-> "access", conn |-> c,
                         port |-> port[c], handle |-> h]
          /\ \A v \in Thread : v # t => call'[v] = call[v]
      BY <1>0, <2>1, <3>1, Words, Beginning
    <3> QED
      BY <1>10, <3>1, <3>2, CallOnly DEF ByName, Fits
  <2> QED
    BY <2>2, <2>3
<1>11. ASSUME NEW t \in Thread, NEW c \in Conn, CallRpc(t, c) PROVE TypeInv'
  <2>1. port[c] \in Port /\ Begin(t, "rpc", "handle", c, port[c], None)
    BY <1>0, <1>11 DEF CallRpc, TypeOK
  <2>2. /\ call' \in [Thread -> Call \cup {Idle}]
        /\ call'[t] = [op |-> "rpc", step |-> "handle", conn |-> c, port |-> port[c],
                       handle |-> None]
        /\ \A v \in Thread : v # t => call'[v] = call[v]
    BY <1>0, <2>1, Words, Beginning
  <2> QED
    BY <1>11, <2>2, CallOnly DEF CallRpc, Fits
<1>12. ASSUME NEW t \in Thread, NEW c \in Conn, GetHandle(t, c) PROVE TypeInv'
  <2>1. port[c] \in Port /\ Begin(t, "get", "handle", c, port[c], None)
    BY <1>0, <1>12 DEF GetHandle, TypeOK
  <2>2. /\ call' \in [Thread -> Call \cup {Idle}]
        /\ call'[t] = [op |-> "get", step |-> "handle", conn |-> c, port |-> port[c],
                       handle |-> None]
        /\ \A v \in Thread : v # t => call'[v] = call[v]
    BY <1>0, <2>1, Words, Beginning
  <2> QED
    BY <1>12, <2>2, CallOnly DEF GetHandle, Fits
<1>13. ASSUME NEW t \in Thread, NEW c \in Conn, NEW h \in held, ReleaseHandle(t, c, h)
       PROVE  TypeInv'
  <2>1. h \in Handle /\ held' \subseteq Handle
    BY <1>0, <1>13 DEF ReleaseHandle, TypeOK
  <2>2. CASE port[c] = None
    <3>1. call' = call /\ Strand(t, h, "free", "no port")
      BY <1>13, <2>2 DEF ReleaseHandle
    <3>2. [handle |-> h, op |-> "free", why |-> "no port"] \in [handle : Handle, op : Op, why : Why]
      BY <2>1 DEF Op, Why
    <3>3. stranded' \subseteq [handle : Handle, op : Op, why : Why]
      BY <1>0, <3>1, <3>2 DEF Strand, TypeOK
    <3>4. TypeOK'
      BY <1>0, <1>13, <2>1, <3>1, <3>3 DEF ReleaseHandle, TypeOK, connection
    <3> QED
      BY <3>1, <3>4 DEF TypeInv, Fits
  <2>3. CASE port[c] # None
    <3>1. port[c] \in Port /\ Begin(t, "free", "release", c, port[c], h) /\ UNCHANGED stranded
      BY <1>0, <1>13, <2>3 DEF ReleaseHandle, TypeOK
    <3>2. /\ call' \in [Thread -> Call \cup {Idle}]
          /\ call'[t] = [op |-> "free", step |-> "release", conn |-> c, port |-> port[c],
                         handle |-> h]
          /\ \A v \in Thread : v # t => call'[v] = call[v]
      BY <1>0, <2>1, <3>1, Words, Beginning
    <3>3. Fits(t, call'[t])
      BY <2>1, <3>2 DEF Fits
    <3>4. TypeOK'
      BY <1>0, <1>13, <2>1, <3>1, <3>2 DEF ReleaseHandle, TypeOK, connection
    <3>5. \A v \in Thread : Fits(v, call'[v])
      BY <3>2, <3>3, FitsKept
    <3> QED
      BY <3>4, <3>5 DEF TypeInv, Fits
  <2> QED
    BY <2>2, <2>3
<1>14. ASSUME NEW t \in Thread, HandleByName(t) PROVE TypeInv'
  <2>1. /\ call[t] # Idle /\ call[t].op \in {"by_name", "rpc", "get"}
        /\ call[t] \in Call /\ call[t].conn \in Conn /\ call[t].port \in Port \cup {None}
    BY <1>0, <1>14, Words, InCall, CallFields, OpAt DEF HandleByName
  <2>2. CASE End(t) /\ UNCHANGED target
    <3>1. /\ call' \in [Thread -> Call \cup {Idle}]
          /\ Fits(t, call'[t])
          /\ \A v \in Thread : v # t => call'[v] = call[v]
      BY <1>0, <2>2, Ending, IdleFits
    <3> QED
      BY <1>14, <2>2, <3>1, CallOnly DEF HandleByName
  <2>3. CASE /\ fresh <= MaxHandle
             /\ handles' = handles \cup {fresh}
             /\ fresh' = fresh + 1
             /\ IF call[t].op = "get"
                THEN held' = held \cup {fresh} /\ End(t)
                ELSE /\ call' = [call EXCEPT ![t].handle = fresh, ![t].step = "access"]
                     /\ UNCHANGED held
    <3>1. fresh \in Handle /\ fresh' \in 1 .. MaxHandle + 1
      BY <1>0, <2>3, ConnectionAssumption DEF TypeOK, Handle
    <3>2. handles' \subseteq Handle /\ held' \subseteq Handle
      BY <1>0, <2>3, <3>1 DEF TypeOK
    <3>3. /\ call' \in [Thread -> Call \cup {Idle}]
          /\ Fits(t, call'[t])
          /\ \A v \in Thread : v # t => call'[v] = call[v]
      <4>1. CASE call[t].op = "get"
        BY <1>0, <2>3, <4>1, Ending, IdleFits
      <4>2. CASE call[t].op # "get"
        <5> DEFINE u == [op |-> call[t].op, step |-> "access", conn |-> call[t].conn,
                         port |-> call[t].port, handle |-> fresh]
        <5>1. call \in [Thread -> Call \cup {Idle}]
              /\ call' = [call EXCEPT ![t].handle = fresh, ![t].step = "access"]
          BY <1>0, <2>3, <4>2 DEF TypeOK
        <5>2. u \in Call
          BY <2>1, <3>1 DEF Call, Op, Step
        <5>3. call'[t] = u
          BY <2>1, <5>1 DEF Call
        <5>4. \A v \in Thread : v # t => call'[v] = call[v]
          BY <5>1
        <5>5. call' = [v \in Thread |-> call'[v]]
          BY <5>1
        <5>6. Fits(t, u)
          BY <2>1, <3>1, <4>2 DEF Fits
        <5> HIDE DEF u
        <5>7. call' \in [Thread -> Call \cup {Idle}]
          BY <5>1, <5>2, <5>3, <5>4, <5>5
        <5> QED
          BY <5>3, <5>4, <5>6, <5>7
      <4> QED
        BY <4>1, <4>2
    <3>4. TypeOK'
      BY <1>0, <1>14, <3>1, <3>2, <3>3 DEF HandleByName, TypeOK, connection
    <3>5. \A v \in Thread : Fits(v, call'[v])
      BY <3>3, FitsKept
    <3> QED
      BY <3>4, <3>5 DEF TypeInv, Fits
  <2> QED
    BY <1>14, <2>2, <2>3 DEF HandleByName
<1>15. ASSUME NEW t \in Thread, Access(t) PROVE TypeInv'
  <2>1. /\ call[t] # Idle /\ call[t].op \in {"by_name", "with_handle", "rpc"}
        /\ call[t].handle \in Handle
    BY <1>0, <1>15, Words, InCall, OpAt DEF Access
  <2>2. CASE End(t) /\ (stranded' = stranded \/ Strand(t, call[t].handle, call[t].op, "access"))
    <3>1. /\ call' \in [Thread -> Call \cup {Idle}]
          /\ Fits(t, call'[t])
          /\ \A v \in Thread : v # t => call'[v] = call[v]
      BY <1>0, <2>2, Ending, IdleFits
    <3>2. [handle |-> call[t].handle, op |-> call[t].op, why |-> "access"]
             \in [handle : Handle, op : Op, why : Why]
      BY <2>1 DEF Op, Why
    <3>3. stranded' \subseteq [handle : Handle, op : Op, why : Why]
      BY <1>0, <2>2, <3>2 DEF Strand, TypeOK
    <3>4. TypeOK'
      BY <1>0, <1>15, <3>1, <3>3 DEF Access, TypeOK, connection, target
    <3>5. \A v \in Thread : Fits(v, call'[v])
      BY <3>1, FitsKept
    <3> QED
      BY <3>4, <3>5 DEF TypeInv, Fits
  <2>3. CASE Goto(t, "release") /\ call[t].op # "with_handle" /\ UNCHANGED stranded
    <3>1. /\ call' \in [Thread -> Call \cup {Idle}]
          /\ call'[t] = [op |-> call[t].op, step |-> "release", conn |-> call[t].conn,
                         port |-> call[t].port, handle |-> call[t].handle]
          /\ \A v \in Thread : v # t => call'[v] = call[v]
      BY <1>0, <2>1, <2>3, Words, Going
    <3>2. Fits(t, call'[t])
      BY <2>1, <2>3, <3>1 DEF Fits
    <3> QED
      BY <1>15, <2>3, <3>1, <3>2, CallOnly DEF Access
  <2> QED
    BY <1>15, <2>2, <2>3 DEF Access
<1>16. ASSUME NEW t \in Thread, Release(t) PROVE TypeInv'
  <2>1. /\ call[t] # Idle /\ call[t].op \in {"by_name", "rpc", "free"}
        /\ call[t].handle \in Handle
    BY <1>0, <1>16, Words, InCall, OpAt DEF Release
  <2>2. /\ call' \in [Thread -> Call \cup {Idle}]
        /\ Fits(t, call'[t])
        /\ \A v \in Thread : v # t => call'[v] = call[v]
    BY <1>0, <1>16, Ending, IdleFits DEF Release
  <2>3. /\ handles' \in {handles, handles \ {call[t].handle}}
        /\ held' \in {held, held \cup {call[t].handle}}
        /\ \/ stranded' = stranded
           \/ \E why \in Why : Strand(t, call[t].handle, call[t].op, why)
    BY <1>16 DEF Release, Why
  <2>4. handles' \subseteq Handle /\ held' \subseteq Handle
    BY <1>0, <2>1, <2>3 DEF TypeOK
  <2>5. \A why \in Why : [handle |-> call[t].handle, op |-> call[t].op, why |-> why]
                            \in [handle : Handle, op : Op, why : Why]
    BY <2>1 DEF Op
  <2>6. stranded' \subseteq [handle : Handle, op : Op, why : Why]
    BY <1>0, <2>3, <2>5 DEF Strand, TypeOK
  <2>7. TypeOK'
    BY <1>0, <1>16, <2>2, <2>4, <2>6 DEF Release, TypeOK, connection
  <2>8. \A v \in Thread : Fits(v, call'[v])
    BY <2>2, FitsKept
  <2> QED
    BY <2>7, <2>8 DEF TypeInv, Fits
<1>17. ASSUME UNCHANGED vars PROVE TypeInv'
  BY <1>17 DEF vars, TypeInv, TypeOK, Fits
<1> QED
  BY <1>1, <1>2, <1>3, <1>4, <1>5, <1>6, <1>7, <1>8, <1>9, <1>10, <1>11, <1>12,
     <1>13, <1>14, <1>15, <1>16, <1>17 DEF Next
-----------------------------------------------------------------------------
(* What each method leaves alone *)

\* The steps of the calls that use handles.
NameStep(t) ==
    \/ \E c \in Conn : \/ \E h \in held \cup {None} : ByName(t, c, h)
                       \/ CallRpc(t, c)
                       \/ GetHandle(t, c)
                       \/ \E h \in held : ReleaseHandle(t, c, h)
    \/ HandleByName(t)
    \/ Access(t)
    \/ Release(t)

\* Those of open, close and the addresses.
OpenStep(t) ==
    \/ \E c \in Conn : \/ \E n \in NetId : SetNetId(t, c, n)
                       \/ OpenBegin(t, c)
                       \/ CloseBegin(t, c)
    \/ Lookup(t)
    \/ PortOpen(t)
    \/ AddRoute(t)
    \/ Undo(t)
    \/ DelRoute(t)
    \/ ClosePort(t)

LEMMA NamesAside ==
    ASSUME TypeInv, NEW t \in Thread, NameStep(t)
    PROVE  /\ call[t].step \in {"idle", "handle", "access", "release"}
           /\ call'[t].op \notin {"open", "close"}
           /\ call'[t].step \in {"idle", "handle", "access", "release"}
           /\ \A v \in Thread : v # t => call'[v] = call[v]
           /\ UNCHANGED <<connection, ports, routes, refused, unrouted>>
<1>1. call \in [Thread -> Call \cup {Idle}]
  BY DEF TypeInv, TypeOK
<1>2. /\ Idle.step = "idle" /\ Idle.op = "none"
      /\ \A op \in Op, step \in Step : \A c, p, h :
            Begin(t, op, step, c, p, h) =>
               /\ call[t] = Idle
               /\ call'[t].op = op /\ call'[t].step = step
               /\ \A v \in Thread : v # t => call'[v] = call[v]
  BY <1>1 DEF Begin, Idle
<1>3. ASSUME NEW c \in Conn, NEW h \in held \cup {None}, ByName(t, c, h)
      PROVE  /\ call[t].step = "idle"
             /\ call'[t].op \notin {"open", "close"}
             /\ call'[t].step \in {"idle", "handle", "access", "release"}
             /\ \A v \in Thread : v # t => call'[v] = call[v]
             /\ UNCHANGED <<connection, ports, routes, refused, unrouted>>
  BY <1>2, <1>3, Words DEF ByName
<1>4. ASSUME NEW c \in Conn, CallRpc(t, c) \/ GetHandle(t, c)
      PROVE  /\ call[t].step = "idle"
             /\ call'[t].op \notin {"open", "close"}
             /\ call'[t].step \in {"idle", "handle", "access", "release"}
             /\ \A v \in Thread : v # t => call'[v] = call[v]
             /\ UNCHANGED <<connection, ports, routes, refused, unrouted>>
  BY <1>2, <1>4, Words DEF CallRpc, GetHandle
<1>5. ASSUME NEW c \in Conn, NEW h \in held, ReleaseHandle(t, c, h)
      PROVE  /\ call[t].step = "idle"
             /\ call'[t].op \notin {"open", "close"}
             /\ call'[t].step \in {"idle", "handle", "access", "release"}
             /\ \A v \in Thread : v # t => call'[v] = call[v]
             /\ UNCHANGED <<connection, ports, routes, refused, unrouted>>
  <2>1. \/ call[t] = Idle /\ UNCHANGED call
        \/ Begin(t, "free", "release", c, port[c], h)
    BY <1>5 DEF ReleaseHandle
  <2> QED
    BY <1>2, <1>5, <2>1, Words DEF ReleaseHandle
<1>6. ASSUME HandleByName(t)
      PROVE  /\ call[t].step = "handle"
             /\ call'[t].op \notin {"open", "close"}
             /\ call'[t].step \in {"idle", "handle", "access", "release"}
             /\ \A v \in Thread : v # t => call'[v] = call[v]
             /\ UNCHANGED <<connection, ports, routes, refused, unrouted>>
  <2>1. call[t].op \in {"by_name", "rpc", "get"} /\ call[t] # Idle /\ call[t] \in Call
    BY <1>6, OpAt, Words, InCall, CallFields DEF HandleByName, TypeInv
  <2>2. \/ call' = [call EXCEPT ![t] = Idle]
        \/ \E h : call' = [call EXCEPT ![t].handle = h, ![t].step = "access"]
    BY <1>6 DEF HandleByName, End
  <2>3. \/ call'[t] = Idle
        \/ call'[t].op = call[t].op /\ call'[t].step = "access"
    BY ZenonT(60), <1>1, <2>1, <2>2 DEF Call
  <2>4. \A v \in Thread : v # t => call'[v] = call[v]
    BY <1>1, <2>2
  <2> QED
    BY <1>2, <1>6, <2>1, <2>3, <2>4 DEF HandleByName, At
<1>7. ASSUME Access(t) \/ Release(t)
      PROVE  /\ call[t].step \in {"access", "release"}
             /\ call'[t].op \notin {"open", "close"}
             /\ call'[t].step \in {"idle", "handle", "access", "release"}
             /\ \A v \in Thread : v # t => call'[v] = call[v]
             /\ UNCHANGED <<connection, ports, routes, refused, unrouted>>
  <2>1. /\ call[t].step \in {"access", "release"} /\ call[t] # Idle
        /\ call[t].op \in {"by_name", "with_handle", "rpc", "free"}
        /\ call[t] \in Call
    BY <1>7, OpAt, Words, InCall, CallFields DEF Access, Release, At, TypeInv
  <2>2. call' = [call EXCEPT ![t] = Idle] \/ call' = [call EXCEPT ![t].step = "release"]
    BY <1>7 DEF Access, Release, End, Goto
  <2>3. \/ call'[t] = Idle
        \/ call'[t].op = call[t].op /\ call'[t].step = "release"
    BY <1>1, <2>1, <2>2 DEF Call
  <2>4. \A v \in Thread : v # t => call'[v] = call[v]
    BY <1>1, <2>2
  <2> QED
    BY <1>2, <1>7, <2>1, <2>3, <2>4 DEF Access, Release
<1> QED
  BY <1>3, <1>4, <1>5, <1>6, <1>7 DEF NameStep

LEMMA OpensAside ==
    ASSUME TypeInv, NEW t \in Thread, OpenStep(t)
    PROVE  /\ call[t].handle = None
           /\ call'[t].handle = None
           /\ \A v \in Thread : v # t => call'[v] = call[v]
           /\ UNCHANGED <<target, stranded>>
<1>1. call \in [Thread -> Call \cup {Idle}] /\ Idle.handle = None
  BY DEF TypeInv, TypeOK, Idle
<1>2. ASSUME NEW c \in Conn, \/ \E n \in NetId : SetNetId(t, c, n)
                             \/ OpenBegin(t, c)
                             \/ CloseBegin(t, c)
      PROVE  /\ call[t].handle = None
             /\ call'[t].handle = None
             /\ \A v \in Thread : v # t => call'[v] = call[v]
             /\ UNCHANGED <<target, stranded>>
  <2>1. call[t] = Idle
    BY <1>2 DEF SetNetId, OpenBegin, CloseBegin, Begin
  <2>2. \/ UNCHANGED call
        \/ \E op, step : Begin(t, op, step, c, None, None)
    BY <1>2 DEF SetNetId, OpenBegin, CloseBegin
  <2>3. call'[t].handle = None /\ \A v \in Thread : v # t => call'[v] = call[v]
    BY <1>1, <2>1, <2>2 DEF Begin
  <2> QED
    BY <1>1, <1>2, <2>1, <2>3 DEF SetNetId, OpenBegin, CloseBegin
<1>3. ASSUME \/ Lookup(t) \/ PortOpen(t) \/ AddRoute(t) \/ Undo(t) \/ DelRoute(t)
             \/ ClosePort(t)
      PROVE  /\ call[t].handle = None
             /\ call'[t].handle = None
             /\ \A v \in Thread : v # t => call'[v] = call[v]
             /\ UNCHANGED <<target, stranded>>
  <2>1. call[t].handle = None /\ call[t] # Idle /\ call[t] \in Call
    BY <1>3, OpAt, Words, InCall, CallFields
       DEF Lookup, PortOpen, AddRoute, Undo, DelRoute, ClosePort, TypeInv
  <2>2. End(t) \/ \E step : Goto(t, step)
    BY <1>3 DEF Lookup, PortOpen, AddRoute, Undo, DelRoute, ClosePort
  <2>3. call' = [call EXCEPT ![t] = Idle] \/ \E step : call' = [call EXCEPT ![t].step = step]
    BY <2>2 DEF End, Goto
  <2>4. call'[t].handle = None /\ \A v \in Thread : v # t => call'[v] = call[v]
    BY <1>1, <2>1, <2>3 DEF Call
  <2> QED
    BY <1>3, <2>1, <2>4 DEF Lookup, PortOpen, AddRoute, Undo, DelRoute, ClosePort
<1> QED
  BY <1>2, <1>3 DEF OpenStep

LEMMA TwoKinds ==
    Next <=> \E t \in Thread : NameStep(t) \/ OpenStep(t)
  BY DEF Next, NameStep, OpenStep
-----------------------------------------------------------------------------
(* Handles *)

\* A call is to give back the handle it works with, if it has one that is not
\* its caller's.
Owned(t) == call[t].handle # None /\ call[t].op # "with_handle"

HandleInv ==
    /\ \A t \in Thread : Owned(t) => call[t].handle \in handles \ held
    /\ \A t, v \in Thread :
          Owned(t) /\ Owned(v) /\ call[t].handle = call[v].handle => t = v
    /\ held \subseteq handles
    /\ \A h \in handles : h < fresh
    /\ \A h \in handles : \/ h \in held
                          \/ \E t \in Thread : Owned(t) /\ call[t].handle = h
                          \/ \E r \in stranded : r.handle = h
    /\ \A r \in stranded : r.why = "access" => r.op = "by_name"

LEMMA HandleInit == Init => HandleInv
<1> SUFFICES ASSUME Init PROVE HandleInv
  OBVIOUS
<1>1. \A t \in Thread : call[t].handle = None
  BY DEF Init, Idle
<1>2. handles = {} /\ held = {} /\ stranded = {}
  BY DEF Init
<1> QED
  BY <1>1, <1>2 DEF HandleInv, Owned

\* A step that changes no handle of a call but its caller's.
LEMMA HandleSame ==
    ASSUME TypeInv, HandleInv, NEW t \in Thread,
           \A v \in Thread : v # t => call'[v] = call[v],
           ~Owned(t), ~Owned(t)', UNCHANGED <<target, stranded>>
    PROVE  HandleInv'
<1>1. \A v \in Thread : /\ Owned(v)' <=> Owned(v)
                        /\ Owned(v) => call'[v].handle = call[v].handle
  BY DEF Owned
<1> QED
  BY <1>1 DEF HandleInv, target

LEMMA HandleNames ==
    ASSUME TypeInv, HandleInv, NEW t \in Thread, NameStep(t)
    PROVE  HandleInv'
<1>0. /\ TypeOK
      /\ call \in [Thread -> Call \cup {Idle}]
      /\ Idle.handle = None
      /\ \A v \in Thread : v # t => call'[v] = call[v]
  BY NamesAside DEF TypeInv, TypeOK, Idle
<1>1. ASSUME NEW c \in Conn, \/ \E h \in held \cup {None} : ByName(t, c, h)
                             \/ CallRpc(t, c)
                             \/ GetHandle(t, c)
      PROVE  HandleInv'
  <2>1. /\ call[t] = Idle
        /\ call'[t].handle = None \/ call'[t].op = "with_handle"
        /\ UNCHANGED <<target, stranded>>
    BY <1>0, <1>1 DEF ByName, CallRpc, GetHandle, Begin
  <2> QED
    BY <1>0, <2>1, HandleSame DEF Owned
<1>2. ASSUME NEW c \in Conn, NEW h \in held, ReleaseHandle(t, c, h)
      PROVE  HandleInv'
  <2>1. /\ call[t] = Idle /\ held' = held \ {h}
        /\ UNCHANGED <<handles, fresh>>
    BY <1>2 DEF ReleaseHandle, Begin
  <2>2. ~Owned(t) /\ h \in handles /\ \A v \in Thread : Owned(v) => call[v].handle # h
    BY <1>0, <2>1 DEF Owned, HandleInv
  <2>3. \A v \in Thread \ {t} : /\ Owned(v)' <=> Owned(v)
                                /\ call'[v].handle = call[v].handle
    BY <1>0 DEF Owned
  <2>4. CASE port[c] = None
    <3>1. /\ call' = call
          /\ stranded' = stranded \cup {[handle |-> h, op |-> "free", why |-> "no port"]}
      BY <1>2, <2>4 DEF ReleaseHandle, Strand
    <3>2. ~Owned(t)'
      BY <2>2, <3>1 DEF Owned
    <3>3. /\ \A r \in stranded : r \in stranded'
          /\ \E r \in stranded' : r.handle = h
          /\ \A r \in stranded' : r \in stranded \/ r.why = "no port"
      <4> DEFINE new == [handle |-> h, op |-> "free", why |-> "no port"]
      <4>1. new.handle = h /\ new.why = "no port"
        OBVIOUS
      <4>2. stranded' = stranded \cup {new}
        BY <3>1
      <4> HIDE DEF new
      <4> QED
        BY <4>1, <4>2
    <3> QED
      BY ZenonT(60), <2>1, <2>2, <2>3, <3>2, <3>3 DEF HandleInv
  <2>5. CASE port[c] # None
    <3>1. Begin(t, "free", "release", c, port[c], h) /\ UNCHANGED stranded
      BY <1>2, <2>5 DEF ReleaseHandle
    <3>2. call'[t].handle = h /\ call'[t].op = "free"
      BY <1>0, <3>1 DEF Begin
    <3>3. Owned(t)' /\ h # None
      BY <1>0, <3>2, ConnectionAssumption DEF Owned, TypeOK, Handle
    <3> QED
      BY <2>1, <2>2, <2>3, <3>1, <3>2, <3>3 DEF HandleInv
  <2> QED
    BY <2>4, <2>5
<1>3. ASSUME HandleByName(t) PROVE HandleInv'
  <2>1. /\ call[t].op \in {"by_name", "rpc", "get"} /\ call[t].handle = None
        /\ call[t] \in Call
        /\ UNCHANGED stranded
    BY <1>0, <1>3, OpAt, InCall, CallFields, Words DEF HandleByName
  <2>2. ~Owned(t) /\ fresh \in Nat
    BY <1>0, <2>1 DEF Owned, TypeOK
  <2>3. CASE End(t) /\ UNCHANGED target
    BY <1>0, <2>1, <2>2, <2>3, HandleSame DEF Owned, End
  <2>4. CASE /\ handles' = handles \cup {fresh} /\ fresh' = fresh + 1
             /\ call[t].op = "get" /\ held' = held \cup {fresh} /\ End(t)
    <3>1. ~Owned(t)'
      BY <1>0, <2>4 DEF Owned, End
    <3>2. \A v \in Thread : /\ Owned(v)' <=> Owned(v)
                            /\ Owned(v) => call'[v].handle = call[v].handle
      BY <1>0, <2>2, <3>1 DEF Owned
    <3>3. fresh \notin handles /\ \A h \in handles' : h < fresh'
      BY <1>0, <2>2, <2>4 DEF HandleInv, TypeOK, Handle
    <3> QED
      BY <2>1, <2>4, <3>2, <3>3 DEF HandleInv
  <2>5. CASE /\ handles' = handles \cup {fresh} /\ fresh' = fresh + 1
             /\ call[t].op # "get" /\ UNCHANGED held /\ fresh <= MaxHandle
             /\ call' = [call EXCEPT ![t].handle = fresh, ![t].step = "access"]
    <3>1. call'[t].handle = fresh /\ call'[t].op = call[t].op
      BY <1>0, <2>1, <2>5 DEF Call
    <3>2. Owned(t)'
      BY <1>0, <2>1, <2>5, <3>1, ConnectionAssumption DEF Owned, TypeOK
    <3>3. \A v \in Thread \ {t} : /\ Owned(v)' <=> Owned(v)
                                  /\ call'[v].handle = call[v].handle
      BY <1>0 DEF Owned
    <3>4. fresh \notin handles /\ \A h \in handles' : h < fresh'
      BY <1>0, <2>2, <2>5 DEF HandleInv, TypeOK, Handle
    <3>5. \A v \in Thread : Owned(v)' => call'[v].handle \in handles' \ held'
      <4>1. fresh \in handles' \ held'
        BY <2>5, <3>4 DEF HandleInv
      <4>2. ASSUME NEW v \in Thread \ {t}, Owned(v)'
            PROVE  call'[v].handle \in handles' \ held'
        <5>1. Owned(v) /\ call'[v].handle = call[v].handle
          BY <3>3, <4>2
        <5>2. call[v].handle \in handles \ held
          BY <5>1 DEF HandleInv
        <5> QED
          BY <2>5, <5>1, <5>2
      <4> QED
        BY <3>1, <4>1, <4>2
    <3>6. \A v, w \in Thread :
             Owned(v)' /\ Owned(w)' /\ call'[v].handle = call'[w].handle => v = w
      <4>1. \A v \in Thread \ {t} : Owned(v)' => call'[v].handle # fresh
        BY <3>3, <3>4 DEF HandleInv
      <4> QED
        BY <3>1, <3>3, <4>1 DEF HandleInv
    <3>7. \A h \in handles' : \/ h \in held'
                              \/ \E v \in Thread : Owned(v)' /\ call'[v].handle = h
                              \/ \E r \in stranded' : r.handle = h
      <4>1. ASSUME NEW h \in handles, NEW v \in Thread, Owned(v), call[v].handle = h
            PROVE  \E w \in Thread : Owned(w)' /\ call'[w].handle = h
        BY <2>2, <3>3, <4>1
      <4> QED
        BY <2>1, <2>5, <3>1, <3>2, <4>1 DEF HandleInv
    <3> QED
      BY <2>1, <2>5, <3>4, <3>5, <3>6, <3>7 DEF HandleInv, Owned
  <2> QED
    BY <1>3, <2>3, <2>4, <2>5 DEF HandleByName
<1>4. ASSUME Access(t) PROVE HandleInv'
  <2>1. /\ call[t].handle \in Handle /\ call[t].handle # None /\ call[t] \in Call
        /\ UNCHANGED target
    BY <1>0, <1>4, OpAt, InCall, CallFields, Words, ConnectionAssumption DEF Access, Handle
  <2>2. CASE End(t) /\ call[t].op = "with_handle" /\ UNCHANGED stranded
    BY <1>0, <2>1, <2>2, HandleSame DEF Owned, End
  <2>3. CASE Goto(t, "release") /\ call[t].op # "with_handle" /\ UNCHANGED stranded
    <3>1. call'[t].handle = call[t].handle /\ call'[t].op = call[t].op
      BY <1>0, <2>1, <2>3 DEF Goto, Call
    <3>2. \A v \in Thread : /\ Owned(v)' <=> Owned(v)
                            /\ call'[v].handle = call[v].handle
      BY <1>0, <3>1 DEF Owned
    <3> QED
      BY <2>1, <2>3, <3>2 DEF HandleInv, target
  <2>4. CASE /\ End(t) /\ call[t].op = "by_name"
             /\ stranded' = stranded \cup {[handle |-> call[t].handle, op |-> call[t].op,
                                            why |-> "access"]}
    <3>1. ~Owned(t)'
      BY <1>0, <2>4 DEF Owned, End
    <3>2. \A v \in Thread \ {t} : /\ Owned(v)' <=> Owned(v)
                                  /\ call'[v].handle = call[v].handle
      BY <1>0 DEF Owned
    <3>3. /\ \A r \in stranded : r \in stranded'
          /\ \E r \in stranded' : r.handle = call[t].handle
          /\ \A r \in stranded' : r \in stranded \/ r.op = "by_name"
      <4> DEFINE new == [handle |-> call[t].handle, op |-> call[t].op, why |-> "access"]
      <4>1. new.handle = call[t].handle /\ new.op = "by_name"
        BY <2>4
      <4>2. stranded' = stranded \cup {new}
        BY <2>4
      <4> HIDE DEF new
      <4> QED
        BY <4>1, <4>2
    <3> QED
      BY <2>1, <3>1, <3>2, <3>3 DEF HandleInv, target
  <2> QED
    BY <1>4, <2>2, <2>3, <2>4 DEF Access, Strand
<1>5. ASSUME Release(t) PROVE HandleInv'
  <2>1. /\ call[t].handle \in Handle /\ call[t].handle # None
        /\ call[t].op \in {"by_name", "rpc", "free"} /\ End(t) /\ UNCHANGED fresh
    BY <1>5, OpAt, ConnectionAssumption DEF Release, Handle
  <2>2. Owned(t) /\ ~Owned(t)'
    BY <1>0, <2>1 DEF Owned, End
  <2>3. \A v \in Thread \ {t} : /\ Owned(v)' <=> Owned(v)
                                /\ call'[v].handle = call[v].handle
                                /\ Owned(v) => call[v].handle # call[t].handle
    BY <1>0, <2>2 DEF Owned, HandleInv
  <2>4. CASE handles' = handles \ {call[t].handle} /\ UNCHANGED <<held, stranded>>
    BY <2>1, <2>2, <2>3, <2>4 DEF HandleInv
  <2>5. CASE /\ held' = held \cup {call[t].handle}
             /\ UNCHANGED <<handles, stranded>>
    BY <2>1, <2>2, <2>3, <2>5 DEF HandleInv
  <2>6. CASE /\ \E why \in {"no port", "release"} :
                  stranded' = stranded \cup {[handle |-> call[t].handle,
                                              op |-> call[t].op, why |-> why]}
             /\ UNCHANGED <<handles, held>>
    <3>1. /\ \A r \in stranded : r \in stranded'
          /\ \E r \in stranded' : r.handle = call[t].handle
          /\ \A r \in stranded' : r \in stranded \/ r.why # "access"
      <4>1. PICK new : /\ new.handle = call[t].handle /\ new.why # "access"
                       /\ stranded' = stranded \cup {new}
        <5>1. PICK why \in {"no port", "release"} :
                 stranded' = stranded \cup {[handle |-> call[t].handle,
                                             op |-> call[t].op, why |-> why]}
          BY <2>6
        <5> DEFINE new == [handle |-> call[t].handle, op |-> call[t].op, why |-> why]
        <5>2. new.handle = call[t].handle /\ new.why # "access"
          OBVIOUS
        <5>3. stranded' = stranded \cup {new}
          BY <5>1
        <5> HIDE DEF new
        <5> QED
          BY <5>2, <5>3
      <4> QED
        BY <4>1
    <3> QED
      BY ZenonT(60), <2>1, <2>2, <2>3, <2>6, <3>1 DEF HandleInv
  <2> QED
    BY <1>5, <2>4, <2>5, <2>6 DEF Release, Strand
<1> QED
  BY <1>1, <1>2, <1>3, <1>4, <1>5 DEF NameStep

LEMMA HandleStep == TypeInv /\ HandleInv /\ [Next]_vars => HandleInv'
<1> SUFFICES ASSUME TypeInv, HandleInv, [Next]_vars PROVE HandleInv'
  OBVIOUS
<1>1. ASSUME NEW t \in Thread, NameStep(t) PROVE HandleInv'
  BY <1>1, HandleNames
<1>2. ASSUME NEW t \in Thread, OpenStep(t) PROVE HandleInv'
  BY <1>2, OpensAside, HandleSame DEF Owned
<1>3. CASE UNCHANGED vars
  BY <1>3 DEF vars, HandleInv, Owned
<1> QED
  BY <1>1, <1>2, <1>3, TwoKinds
-----------------------------------------------------------------------------
(* Ports *)

PortInv ==
    /\ \A c \in Conn : port[c] # None =>
          /\ port[c] \in ports
          /\ \A d \in Conn : port[d] = port[c] => d = c
          /\ open[c] \/ Busy(c) \/ port[c] \in refused
    /\ \A p \in ports : p \in refused \/ \E c \in Conn : port[c] = p

OpenInv == CallsOpen /\ PortInv

LEMMA OpenInit == Init => OpenInv
<1> SUFFICES ASSUME Init PROVE OpenInv
  OBVIOUS
<1>1. /\ \A t \in Thread : call[t].op = "none" /\ call[t].step = "idle"
      /\ \A c \in Conn : port[c] = None /\ ~open[c]
      /\ ports = {}
  BY DEF Init, Idle
<1> QED
  BY <1>1 DEF OpenInv, CallsOpen, PortInv, At

\* A connection is opened and closed in one thread, so by one call at a time.
LEMMA OwnerOnly ==
    ASSUME TypeInv, NEW v \in Thread
    PROVE  /\ call[v].op \in {"open", "close"} =>
                 call[v].conn \in Conn /\ v = Owner[call[v].conn]
           /\ At(v, "route") \/ At(v, "undo") => call[v].op = "open"
           /\ At(v, "port_close") => call[v].op = "close"
<1>1. Fits(v, call[v])
  BY DEF TypeInv
<1>2. call[v].op \in {"open", "close"} => call[v] # Idle
  BY DEF Idle
<1>3. call[v].op \in {"open", "close"} =>
         call[v].conn \in Conn /\ v = Owner[call[v].conn]
  BY <1>1, <1>2, CallFields DEF Fits, TypeInv
<1> QED
  BY <1>3, OpAt

\* A step that leaves the ports alone, in no open that has one.
LEMMA PortSame ==
    ASSUME TypeInv, PortInv, NEW t \in Thread,
           \A v \in Thread : v # t => call'[v] = call[v],
           ~At(t, "route"), ~At(t, "undo"),
           UNCHANGED <<port, open, ports, refused>>
    PROVE  PortInv'
<1>1. \A c \in Conn : Owner[c] \in Thread
  BY ConnectionAssumption
<1>2. \A c \in Conn : Busy(c) => Busy(c)'
  BY <1>1 DEF Busy, At
<1> QED
  BY <1>2 DEF PortInv

\* A step that changes the port of one connection at most, in its owner.
LEMMA CallsOpenKept ==
    ASSUME TypeInv, CallsOpen, NEW t \in Thread, NEW c \in Conn, t = Owner[c],
           \A v \in Thread : v # t => call'[v] = call[v],
           \A d \in Conn : d # c => port'[d] = port[d] /\ (open'[d] <=> open[d]),
           open'[c] => port'[c] # None,
           call'[t].op = "open" => call'[t].conn = c /\ ~open'[c],
           call'[t].step \in {"route", "undo"} => call'[t].conn = c /\ port'[c] # None,
           call'[t].op = "close" => call'[t].conn = c /\ open'[c]
    PROVE  CallsOpen'
<1>1. \A v \in Thread : v # t /\ call[v].op \in {"open", "close"} =>
         call[v].conn \in Conn /\ call[v].conn # c
  BY OwnerOnly
<1>2. \A v \in Thread : v # t /\ (At(v, "route") \/ At(v, "undo")) =>
         call[v].conn \in Conn /\ call[v].conn # c
  BY <1>1, OwnerOnly
<1>3. \A d \in Conn : open'[d] => port'[d] # None
  BY DEF CallsOpen
<1>4. ASSUME NEW v \in Thread
      PROVE  /\ call'[v].op = "open" => ~open'[call'[v].conn]
             /\ call'[v].step \in {"route", "undo"} => port'[call'[v].conn] # None
             /\ call'[v].op = "close" => open'[call'[v].conn]
  <2>1. CASE v = t
    BY <2>1
  <2>2. CASE v # t
    BY <1>1, <1>2, <2>2 DEF CallsOpen, At
  <2> QED
    BY <2>1, <2>2
<1> QED
  BY <1>3, <1>4 DEF CallsOpen, At

\* A step of a call that uses handles.
LEMMA OpenNames ==
    ASSUME TypeInv, OpenInv, NEW t \in Thread, NameStep(t)
    PROVE  OpenInv'
<1>1. /\ call[t].step \in {"idle", "handle", "access", "release"}
      /\ call'[t].op \notin {"open", "close"}
      /\ call'[t].step \in {"idle", "handle", "access", "release"}
      /\ \A v \in Thread : v # t => call'[v] = call[v]
      /\ UNCHANGED <<port, open, ports, refused>>
  BY NamesAside DEF connection
<1>2. CallsOpen'
  BY <1>1 DEF OpenInv, CallsOpen, At
<1>3. PortInv'
  BY <1>1, PortSame DEF OpenInv, At
<1> QED
  BY <1>2, <1>3 DEF OpenInv
-----------------------------------------------------------------------------
(* What the steps of open and close do, c being their connection *)

LEMMA AtWork ==
    ASSUME TypeInv, CallsOpen, NEW t \in Thread, NEW c, c = call[t].conn,
           NEW step \in {"lookup", "port_open", "route", "undo", "unroute", "port_close"},
           At(t, step)
    PROVE  /\ c \in Conn /\ t = Owner[c]
           /\ step \in {"unroute", "port_close"} => open[c]
           /\ step \notin {"unroute", "port_close"} => ~open[c]
           /\ \A next : Goto(t, next) =>
                 /\ call'[t].op = call[t].op /\ call'[t].conn = c /\ call'[t].step = next
                 /\ \A v \in Thread : v # t => call'[v] = call[v]
           /\ End(t) => /\ call'[t] = Idle
                        /\ \A v \in Thread : v # t => call'[v] = call[v]
           /\ call[t].op = IF step \in {"unroute", "port_close"} THEN "close" ELSE "open"
<1>1. call[t] # Idle /\ call[t] \in Call /\ c \in Conn
  BY Words, InCall, CallFields DEF TypeInv
<1>2. t = Owner[c] /\ call[t].op = IF step \in {"unroute", "port_close"} THEN "close" ELSE "open"
  BY OpAt
<1>3. call \in [Thread -> Call \cup {Idle}]
  BY DEF TypeInv, TypeOK
<1>4. \A next : Goto(t, next) =>
         /\ call'[t].op = call[t].op /\ call'[t].conn = c /\ call'[t].step = next
         /\ \A v \in Thread : v # t => call'[v] = call[v]
  BY <1>1, <1>3 DEF Goto, Call
<1>5. End(t) => /\ call'[t] = Idle
                /\ \A v \in Thread : v # t => call'[v] = call[v]
  BY <1>3 DEF End
<1> QED
  BY <1>1, <1>2, <1>4, <1>5 DEF CallsOpen

LEMMA BeginDoes ==
    ASSUME TypeInv, NEW t \in Thread, NEW c \in Conn, OpenBegin(t, c) \/ CloseBegin(t, c)
    PROVE  /\ t = Owner[c] /\ call[t] = Idle /\ call'[t].conn = c
           /\ \A v \in Thread : v # t => call'[v] = call[v]
           /\ UNCHANGED <<port, open, adr, ports, routes, refused, unrouted>>
           /\ \/ /\ ~open[c] /\ call'[t].op = "open"
                 /\ call'[t].step \in {"lookup", "port_open"}
              \/ /\ open[c] /\ call'[t].op = "close"
                 /\ call'[t].step = IF Linux THEN "unroute" ELSE "port_close"
<1>1. call \in [Thread -> Call \cup {Idle}]
  BY DEF TypeInv, TypeOK
<1> QED
  BY <1>1 DEF OpenBegin, CloseBegin, Begin, connection

LEMMA LookupDoes ==
    ASSUME TypeInv, CallsOpen, NEW t \in Thread, NEW c, c = call[t].conn, Lookup(t)
    PROVE  /\ c \in Conn /\ t = Owner[c]
           /\ \A v \in Thread : v # t => call'[v] = call[v]
           /\ ~open[c] /\ call[t].step = "lookup"
           /\ \A d \in Conn : d # c => adr'[d] = adr[d]
           /\ UNCHANGED <<port, open, ports, routes, refused, unrouted>>
           /\ \/ call'[t] = Idle
              \/ /\ call'[t].op = "open" /\ call'[t].conn = c
                 /\ call'[t].step = "port_open"
<1>1. At(t, "lookup")
  BY DEF Lookup
<1>2. /\ c \in Conn /\ t = Owner[c]
      /\ ~open[c]
      /\ Goto(t, "port_open") =>
            /\ call'[t].op = "open" /\ call'[t].conn = c /\ call'[t].step = "port_open"
            /\ \A v \in Thread : v # t => call'[v] = call[v]
      /\ End(t) => /\ call'[t] = Idle
                   /\ \A v \in Thread : v # t => call'[v] = call[v]
  BY <1>1, AtWork
<1>3. adr \in [Conn -> NetId \cup {None}]
  BY DEF TypeInv, TypeOK
<1> QED
  BY <1>1, <1>2, <1>3 DEF Lookup, At

LEMMA PortOpenDoes ==
    ASSUME TypeInv, CallsOpen, NEW t \in Thread, NEW c, c = call[t].conn, PortOpen(t)
    PROVE  /\ c \in Conn /\ t = Owner[c]
           /\ \A v \in Thread : v # t => call'[v] = call[v]
           /\ ~open[c] /\ call[t].step = "port_open"
           /\ UNCHANGED <<adr, routes, refused, unrouted>>
           /\ \/ /\ call'[t] = Idle
                 /\ UNCHANGED <<port, open, ports>>
              \/ /\ \E p \in Port \ ports :
                       /\ ports' = ports \cup {p} /\ port'[c] = p
                       /\ \A d \in Conn : d # c => port'[d] = port[d]
                 /\ \A d \in Conn : open'[d] <=> IF d = c THEN ~Linux ELSE open[d]
                 /\ ~Linux => call'[t] = Idle
                 /\ Linux => /\ call'[t].op = "open" /\ call'[t].conn = c
                             /\ call'[t].step = "route"
<1>1. At(t, "port_open")
  BY DEF PortOpen
<1>2. /\ c \in Conn /\ t = Owner[c]
      /\ ~open[c]
      /\ Goto(t, "route") =>
            /\ call'[t].op = "open" /\ call'[t].conn = c /\ call'[t].step = "route"
            /\ \A v \in Thread : v # t => call'[v] = call[v]
      /\ End(t) => /\ call'[t] = Idle
                   /\ \A v \in Thread : v # t => call'[v] = call[v]
  BY <1>1, AtWork
<1>3. CASE /\ "port_open" \in MayRefuse
           /\ End(t)
           /\ UNCHANGED <<ports, port, open>>
  BY <1>1, <1>2, <1>3 DEF PortOpen, At
<1>4. ASSUME NEW p \in Port \ ports,
             /\ ports' = ports \cup {p}
             /\ port' = [port EXCEPT ![c] = p]
             /\ open' = [open EXCEPT ![c] = ~Linux]
             /\ IF Linux THEN Goto(t, "route") ELSE End(t)
      PROVE  /\ port'[c] = p
             /\ \A d \in Conn : d # c => port'[d] = port[d]
             /\ \A d \in Conn : open'[d] <=> IF d = c THEN ~Linux ELSE open[d]
             /\ ~Linux => call'[t] = Idle
             /\ Linux => /\ call'[t].op = "open" /\ call'[t].conn = c
                         /\ call'[t].step = "route"
             /\ \A v \in Thread : v # t => call'[v] = call[v]
  <2>1. port \in [Conn -> Port \cup {None}] /\ open \in [Conn -> BOOLEAN]
    BY DEF TypeInv, TypeOK
  <2>2. port'[c] = p /\ \A d \in Conn : d # c => port'[d] = port[d]
    BY <1>2, <1>4, <2>1
  <2>3. open'[c] = ~Linux /\ \A d \in Conn : d # c => open'[d] = open[d]
    BY <1>2, <1>4, <2>1, Zenon
  <2> QED
    BY <1>2, <1>4, <2>2, <2>3
<1>5. \/ \E p \in Port \ ports :
            /\ ports' = ports \cup {p}
            /\ port' = [port EXCEPT ![c] = p]
            /\ open' = [open EXCEPT ![c] = ~Linux]
            /\ IF Linux THEN Goto(t, "route") ELSE End(t)
      \/ /\ "port_open" \in MayRefuse
         /\ End(t)
         /\ UNCHANGED <<ports, port, open>>
  BY DEF PortOpen
<1> QED
  BY <1>1, <1>2, <1>3, <1>4, <1>5 DEF PortOpen, At

LEMMA AddRouteDoes ==
    ASSUME TypeInv, CallsOpen, NEW t \in Thread, NEW c, c = call[t].conn, AddRoute(t)
    PROVE  /\ c \in Conn /\ t = Owner[c]
           /\ \A v \in Thread : v # t => call'[v] = call[v]
           /\ ~open[c] /\ call[t].step = "route"
           /\ UNCHANGED <<port, adr, ports, refused, unrouted>>
           /\ \/ /\ call'[t] = Idle
                 /\ routes' = [routes EXCEPT ![adr[c]] = @ + 1]
                 /\ \A d \in Conn : open'[d] <=> (d = c \/ open[d])
              \/ /\ call'[t].op = "open" /\ call'[t].conn = c
                 /\ call'[t].step = "undo"
                 /\ UNCHANGED <<routes, open>>
<1>1. At(t, "route")
  BY DEF AddRoute
<1>2. /\ c \in Conn /\ t = Owner[c]
      /\ ~open[c]
      /\ Goto(t, "undo") =>
            /\ call'[t].op = "open" /\ call'[t].conn = c /\ call'[t].step = "undo"
            /\ \A v \in Thread : v # t => call'[v] = call[v]
      /\ End(t) => /\ call'[t] = Idle
                   /\ \A v \in Thread : v # t => call'[v] = call[v]
  BY <1>1, AtWork
<1>3. CASE /\ routes' = [routes EXCEPT ![adr[c]] = @ + 1]
           /\ open' = [open EXCEPT ![c] = TRUE]
           /\ End(t)
  <2>1. open \in [Conn -> BOOLEAN]
    BY DEF TypeInv, TypeOK
  <2>2. open'[c] /\ \A d \in Conn : d # c => open'[d] = open[d]
    BY <1>2, <1>3, <2>1
  <2> QED
    BY <1>1, <1>2, <1>3, <2>2 DEF AddRoute, At
<1>4. CASE Goto(t, "undo") /\ UNCHANGED <<routes, open>>
  BY <1>1, <1>2, <1>4 DEF AddRoute, At
<1> QED
  BY <1>3, <1>4 DEF AddRoute

LEMMA UndoDoes ==
    ASSUME TypeInv, CallsOpen, NEW t \in Thread, NEW c, c = call[t].conn, Undo(t)
    PROVE  /\ c \in Conn /\ t = Owner[c]
           /\ \A v \in Thread : v # t => call'[v] = call[v]
           /\ ~open[c] /\ call[t].step = "undo" /\ call'[t] = Idle
           /\ UNCHANGED <<open, adr, routes, unrouted>>
           /\ \/ PortClosed(c)
              \/ refused' = refused \cup {port[c]} /\ UNCHANGED <<ports, port>>
<1>1. At(t, "undo")
  BY DEF Undo
<1>2. /\ c \in Conn /\ t = Owner[c]
      /\ ~open[c]
      /\ End(t) => /\ call'[t] = Idle
                   /\ \A v \in Thread : v # t => call'[v] = call[v]
  BY <1>1, AtWork
<1> QED
  BY <1>1, <1>2 DEF Undo, At

LEMMA DelRouteDoes ==
    ASSUME TypeInv, CallsOpen, NEW t \in Thread, NEW c, c = call[t].conn, DelRoute(t)
    PROVE  /\ c \in Conn /\ t = Owner[c]
           /\ \A v \in Thread : v # t => call'[v] = call[v]
           /\ open[c] /\ call[t].step = "unroute"
           /\ UNCHANGED <<port, open, adr, ports, refused, unrouted>>
           /\ routes' = [routes EXCEPT ![adr[c]] = @ - 1]
           /\ call'[t].op = "close" /\ call'[t].conn = c
           /\ call'[t].step = "port_close"
<1>1. At(t, "unroute")
  BY DEF DelRoute
<1>2. /\ c \in Conn /\ t = Owner[c]
      /\ open[c]
      /\ Goto(t, "port_close") =>
            /\ call'[t].op = "close" /\ call'[t].conn = c /\ call'[t].step = "port_close"
            /\ \A v \in Thread : v # t => call'[v] = call[v]
      /\ End(t) => /\ call'[t] = Idle
                   /\ \A v \in Thread : v # t => call'[v] = call[v]
  BY <1>1, AtWork
<1> QED
  BY <1>1, <1>2 DEF DelRoute, At, connection

LEMMA ClosePortDoes ==
    ASSUME TypeInv, CallsOpen, NEW t \in Thread, NEW c, c = call[t].conn, ClosePort(t)
    PROVE  /\ c \in Conn /\ t = Owner[c]
           /\ \A v \in Thread : v # t => call'[v] = call[v]
           /\ open[c] /\ call[t].step = "port_close" /\ call'[t] = Idle
           /\ UNCHANGED <<adr, routes>>
           /\ \/ /\ PortClosed(c)
                 /\ \A d \in Conn : open'[d] <=> (d # c /\ open[d])
                 /\ UNCHANGED unrouted
              \/ /\ refused' = refused \cup {port[c]}
                 /\ unrouted' = [unrouted EXCEPT ![adr[c]] = @ + 1]
                 /\ UNCHANGED <<ports, port, open>>
<1>1. At(t, "port_close")
  BY DEF ClosePort
<1>2. /\ c \in Conn /\ t = Owner[c]
      /\ open[c]
      /\ End(t) => /\ call'[t] = Idle
                   /\ \A v \in Thread : v # t => call'[v] = call[v]
  BY <1>1, AtWork
<1>3. CASE /\ PortClosed(c)
           /\ open' = [open EXCEPT ![c] = FALSE]
           /\ UNCHANGED unrouted
  <2>1. open \in [Conn -> BOOLEAN]
    BY DEF TypeInv, TypeOK
  <2>2. ~open'[c] /\ \A d \in Conn : d # c => open'[d] = open[d]
    BY <1>2, <1>3, <2>1
  <2> QED
    BY <1>1, <1>2, <1>3, <2>2 DEF ClosePort, At
<1>4. CASE /\ refused' = refused \cup {port[c]}
           /\ unrouted' = [unrouted EXCEPT ![adr[c]] = @ + 1]
           /\ UNCHANGED <<ports, port, open>>
  BY <1>1, <1>2, <1>4 DEF ClosePort, At
<1> QED
  BY <1>3, <1>4 DEF ClosePort
-----------------------------------------------------------------------------
(* Ports, step by step *)

LEMMA BusyAt ==
    ASSUME TypeInv, NEW t \in Thread, NEW c \in Conn, t = Owner[c],
           call[t].conn = c \/ call[t].step \notin {"route", "undo"}
    PROVE  \A d \in Conn : Busy(d) /\ Owner[d] = t => d = c
  BY DEF Busy, At

\* The port of c is closed.
LEMMA PortClosedKeeps ==
    ASSUME TypeInv, PortInv, NEW t \in Thread, NEW c \in Conn, t = Owner[c],
           call[t].conn = c, port[c] # None, PortClosed(c),
           \A v \in Thread : v # t => call'[v] = call[v],
           \A d \in Conn : d # c => (open'[d] <=> open[d])
    PROVE  /\ PortInv'
           /\ port'[c] = None /\ \A d \in Conn : d # c => port'[d] = port[d]
<1>1. /\ ports' = ports \ {port[c]}
      /\ refused' = refused \ {port[c]}
      /\ port'[c] = None
      /\ \A d \in Conn : d # c => port'[d] = port[d]
  BY DEF PortClosed, TypeInv, TypeOK
<1>2. \A d \in Conn : d # c /\ Busy(d) => Busy(d)'
  <2>1. \A d \in Conn : Owner[d] \in Thread
    BY ConnectionAssumption
  <2> QED
    BY <2>1, BusyAt DEF Busy, At
<1>3. \A d \in Conn : d # c => port[d] # port[c]
  BY DEF PortInv
<1>4. ASSUME NEW d \in Conn, port'[d] # None
      PROVE  /\ port'[d] \in ports'
             /\ \A e \in Conn : port'[e] = port'[d] => e = d
             /\ open'[d] \/ Busy(d)' \/ port'[d] \in refused'
  <2>1. d # c /\ port'[d] = port[d]
    BY <1>1, <1>4
  <2> QED
    BY <1>1, <1>2, <1>3, <1>4, <2>1 DEF PortInv
<1>5. ASSUME NEW p \in ports' PROVE p \in refused' \/ \E d \in Conn : port'[d] = p
  <2>1. p \in ports /\ p # port[c]
    BY <1>1
  <2> QED
    BY <1>1, <2>1 DEF PortInv
<1> QED
  BY <1>1, <1>4, <1>5 DEF PortInv

\* The closing of the port of c was refused.
LEMMA PortRefusedKeeps ==
    ASSUME TypeInv, PortInv, NEW t \in Thread, NEW c \in Conn, t = Owner[c],
           call[t].conn = c, refused' = refused \cup {port[c]},
           \A v \in Thread : v # t => call'[v] = call[v],
           UNCHANGED <<port, ports, open>>
    PROVE  PortInv'
<1>1. \A d \in Conn : d # c /\ Busy(d) => Busy(d)'
  <2>1. \A d \in Conn : Owner[d] \in Thread
    BY ConnectionAssumption
  <2> QED
    BY <2>1, BusyAt DEF Busy, At
<1> QED
  BY <1>1 DEF PortInv

LEMMA OpenOpens ==
    ASSUME TypeInv, OpenInv, NEW t \in Thread, OpenStep(t)
    PROVE  OpenInv'
<1>0. CallsOpen /\ PortInv /\ Idle.op = "none" /\ Idle.step = "idle"
  BY DEF OpenInv, Idle
<1>1. ASSUME NEW c \in Conn, NEW n \in NetId, SetNetId(t, c, n) PROVE OpenInv'
  BY <1>1 DEF SetNetId, OpenInv, CallsOpen, PortInv, Busy, At
<1>2. ASSUME NEW c \in Conn, OpenBegin(t, c) \/ CloseBegin(t, c) PROVE OpenInv'
  <2>1. /\ t = Owner[c] /\ call[t] = Idle /\ call'[t].conn = c
        /\ \A v \in Thread : v # t => call'[v] = call[v]
        /\ UNCHANGED <<port, open, ports, refused>>
        /\ \/ /\ ~open[c] /\ call'[t].op = "open"
              /\ call'[t].step \in {"lookup", "port_open"}
           \/ /\ open[c] /\ call'[t].op = "close"
              /\ call'[t].step \in {"unroute", "port_close"}
    BY <1>2, BeginDoes
  <2>2. CallsOpen'
    BY <1>0, <2>1, CallsOpenKept DEF CallsOpen
  <2>3. PortInv'
    BY <1>0, <2>1, PortSame DEF At
  <2> QED
    BY <2>2, <2>3 DEF OpenInv
<1>3. ASSUME Lookup(t) PROVE OpenInv'
  <2>0. PICK c : c = call[t].conn
    OBVIOUS
  <2>1. /\ c \in Conn /\ t = Owner[c] /\ ~open[c] /\ call[t].step = "lookup"
        /\ \A v \in Thread : v # t => call'[v] = call[v]
        /\ UNCHANGED <<port, open, ports, refused>>
        /\ \/ call'[t] = Idle
           \/ call'[t].op = "open" /\ call'[t].conn = c /\ call'[t].step = "port_open"
    BY <1>0, <1>3, <2>0, LookupDoes
  <2>2. CallsOpen'
    BY <1>0, <2>1, CallsOpenKept DEF CallsOpen
  <2>3. PortInv'
    BY <1>0, <2>1, PortSame DEF At
  <2> QED
    BY <2>2, <2>3 DEF OpenInv
<1>4. ASSUME PortOpen(t) PROVE OpenInv'
  <2>0. PICK c : c = call[t].conn
    OBVIOUS
  <2>1. /\ c \in Conn /\ t = Owner[c] /\ ~open[c] /\ call[t].step = "port_open"
        /\ \A v \in Thread : v # t => call'[v] = call[v]
        /\ UNCHANGED refused
        /\ \/ call'[t] = Idle /\ UNCHANGED <<port, open, ports>>
           \/ /\ \E p \in Port \ ports :
                    /\ ports' = ports \cup {p} /\ port'[c] = p
                    /\ \A d \in Conn : d # c => port'[d] = port[d]
              /\ \A d \in Conn : open'[d] <=> IF d = c THEN ~Linux ELSE open[d]
              /\ ~Linux => call'[t] = Idle
              /\ Linux => /\ call'[t].op = "open" /\ call'[t].conn = c
                          /\ call'[t].step = "route"
    BY <1>0, <1>4, <2>0, PortOpenDoes
  <2>2. CASE call'[t] = Idle /\ UNCHANGED <<port, open, ports>>
    <3>1. CallsOpen'
      BY <1>0, <2>1, <2>2, CallsOpenKept DEF CallsOpen
    <3>2. PortInv'
      BY <1>0, <2>1, <2>2, PortSame DEF At
    <3> QED
      BY <3>1, <3>2 DEF OpenInv
  <2>3. ASSUME NEW p \in Port \ ports,
               /\ ports' = ports \cup {p} /\ port'[c] = p
               /\ \A d \in Conn : d # c => port'[d] = port[d],
               \A d \in Conn : open'[d] <=> IF d = c THEN ~Linux ELSE open[d],
               ~Linux => call'[t] = Idle,
               Linux => /\ call'[t].op = "open" /\ call'[t].conn = c
                        /\ call'[t].step = "route"
        PROVE  OpenInv'
    <3>1. p # None
      BY ConnectionAssumption
    <3>2. CallsOpen'
      <4>1. open'[c] <=> ~Linux
        BY <2>1, <2>3
      <4>2. \A d \in Conn : d # c => port'[d] = port[d] /\ (open'[d] <=> open[d])
        BY <2>3
      <4>3. CASE Linux
        BY <1>0, <2>1, <2>3, <3>1, <4>1, <4>2, <4>3, CallsOpenKept
      <4>4. CASE ~Linux
        BY <1>0, <2>1, <2>3, <3>1, <4>1, <4>2, <4>4, CallsOpenKept
      <4> QED
        BY <4>3, <4>4
    <3>3. ~Busy(c) /\ \A d \in Conn : Busy(d) => Busy(d)'
      <4>1. \A d \in Conn : Owner[d] \in Thread
        BY ConnectionAssumption
      <4> QED
        BY <2>1, <4>1 DEF Busy, At
    <3>4. open'[c] \/ Busy(c)'
      BY <2>1, <2>3 DEF Busy, At
    <3>5. port[c] # None => port[c] \in refused
      BY <1>0, <2>1, <3>3 DEF PortInv
    <3>6. \A d \in Conn : d # c => port[d] # p
      BY <1>0, <3>1 DEF PortInv
    <3>7. ASSUME NEW d \in Conn, port'[d] # None
          PROVE  /\ port'[d] \in ports'
                 /\ \A e \in Conn : port'[e] = port'[d] => e = d
                 /\ open'[d] \/ Busy(d)' \/ port'[d] \in refused'
      <4>1. CASE d = c
        BY <2>3, <3>4, <3>6, <4>1
      <4>2. CASE d # c
        BY <1>0, <2>1, <2>3, <3>3, <3>6, <3>7, <4>2 DEF PortInv
      <4> QED
        BY <4>1, <4>2
    <3>8. ASSUME NEW q \in ports' PROVE q \in refused' \/ \E d \in Conn : port'[d] = q
      <4>1. CASE q = p
        BY <2>1, <2>3, <4>1
      <4>2. CASE q # p
        <5>1. q \in ports /\ q # None
          BY <2>3, <4>2, ConnectionAssumption DEF TypeInv, TypeOK
        <5>2. q \in refused \/ \E d \in Conn : port[d] = q
          BY <1>0, <5>1 DEF PortInv
        <5> QED
          BY <2>1, <2>3, <3>5, <5>1, <5>2
      <4> QED
        BY <4>1, <4>2
    <3>9. PortInv'
      BY <3>7, <3>8 DEF PortInv
    <3> QED
      BY <3>2, <3>9 DEF OpenInv
  <2> QED
    BY <2>1, <2>2, <2>3
<1>5. ASSUME AddRoute(t) PROVE OpenInv'
  <2>0. PICK c : c = call[t].conn
    OBVIOUS
  <2>1. /\ c \in Conn /\ t = Owner[c] /\ call[t].step = "route"
        /\ \A v \in Thread : v # t => call'[v] = call[v]
        /\ UNCHANGED <<port, ports, refused>>
        /\ \/ call'[t] = Idle /\ \A d \in Conn : open'[d] <=> (d = c \/ open[d])
           \/ /\ call'[t].op = "open" /\ call'[t].conn = c /\ call'[t].step = "undo"
              /\ ~open[c] /\ UNCHANGED open
    BY <1>0, <1>5, <2>0, AddRouteDoes
  <2>2. port[c] # None
    BY <1>0, <2>0, <2>1 DEF CallsOpen, At
  <2>3. c = call[t].conn
    BY <2>0
  <2>4. CallsOpen'
    <3>1. CASE call'[t] = Idle /\ \A d \in Conn : open'[d] <=> (d = c \/ open[d])
      BY <1>0, <2>1, <2>2, <3>1, CallsOpenKept
    <3>2. CASE /\ call'[t].op = "open" /\ call'[t].conn = c /\ call'[t].step = "undo"
               /\ ~open[c] /\ UNCHANGED open
      BY <1>0, <2>1, <2>2, <3>2, CallsOpenKept
    <3> QED
      BY <2>1, <3>1, <3>2
  <2>5. \A d \in Conn : d # c /\ Busy(d) => Busy(d)'
    <3>1. \A d \in Conn : Owner[d] \in Thread
      BY ConnectionAssumption
    <3> QED
      BY <2>1, <2>3, <3>1 DEF Busy, At
  <2>6. open'[c] \/ Busy(c)'
    BY <2>1 DEF Busy, At
  <2>7. \A d \in Conn : open[d] => open'[d]
    BY <2>1
  <2>8. PortInv'
    BY <1>0, <2>1, <2>5, <2>6, <2>7 DEF PortInv
  <2> QED
    BY <2>4, <2>8 DEF OpenInv
<1>6. ASSUME Undo(t) PROVE OpenInv'
  <2>0. PICK c : c = call[t].conn
    OBVIOUS
  <2>1. /\ c \in Conn /\ t = Owner[c] /\ call[t].step = "undo" /\ call'[t] = Idle
        /\ \A v \in Thread : v # t => call'[v] = call[v]
        /\ ~open[c] /\ UNCHANGED open
        /\ \/ PortClosed(c)
           \/ refused' = refused \cup {port[c]} /\ UNCHANGED <<ports, port>>
    BY <1>0, <1>6, <2>0, UndoDoes
  <2>2. port[c] # None
    BY <1>0, <2>0, <2>1 DEF CallsOpen, At
  <2>3. call[t].conn = c
    BY <2>0
  <2>4. CASE PortClosed(c)
    <3>1. /\ PortInv'
          /\ port'[c] = None /\ \A d \in Conn : d # c => port'[d] = port[d]
      BY <1>0, <2>1, <2>2, <2>3, <2>4, PortClosedKeeps
    <3>2. CallsOpen'
      BY <1>0, <2>1, <3>1, CallsOpenKept
    <3> QED
      BY <3>1, <3>2 DEF OpenInv
  <2>5. CASE refused' = refused \cup {port[c]} /\ UNCHANGED <<ports, port>>
    <3>1. PortInv'
      BY <1>0, <2>1, <2>3, <2>5, PortRefusedKeeps
    <3>2. CallsOpen'
      BY <1>0, <2>1, <2>5, CallsOpenKept
    <3> QED
      BY <3>1, <3>2 DEF OpenInv
  <2> QED
    BY <2>1, <2>4, <2>5
<1>7. ASSUME DelRoute(t) PROVE OpenInv'
  <2>0. PICK c : c = call[t].conn
    OBVIOUS
  <2>1. /\ c \in Conn /\ t = Owner[c] /\ open[c] /\ call[t].step = "unroute"
        /\ \A v \in Thread : v # t => call'[v] = call[v]
        /\ UNCHANGED <<port, open, ports, refused>>
        /\ call'[t].op = "close" /\ call'[t].conn = c /\ call'[t].step = "port_close"
    BY <1>0, <1>7, <2>0, DelRouteDoes
  <2>2. CallsOpen'
    BY <1>0, <2>1, CallsOpenKept DEF CallsOpen
  <2>3. PortInv'
    BY <1>0, <2>1, PortSame DEF At
  <2> QED
    BY <2>2, <2>3 DEF OpenInv
<1>8. ASSUME ClosePort(t) PROVE OpenInv'
  <2>0. PICK c : c = call[t].conn
    OBVIOUS
  <2>1. /\ c \in Conn /\ t = Owner[c] /\ call'[t] = Idle
        /\ \A v \in Thread : v # t => call'[v] = call[v]
        /\ open[c]
        /\ \/ PortClosed(c) /\ \A d \in Conn : open'[d] <=> (d # c /\ open[d])
           \/ refused' = refused \cup {port[c]} /\ UNCHANGED <<ports, port, open>>
    BY <1>0, <1>8, <2>0, ClosePortDoes
  <2>2. port[c] # None
    BY <1>0, <2>1 DEF CallsOpen
  <2>3. call[t].conn = c
    BY <2>0
  <2>4. CASE PortClosed(c) /\ \A d \in Conn : open'[d] <=> (d # c /\ open[d])
    <3>1. /\ PortInv'
          /\ port'[c] = None /\ \A d \in Conn : d # c => port'[d] = port[d]
      BY <1>0, <2>1, <2>2, <2>3, <2>4, PortClosedKeeps
    <3>2. CallsOpen'
      BY <1>0, <2>1, <2>4, <3>1, CallsOpenKept
    <3> QED
      BY <3>1, <3>2 DEF OpenInv
  <2>5. CASE refused' = refused \cup {port[c]} /\ UNCHANGED <<ports, port, open>>
    <3>1. PortInv'
      BY <1>0, <2>1, <2>3, <2>5, PortRefusedKeeps
    <3>2. CallsOpen'
      BY <1>0, <2>1, <2>2, <2>5, CallsOpenKept
    <3> QED
      BY <3>1, <3>2 DEF OpenInv
  <2> QED
    BY <2>1, <2>4, <2>5
<1> QED
  BY <1>1, <1>2, <1>3, <1>4, <1>5, <1>6, <1>7, <1>8 DEF OpenStep

LEMMA OpenInvStep == TypeInv /\ OpenInv /\ [Next]_vars => OpenInv'
<1>1. TypeInv /\ OpenInv /\ UNCHANGED vars => OpenInv'
  BY DEF vars, OpenInv, CallsOpen, PortInv, Busy, At
<1> QED
  BY <1>1, TwoKinds, OpenNames, OpenOpens
-----------------------------------------------------------------------------
(* Routes *)

LEMMA RoutedFinite ==
    \A n \in NetId : IsFiniteSet(Routed(n)) /\ Cardinality(Routed(n)) \in Nat
<1>1. \A n \in NetId : Routed(n) \subseteq Conn
  BY DEF Routed
<1>2. \A n \in NetId : IsFiniteSet(Routed(n))
  BY <1>1, ConnectionAssumption, FS_Subset
<1> QED
  BY <1>2, FS_CardinalityType

LEMMA RouteInit == Init => RoutesMatch
<1> SUFFICES ASSUME Init PROVE RoutesMatch
  OBVIOUS
<1>1. \A n \in NetId : Routed(n) = {}
  BY DEF Init, Routed
<1>2. \A n \in NetId : routes[n] = 0 /\ unrouted[n] = 0
  BY DEF Init
<1> QED
  BY <1>1, <1>2, FS_EmptySet DEF RoutesMatch

\* A thread that is not in ClosePort has no connection past its AdsDelRoute.
LEMMA PastSame ==
    ASSUME NEW t \in Thread, \A v \in Thread : v # t => call'[v] = call[v]
    PROVE  /\ \A c \in Conn : Owner[c] # t => (PastDelRoute(c)' <=> PastDelRoute(c))
           /\ \A c \in Conn : Owner[c] = t /\ call[t].step # "port_close" =>
                 ~PastDelRoute(c)
           /\ \A c \in Conn : Owner[c] = t /\ call'[t].step # "port_close" =>
                 ~PastDelRoute(c)'
<1>1. \A c \in Conn : Owner[c] \in Thread
  BY ConnectionAssumption
<1> QED
  BY <1>1 DEF PastDelRoute, At

LEMMA RoutedSame ==
    ASSUME RoutesMatch, NEW t \in Thread,
           \A v \in Thread : v # t => call'[v] = call[v],
           call[t].step # "port_close", call'[t].step # "port_close",
           \A c \in Conn : (open'[c] <=> open[c]) /\ (open[c] => adr'[c] = adr[c]),
           UNCHANGED <<routes, unrouted>>
    PROVE  RoutesMatch'
<1>1. \A c \in Conn : PastDelRoute(c)' <=> PastDelRoute(c)
  BY PastSame
<1>2. \A n \in NetId : Routed(n)' = Routed(n)
  BY <1>1 DEF Routed
<1> QED
  BY <1>2 DEF RoutesMatch

\* A step that adds a connection to those that are routed.
LEMMA RoutedMore ==
    ASSUME TypeInv, NEW c \in Conn, NEW n \in NetId,
           c \notin Routed(n), Routed(n)' = Routed(n) \cup {c}
    PROVE  Cardinality(Routed(n)') = Cardinality(Routed(n)) + 1
  BY RoutedFinite, FS_AddElement

LEMMA RoutedLess ==
    ASSUME TypeInv, NEW c \in Conn, NEW n \in NetId,
           c \in Routed(n), Routed(n)' = Routed(n) \ {c}
    PROVE  Cardinality(Routed(n)') = Cardinality(Routed(n)) - 1
  BY RoutedFinite, FS_RemoveElement

LEMMA RouteOpens ==
    ASSUME TypeInv, OpenInv, RoutesMatch, Linux, NEW t \in Thread, OpenStep(t)
    PROVE  RoutesMatch'
<1>0. CallsOpen /\ Idle.op = "none" /\ Idle.step = "idle"
  BY DEF OpenInv, Idle
<1>1. /\ routes \in [NetId \cup {None} -> Int]
      /\ unrouted \in [NetId \cup {None} -> Nat]
      /\ adr \in [Conn -> NetId \cup {None}]
      /\ \A n \in NetId : Cardinality(Routed(n)) \in Nat
      /\ \A n \in NetId : routes[n] = Cardinality(Routed(n)) - unrouted[n]
  BY RoutedFinite DEF TypeInv, TypeOK, RoutesMatch
<1>2. ASSUME NEW c \in Conn, NEW n \in NetId, SetNetId(t, c, n) PROVE RoutesMatch'
  <2>1. /\ call[t] = Idle /\ call' = call /\ ~open[c]
        /\ \A d \in Conn : d # c => adr'[d] = adr[d]
        /\ UNCHANGED <<open, routes, unrouted>>
    BY <1>1, <1>2 DEF SetNetId
  <2> QED
    BY <1>0, <2>1, RoutedSame
<1>3. ASSUME NEW c \in Conn, OpenBegin(t, c) \/ CloseBegin(t, c) PROVE RoutesMatch'
  <2>1. /\ call[t] = Idle
        /\ \A v \in Thread : v # t => call'[v] = call[v]
        /\ UNCHANGED <<open, adr, routes, unrouted>>
        /\ call'[t].step \in {"lookup", "port_open", "unroute"} \/ ~Linux
        /\ call'[t].op = "open" => call'[t].step # "port_close"
    BY <1>3, BeginDoes
  <2>2. call'[t].step # "port_close"
    BY <2>1
  <2> QED
    BY <1>0, <2>1, <2>2, RoutedSame
<1>4. ASSUME Lookup(t) PROVE RoutesMatch'
  <2>0. PICK c : c = call[t].conn
    OBVIOUS
  <2>1. /\ c \in Conn /\ ~open[c] /\ call[t].step = "lookup"
        /\ \A v \in Thread : v # t => call'[v] = call[v]
        /\ \A d \in Conn : d # c => adr'[d] = adr[d]
        /\ UNCHANGED <<open, routes, unrouted>>
        /\ call'[t] = Idle \/ call'[t].step = "port_open"
    BY <1>0, <1>4, <2>0, LookupDoes
  <2> QED
    BY <1>0, <2>1, RoutedSame
<1>5. ASSUME PortOpen(t) PROVE RoutesMatch'
  <2>0. PICK c : c = call[t].conn
    OBVIOUS
  <2>1. /\ c \in Conn /\ ~open[c] /\ call[t].step = "port_open"
        /\ \A v \in Thread : v # t => call'[v] = call[v]
        /\ UNCHANGED <<adr, routes, unrouted>>
        /\ \/ call'[t] = Idle /\ UNCHANGED open
           \/ /\ \A d \in Conn : open'[d] <=> IF d = c THEN ~Linux ELSE open[d]
              /\ call'[t].step = "route"
    BY <1>0, <1>5, <2>0, PortOpenDoes
  <2>2. \A d \in Conn : open'[d] <=> open[d]
    BY <2>1
  <2> QED
    BY <1>0, <2>1, <2>2, RoutedSame
<1>6. ASSUME AddRoute(t) PROVE RoutesMatch'
  <2>0. PICK c : c = call[t].conn
    OBVIOUS
  <2>1. /\ c \in Conn /\ t = Owner[c] /\ ~open[c] /\ call[t].step = "route"
        /\ \A v \in Thread : v # t => call'[v] = call[v]
        /\ UNCHANGED <<adr, unrouted>>
        /\ \/ /\ call'[t] = Idle
              /\ routes' = [routes EXCEPT ![adr[c]] = @ + 1]
              /\ \A d \in Conn : open'[d] <=> (d = c \/ open[d])
           \/ call'[t].step = "undo" /\ UNCHANGED <<routes, open>>
    BY <1>0, <1>6, <2>0, AddRouteDoes
  <2>2. CASE call'[t].step = "undo" /\ UNCHANGED <<routes, open>>
    BY <1>0, <2>1, <2>2, RoutedSame
  <2>3. CASE /\ call'[t] = Idle
             /\ routes' = [routes EXCEPT ![adr[c]] = @ + 1]
             /\ \A d \in Conn : open'[d] <=> (d = c \/ open[d])
    <3>1. /\ \A d \in Conn : PastDelRoute(d)' <=> PastDelRoute(d)
          /\ ~PastDelRoute(c)'
      BY <1>0, <2>1, <2>3, PastSame
    <3>2. \A n \in NetId : /\ c \notin Routed(n)
                           /\ adr[c] = n => Routed(n)' = Routed(n) \cup {c}
                           /\ adr[c] # n => Routed(n)' = Routed(n)
      BY <2>1, <2>3, <3>1 DEF Routed
    <3>3. ASSUME NEW n \in NetId
          PROVE  routes'[n] = Cardinality(Routed(n)') - unrouted'[n]
      <4>1. CASE adr[c] = n
        <5>1. Cardinality(Routed(n)') = Cardinality(Routed(n)) + 1
          BY <2>1, <3>2, <4>1, RoutedMore
        <5>2. routes'[n] = routes[n] + 1
          BY <1>1, <2>3, <4>1
        <5> QED
          BY <1>1, <2>1, <5>1, <5>2
      <4>2. CASE adr[c] # n
        BY <1>1, <2>1, <2>3, <3>2, <4>2
      <4> QED
        BY <4>1, <4>2
    <3> QED
      BY <3>3 DEF RoutesMatch
  <2> QED
    BY <2>1, <2>2, <2>3
<1>7. ASSUME Undo(t) PROVE RoutesMatch'
  <2>0. PICK c : c = call[t].conn
    OBVIOUS
  <2>1. /\ call[t].step = "undo" /\ call'[t] = Idle
        /\ \A v \in Thread : v # t => call'[v] = call[v]
        /\ UNCHANGED <<open, adr, routes, unrouted>>
    BY <1>0, <1>7, <2>0, UndoDoes
  <2> QED
    BY <1>0, <2>1, RoutedSame
<1>8. ASSUME DelRoute(t) PROVE RoutesMatch'
  <2>0. PICK c : c = call[t].conn
    OBVIOUS
  <2>1. /\ c \in Conn /\ t = Owner[c] /\ open[c] /\ call[t].step = "unroute"
        /\ \A v \in Thread : v # t => call'[v] = call[v]
        /\ UNCHANGED <<open, adr, unrouted>>
        /\ routes' = [routes EXCEPT ![adr[c]] = @ - 1]
        /\ call'[t].conn = c /\ call'[t].step = "port_close"
    BY <1>0, <1>8, <2>0, DelRouteDoes
  <2>2. ~PastDelRoute(c) /\ PastDelRoute(c)'
    BY <2>1 DEF PastDelRoute, At
  <2>3. \A d \in Conn : d # c => (PastDelRoute(d)' <=> PastDelRoute(d))
    <3>1. \A d \in Conn : d # c /\ Owner[d] = t => ~PastDelRoute(d) /\ ~PastDelRoute(d)'
      BY <2>1 DEF PastDelRoute, At
    <3> QED
      BY <2>1, <3>1, PastSame
  <2>4. \A n \in NetId : /\ adr[c] = n => c \in Routed(n) /\ Routed(n)' = Routed(n) \ {c}
                         /\ adr[c] # n => Routed(n)' = Routed(n)
    BY <2>1, <2>2, <2>3 DEF Routed
  <2>5. ASSUME NEW n \in NetId
        PROVE  routes'[n] = Cardinality(Routed(n)') - unrouted'[n]
    <3>1. CASE adr[c] = n
      <4>1. Cardinality(Routed(n)') = Cardinality(Routed(n)) - 1
        BY <2>1, <2>4, <3>1, RoutedLess
      <4>2. routes'[n] = routes[n] - 1
        BY <1>1, <2>1, <3>1
      <4> QED
        BY <1>1, <2>1, <4>1, <4>2
    <3>2. CASE adr[c] # n
      BY <1>1, <2>1, <2>4, <3>2
    <3> QED
      BY <3>1, <3>2
  <2> QED
    BY <2>5 DEF RoutesMatch
<1>9. ASSUME ClosePort(t) PROVE RoutesMatch'
  <2>0. PICK c : c = call[t].conn
    OBVIOUS
  <2>1. /\ c \in Conn /\ t = Owner[c] /\ open[c] /\ call[t].step = "port_close"
        /\ call'[t] = Idle
        /\ \A v \in Thread : v # t => call'[v] = call[v]
        /\ UNCHANGED <<adr, routes>>
        /\ \/ /\ \A d \in Conn : open'[d] <=> (d # c /\ open[d])
              /\ UNCHANGED unrouted
           \/ unrouted' = [unrouted EXCEPT ![adr[c]] = @ + 1] /\ UNCHANGED open
    BY <1>0, <1>9, <2>0, ClosePortDoes
  <2>2. PastDelRoute(c) /\ ~PastDelRoute(c)'
    BY <1>0, <2>0, <2>1 DEF PastDelRoute, At
  <2>3. \A d \in Conn : d # c => (PastDelRoute(d)' <=> PastDelRoute(d))
    <3>1. \A d \in Conn : d # c /\ Owner[d] = t => ~PastDelRoute(d) /\ ~PastDelRoute(d)'
      BY <1>0, <2>0, <2>1 DEF PastDelRoute, At
    <3> QED
      BY <2>1, <3>1, PastSame
  <2>4. CASE /\ \A d \in Conn : open'[d] <=> (d # c /\ open[d])
             /\ UNCHANGED unrouted
    <3>1. \A n \in NetId : Routed(n)' = Routed(n)
      BY <2>1, <2>2, <2>3, <2>4 DEF Routed
    <3> QED
      BY <1>1, <2>1, <2>4, <3>1 DEF RoutesMatch
  <2>5. CASE unrouted' = [unrouted EXCEPT ![adr[c]] = @ + 1] /\ UNCHANGED open
    <3>1. \A n \in NetId : /\ c \notin Routed(n)
                           /\ adr[c] = n => Routed(n)' = Routed(n) \cup {c}
                           /\ adr[c] # n => Routed(n)' = Routed(n)
      BY <2>1, <2>2, <2>3, <2>5 DEF Routed
    <3>2. ASSUME NEW n \in NetId
          PROVE  routes'[n] = Cardinality(Routed(n)') - unrouted'[n]
      <4>1. CASE adr[c] = n
        <5>1. Cardinality(Routed(n)') = Cardinality(Routed(n)) + 1
          BY <2>1, <3>1, <4>1, RoutedMore
        <5>2. unrouted'[n] = unrouted[n] + 1
          BY <1>1, <2>5, <4>1
        <5> QED
          BY <1>1, <2>1, <5>1, <5>2
      <4>2. CASE adr[c] # n
        BY <1>1, <2>1, <2>5, <3>1, <4>2
      <4> QED
        BY <4>1, <4>2
    <3> QED
      BY <3>2 DEF RoutesMatch
  <2> QED
    BY <2>1, <2>4, <2>5
<1> QED
  BY <1>2, <1>3, <1>4, <1>5, <1>6, <1>7, <1>8, <1>9 DEF OpenStep

LEMMA RouteStep == TypeInv /\ OpenInv /\ RoutesMatch /\ [Next]_vars => RoutesMatch'
<1> SUFFICES ASSUME TypeInv, OpenInv, RoutesMatch, [Next]_vars PROVE RoutesMatch'
  OBVIOUS
<1>1. CASE ~Linux
  BY <1>1 DEF RoutesMatch
<1>2. ASSUME NEW t \in Thread, NameStep(t) PROVE RoutesMatch'
  <2>1. /\ call[t].step # "port_close" /\ call'[t].step # "port_close"
        /\ \A v \in Thread : v # t => call'[v] = call[v]
        /\ UNCHANGED <<open, adr, routes, unrouted>>
    BY <1>2, NamesAside DEF connection
  <2> QED
    BY <2>1, RoutedSame
<1>3. ASSUME NEW t \in Thread, OpenStep(t), Linux PROVE RoutesMatch'
  BY <1>3, RouteOpens
<1>4. CASE UNCHANGED vars
  <2>1. \A n \in NetId : Routed(n)' = Routed(n)
    BY <1>4 DEF vars, Routed, PastDelRoute, At
  <2> QED
    BY <1>4, <2>1 DEF vars, RoutesMatch
<1> QED
  BY <1>1, <1>2, <1>3, <1>4, TwoKinds
-----------------------------------------------------------------------------
(* Theorems *)

ConnectionInv == TypeInv /\ OpenInv /\ HandleInv /\ RoutesMatch

LEMMA ConnectionInvHolds == Spec => []ConnectionInv
<1>1. Init => ConnectionInv
  BY TypeInit, OpenInit, HandleInit, RouteInit DEF ConnectionInv
<1>2. ConnectionInv /\ [Next]_vars => ConnectionInv'
  BY TypeStep, OpenInvStep, HandleStep, RouteStep DEF ConnectionInv, OpenInv
<1> QED
  BY <1>1, <1>2, PTL DEF Spec

(* Connections, calls, the router and the target stay well typed.          *)
THEOREM ConnectionTypes == Spec => []TypeOK
<1>1. ConnectionInv => TypeOK
  BY DEF ConnectionInv, TypeInv
<1> QED
  BY <1>1, ConnectionInvHolds, PTL

(* Every open port of the router belongs to one connection or its closing  *)
(* was refused, and a connection that is not open has none, but for the    *)
(* time of its open or after such a refusal.                               *)
THEOREM PortsHold == Spec => []PortsAccounted
<1>1. ConnectionInv => PortsAccounted
  <2> SUFFICES ASSUME ConnectionInv PROVE PortsAccounted
    OBVIOUS
  <2>1. TypeInv /\ CallsOpen /\ PortInv
    BY DEF ConnectionInv, OpenInv
  <2>2. \A c \in Conn : Busy(c) => Opening(c)
    <3>1. \A c \in Conn : Owner[c] \in Thread
      BY ConnectionAssumption
    <3> QED
      BY <2>1, <3>1, OwnerOnly DEF Busy, Opening
  <2> QED
    BY <2>1, <2>2 DEF PortInv, CallsOpen, PortsAccounted
<1> QED
  BY <1>1, ConnectionInvHolds, PTL

(* Routes balance: one for every open connection to a net id, less one for *)
(* each close that failed after it had deleted the route.                  *)
THEOREM RoutesHold == Spec => []RoutesMatch
<1>1. ConnectionInv => RoutesMatch
  BY DEF ConnectionInv
<1> QED
  BY <1>1, ConnectionInvHolds, PTL

(* Every handle on the target is the user's, in use by a call, or was given *)
(* up in one of the ways the code gives handles up.                        *)
THEOREM HandlesHold == Spec => []HandlesReturned
<1>1. ConnectionInv => HandlesReturned
  <2> SUFFICES ASSUME ConnectionInv PROVE HandlesReturned
    OBVIOUS
  <2>1. HandleInv
    BY DEF ConnectionInv
  <2>2. \A t \in Thread : Owned(t) => call[t].handle \in InFlight
    BY DEF Owned, InFlight
  <2> QED
    BY <2>1, <2>2 DEF HandleInv, HandlesReturned
<1> QED
  BY <1>1, ConnectionInvHolds, PTL

(* A handle that get_handle has returned is valid until its user releases  *)
(* it, whatever calls by name and releases of others run meanwhile.        *)
THEOREM UserHandlesHold == Spec => []UserHandlesStay
<1>1. ConnectionInv => UserHandlesStay
  BY DEF ConnectionInv, HandleInv, UserHandlesStay
<1> QED
  BY <1>1, ConnectionInvHolds, PTL
=============================================================================
