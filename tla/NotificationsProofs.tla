------------------------- MODULE NotificationsProofs -------------------------
(***************************************************************************)
(* Theorems about Notifications, for any symbols, values, handles and      *)
(* bounds, whatever requests the target refuses.                           *)
(***************************************************************************)
EXTENDS Notifications, WellFoundedInduction, NaturalsInduction, TLAPS

(* What carries the invariants *)

Key(x) == [id |-> x.id, handle |-> x.handle]

\* The entry e is that of a live subscription.
IsLive(e) == \E x \in subs : Key(x) = e

\* Lists stay within the bounds, and a registration under way has room.
BoundInv ==
    /\ \A s \in Sym : Len(list[s]) \in 0 .. MaxListed
    /\ call.op = "add" => Len(list[call.sym]) < MaxListed
    /\ call.op = "add" /\ call.got = None => made < MaxAdds

\* Live subscriptions differ in handle and number, and there is none on a
\* closed connection.
SubsInv ==
    /\ \A x, y \in subs : x.id = y.id \/ x.handle = y.handle => x = y
    /\ \A x \in subs : x.id <= made
    /\ subs # {} => opened

\* What is remembered was registered, and one entry is listed once.
ListInv ==
    /\ \A s \in Sym : auto[s] # None => auto[s].id <= made
    /\ \A s \in Sym : \A i \in 1 .. Len(list[s]) :
          /\ list[s][i] # None => list[s][i].id <= made
          /\ \A j \in 1 .. Len(list[s]) :
                list[s][i] = list[s][j] /\ list[s][i] # None => i = j

\* A registration finds the connection open and auto_update off; once answered
\* it is live and, until stored, not listed.
AddInv ==
    /\ call.op = "add" => opened
    /\ call.op = "add" /\ call.auto => auto[call.sym] = None
    /\ call.op = "add" /\ call.got # None =>
          /\ \E x \in subs : /\ Key(x) = call.got
                             /\ x.sym = call.sym
                             /\ x.auto = call.auto
          /\ \A s \in Sym : \A i \in 1 .. Len(list[s]) : list[s][i] # call.got

\* The deletion under way is of an entry of its symbol.
DelInv ==
    /\ call.op = "del" =>
          /\ call.entry # None
          /\ call.entry # auto[call.sym]
          /\ \E i \in 1 .. Len(list[call.sym]) : list[call.sym][i] = call.entry
    /\ call.op = "auto_off" => call.entry # None /\ call.entry = auto[call.sym]

\* Only the symbol that registered a subscription remembers it.
OwnerInv ==
    \A x \in subs : \A s \in Sym :
        /\ auto[s] = Key(x) => x.sym = s
        /\ \A i \in 1 .. Len(list[s]) : list[s][i] = Key(x) => x.sym = s

\* Its automatic subscription is in auto_update.
AutoInv == \A x \in subs : x.auto => Adding(x) \/ auto[x.sym] = Key(x)

\* clear has still to come to what is live.
ClearInv ==
    \A x \in subs :
        Clearing(x.sym) =>
            \E i \in 1 .. Len(list[x.sym]) : i >= call.next /\ list[x.sym][i] = Key(x)

\* A symbol that lists what is gone has lapsed.
StaleInv ==
    \A s \in Sym : \A i \in 1 .. Len(list[s]) :
        \/ s \in lapsed
        \/ Clearing(s) /\ i < call.next
        \/ list[s][i] = None
        \/ IsLive(list[s][i])

\* Every live subscription that is stored is listed (NoOrphans).
Keeps(x) == \E i \in 1 .. Len(list[x.sym]) : list[x.sym][i] = Key(x)
KeptInv == \A x \in subs : Adding(x) \/ Keeps(x)

\* What auto_update has is live, or its symbol has lapsed.
TrueInv ==
    \A s \in Sym :
        \/ s \in lapsed
        \/ Clearing(s)
        \/ auto[s] = None
        \/ \E x \in subs : x.auto /\ x.sym = s /\ Key(x) = auto[s]

SafeInv ==
    /\ SubsInv
    /\ ListInv
    /\ AddInv
    /\ DelInv
    /\ OwnerInv
    /\ AutoInv
    /\ ClearInv
    /\ StaleInv
    /\ KeptInv
    /\ TrueInv
    /\ CallbackAlive

\* The last notification on its way to a symbol has its last sample.
PendingInv ==
    /\ \A i \in 1 .. Len(pending) : pending[i].id <= made
    /\ \A x \in subs : \A i \in 1 .. Len(pending) :
          pending[i].id = x.id =>
              /\ x.auto
              /\ pending[i].sym = x.sym
              /\ \/ pending[i].value = x.last
                 \/ \E j \in i + 1 .. Len(pending) : pending[j].id = x.id

Listing == Seq(Entry \cup {None})
Note == [id : Id, sym : Sym, value : Value]

TypeInv == TypeOK /\ BoundInv

-----------------------------------------------------------------------------
(* Sequences *)

LEMMA HeadTail ==
    ASSUME NEW S, NEW s \in Seq(S), s # <<>>
    PROVE  /\ Head(s) \in S /\ Head(s) = s[1]
           /\ Tail(s) \in Seq(S)
           /\ Len(s) \in Nat \ {0}
           /\ Len(Tail(s)) = Len(s) - 1
           /\ \A n \in 1 .. Len(Tail(s)) : Tail(s)[n] = s[n + 1]
  OBVIOUS

LEMMA AppendFacts ==
    ASSUME NEW S, NEW s \in Seq(S), NEW x \in S
    PROVE  /\ Append(s, x) \in Seq(S)
           /\ Len(s) \in Nat
           /\ Len(Append(s, x)) = Len(s) + 1
           /\ \A n \in 1 .. Len(s) : Append(s, x)[n] = s[n]
           /\ Append(s, x)[Len(s) + 1] = x
  OBVIOUS

LEMMA ElementFacts ==
    ASSUME NEW S, NEW s \in Seq(S)
    PROVE  /\ Len(s) \in Nat
           /\ DOMAIN s = 1 .. Len(s)
           /\ \A n \in 1 .. Len(s) : s[n] \in S
  OBVIOUS

LEMMA ConcatFacts ==
    ASSUME NEW S, NEW s \in Seq(S), NEW r \in Seq(S)
    PROVE  /\ s \o r \in Seq(S)
           /\ Len(s \o r) = Len(s) + Len(r)
           /\ \A n \in 1 .. Len(s) : (s \o r)[n] = s[n]
           /\ \A n \in Len(s) + 1 .. Len(s) + Len(r) : (s \o r)[n] = r[n - Len(s)]
  OBVIOUS

LEMMA RemoveFacts ==
    ASSUME NEW S, NEW s \in Seq(S), NEW k \in 1 .. Len(s)
    PROVE  /\ RemoveAt(s, k) \in Seq(S)
           /\ Len(RemoveAt(s, k)) = Len(s) - 1
           /\ \A n \in 1 .. Len(s) - 1 :
                 RemoveAt(s, k)[n] = IF n < k THEN s[n] ELSE s[n + 1]
  <1> DEFINE a == SubSeq(s, 1, k - 1)
             b == SubSeq(s, k + 1, Len(s))
  <1>1. /\ a \in Seq(S) /\ Len(a) = k - 1
        /\ \A n \in 1 .. k - 1 : a[n] = s[n]
    OBVIOUS
  <1>2. /\ b \in Seq(S) /\ Len(b) = Len(s) - k
        /\ \A n \in 1 .. Len(s) - k : b[n] = s[n + k]
    OBVIOUS
  <1>3. RemoveAt(s, k) = a \o b
    BY DEF RemoveAt
  <1> HIDE DEF a, b
  <1>4. /\ a \o b \in Seq(S)
        /\ Len(a \o b) = Len(s) - 1
        /\ \A n \in 1 .. k - 1 : (a \o b)[n] = a[n]
        /\ \A n \in k .. Len(s) - 1 : (a \o b)[n] = b[n - (k - 1)]
    <2>1. /\ a \o b \in Seq(S)
          /\ Len(a \o b) = Len(a) + Len(b)
          /\ \A n \in 1 .. Len(a) : (a \o b)[n] = a[n]
          /\ \A n \in Len(a) + 1 .. Len(a) + Len(b) :
                (a \o b)[n] = b[n - Len(a)]
      BY <1>1, <1>2, ConcatFacts
    <2> QED
      BY <2>1, <1>1, <1>2
  <1>5. ASSUME NEW n \in 1 .. Len(s) - 1
        PROVE  (a \o b)[n] = IF n < k THEN s[n] ELSE s[n + 1]
    <2>1. CASE n < k
      BY <2>1, <1>1, <1>4
    <2>2. CASE ~(n < k)
      <3>1. n - (k - 1) \in 1 .. Len(s) - k
        BY <2>2
      <3>2. b[n - (k - 1)] = s[n - (k - 1) + k]
        BY <3>1, <1>2
      <3> QED
        BY <2>2, <3>1, <3>2, <1>1, <1>4
    <2> QED
      BY <2>1, <2>2
  <1> QED
    BY <1>3, <1>4, <1>5

LEMMA LeastIndex ==
    ASSUME NEW T, T \subseteq Nat, T # {}
    PROVE  \E k \in T : \A j \in T : ~(j < k)
  <1>1. PICK k \in T : \A j \in T : ~(<<j, k>> \in OpToRel(<, Nat))
    BY Zenon, NatLessThanWellFounded, WFMin
  <1> QED
    BY <1>1 DEF OpToRel

\* Without leaves a list alone or takes one entry with this number off it.
LEMMA WithoutFacts ==
    ASSUME NEW l \in Listing, NEW e
    PROVE  \/ /\ Without(l, e) = l
              /\ \A i \in 1 .. Len(l) : ~SameEntry(l[i], e)
           \/ \E k \in 1 .. Len(l) :
                 /\ SameEntry(l[k], e)
                 /\ Without(l, e) = RemoveAt(l, k)
  <1> DEFINE T == {i \in 1 .. Len(l) : SameEntry(l[i], e)}
             First(i) == /\ SameEntry(l[i], e)
                         /\ \A j \in 1 .. i - 1 : ~SameEntry(l[j], e)
  <1>1. DOMAIN l = 1 .. Len(l) /\ Len(l) \in Nat
    BY DEF Listing
  <1>2. CASE T = {}
    BY <1>1, <1>2 DEF Without
  <1>3. CASE T # {}
    <2>0. T \subseteq Nat
      BY <1>1
    <2>1. PICK k \in T : \A j \in T : ~(j < k)
      <3> HIDE DEF T
      <3> QED
        BY <1>3, <2>0, LeastIndex
    <2>2. First(k)
      BY <1>1, <2>1
    <2>3. PICK c : c = CHOOSE i \in DOMAIN l : First(i)
      OBVIOUS
    <2>4. c \in DOMAIN l /\ First(c)
      BY <1>1, <2>1, <2>2, <2>3
    <2>5. Without(l, e) = RemoveAt(l, c)
      BY <1>1, <1>3, <2>3 DEF Without
    <2> QED
      BY <1>1, <2>4, <2>5
  <1> QED
    BY <1>2, <1>3

-----------------------------------------------------------------------------
(* Calls *)

LEMMA CallFacts ==
    ASSUME call \in Call
    PROVE  /\ call = Idle <=> call.op = "none"
           /\ call.op = "add" =>
                 /\ call.sym \in Sym /\ call.auto \in BOOLEAN
                 /\ call.got \in Entry \cup {None}
                 /\ call = [op |-> "add", sym |-> call.sym, auto |-> call.auto,
                            got |-> call.got]
           /\ call.op \in {"del", "auto_off"} =>
                 call.sym \in Sym /\ call.entry \in Entry \cup {None}
           /\ call.op = "clear" =>
                 /\ call.sym \in Sym /\ call.next \in 1 .. MaxListed + 1
                 /\ call = [op |-> "clear", sym |-> call.sym, next |-> call.next]
           /\ call.op = "read" =>
                 /\ call.sym \in Sym /\ call.got \in Value \cup {None}
                 /\ call = [op |-> "read", sym |-> call.sym, got |-> call.got]
           /\ call.op = "write" =>
                 call.sym \in Sym /\ call.value \in Value
  BY DEF Call, Idle

LEMMA CallMade ==
    /\ Idle \in Call
    /\ \A s \in Sym : \A isAuto \in BOOLEAN : \A g \in Entry \cup {None} :
          [op |-> "add", sym |-> s, auto |-> isAuto, got |-> g] \in Call
    /\ \A s \in Sym : \A o \in {"del", "auto_off"} : \A e \in Entry \cup {None} :
          [op |-> o, sym |-> s, entry |-> e] \in Call
    /\ \A s \in Sym : \A n \in 1 .. MaxListed + 1 :
          [op |-> "clear", sym |-> s, next |-> n] \in Call
    /\ \A s \in Sym : \A v \in Value \cup {None} :
          [op |-> "read", sym |-> s, got |-> v] \in Call
    /\ \A s \in Sym : \A v \in Value : [op |-> "write", sym |-> s, value |-> v] \in Call
  BY DEF Call, Idle

\* The answer to the registration is taken over.
LEMMA CallGot ==
    ASSUME call \in Call, call.op = "add", NEW g \in Entry
    PROVE  /\ [call EXCEPT !.got = g] \in Call
           /\ [call EXCEPT !.got = g].op = "add"
           /\ [call EXCEPT !.got = g].sym = call.sym
           /\ [call EXCEPT !.got = g].auto = call.auto
           /\ [call EXCEPT !.got = g].got = g
  <1>1. [call EXCEPT !.got = g] =
            [op |-> "add", sym |-> call.sym, auto |-> call.auto, got |-> g]
    BY CallFacts
  <1> HIDE DEF Call
  <1> QED
    BY <1>1, CallFacts, CallMade

LEMMA CallRead ==
    ASSUME call \in Call, call.op = "read", NEW v \in Value
    PROVE  /\ [call EXCEPT !.got = v] \in Call
           /\ [call EXCEPT !.got = v].op = "read"
  <1>1. [call EXCEPT !.got = v] = [op |-> "read", sym |-> call.sym, got |-> v]
    BY CallFacts
  <1>2. [op |-> "read", sym |-> call.sym, got |-> v] \in Call
    BY CallFacts, CallMade
  <1> QED
    BY <1>1, <1>2

LEMMA CallNext ==
    ASSUME call \in Call, call.op = "clear", NEW n \in 1 .. MaxListed,
           call.next = n
    PROVE  /\ [call EXCEPT !.next = @ + 1] \in Call
           /\ [call EXCEPT !.next = @ + 1].op = "clear"
           /\ [call EXCEPT !.next = @ + 1].sym = call.sym
           /\ [call EXCEPT !.next = @ + 1].next = n + 1
  <1>1. [call EXCEPT !.next = @ + 1] =
            [op |-> "clear", sym |-> call.sym, next |-> n + 1]
    BY CallFacts
  <1>2. n + 1 \in 1 .. MaxListed + 1
    BY NotificationsAssumption
  <1>3. [op |-> "clear", sym |-> call.sym, next |-> n + 1] \in Call
    BY <1>2, CallFacts, CallMade
  <1> HIDE DEF Call
  <1> QED
    BY <1>1, <1>3

\* A list is a sequence within its bound.
LEMMA ListFacts ==
    ASSUME TypeInv, NEW s \in Sym
    PROVE  /\ list[s] \in Listing
           /\ Len(list[s]) \in 0 .. MaxListed
           /\ DOMAIN list[s] = 1 .. Len(list[s])
           /\ \A i \in 1 .. Len(list[s]) : list[s][i] \in Entry \cup {None}
           /\ auto[s] \in Entry \cup {None}
  <1>1. list[s] \in Listing /\ Len(list[s]) \in 0 .. MaxListed
    BY DEF TypeInv, TypeOK, BoundInv, Listing
  <1>2. auto[s] \in Entry \cup {None}
    BY DEF TypeInv, TypeOK
  <1> QED
    BY <1>1, <1>2, ElementFacts DEF Listing

LEMMA PendingFacts ==
    ASSUME TypeInv
    PROVE  /\ pending \in Seq(Note)
           /\ Len(pending) \in Nat
           /\ DOMAIN pending = 1 .. Len(pending)
           /\ \A i \in 1 .. Len(pending) : pending[i] \in Note
  <1>1. pending \in Seq(Note)
    BY DEF TypeInv, TypeOK, Note
  <1> QED
    BY <1>1, ElementFacts

-----------------------------------------------------------------------------
(* Types *)

TalkNext ==
    \/ \E s \in Moving : ReadBegin(s)
    \/ ReadAnswer
    \/ ReadKeep
    \/ \E s \in Moving : \E v \in Value : \E setter \in BOOLEAN : WriteBegin(s, v, setter)
    \/ \E s \in Moving : WriteBuffer(s)
    \/ WriteAnswer
    \/ \E s \in Moving : PlcChanges(s)

\* The user reads and writes.
LEMMA TalkDoes ==
    ASSUME TypeInv, TalkNext
    PROVE  /\ UNCHANGED <<opened, opens, subs, store, list, auto, pending, made,
                          dangling, lapsed>>
           /\ call' \in Call
           /\ buffer' \in [Sym -> Value \cup {None}]
           /\ plc' \in [Sym -> Value]
           /\ ahead' \subseteq Sym
           /\ \/ call' = call
              \/ call.op \in {"none", "read", "write"} /\ call'.op \in {"none", "read", "write"}
           /\ \/ buffer' = buffer /\ ahead' = ahead
              \/ \E s \in Sym : \E v \in Value : Put(s, v)
  <1>0. /\ call \in Call /\ Moving \subseteq Sym
        /\ buffer \in [Sym -> Value \cup {None}]
        /\ plc \in [Sym -> Value]
        /\ ahead \subseteq Sym
        /\ Idle.op = "none"
    BY NotificationsAssumption DEF TypeInv, TypeOK, Idle
  <1>p. ASSUME NEW s \in Sym, NEW v \in Value, Put(s, v)
        PROVE  buffer' \in [Sym -> Value \cup {None}] /\ ahead' \subseteq Sym
    BY <1>0, <1>p DEF Put
  <1>1. ASSUME NEW s \in Moving, ReadBegin(s)
        PROVE  call.op = "none" /\ call' \in Call /\ call'.op = "read"
    BY <1>0, <1>1, CallMade DEF ReadBegin
  <1>2. ASSUME ReadAnswer
        PROVE  /\ call.op = "read" /\ call' \in Call
               /\ call'.op \in {"none", "read"}
    <2>1. plc[call.sym] \in Value
      BY <1>0, <1>2, CallFacts DEF ReadAnswer
    <2>2. call' = [call EXCEPT !.got = plc[call.sym]] \/ call' = Idle
      BY <1>2 DEF ReadAnswer
    <2> QED
      BY <1>0, <1>2, <2>1, <2>2, CallRead, CallMade DEF ReadAnswer
  <1>3. ASSUME ReadKeep
        PROVE  /\ call.op = "read" /\ call' = Idle
               /\ call.sym \in Sym /\ call.got \in Value
               /\ Put(call.sym, call.got)
    BY <1>0, <1>3, CallFacts DEF ReadKeep
  <1>4. ASSUME NEW s \in Moving, NEW v \in Value, NEW setter \in BOOLEAN,
               WriteBegin(s, v, setter)
        PROVE  /\ call.op = "none" /\ call' \in Call
               /\ call'.op \in {"none", "write"}
               /\ Put(s, v)
    BY <1>0, <1>4, CallMade DEF WriteBegin
  <1>5. ASSUME NEW s \in Moving, WriteBuffer(s)
        PROVE  call.op = "none" /\ call' \in Call /\ call'.op = "write"
    <2>1. buffer[s] \in Value \cup {None}
      BY <1>0
    <2> QED
      BY <1>0, <1>5, <2>1, CallMade DEF WriteBuffer
  <1>6. ASSUME WriteAnswer
        PROVE  /\ call.op = "write" /\ call' = Idle
               /\ plc' \in [Sym -> Value]
    <2>1. \/ plc' = [plc EXCEPT ![call.sym] = call.value]
          \/ plc' = plc
      BY <1>6 DEF WriteAnswer
    <2>2. /\ call.op = "write" /\ call' = Idle
          /\ call.sym \in Sym /\ call.value \in Value
      BY <1>0, <1>6, CallFacts DEF WriteAnswer
    <2> QED
      BY <1>0, <2>1, <2>2
  <1>7. ASSUME NEW s \in Moving, PlcChanges(s)
        PROVE  plc' \in [Sym -> Value] /\ call' = call
    BY <1>0, <1>7 DEF PlcChanges
  <1> QED
    BY <1>0, <1>p, <1>1, <1>2, <1>3, <1>4, <1>5, <1>6, <1>7, CallMade
    DEF TalkNext, ReadBegin, ReadAnswer, ReadKeep, WriteBegin, WriteBuffer,
        WriteAnswer, PlcChanges, plcVars, history

NewSub(h) == [id |-> made + 1, handle |-> h, sym |-> call.sym,
              auto |-> call.auto, last |-> plc[call.sym]]
NewNote(x) == [id |-> x.id, sym |-> x.sym, value |-> plc[x.sym]]

\* A registration is refused or gives a subscription that nothing knows.
LEMMA RegisterDoes ==
    ASSUME TypeInv, Register
    PROVE  /\ call.op = "add" /\ call.got = None /\ call.sym \in Sym
           /\ UNCHANGED <<opened, opens, store, list, auto, plcVars, dangling, lapsed>>
           /\ \/ /\ call' = Idle
                 /\ UNCHANGED <<made, subs, pending>>
              \/ \E h \in Handle :
                    /\ Live(h) = {}
                    /\ made' = made + 1 /\ made + 1 \in Id
                    /\ NewSub(h) \in Sub
                    /\ subs' = subs \cup {NewSub(h)}
                    /\ pending' = IF call.auto THEN Append(pending, NewNote(NewSub(h)))
                                  ELSE pending
                    /\ NewNote(NewSub(h)) \in Note
                    /\ call' \in Call
                    /\ call'.op = "add" /\ call'.sym = call.sym /\ call'.auto = call.auto
                    /\ call'.got = Key(NewSub(h))
                    /\ Key(NewSub(h)) \in Entry
  <1>1. /\ call \in Call /\ call.op = "add" /\ call.got = None
        /\ call.sym \in Sym /\ call.auto \in BOOLEAN
        /\ plc[call.sym] \in Value
        /\ made < MaxAdds /\ made \in 0 .. MaxAdds
    <2>1. call \in Call /\ call.op = "add" /\ call.got = None
      BY DEF Register, TypeInv, TypeOK
    <2>2. call.sym \in Sym /\ call.auto \in BOOLEAN
      BY <2>1, CallFacts
    <2> QED
      BY <2>1, <2>2 DEF TypeInv, TypeOK, BoundInv
  <1>2. made + 1 \in Id
    BY <1>1, NotificationsAssumption DEF Id
  <1>3. UNCHANGED <<opened, opens, store, list, auto, plcVars, dangling, lapsed>>
    BY DEF Register
  <1>4. CASE call' = Idle /\ UNCHANGED <<made, subs, pending>>
    BY <1>1, <1>3, <1>4
  <1>5. ASSUME NEW h \in Handle,
               Live(h) = {},
               made' = made + 1,
               subs' = subs \cup {NewSub(h)},
               pending' = IF call.auto THEN Append(pending, NewNote(NewSub(h)))
                          ELSE pending,
               call' = [call EXCEPT !.got = Key(NewSub(h))]
        PROVE  /\ made + 1 \in Id
               /\ NewSub(h) \in Sub
               /\ NewNote(NewSub(h)) \in Note
               /\ call' \in Call
               /\ call'.op = "add" /\ call'.sym = call.sym /\ call'.auto = call.auto
               /\ call'.got = Key(NewSub(h))
               /\ Key(NewSub(h)) \in Entry
    <2>1. NewSub(h) \in Sub /\ Key(NewSub(h)) \in Entry /\ NewNote(NewSub(h)) \in Note
      BY <1>1, <1>2 DEF NewSub, Sub, Key, Entry, NewNote, Note
    <2> HIDE DEF Id
    <2> QED
      BY <1>1, <1>2, <1>5, <2>1, CallGot
  <1>6. \/ call' = Idle /\ UNCHANGED <<made, subs, pending>>
        \/ \E h \in Handle :
              /\ Live(h) = {}
              /\ made' = made + 1
              /\ subs' = subs \cup {NewSub(h)}
              /\ pending' = IF call.auto THEN Append(pending, NewNote(NewSub(h)))
                            ELSE pending
              /\ call' = [call EXCEPT !.got = Key(NewSub(h))]
    BY DEF Register, NewSub, NewNote, Key
  <1>7. CASE \E h \in Handle :
              /\ Live(h) = {}
              /\ made' = made + 1
              /\ subs' = subs \cup {NewSub(h)}
              /\ pending' = IF call.auto THEN Append(pending, NewNote(NewSub(h)))
                            ELSE pending
              /\ call' = [call EXCEPT !.got = Key(NewSub(h))]
    <2>1. PICK h \in Handle :
              /\ Live(h) = {}
              /\ made' = made + 1
              /\ subs' = subs \cup {NewSub(h)}
              /\ pending' = IF call.auto THEN Append(pending, NewNote(NewSub(h)))
                            ELSE pending
              /\ call' = [call EXCEPT !.got = Key(NewSub(h))]
      BY <1>7
    <2> QED
      BY <1>1, <1>3, <1>5, <2>1
  <1> QED
    BY <1>4, <1>6, <1>7

\* What was answered is stored, listed, and remembered by auto_update.
LEMMA StoreDoes ==
    ASSUME TypeInv, Store
    PROVE  /\ call.op = "add" /\ call.got \in Entry /\ call.sym \in Sym
           /\ call.auto \in BOOLEAN
           /\ call' = Idle
           /\ UNCHANGED <<opened, opens, subs, pending, plcVars, history>>
           /\ store' = [store EXCEPT ![call.got.handle] = call.got.id]
           /\ \A s \in Sym \ {call.sym} : list'[s] = list[s] /\ auto'[s] = auto[s]
           /\ list'[call.sym] = Append(list[call.sym], call.got)
           /\ call.auto => auto'[call.sym] = call.got
           /\ ~call.auto => auto' = auto
           /\ list' \in [Sym -> Listing]
           /\ auto' \in [Sym -> Entry \cup {None}]
           /\ store' \in [Handle -> Id \cup {None}]
           /\ store'[call.got.handle] = call.got.id
           /\ \A h \in Handle \ {call.got.handle} : store'[h] = store[h]
           /\ Len(list[call.sym]) < MaxListed
  <1>1. /\ call.op = "add" /\ call.got \in Entry /\ call.sym \in Sym
        /\ call.auto \in BOOLEAN
        /\ call' = Idle
    BY CallFacts DEF TypeInv, TypeOK, Store
  <1>2. call.got.handle \in Handle /\ call.got.id \in Id
    BY <1>1 DEF Entry
  <1>3. /\ list \in [Sym -> Listing] /\ auto \in [Sym -> Entry \cup {None}]
        /\ store \in [Handle -> Id \cup {None}]
        /\ Len(list[call.sym]) < MaxListed
    BY <1>1 DEF TypeInv, TypeOK, BoundInv, Listing
  <1>4. Append(list[call.sym], call.got) \in Listing
    BY <1>1, <1>3, AppendFacts DEF Listing
  <1>5. /\ list' = [list EXCEPT ![call.sym] = Append(list[call.sym], call.got)]
        /\ auto' = IF call.auto THEN [auto EXCEPT ![call.sym] = call.got] ELSE auto
        /\ store' = [store EXCEPT ![call.got.handle] = call.got.id]
        /\ UNCHANGED <<opened, opens, subs, pending, plcVars, history>>
    BY DEF Store
  <1>6. /\ \A s \in Sym \ {call.sym} : list'[s] = list[s]
        /\ list'[call.sym] = Append(list[call.sym], call.got)
        /\ list' \in [Sym -> Listing]
    BY <1>1, <1>3, <1>4, <1>5
  <1>7. /\ \A s \in Sym \ {call.sym} : auto'[s] = auto[s]
        /\ call.auto => auto'[call.sym] = call.got
        /\ ~call.auto => auto' = auto
        /\ auto' \in [Sym -> Entry \cup {None}]
    BY <1>1, <1>3, <1>5
  <1>8. /\ store' \in [Handle -> Id \cup {None}]
        /\ store'[call.got.handle] = call.got.id
        /\ \A h \in Handle \ {call.got.handle} : store'[h] = store[h]
    BY <1>2, <1>3, <1>5
  <1> QED
    BY <1>1, <1>3, <1>5, <1>6, <1>7, <1>8

\* The user begins a registration; on a closed connection it lists nothing.
LEMMA AddDoes ==
    ASSUME TypeInv, NEW s \in Sym, NEW isAuto \in BOOLEAN, Add(s, isAuto)
    PROVE  /\ call = Idle /\ call' \in Call
           /\ UNCHANGED <<opened, opens, subs, store, auto, pending, plcVars, history>>
           /\ isAuto => auto[s] = None
           /\ \/ /\ opened
                 /\ call'.op = "add" /\ call'.sym = s /\ call'.auto = isAuto
                 /\ call'.got = None
                 /\ list' = list
                 /\ made < MaxAdds
                 /\ Len(list[s]) < MaxListed
              \/ /\ ~opened
                 /\ call' = Idle
                 /\ list' \in [Sym -> Listing]
                 /\ list'[s] = Append(list[s], None)
                 /\ \A t \in Sym \ {s} : list'[t] = list[t]
                 /\ Len(list[s]) < MaxListed
  <1>1. list \in [Sym -> Listing]
    BY DEF TypeInv, TypeOK, Listing
  <1>2. Append(list[s], None) \in Listing
    BY <1>1, AppendFacts DEF Listing
  <1>3. CASE opened
    <2>1. call' = [op |-> "add", sym |-> s, auto |-> isAuto, got |-> None]
      BY <1>3 DEF Add
    <2> QED
      BY <1>3, <2>1, CallMade DEF Add
  <1>4. CASE ~opened
    <2>1. list' = [list EXCEPT ![s] = Append(list[s], None)]
      BY <1>4 DEF Add
    <2>2. /\ list' \in [Sym -> Listing]
          /\ list'[s] = Append(list[s], None)
          /\ \A t \in Sym \ {s} : list'[t] = list[t]
      BY <1>1, <1>2, <2>1
    <2> QED
      BY <1>4, <2>2, CallMade DEF Add
  <1> QED
    BY <1>3, <1>4

\* What a deletion takes off the target has the number of the entry; either it
\* is the entry's own or its symbol lapses.
LEMMA DeleteDoes ==
    ASSUME TypeInv, SubsInv, NEW e \in Entry \cup {None}, NEW ok \in BOOLEAN,
           call.sym \in Sym, Delete(e, ok)
    PROVE  /\ subs' \subseteq subs
           /\ store' \in [Handle -> Id \cup {None}]
           /\ dangling' \subseteq Id
           /\ lapsed' \subseteq Sym /\ lapsed \subseteq lapsed'
           /\ ok => e # None
           /\ ~ok => call.sym \in lapsed'
           /\ \A x \in subs' : /\ ok => x.handle # e.handle
                               /\ \/ store'[x.handle] = store[x.handle]
                                  \/ x.id \in dangling'
                               /\ x.id \in dangling => x.id \in dangling'
           /\ \A x \in subs : x \notin subs' =>
                 e # None /\ x.handle = e.handle /\ (x.id = e.id \/ x.sym \in lapsed')
  <1>0. /\ store \in [Handle -> Id \cup {None}]
        /\ dangling \subseteq Id
        /\ lapsed \subseteq Sym
        /\ subs \subseteq Sub
        /\ \A x \in subs : x.id \in Id /\ x.handle \in Handle /\ x.sym \in Sym
    BY DEF TypeInv, TypeOK, Sub
  <1>1. CASE e # None /\ ~opened /\ ok /\ UNCHANGED <<subs, store, dangling, lapsed>>
    BY <1>0, <1>1 DEF SubsInv
  <1>2. CASE e = None /\ ~ok /\ lapsed' = lapsed \cup {call.sym}
             /\ UNCHANGED <<subs, store, dangling>>
    BY <1>0, <1>2
  <1>3. CASE /\ e # None
             /\ ~ok
             /\ store' = [store EXCEPT ![e.handle] = None]
             /\ dangling' = dangling \cup {x.id : x \in Live(e.handle)}
             /\ lapsed' = lapsed \cup {call.sym}
             /\ UNCHANGED subs
    <2>1. e.handle \in Handle
      BY <1>3 DEF Entry
    <2>2. store' \in [Handle -> Id \cup {None}]
      BY <1>0, <1>3, <2>1
    <2>3. ASSUME NEW x \in subs
          PROVE  /\ store'[x.handle] = store[x.handle] \/ x.id \in dangling'
                 /\ x.id \in dangling => x.id \in dangling'
      <3>1. x.handle # e.handle => store'[x.handle] = store[x.handle]
        BY <1>0, <1>3, <2>1
      <3>2. x.handle = e.handle => x.id \in dangling'
        BY <1>3 DEF Live
      <3> QED
        BY <1>3, <3>1, <3>2
    <2>4. dangling' \subseteq Id
      BY <1>0, <1>3 DEF Live
    <2> QED
      BY <1>0, <1>3, <2>2, <2>3, <2>4
  <1>4. CASE /\ e # None
             /\ subs' = subs \ Live(e.handle)
             /\ store' = [store EXCEPT ![e.handle] = None]
             /\ lapsed' = lapsed \cup {x.sym : x \in {y \in Live(e.handle) : y.id # e.id}}
                                 \cup (IF ok THEN {} ELSE {call.sym})
             /\ dangling' = dangling \ {x.id : x \in Live(e.handle)}
    <2>1. e.handle \in Handle
      BY <1>4 DEF Entry
    <2>2. store' \in [Handle -> Id \cup {None}]
      BY <1>0, <1>4, <2>1
    <2>3. /\ lapsed' \subseteq Sym /\ lapsed \subseteq lapsed'
          /\ ~ok => call.sym \in lapsed'
      BY <1>0, <1>4 DEF Live
    <2>4. ASSUME NEW x \in subs'
          PROVE  /\ x.handle # e.handle
                 /\ store'[x.handle] = store[x.handle]
                 /\ x.id \in dangling => x.id \in dangling'
      <3>1. x \in subs /\ x.handle # e.handle
        BY <1>4 DEF Live
      <3>2. \A y \in Live(e.handle) : y.id # x.id
        BY <3>1 DEF Live, SubsInv
      <3> QED
        BY <1>0, <1>4, <2>1, <3>1, <3>2
    <2>5. ASSUME NEW x \in subs, x \notin subs'
          PROVE  x.handle = e.handle /\ (x.id = e.id \/ x.sym \in lapsed')
      BY <1>4, <2>5 DEF Live
    <2> QED
      BY <1>0, <1>4, <2>2, <2>3, <2>4, <2>5
  <1> QED
    BY <1>1, <1>2, <1>3, <1>4 DEF Delete

\* A deletion begins with a listed entry, or that of auto_update; if this one
\* is not listed, auto_update is just reset.
LEMMA DelBeginDoes ==
    ASSUME TypeInv, NEW s \in Sym, NEW o \in {"del", "auto_off"}, DelBegin(s, o)
    PROVE  /\ call = Idle /\ call' \in Call
           /\ UNCHANGED <<opened, opens, subs, store, list, pending, plcVars, history>>
           /\ \/ /\ auto' = auto
                 /\ call'.op = o /\ call'.sym = s
                 /\ call'.entry \in Entry
                 /\ \/ /\ o = "del"
                       /\ call'.entry # auto[s]
                       /\ \E i \in 1 .. Len(list[s]) : list[s][i] = call'.entry
                    \/ /\ o = "auto_off"
                       /\ call'.entry = auto[s]
              \/ /\ call' = Idle
                 /\ \A i \in 1 .. Len(list[s]) : list[s][i] # auto[s]
                 /\ auto' \in [Sym -> Entry \cup {None}]
                 /\ auto'[s] = None
                 /\ \A t \in Sym \ {s} : auto'[t] = auto[t]
  <1>1. /\ call = Idle
        /\ UNCHANGED <<opened, opens, subs, store, list, pending, plcVars, history>>
    BY DEF DelBegin
  <1>2. CASE /\ o = "del"
             /\ \E i \in DOMAIN list[s] :
                   /\ list[s][i] # None
                   /\ list[s][i] # auto[s]
                   /\ call' = [op |-> o, sym |-> s, entry |-> list[s][i]]
             /\ UNCHANGED auto
    <2>1. PICK i \in 1 .. Len(list[s]) :
              /\ list[s][i] # None
              /\ list[s][i] # auto[s]
              /\ call' = [op |-> o, sym |-> s, entry |-> list[s][i]]
      BY <1>2, ListFacts
    <2>2. list[s][i] \in Entry
      BY <2>1, ListFacts
    <2>3. call' \in Call
      BY <2>1, <2>2, CallMade
    <2> QED
      BY <1>1, <1>2, <2>1, <2>2, <2>3
  <1>3. CASE /\ o = "auto_off"
             /\ auto[s] # None
             /\ IF IsListed(s, auto[s])
                THEN /\ call' = [op |-> o, sym |-> s, entry |-> auto[s]]
                     /\ UNCHANGED auto
                ELSE /\ auto' = [auto EXCEPT ![s] = None]
                     /\ UNCHANGED call
    <2>1. auto[s] \in Entry
      BY <1>3, ListFacts
    <2>2. CASE IsListed(s, auto[s])
      <3>1. call' = [op |-> o, sym |-> s, entry |-> auto[s]] /\ auto' = auto
        BY <1>3, <2>2
      <3>2. call' \in Call
        BY <2>1, <3>1, CallMade
      <3> QED
        BY <1>1, <1>3, <2>1, <3>1, <3>2
    <2>3. CASE ~IsListed(s, auto[s])
      <3>1. auto' = [auto EXCEPT ![s] = None] /\ call' = call
        BY <1>3, <2>3
      <3>2. \A i \in 1 .. Len(list[s]) : list[s][i] # auto[s]
        BY <2>3, ListFacts DEF IsListed, SameEntry
      <3>3. auto \in [Sym -> Entry \cup {None}]
        BY DEF TypeInv, TypeOK
      <3> QED
        BY <1>1, <3>1, <3>2, <3>3, CallMade
    <2> QED
      BY <2>2, <2>3
  <1> QED
    BY <1>2, <1>3 DEF DelBegin

LEMMA DelDoes ==
    ASSUME TypeInv, Del
    PROVE  /\ call.op \in {"del", "auto_off"} /\ call.sym \in Sym
           /\ call.entry \in Entry \cup {None}
           /\ call' = Idle
           /\ UNCHANGED <<opened, opens, pending, plcVars, made>>
           /\ list' \in [Sym -> Listing]
           /\ auto' \in [Sym -> Entry \cup {None}]
           /\ \A t \in Sym \ {call.sym} : list'[t] = list[t] /\ auto'[t] = auto[t]
           /\ \E ok \in BOOLEAN :
                 /\ Delete(call.entry, ok)
                 /\ ~ok => list' = list /\ auto' = auto
                 /\ ok => list'[call.sym] = Without(list[call.sym], call.entry)
                 /\ IF ok /\ call.op = "auto_off" THEN auto'[call.sym] = None
                    ELSE auto' = auto
  <1>1. /\ call.op \in {"del", "auto_off"} /\ call.sym \in Sym
        /\ call.entry \in Entry \cup {None}
    BY CallFacts DEF TypeInv, TypeOK, Del
  <1>2. /\ list \in [Sym -> Listing] /\ auto \in [Sym -> Entry \cup {None}]
    BY DEF TypeInv, TypeOK, Listing
  <1>3. Without(list[call.sym], call.entry) \in Listing
    <2>1. list[call.sym] \in Listing
      BY <1>1, <1>2
    <2>2. \A k \in 1 .. Len(list[call.sym]) : RemoveAt(list[call.sym], k) \in Listing
      BY <2>1, RemoveFacts DEF Listing
    <2> QED
      BY <2>1, <2>2, WithoutFacts
  <1>4. PICK ok \in BOOLEAN :
            /\ Delete(call.entry, ok)
            /\ list' = IF ok THEN [list EXCEPT ![call.sym] =
                                      Without(list[call.sym], call.entry)]
                       ELSE list
            /\ auto' = IF ok /\ call.op = "auto_off"
                       THEN [auto EXCEPT ![call.sym] = None] ELSE auto
    BY DEF Del
  <1>5. /\ list' \in [Sym -> Listing]
        /\ \A t \in Sym \ {call.sym} : list'[t] = list[t]
        /\ ok => list'[call.sym] = Without(list[call.sym], call.entry)
        /\ ~ok => list' = list
    BY <1>1, <1>2, <1>3, <1>4
  <1>6. /\ auto' \in [Sym -> Entry \cup {None}]
        /\ \A t \in Sym \ {call.sym} : auto'[t] = auto[t]
        /\ ~ok => auto' = auto
        /\ IF ok /\ call.op = "auto_off" THEN auto'[call.sym] = None
           ELSE auto' = auto
    BY <1>1, <1>2, <1>4
  <1>7. call' = Idle /\ UNCHANGED <<opened, opens, pending, plcVars, made>>
    BY DEF Del
  <1> QED
    BY <1>1, <1>4, <1>5, <1>6, <1>7

LEMMA ClearBeginDoes ==
    ASSUME TypeInv, NEW s \in Sym, NEW dying \in BOOLEAN, ClearBegin(s, dying)
    PROVE  /\ call = Idle
           /\ call' \in Call /\ call'.op = "clear" /\ call'.sym = s /\ call'.next = 1
           /\ UNCHANGED <<opened, opens, subs, store, list, auto, pending, plcVars,
                          history>>
  <1>1. 1 \in 1 .. MaxListed + 1
    BY NotificationsAssumption
  <1> QED
    BY <1>1, CallMade DEF ClearBegin

\* clear deletes the next entry of the list, or is done and empties it.
LEMMA ClearDoes ==
    ASSUME TypeInv, Clear
    PROVE  /\ call.op = "clear" /\ call.sym \in Sym /\ call.next \in Nat \ {0}
           /\ call' \in Call
           /\ UNCHANGED <<opened, opens, pending, plcVars, made>>
           /\ \/ /\ call.next \in 1 .. Len(list[call.sym])
                 /\ list[call.sym][call.next] \in Entry \cup {None}
                 /\ UNCHANGED <<list, auto>>
                 /\ \E ok \in BOOLEAN :
                       /\ Delete(list[call.sym][call.next], ok)
                       /\ ~ok => call' = Idle
                       /\ ok => /\ call'.op = "clear" /\ call'.sym = call.sym
                                /\ call'.next = call.next + 1
              \/ /\ call.next > Len(list[call.sym])
                 /\ call' = Idle
                 /\ list' \in [Sym -> Listing]
                 /\ auto' \in [Sym -> Entry \cup {None}]
                 /\ list'[call.sym] = <<>> /\ auto'[call.sym] = None
                 /\ \A t \in Sym \ {call.sym} : list'[t] = list[t] /\ auto'[t] = auto[t]
                 /\ lapsed' = lapsed \ {call.sym}
                 /\ UNCHANGED <<subs, store, dangling>>
  <1>1. /\ call \in Call /\ call.op = "clear" /\ call.sym \in Sym
        /\ call.next \in 1 .. MaxListed + 1
        /\ MaxListed \in Nat
    BY CallFacts, NotificationsAssumption DEF TypeInv, TypeOK, Clear
  <1>2. UNCHANGED <<opened, opens, pending, plcVars, made>>
    BY DEF Clear
  <1>3. CASE call.next <= Len(list[call.sym])
    <2>1. call.next \in 1 .. Len(list[call.sym]) /\ call.next \in 1 .. MaxListed
      BY <1>1, <1>3, ListFacts
    <2>2. list[call.sym][call.next] \in Entry \cup {None}
      BY <1>1, <2>1, ListFacts
    <2>3. PICK ok \in BOOLEAN :
              /\ Delete(list[call.sym][call.next], ok)
              /\ call' = IF ok THEN [call EXCEPT !.next = @ + 1] ELSE Idle
              /\ UNCHANGED <<list, auto>>
      BY <1>3 DEF Clear
    <2>4. ok => /\ call' \in Call /\ call'.op = "clear" /\ call'.sym = call.sym
                /\ call'.next = call.next + 1
      BY <1>1, <2>1, <2>3, CallNext
    <2>5. ~ok => call' = Idle /\ call' \in Call
      BY <2>3, CallMade
    <2> QED
      BY <1>1, <1>2, <2>1, <2>2, <2>3, <2>4, <2>5
  <1>4. CASE call.next > Len(list[call.sym])
    <2>1. /\ list' = [list EXCEPT ![call.sym] = <<>>]
          /\ auto' = [auto EXCEPT ![call.sym] = None]
          /\ lapsed' = lapsed \ {call.sym}
          /\ call' = Idle
          /\ UNCHANGED <<subs, store, dangling>>
      <3>1. ~(call.next <= Len(list[call.sym]))
        BY <1>1, <1>4, ListFacts
      <3> QED
        BY <3>1 DEF Clear
    <2>2. /\ list \in [Sym -> Listing] /\ auto \in [Sym -> Entry \cup {None}]
          /\ <<>> \in Listing
      BY DEF TypeInv, TypeOK, Listing
    <2>3. /\ list' \in [Sym -> Listing]
          /\ auto' \in [Sym -> Entry \cup {None}]
          /\ list'[call.sym] = <<>> /\ auto'[call.sym] = None
          /\ \A t \in Sym \ {call.sym} : list'[t] = list[t] /\ auto'[t] = auto[t]
      BY <1>1, <2>1, <2>2
    <2> QED
      BY <1>1, <1>2, <1>4, <2>1, <2>3, CallMade
  <1>5. Len(list[call.sym]) \in Nat
    BY <1>1, ListFacts
  <1> QED
    BY <1>1, <1>3, <1>4, <1>5

\* A new sample replaces the last one and is notified.
LEMMA SampleDoes ==
    ASSUME TypeInv, NEW x \in subs, Sample(x)
    PROVE  /\ x \in Sub /\ x.auto
           /\ \E y \in Sub :
                 /\ y.id = x.id /\ y.handle = x.handle /\ y.sym = x.sym /\ y.auto
                 /\ y.last = plc[x.sym]
                 /\ Key(y) = Key(x)
                 /\ subs' = (subs \ {x}) \cup {y}
           /\ NewNote(x) \in Note
           /\ pending' = Append(pending, NewNote(x))
           /\ UNCHANGED <<opened, opens, store, list, auto, call, plcVars, history>>
  <1>1. x \in Sub /\ plc[x.sym] \in Value /\ x.auto
    <2>1. x \in Sub /\ plc \in [Sym -> Value]
      BY DEF TypeInv, TypeOK
    <2> QED
      BY <2>1 DEF Sample, Sub
  <1>2. NewNote(x) \in Note
    BY <1>1 DEF NewNote, Note, Sub
  <1> DEFINE y == [x EXCEPT !.last = plc[x.sym]]
  <1>3. /\ y \in Sub
        /\ y.id = x.id /\ y.handle = x.handle /\ y.sym = x.sym /\ y.auto
        /\ y.last = plc[x.sym]
    BY <1>1 DEF Sub
  <1>4. Key(y) = Key(x)
    BY <1>3 DEF Key
  <1>5. /\ subs' = (subs \ {x}) \cup {y}
        /\ pending' = Append(pending, NewNote(x))
        /\ UNCHANGED <<opened, opens, store, list, auto, call, plcVars, history>>
    BY DEF Sample, NewNote
  <1> QED
    BY <1>1, <1>2, <1>3, <1>4, <1>5

LEMMA CallbackDoes ==
    ASSUME TypeInv, Callback
    PROVE  /\ pending # <<>> /\ Head(pending) = pending[1] /\ pending[1] \in Note
           /\ pending' = Tail(pending) /\ pending' \in Seq(Note)
           /\ Len(pending) \in Nat \ {0}
           /\ Len(pending') = Len(pending) - 1
           /\ \A n \in 1 .. Len(pending') : pending'[n] = pending[n + 1]
           /\ UNCHANGED <<opened, opens, subs, store, list, auto, plc, call, history>>
           /\ ahead' \subseteq ahead
           /\ IF \E x \in subs : x.id = pending[1].id
              THEN /\ buffer' = [buffer EXCEPT ![pending[1].sym] = pending[1].value]
                   /\ ahead' = ahead \ {pending[1].sym}
              ELSE UNCHANGED <<buffer, ahead>>
  <1>1. pending # <<>> /\ pending' = Tail(pending)
    BY DEF Callback
  <1>2. Head(pending) = pending[1] /\ pending[1] \in Note /\ Tail(pending) \in Seq(Note)
        /\ Len(pending) \in Nat \ {0}
        /\ Len(Tail(pending)) = Len(pending) - 1
        /\ \A n \in 1 .. Len(Tail(pending)) : Tail(pending)[n] = pending[n + 1]
    BY <1>1, PendingFacts, HeadTail
  <1>3. /\ UNCHANGED <<opened, opens, subs, store, list, auto, plc, call, history>>
        /\ IF \E x \in subs : x.id = Head(pending).id
              THEN /\ buffer' = [buffer EXCEPT ![Head(pending).sym] = Head(pending).value]
                   /\ ahead' = ahead \ {Head(pending).sym}
              ELSE UNCHANGED <<buffer, ahead>>
    BY DEF Callback
  <1> QED
    BY <1>1, <1>2, <1>3

LEMMA StepCases ==
    ASSUME Next
    PROVE  \/ Open
           \/ Close
           \/ \E s \in Sym : \E isAuto \in BOOLEAN : Add(s, isAuto)
           \/ Register
           \/ Store
           \/ \E s \in Sym : \E o \in {"del", "auto_off"} : DelBegin(s, o)
           \/ Del
           \/ \E s \in Sym : \E dying \in BOOLEAN : ClearBegin(s, dying)
           \/ Clear
           \/ TalkNext
           \/ \E x \in subs : Sample(x)
           \/ Callback
  BY DEF Next, TalkNext

\* The variables' types with the names of this module, objects apart.
ObjectsTyped == keeps \in [Handle -> Sym \cup {None}] /\ life \in [Sym -> Life]

Typed ==
    /\ opened \in BOOLEAN
    /\ opens \in 0 .. MaxOpens
    /\ subs \subseteq Sub
    /\ store \in [Handle -> Id \cup {None}]
    /\ list \in [Sym -> Listing]
    /\ auto \in [Sym -> Entry \cup {None}]
    /\ buffer \in [Sym -> Value \cup {None}]
    /\ plc \in [Sym -> Value]
    /\ pending \in Seq(Note)
    /\ call \in Call
    /\ made \in 0 .. MaxAdds
    /\ dangling \subseteq Id
    /\ lapsed \subseteq Sym
    /\ ahead \subseteq Sym

LEMMA TypedIs == TypeOK <=> Typed /\ ObjectsTyped
  BY DEF TypeOK, Typed, ObjectsTyped, Listing, Note

\* Which symbols are kept alive, and what destructors did.
LEMMA ObjectsStep ==
    ASSUME TypeInv, [Next]_vars
    PROVE  ObjectsTyped'
  <1>0. keeps \in [Handle -> Sym \cup {None}] /\ life \in [Sym -> Life]
    BY DEF TypeInv, TypeOK
  <1>d. ASSUME NEW e \in Entry \cup {None}, NEW ok \in BOOLEAN, Delete(e, ok)
        PROVE  keeps' \in [Handle -> Sym \cup {None}]
    <2>1. \/ UNCHANGED keeps
          \/ e # None /\ keeps' = [keeps EXCEPT ![e.handle] = None]
      <3>1. CASE UNCHANGED <<subs, store, keeps, dangling, lapsed>>
        BY <3>1
      <3>2. CASE UNCHANGED <<subs, store, keeps, dangling>>
        BY <3>2
      <3>3. CASE e # None /\ keeps' = [keeps EXCEPT ![e.handle] = None]
        BY <3>3
      <3> QED
        BY <1>d, <3>1, <3>2, <3>3, Zenon DEF Delete
    <2> QED
      BY <1>0, <2>1
  <1>e. ASSUME NEW s \in Sym, NEW how \in Life, Ends(s, how)
        PROVE  life' \in [Sym -> Life]
    BY <1>0, <1>e DEF Ends
  <1>1. CASE UNCHANGED objects
    BY <1>0, <1>1 DEF ObjectsTyped, objects
  <1>2. CASE Store
    <2>1. call.got \in Entry /\ call.sym \in Sym
      BY <1>2, StoreDoes
    <2>2. call.got.handle \in Handle /\ Kept \in Sym \cup {None}
      BY <2>1 DEF Entry, Kept
    <2>3. keeps' = [keeps EXCEPT ![call.got.handle] = Kept] /\ life' = life
      BY <1>2 DEF Store
    <2> QED
      BY <1>0, <2>2, <2>3 DEF ObjectsTyped
  <1>3. CASE Del
    <2>1. /\ call.entry \in Entry \cup {None}
          /\ \E ok \in BOOLEAN : Delete(call.entry, ok)
      BY <1>3, DelDoes
    <2>2. life' = life
      BY <1>3 DEF Del
    <2> QED
      BY <1>0, <1>d, <2>1, <2>2 DEF ObjectsTyped
  <1>4. ASSUME NEW s \in Sym, NEW dying \in BOOLEAN, ClearBegin(s, dying)
        PROVE  ObjectsTyped'
    <2>1. /\ keeps' = keeps
          /\ life' = IF dying THEN [life EXCEPT ![s] = "dying"] ELSE life
      BY <1>4 DEF ClearBegin
    <2> QED
      BY <1>0, <2>1 DEF ObjectsTyped, Life
  <1>5. CASE Clear
    <2>1. call.sym \in Sym /\ Len(list[call.sym]) \in Nat /\ call.next \in Nat
      BY <1>5, ClearDoes, ListFacts
    <2>2. CASE call.next <= Len(list[call.sym])
      <3>1. list[call.sym][call.next] \in Entry \cup {None}
        BY <1>5, <2>1, <2>2, ClearDoes
      <3>2. PICK ok \in BOOLEAN :
                /\ Delete(list[call.sym][call.next], ok)
                /\ life' = life \/ Ends(call.sym, "cut")
        BY <1>5, <2>2 DEF Clear
      <3> QED
        BY <1>0, <1>d, <1>e, <2>1, <3>1, <3>2 DEF ObjectsTyped, Life
    <2>3. CASE ~(call.next <= Len(list[call.sym]))
      <3>1. keeps' = keeps /\ Ends(call.sym, "gone")
        BY <1>5, <2>3 DEF Clear
      <3> QED
        BY <1>0, <1>e, <2>1, <3>1 DEF ObjectsTyped, Life
    <2> QED
      BY <2>2, <2>3
  <1>6. UNCHANGED objects \/ Store \/ Del \/ Clear
            \/ \E s \in Sym : \E dying \in BOOLEAN : ClearBegin(s, dying)
    BY StepCases
    DEF vars, objects, Open, Close, Add, Register, DelBegin, TalkNext, ReadBegin,
        ReadAnswer, ReadKeep, WriteBegin, WriteBuffer, WriteAnswer, PlcChanges,
        Sample, Callback
  <1> QED
    BY <1>1, <1>2, <1>3, <1>4, <1>5, <1>6

LEMMA TypeInit == Init => TypeInv
  <1> SUFFICES ASSUME Init PROVE Typed /\ ObjectsTyped /\ BoundInv
    BY TypedIs DEF TypeInv
  <1>1. Typed
    <2>1. <<>> \in Listing /\ <<>> \in Seq(Note) /\ Idle \in Call
      BY CallMade DEF Listing
    <2>2. 0 \in 0 .. MaxOpens /\ 0 \in 0 .. MaxAdds /\ Zero \in Value
      BY NotificationsAssumption
    <2> QED
      BY <2>1, <2>2 DEF Init, Typed
  <1>2. BoundInv
    BY NotificationsAssumption DEF Init, BoundInv, Idle
  <1>3. ObjectsTyped
    BY DEF Init, ObjectsTyped, Life
  <1> QED
    BY <1>1, <1>2, <1>3

LEMMA TypeStep ==
    ASSUME TypeInv, SubsInv, [Next]_vars
    PROVE  TypeInv'
  <1> SUFFICES Typed' /\ BoundInv'
    BY TypedIs, ObjectsStep, PTL DEF TypeInv
  <1>0. Typed /\ BoundInv
    BY TypedIs DEF TypeInv
  <1>b. MaxAdds \in Nat /\ MaxListed \in Nat /\ MaxOpens \in Nat
    BY NotificationsAssumption
  <1>i. Idle \in Call /\ Idle.op = "none"
    BY CallMade DEF Idle
  <1>1. CASE Open
    <2>1. call = Idle /\ call' = call /\ opened' = TRUE /\ opens' \in 0 .. MaxOpens
      BY <1>0, <1>1, <1>b DEF Open, Typed
    <2>2. UNCHANGED <<subs, store, list, auto, pending, plcVars, history>>
      BY <1>1 DEF Open
    <2> QED
      BY <1>0, <2>1, <2>2 DEF Typed, BoundInv, plcVars, history
  <1>2. CASE Close
    <2>1. /\ call = Idle /\ call' = call /\ opened' = FALSE /\ subs' = {}
          /\ pending' = <<>> /\ pending' \in Seq(Note)
          /\ dangling' = {} /\ lapsed' = lapsed \cup Listed
          /\ Listed \subseteq Sym
      BY <1>2 DEF Close, Listed
    <2>2. UNCHANGED <<opens, store, list, auto, plcVars, made>>
      BY <1>2 DEF Close
    <2> QED
      BY <1>0, <2>1, <2>2 DEF Typed, BoundInv, plcVars
  <1>3. ASSUME NEW s \in Sym, NEW isAuto \in BOOLEAN, Add(s, isAuto)
        PROVE  Typed' /\ BoundInv'
    <2>1. /\ UNCHANGED <<opened, opens, subs, store, auto, pending, plcVars, history>>
          /\ call' \in Call
          /\ list' = list \/ list' \in [Sym -> Listing]
      BY <1>3, AddDoes
    <2>2. Typed'
      BY <1>0, <2>1 DEF Typed, plcVars, history
    <2>3. CASE opened
      <3>1. /\ call'.op = "add" /\ call'.sym = s /\ list' = list
            /\ made < MaxAdds /\ made' = made
            /\ Len(list[s]) < MaxListed
        BY <1>3, <2>3, AddDoes DEF history
      <3> QED
        BY <1>0, <2>2, <3>1 DEF BoundInv
    <2>4. CASE ~opened
      <3>1. /\ call' = Idle
            /\ list'[s] = Append(list[s], None)
            /\ Len(list[s]) < MaxListed
            /\ \A t \in Sym \ {s} : list'[t] = list[t]
        BY <1>3, <2>4, AddDoes
      <3>2. Len(Append(list[s], None)) \in 0 .. MaxListed
        <4>1. Len(Append(list[s], None)) = Len(list[s]) + 1 /\ Len(list[s]) \in Nat
          BY ListFacts, AppendFacts DEF Listing
        <4> QED
          BY <1>b, <3>1, <4>1
      <3> QED
        BY <1>0, <1>i, <2>2, <3>1, <3>2 DEF BoundInv
    <2> QED
      BY <2>2, <2>3, <2>4
  <1>4. CASE Register
    <2>1. UNCHANGED <<opened, opens, store, list, auto, plcVars, dangling, lapsed>>
          /\ call.op = "add" /\ call.sym \in Sym
      BY <1>4, RegisterDoes
    <2>2. CASE call' = Idle /\ UNCHANGED <<made, subs, pending>>
      BY <1>0, <1>i, <2>1, <2>2 DEF Typed, BoundInv, plcVars
    <2>3. CASE ~(call' = Idle /\ UNCHANGED <<made, subs, pending>>)
      <3>1. PICK h \in Handle :
                /\ made' = made + 1 /\ made + 1 \in Id
                /\ NewSub(h) \in Sub
                /\ subs' = subs \cup {NewSub(h)}
                /\ pending' = IF call.auto THEN Append(pending, NewNote(NewSub(h)))
                              ELSE pending
                /\ NewNote(NewSub(h)) \in Note
                /\ call' \in Call
                /\ call'.op = "add" /\ call'.sym = call.sym
                /\ call'.got = Key(NewSub(h))
                /\ Key(NewSub(h)) \in Entry
        BY <1>4, <2>3, RegisterDoes
      <3>2. pending' \in Seq(Note)
        BY <1>0, <3>1, AppendFacts DEF Typed
      <3>3. made' \in 0 .. MaxAdds
        BY <1>b, <3>1 DEF Id
      <3>4. Typed'
        BY <1>0, <2>1, <3>1, <3>2, <3>3 DEF Typed, plcVars
      <3>5. call'.got # None
        BY <3>1, NotificationsAssumption
      <3> QED
        BY <1>0, <2>1, <3>1, <3>4, <3>5 DEF BoundInv
    <2> QED
      BY <2>2, <2>3
  <1>5. CASE Store
    <2>1. Typed'
      BY <1>0, <1>5, <1>i, StoreDoes DEF Typed, plcVars, history
    <2>2. /\ list'[call.sym] = Append(list[call.sym], call.got)
          /\ call.sym \in Sym /\ call.got \in Entry \cup {None}
          /\ Len(list[call.sym]) < MaxListed
          /\ \A t \in Sym \ {call.sym} : list'[t] = list[t]
          /\ call' = Idle
      BY <1>5, StoreDoes
    <2>3. Len(Append(list[call.sym], call.got)) \in 0 .. MaxListed
      <3>1. /\ Len(Append(list[call.sym], call.got)) = Len(list[call.sym]) + 1
            /\ Len(list[call.sym]) \in Nat
        BY <2>2, ListFacts, AppendFacts DEF Listing
      <3> QED
        BY <1>b, <2>2, <3>1
    <2> QED
      BY <1>0, <1>i, <2>1, <2>2, <2>3 DEF BoundInv
  <1>6. ASSUME NEW s \in Sym, NEW o \in {"del", "auto_off"}, DelBegin(s, o)
        PROVE  Typed' /\ BoundInv'
    <2>1. /\ UNCHANGED <<opened, opens, subs, store, list, pending, plcVars, history>>
          /\ call' \in Call /\ auto' \in [Sym -> Entry \cup {None}]
          /\ call'.op # "add"
      BY <1>0, <1>6, <1>i, DelBeginDoes DEF Typed
    <2> QED
      BY <1>0, <2>1 DEF Typed, BoundInv, plcVars, history
  <1>7. CASE Del
    <2>1. /\ call.sym \in Sym /\ call.entry \in Entry \cup {None}
          /\ call' = Idle
          /\ UNCHANGED <<opened, opens, pending, plcVars, made>>
          /\ list' \in [Sym -> Listing]
          /\ auto' \in [Sym -> Entry \cup {None}]
          /\ \A t \in Sym \ {call.sym} : list'[t] = list[t]
      BY <1>7, DelDoes
    <2>2. PICK ok \in BOOLEAN :
              /\ Delete(call.entry, ok)
              /\ ~ok => list' = list
              /\ ok => list'[call.sym] = Without(list[call.sym], call.entry)
      BY <1>7, DelDoes
    <2>3. /\ subs' \subseteq subs
          /\ store' \in [Handle -> Id \cup {None}]
          /\ dangling' \subseteq Id
          /\ lapsed' \subseteq Sym
      BY <2>1, <2>2, DeleteDoes
    <2>4. Typed'
      BY <1>0, <1>i, <2>1, <2>3 DEF Typed, plcVars
    <2>5. Len(Without(list[call.sym], call.entry)) \in 0 .. MaxListed
      <3>1. list[call.sym] \in Listing /\ Len(list[call.sym]) \in 0 .. MaxListed
        BY <2>1, ListFacts
      <3>2. \A k \in 1 .. Len(list[call.sym]) :
                Len(RemoveAt(list[call.sym], k)) = Len(list[call.sym]) - 1
        BY <3>1, RemoveFacts DEF Listing
      <3>3. PICK w : w = Without(list[call.sym], call.entry)
        OBVIOUS
      <3>4. \/ w = list[call.sym]
            \/ \E k \in 1 .. Len(list[call.sym]) : w = RemoveAt(list[call.sym], k)
        BY <3>1, <3>3, WithoutFacts
      <3>5. Len(w) \in 0 .. MaxListed
        BY <1>b, <3>1, <3>2, <3>4
      <3> QED
        BY <3>3, <3>5
    <2> QED
      BY <1>0, <1>i, <2>1, <2>2, <2>4, <2>5 DEF BoundInv
  <1>8. ASSUME NEW s \in Sym, NEW dying \in BOOLEAN, ClearBegin(s, dying)
        PROVE  Typed' /\ BoundInv'
    BY <1>0, <1>8, ClearBeginDoes DEF Typed, BoundInv, plcVars, history
  <1>9. CASE Clear
    <2>1. /\ call.op = "clear" /\ call.sym \in Sym
          /\ call' \in Call
          /\ UNCHANGED <<opened, opens, pending, plcVars, made>>
      BY <1>9, ClearDoes
    <2>2. CASE \E ok \in BOOLEAN :
                  /\ list[call.sym][call.next] \in Entry \cup {None}
                  /\ Delete(list[call.sym][call.next], ok)
                  /\ UNCHANGED <<list, auto>>
                  /\ call'.op # "add"
      <3>1. /\ subs' \subseteq subs
            /\ store' \in [Handle -> Id \cup {None}]
            /\ dangling' \subseteq Id
            /\ lapsed' \subseteq Sym
        BY <2>1, <2>2, DeleteDoes
      <3> QED
        BY <1>0, <2>1, <2>2, <3>1 DEF Typed, BoundInv, plcVars
    <2>3. CASE /\ call' = Idle
               /\ list' \in [Sym -> Listing]
               /\ auto' \in [Sym -> Entry \cup {None}]
               /\ list'[call.sym] = <<>>
               /\ \A t \in Sym \ {call.sym} : list'[t] = list[t]
               /\ lapsed' = lapsed \ {call.sym}
               /\ UNCHANGED <<subs, store, dangling>>
      <3>1. Typed'
        BY <1>0, <2>1, <2>3 DEF Typed, plcVars
      <3>2. Len(<<>>) \in 0 .. MaxListed
        BY <1>b
      <3>3. \A t \in Sym : Len(list'[t]) \in 0 .. MaxListed
        BY <1>0, <2>3, <3>2 DEF BoundInv
      <3> QED
        BY <1>i, <2>3, <3>1, <3>3 DEF BoundInv
    <2> QED
      BY <1>9, <1>i, <2>2, <2>3, ClearDoes
  <1>10. CASE TalkNext
    <2>1. /\ UNCHANGED <<opened, opens, subs, store, list, auto, pending, made,
                         dangling, lapsed>>
          /\ call' \in Call
          /\ buffer' \in [Sym -> Value \cup {None}]
          /\ plc' \in [Sym -> Value]
          /\ ahead' \subseteq Sym
          /\ call' = call \/ call'.op # "add"
      BY <1>10, TalkDoes
    <2> QED
      BY <1>0, <2>1 DEF Typed, BoundInv
  <1>11. ASSUME NEW x \in subs, Sample(x)
         PROVE  Typed' /\ BoundInv'
    <2>1. PICK y \in Sub : subs' = (subs \ {x}) \cup {y}
      BY <1>11, SampleDoes
    <2>2. /\ pending' = Append(pending, NewNote(x)) /\ NewNote(x) \in Note
          /\ UNCHANGED <<opened, opens, store, list, auto, call, plcVars, history>>
      BY <1>11, SampleDoes
    <2>3. pending' \in Seq(Note)
      BY <1>0, <2>2, AppendFacts DEF Typed
    <2> QED
      BY <1>0, <2>1, <2>2, <2>3 DEF Typed, BoundInv, plcVars, history
  <1>12. CASE Callback
    <2>1. /\ pending' \in Seq(Note) /\ pending[1] \in Note
          /\ UNCHANGED <<opened, opens, subs, store, list, auto, plc, call, history>>
          /\ ahead' \subseteq ahead
          /\ \/ buffer' = [buffer EXCEPT ![pending[1].sym] = pending[1].value]
             \/ buffer' = buffer
      BY <1>12, CallbackDoes
    <2>2. buffer' \in [Sym -> Value \cup {None}]
      BY <1>0, <2>1 DEF Typed, Note
    <2> QED
      BY <1>0, <2>1, <2>2 DEF Typed, BoundInv, history
  <1>13. CASE UNCHANGED vars
    BY <1>0, <1>13 DEF Typed, BoundInv, vars
  <1> QED
    BY <1>1, <1>2, <1>3, <1>4, <1>5, <1>6, <1>7, <1>8, <1>9, <1>10, <1>11,
       <1>12, <1>13, StepCases

-----------------------------------------------------------------------------
(* What a step leaves as it was *)

LEMMA KeyFacts ==
    ASSUME NEW x \in Sub
    PROVE  /\ Key(x) \in Entry /\ Key(x) # None
           /\ Key(x).id = x.id /\ Key(x).handle = x.handle
  <1>1. Key(x) \in Entry
    BY DEF Key, Sub, Entry
  <1> QED
    BY <1>1, NotificationsAssumption DEF Key

LEMMA SubFacts ==
    ASSUME TypeInv
    PROVE  /\ \A x \in subs : /\ x \in Sub /\ x.id \in Id /\ x.handle \in Handle
                              /\ x.sym \in Sym /\ x.auto \in BOOLEAN
                              /\ Key(x) \in Entry /\ Key(x) # None
                              /\ Key(x).id = x.id /\ Key(x).handle = x.handle
           /\ made \in Nat
  <1>1. subs \subseteq Sub /\ made \in Nat
    BY NotificationsAssumption DEF TypeInv, TypeOK
  <1>2. \A x \in subs : x \in Sub /\ x.id \in Id /\ x.handle \in Handle
                        /\ x.sym \in Sym /\ x.auto \in BOOLEAN
    BY <1>1 DEF Sub
  <1> QED
    BY <1>1, <1>2, KeyFacts

LEMMA AddingIs ==
    ASSUME NEW x
    PROVE  Adding(x) <=> call.op = "add" /\ call.got = Key(x)
  BY DEF Adding, Key

\* Subscriptions and what is remembered of them stay, another call is made.
LEMMA CallStep ==
    ASSUME SafeInv,
           UNCHANGED <<subs, store, list, auto, made, dangling, lapsed>>,
           opened => opened',
           \/ call' = call
           \/ /\ \A x \in subs : ~Adding(x)
              /\ call.op # "clear"
              /\ AddInv' /\ DelInv' /\ ClearInv'
    PROVE  SafeInv'
  <1>1. SubsInv'
    BY DEF SafeInv, SubsInv
  <1>2. ListInv'
    BY DEF SafeInv, ListInv
  <1>3. OwnerInv'
    BY DEF SafeInv, OwnerInv, Key
  <1>4. CASE call' = call
    <2>1. AddInv'
      BY <1>4 DEF SafeInv, AddInv, Key
    <2>2. DelInv'
      BY <1>4 DEF SafeInv, DelInv
    <2>3. ClearInv'
      BY <1>4 DEF SafeInv, ClearInv, Clearing, Key
    <2>4. AutoInv' /\ KeptInv' /\ CallbackAlive'
      BY <1>4 DEF SafeInv, AutoInv, KeptInv, CallbackAlive, Adding, Keeps, Key
    <2>5. StaleInv' /\ TrueInv'
      BY <1>4 DEF SafeInv, StaleInv, TrueInv, Clearing, IsLive, Key
    <2> QED
      BY <1>1, <1>2, <1>3, <2>1, <2>2, <2>3, <2>4, <2>5 DEF SafeInv
  <1>5. CASE /\ \A x \in subs : ~Adding(x)
             /\ call.op # "clear"
             /\ AddInv' /\ DelInv' /\ ClearInv'
    <2>1. AutoInv'
      BY <1>5 DEF SafeInv, AutoInv, Key
    <2>2. KeptInv'
      BY <1>5 DEF SafeInv, KeptInv, Keeps, Key
    <2>3. CallbackAlive'
      BY <1>5 DEF SafeInv, CallbackAlive
    <2>4. StaleInv'
      BY <1>5 DEF SafeInv, StaleInv, Clearing, IsLive, Key
    <2>5. TrueInv'
      BY <1>5 DEF SafeInv, TrueInv, Clearing, Key
    <2> QED
      BY <1>1, <1>2, <1>3, <1>5, <2>1, <2>2, <2>3, <2>4, <2>5 DEF SafeInv
  <1> QED
    BY <1>4, <1>5

\* Steps of a call that neither registers nor deletes.
LEMMA AsideStep ==
    ASSUME SafeInv,
           UNCHANGED <<subs, store, list, auto, made, dangling, lapsed>>,
           opened => opened',
           \/ call' = call
           \/ call.op \in {"none", "read", "write"} /\ call'.op \in {"none", "read", "write"}
    PROVE  SafeInv'
  <1>1. CASE call' = call
    BY <1>1, CallStep
  <1>2. CASE call.op \in {"none", "read", "write"} /\ call'.op \in {"none", "read", "write"}
    <2>1. \A x \in subs : ~Adding(x)
      BY <1>2 DEF Adding
    <2>2. AddInv' /\ DelInv' /\ ClearInv'
      BY <1>2 DEF AddInv, DelInv, ClearInv, Clearing
    <2> QED
      BY <1>2, <2>1, <2>2, CallStep
  <1> QED
    BY <1>1, <1>2

-----------------------------------------------------------------------------
(* Registration *)

LEMMA AddStep ==
    ASSUME TypeInv, SafeInv, NEW s \in Sym, NEW isAuto \in BOOLEAN, Add(s, isAuto)
    PROVE  SafeInv'
  <1>0. /\ call = Idle /\ call.op = "none"
        /\ UNCHANGED <<opened, subs, store, auto, made, dangling, lapsed>>
        /\ isAuto => auto[s] = None
    BY AddDoes DEF Idle, history
  <1>1. CASE opened
    <2>1. /\ call'.op = "add" /\ call'.sym = s /\ call'.auto = isAuto
          /\ call'.got = None
          /\ list' = list
      BY <1>1, AddDoes
    <2>2. AddInv' /\ DelInv' /\ ClearInv'
      BY <1>0, <1>1, <2>1 DEF AddInv, DelInv, ClearInv, Clearing
    <2>3. \A x \in subs : ~Adding(x)
      BY <1>0 DEF Adding
    <2> QED
      BY <1>0, <1>1, <2>1, <2>2, <2>3, CallStep
  <1>2. CASE ~opened
    <2>1. /\ call' = Idle /\ subs = {} /\ subs' = {}
          /\ list'[s] = Append(list[s], None)
          /\ \A t \in Sym \ {s} : list'[t] = list[t]
      BY <1>0, <1>2, AddDoes DEF SafeInv, SubsInv
    <2>2. ASSUME NEW t \in Sym, NEW i \in 1 .. Len(list'[t])
          PROVE  \/ list'[t][i] = None
                 \/ i \in 1 .. Len(list[t]) /\ list'[t][i] = list[t][i]
      <3>1. CASE t = s
        BY <2>1, <3>1, <2>2, ListFacts, AppendFacts DEF Listing
      <3>2. CASE t # s
        BY <2>1, <3>2
      <3> QED
        BY <3>1, <3>2
    <2>3. SubsInv' /\ OwnerInv' /\ AutoInv' /\ ClearInv' /\ KeptInv' /\ CallbackAlive'
      BY <2>1 DEF SubsInv, OwnerInv, AutoInv, ClearInv, KeptInv, CallbackAlive
    <2>4. AddInv' /\ DelInv'
      BY <2>1 DEF AddInv, DelInv, Idle
    <2>5. ListInv'
      <3>1. ASSUME NEW t \in Sym, NEW i \in 1 .. Len(list'[t]), list'[t][i] # None
            PROVE  i \in 1 .. Len(list[t]) /\ list'[t][i] = list[t][i]
        BY <2>2, <3>1
      <3>2. ASSUME NEW t \in Sym, NEW i \in 1 .. Len(list'[t]), list'[t][i] # None
            PROVE  list'[t][i].id <= made
        BY <3>1, <3>2 DEF SafeInv, ListInv
      <3>3. ASSUME NEW t \in Sym, NEW i \in 1 .. Len(list'[t]), NEW j \in 1 .. Len(list'[t]),
                   list'[t][i] = list'[t][j], list'[t][i] # None
            PROVE  i = j
        <4>1. i \in 1 .. Len(list[t]) /\ list'[t][i] = list[t][i]
          BY <3>1, <3>3
        <4>2. j \in 1 .. Len(list[t]) /\ list'[t][j] = list[t][j]
          BY <3>1, <3>3
        <4> QED
          BY <3>3, <4>1, <4>2 DEF SafeInv, ListInv
      <3> QED
        BY <1>0, <3>2, <3>3 DEF SafeInv, ListInv
    <2>6. StaleInv'
      BY <1>0, <2>1, <2>2 DEF SafeInv, StaleInv, IsLive, Clearing
    <2>7. TrueInv'
      BY <1>0, <2>1 DEF SafeInv, TrueInv, Clearing
    <2> QED
      BY <2>3, <2>4, <2>5, <2>6, <2>7 DEF SafeInv
  <1> QED
    BY <1>1, <1>2

LEMMA RegisterStep ==
    ASSUME TypeInv, SafeInv, Register
    PROVE  SafeInv'
  <1>0. /\ call.op = "add" /\ call.got = None /\ call.sym \in Sym
        /\ UNCHANGED <<opened, store, list, auto, dangling, lapsed>>
    BY RegisterDoes
  <1>1. \A x \in subs : ~Adding(x)
    BY <1>0, SubFacts, AddingIs
  <1>2. CASE call' = Idle /\ UNCHANGED <<made, subs, pending>>
    <2>1. AddInv' /\ DelInv' /\ ClearInv'
      BY <1>2 DEF AddInv, DelInv, ClearInv, Clearing, Idle
    <2> QED
      BY <1>0, <1>1, <1>2, <2>1, CallStep
  <1>3. CASE ~(call' = Idle /\ UNCHANGED <<made, subs, pending>>)
    <2>1. PICK h \in Handle :
              /\ Live(h) = {}
              /\ made' = made + 1
              /\ NewSub(h) \in Sub
              /\ subs' = subs \cup {NewSub(h)}
              /\ call'.op = "add" /\ call'.sym = call.sym /\ call'.auto = call.auto
              /\ call'.got = Key(NewSub(h))
      BY <1>3, RegisterDoes
    <2>2. PICK n : n = NewSub(h)
      OBVIOUS
    <2>3. /\ n \in Sub /\ n.id = made + 1 /\ n.handle = h /\ n.sym = call.sym
          /\ n.auto = call.auto
          /\ subs' = subs \cup {n} /\ call'.got = Key(n)
          /\ Key(n) # None /\ Key(n).id = n.id
      BY <2>1, <2>2, KeyFacts DEF NewSub
    <2>4. made \in Nat /\ made' = made + 1
      BY <2>1, SubFacts
    <2>5. SubsInv'
      <3>1. \A x \in subs : x.handle # h /\ x.id # n.id /\ x.id \in Nat
        BY <2>1, <2>3, <2>4, SubFacts DEF SafeInv, SubsInv, Live, Id
      <3>2. opened'
        BY <1>0 DEF SafeInv, AddInv
      <3> QED
        BY <2>3, <2>4, <3>1, <3>2 DEF SafeInv, SubsInv
    <2>6. ListInv'
      <3>1. /\ \A s \in Sym : auto[s] # None => auto[s].id \in Nat
            /\ \A s \in Sym : \A i \in 1 .. Len(list[s]) :
                  list[s][i] # None => list[s][i].id \in Nat
        BY ListFacts DEF Entry, Id
      <3> QED
        BY <1>0, <2>4, <3>1 DEF SafeInv, ListInv
    <2>7. /\ \A s \in Sym : auto[s] # Key(n)
          /\ \A s \in Sym : \A i \in 1 .. Len(list[s]) : list[s][i] # Key(n)
      BY <2>3, <2>4 DEF SafeInv, ListInv
    <2>8. AddInv'
      BY <1>0, <2>1, <2>3, <2>7 DEF SafeInv, AddInv
    <2>9. DelInv' /\ ClearInv'
      BY <2>1 DEF DelInv, ClearInv, Clearing
    <2>10. OwnerInv'
      BY <1>0, <2>3, <2>7 DEF SafeInv, OwnerInv
    <2>11. Adding(n)'
      BY <2>1, <2>3 DEF Adding, Key
    <2>12. AutoInv'
      BY <1>0, <1>1, <2>3, <2>11 DEF SafeInv, AutoInv
    <2>13. KeptInv'
      BY <1>0, <1>1, <2>3, <2>11 DEF SafeInv, KeptInv, Keeps
    <2>14. CallbackAlive'
      BY <1>0, <1>1, <2>3, <2>11 DEF SafeInv, CallbackAlive
    <2>15. StaleInv'
      BY <1>0, <2>3 DEF SafeInv, StaleInv, IsLive, Clearing
    <2>16. TrueInv'
      BY <1>0, <2>3 DEF SafeInv, TrueInv, Clearing
    <2> QED
      BY <2>5, <2>6, <2>8, <2>9, <2>10, <2>12, <2>13, <2>14, <2>15, <2>16
      DEF SafeInv
  <1> QED
    BY <1>2, <1>3

LEMMA StoreStep ==
    ASSUME TypeInv, SafeInv, Store
    PROVE  SafeInv'
  <1>0. /\ call.op = "add" /\ call.got \in Entry /\ call.got # None /\ call.sym \in Sym
        /\ call' = Idle
        /\ UNCHANGED <<opened, subs, made, dangling, lapsed>>
        /\ \A s \in Sym \ {call.sym} : list'[s] = list[s] /\ auto'[s] = auto[s]
        /\ list'[call.sym] = Append(list[call.sym], call.got)
        /\ call.auto => auto'[call.sym] = call.got
        /\ ~call.auto => auto' = auto
        /\ store'[call.got.handle] = call.got.id
        /\ \A h \in Handle \ {call.got.handle} : store'[h] = store[h]
    BY StoreDoes, NotificationsAssumption DEF history
  <1>1. PICK n \in subs : Key(n) = call.got /\ n.sym = call.sym /\ n.auto = call.auto
    BY <1>0 DEF SafeInv, AddInv
  <1>2. /\ n.id = call.got.id /\ n.handle = call.got.handle
        /\ \A s \in Sym : \A i \in 1 .. Len(list[s]) : list[s][i] # call.got
    BY <1>0, <1>1, SubFacts DEF SafeInv, AddInv
  <1>3. \A x \in subs : Key(x) = Key(n) => x = n
    BY SubFacts DEF SafeInv, SubsInv
  <1>4. ASSUME NEW s \in Sym, NEW i \in 1 .. Len(list'[s])
        PROVE  \/ i \in 1 .. Len(list[s]) /\ list'[s][i] = list[s][i]
               \/ s = call.sym /\ i = Len(list[s]) + 1 /\ list'[s][i] = call.got
    <2>1. CASE s = call.sym
      BY <1>0, <1>4, <2>1, ListFacts, AppendFacts DEF Listing
    <2>2. CASE s # call.sym
      BY <1>0, <2>2
    <2> QED
      BY <2>1, <2>2
  <1>5. ASSUME NEW s \in Sym, NEW i \in 1 .. Len(list[s])
        PROVE  i \in 1 .. Len(list'[s]) /\ list'[s][i] = list[s][i]
    <2>1. CASE s = call.sym
      BY <1>0, <2>1, ListFacts, AppendFacts DEF Listing
    <2>2. CASE s # call.sym
      BY <1>0, <2>2
    <2> QED
      BY <2>1, <2>2
  <1>6. Keeps(n)'
    <2>1. Len(list[call.sym]) + 1 \in 1 .. Len(list'[call.sym])
          /\ list'[call.sym][Len(list[call.sym]) + 1] = call.got
      BY <1>0, ListFacts, AppendFacts DEF Listing
    <2> QED
      BY <1>1, <2>1 DEF Keeps, Key
  <1>7. SubsInv'
    BY <1>0 DEF SafeInv, SubsInv
  <1>8. ListInv'
    <2>1. n.id <= made
      BY DEF SafeInv, SubsInv
    <2>2. ASSUME NEW s \in Sym, auto'[s] # None PROVE auto'[s].id <= made
      BY <1>0, <1>1, <1>2, <2>1, <2>2 DEF SafeInv, ListInv
    <2>3. ASSUME NEW s \in Sym, NEW i \in 1 .. Len(list'[s]), list'[s][i] # None
          PROVE  list'[s][i].id <= made
      BY <1>2, <1>4, <2>1, <2>3 DEF SafeInv, ListInv
    <2>4. ASSUME NEW s \in Sym, NEW i \in 1 .. Len(list'[s]), NEW j \in 1 .. Len(list'[s]),
                 list'[s][i] = list'[s][j], list'[s][i] # None
          PROVE  i = j
      <3>1. CASE list'[s][i] = call.got
        <4>1. s = call.sym /\ i = Len(list[s]) + 1
          BY <1>2, <1>4, <3>1
        <4>2. s = call.sym /\ j = Len(list[s]) + 1
          <5>1. list'[s][j] = call.got
            BY <2>4, <3>1
          <5> QED
            BY <1>2, <1>4, <5>1
        <4> QED
          BY <4>1, <4>2
      <3>2. CASE list'[s][i] # call.got
        <4>1. i \in 1 .. Len(list[s]) /\ list'[s][i] = list[s][i]
          BY <1>4, <3>2
        <4>2. j \in 1 .. Len(list[s]) /\ list'[s][j] = list[s][j]
          BY <1>4, <2>4, <3>2
        <4> QED
          BY <2>4, <4>1, <4>2 DEF SafeInv, ListInv
      <3> QED
        BY <3>1, <3>2
    <2> QED
      BY <1>0, <2>2, <2>3, <2>4 DEF ListInv
  <1>9. AddInv' /\ DelInv' /\ ClearInv'
    BY <1>0 DEF AddInv, DelInv, ClearInv, Clearing, Idle
  <1>10. OwnerInv'
    <2>1. ASSUME NEW x \in subs, NEW s \in Sym, auto'[s] = Key(x)
          PROVE  x.sym = s
      BY <1>0, <1>1, <1>3, <2>1 DEF SafeInv, OwnerInv
    <2>2. ASSUME NEW x \in subs, NEW s \in Sym, NEW i \in 1 .. Len(list'[s]),
                 list'[s][i] = Key(x)
          PROVE  x.sym = s
      BY <1>1, <1>3, <1>4, <2>2 DEF SafeInv, OwnerInv
    <2> QED
      BY <1>0, <2>1, <2>2 DEF OwnerInv, Key
  <1>11. \A x \in subs : x = n \/ ~Adding(x)
    BY <1>1, <1>3, AddingIs
  <1>12. AutoInv'
    <2>1. ASSUME NEW x \in subs, x.auto PROVE auto'[x.sym] = Key(x)
      <3>1. CASE x = n
        BY <1>0, <1>1, <2>1, <3>1
      <3>2. CASE x # n
        <4>1. auto[x.sym] = Key(x) /\ x.sym \in Sym /\ Key(x) # None
          BY <1>11, <2>1, <3>2, SubFacts DEF SafeInv, AutoInv
        <4> QED
          BY <1>0, <4>1 DEF SafeInv, AddInv
      <3> QED
        BY <3>1, <3>2
    <2> QED
      BY <1>0, <2>1 DEF AutoInv, Key
  <1>13. KeptInv'
    <2>1. ASSUME NEW x \in subs, x # n PROVE Keeps(x)'
      <3>1. Keeps(x) /\ x.sym \in Sym
        BY <1>11, <2>1, SubFacts DEF SafeInv, KeptInv
      <3> QED
        BY <1>5, <3>1 DEF Keeps, Key
    <2> QED
      BY <1>0, <1>6, <2>1 DEF KeptInv
  <1>14. CallbackAlive'
    <2>1. ASSUME NEW x \in subs
          PROVE  store'[x.handle] = x.id \/ x.id \in dangling
      <3>1. CASE x = n
        BY <1>0, <1>2, <3>1
      <3>2. CASE x # n
        <4>1. x.handle # n.handle /\ x.handle \in Handle
          BY <3>2, SubFacts DEF SafeInv, SubsInv
        <4>2. store[x.handle] = x.id \/ x.id \in dangling
          BY <1>11, <3>2 DEF SafeInv, CallbackAlive
        <4> QED
          BY <1>0, <1>2, <4>1, <4>2
      <3> QED
        BY <3>1, <3>2
    <2> QED
      BY <1>0, <2>1 DEF CallbackAlive
  <1>15. StaleInv'
    <2>1. ASSUME NEW s \in Sym, NEW i \in 1 .. Len(list'[s])
          PROVE  \/ s \in lapsed
                 \/ list'[s][i] = None
                 \/ IsLive(list'[s][i])
      <3>1. CASE list'[s][i] = call.got
        BY <1>1, <3>1 DEF IsLive
      <3>2. CASE i \in 1 .. Len(list[s]) /\ list'[s][i] = list[s][i]
        BY <1>0, <3>2 DEF SafeInv, StaleInv, Clearing
      <3> QED
        BY <1>4, <2>1, <3>1, <3>2
    <2> QED
      BY <1>0, <2>1 DEF StaleInv, IsLive, Key
  <1>16. TrueInv'
    <2>1. ASSUME NEW s \in Sym
          PROVE  \/ s \in lapsed
                 \/ auto'[s] = None
                 \/ \E x \in subs : x.auto /\ x.sym = s /\ Key(x) = auto'[s]
      <3>1. CASE s = call.sym /\ call.auto
        BY <1>0, <1>1, <3>1
      <3>2. CASE ~(s = call.sym /\ call.auto)
        <4>1. auto'[s] = auto[s]
          BY <1>0, <3>2
        <4> QED
          BY <1>0, <4>1 DEF SafeInv, TrueInv, Clearing
      <3> QED
        BY <3>1, <3>2
    <2> QED
      BY <1>0, <2>1 DEF TrueInv, Key
  <1> QED
    BY <1>7, <1>8, <1>9, <1>10, <1>12, <1>13, <1>14, <1>15, <1>16 DEF SafeInv

-----------------------------------------------------------------------------
(* Deletion *)

Once(l) == \A i, j \in 1 .. Len(l) : l[i] = l[j] /\ l[i] # None => i = j
Left(w, l, e) ==
    /\ \A i \in 1 .. Len(w) : \E j \in 1 .. Len(l) : w[i] = l[j]
    /\ \A j \in 1 .. Len(l) :
          ~SameEntry(l[j], e) => \E i \in 1 .. Len(w) : w[i] = l[j]
    /\ \A i \in 1 .. Len(w) : w[i] = e =>
          \E j \in 1 .. Len(l) : l[j] # e /\ SameEntry(l[j], e)

\* Without invents nothing and keeps what has another number.  If it keeps e,
\* it has removed another entry with the number of e.
LEMMA WithoutGives ==
    ASSUME NEW l \in Listing, NEW e \in Entry, NEW w, w = Without(l, e),
           Once(l)
    PROVE  Once(w) /\ Left(w, l, e)
  <1>0. e # None /\ SameEntry(e, e) /\ Len(l) \in Nat
    BY NotificationsAssumption, ElementFacts DEF SameEntry, Listing
  <1>1. CASE w = l /\ \A i \in 1 .. Len(l) : ~SameEntry(l[i], e)
    BY <1>0, <1>1 DEF Left
  <1>2. ASSUME NEW k \in 1 .. Len(l), SameEntry(l[k], e), w = RemoveAt(l, k)
        PROVE  Once(w) /\ Left(w, l, e)
    <2> DEFINE at(i) == IF i < k THEN i ELSE i + 1
    <2>1. Len(w) = Len(l) - 1
      BY <1>2, RemoveFacts DEF Listing
    <2>2. ASSUME NEW i \in 1 .. Len(w) PROVE w[i] = l[at(i)]
      <3>1. w[i] = IF i < k THEN l[i] ELSE l[i + 1]
        BY <1>2, <2>1, RemoveFacts DEF Listing
      <3> QED
        BY <3>1
    <2>3. /\ \A i \in 1 .. Len(w) : at(i) \in 1 .. Len(l) /\ at(i) # k
          /\ \A i, j \in 1 .. Len(w) : at(i) = at(j) => i = j
          /\ \A j \in 1 .. Len(l) : j # k => \E i \in 1 .. Len(w) : at(i) = j
      <3>1. ASSUME NEW j \in 1 .. Len(l), j # k
            PROVE  \E i \in 1 .. Len(w) : at(i) = j
        <4>1. CASE j < k
          BY <1>0, <2>1, <4>1
        <4>2. CASE j > k
          <5>1. j - 1 \in 1 .. Len(w) /\ at(j - 1) = j
            BY <1>0, <2>1, <4>2
          <5> QED
            BY <5>1
        <4> QED
          BY <1>0, <3>1, <4>1, <4>2
      <3>2. \A i \in 1 .. Len(w) : at(i) \in 1 .. Len(l) /\ at(i) # k
        BY <1>0, <2>1
      <3>3. \A i, j \in 1 .. Len(w) : at(i) = at(j) => i = j
        BY <1>0, <2>1
      <3> QED
        BY <3>1, <3>2, <3>3
    <2> HIDE DEF at
    <2>4. \A i \in 1 .. Len(w) : \E j \in 1 .. Len(l) : w[i] = l[j]
      BY <2>2, <2>3
    <2>5. ASSUME NEW i \in 1 .. Len(w), NEW j \in 1 .. Len(w), w[i] = w[j], w[i] # None
          PROVE  i = j
      <3>1. l[at(i)] = l[at(j)] /\ l[at(i)] # None
        BY <2>2, <2>5
      <3>2. at(i) = at(j)
        BY <2>3, <3>1 DEF Once
      <3> QED
        BY <2>3, <3>2
    <2>6. \A j \in 1 .. Len(l) :
              ~SameEntry(l[j], e) => \E i \in 1 .. Len(w) : w[i] = l[j]
      BY <1>2, <2>2, <2>3
    <2>7. ASSUME NEW i \in 1 .. Len(w), w[i] = e
          PROVE  \E j \in 1 .. Len(l) : l[j] # e /\ SameEntry(l[j], e)
      <3>1. l[at(i)] = e /\ at(i) \in 1 .. Len(l) /\ at(i) # k
        BY <2>2, <2>3, <2>7
      <3>2. l[k] # e
        BY <1>0, <3>1 DEF Once
      <3> QED
        BY <1>2, <3>2
    <2> QED
      BY <2>4, <2>5, <2>6, <2>7 DEF Once, Left
  <1> QED
    BY <1>1, <1>2, WithoutFacts

LEMMA DelBeginStep ==
    ASSUME TypeInv, SafeInv, NEW s \in Sym, NEW o \in {"del", "auto_off"}, DelBegin(s, o)
    PROVE  SafeInv'
  <1>0. /\ call = Idle /\ call.op = "none"
        /\ UNCHANGED <<opened, subs, store, list, made, dangling, lapsed>>
    BY DelBeginDoes DEF history, Idle
  <1>a. \A x \in subs : ~Adding(x)
    BY <1>0 DEF Adding
  <1>1. CASE /\ auto' = auto
             /\ call'.op = o /\ call'.sym = s
             /\ call'.entry \in Entry
             /\ \/ /\ o = "del"
                   /\ call'.entry # auto[s]
                   /\ \E i \in 1 .. Len(list[s]) : list[s][i] = call'.entry
                \/ /\ o = "auto_off"
                   /\ call'.entry = auto[s]
    <2>1. AddInv' /\ ClearInv'
      BY <1>1 DEF AddInv, ClearInv, Clearing
    <2>2. DelInv'
      BY <1>0, <1>1, NotificationsAssumption DEF DelInv
    <2> QED
      BY <1>0, <1>a, <1>1, <2>1, <2>2, CallStep
  <1>2. CASE /\ call' = Idle
             /\ \A i \in 1 .. Len(list[s]) : list[s][i] # auto[s]
             /\ auto'[s] = None
             /\ \A t \in Sym \ {s} : auto'[t] = auto[t]
    <2>1. SubsInv' /\ ListInv'
      BY <1>0, <1>2 DEF SafeInv, SubsInv, ListInv
    <2>2. AddInv' /\ DelInv' /\ ClearInv'
      BY <1>2 DEF AddInv, DelInv, ClearInv, Clearing, Idle
    <2>3. OwnerInv'
      <3>1. \A x \in subs : \A t \in Sym : auto'[t] = Key(x) => auto[t] = Key(x)
        BY <1>2, SubFacts
      <3> QED
        BY <1>0, <3>1 DEF SafeInv, OwnerInv
    <2>4. AutoInv'
      <3>1. ASSUME NEW x \in subs, x.auto PROVE auto'[x.sym] = Key(x)
        <4>1. auto[x.sym] = Key(x) /\ Keeps(x) /\ x.sym \in Sym
          BY <1>a, <3>1, SubFacts DEF SafeInv, AutoInv, KeptInv
        <4>2. x.sym # s
          BY <1>2, <4>1 DEF Keeps
        <4> QED
          BY <1>2, <4>1, <4>2
      <3> QED
        BY <1>0, <3>1 DEF AutoInv, Key
    <2>5. KeptInv' /\ CallbackAlive'
      BY <1>0, <1>2 DEF SafeInv, KeptInv, CallbackAlive, Keeps, Key, Adding
    <2>6. StaleInv'
      BY <1>0, <1>2 DEF SafeInv, StaleInv, IsLive, Key, Clearing
    <2>7. TrueInv'
      BY <1>0, <1>2 DEF SafeInv, TrueInv, Key, Clearing
    <2> QED
      BY <2>1, <2>2, <2>3, <2>4, <2>5, <2>6, <2>7 DEF SafeInv
  <1> QED
    BY <1>1, <1>2, DelBeginDoes

\* A deletion by the symbol of the call, of an entry that it remembers.
Remembers(e) ==
    \/ auto[call.sym] = e
    \/ \E i \in 1 .. Len(list[call.sym]) : list[call.sym][i] = e

LEMMA DeleteKeeps ==
    ASSUME TypeInv, SafeInv, NEW e \in Entry \cup {None}, NEW ok \in BOOLEAN,
           call.sym \in Sym, call.op \in {"del", "auto_off", "clear"},
           Remembers(e), Delete(e, ok),
           opened' = opened, made' = made
    PROVE  /\ SubsInv'
           /\ subs' \subseteq subs
           /\ lapsed \subseteq lapsed' /\ lapsed' \subseteq Sym
           /\ ok => e # None /\ e \in Entry
           /\ ~ok => call.sym \in lapsed'
           /\ \A x \in subs' : /\ store'[x.handle] = x.id \/ x.id \in dangling'
                               /\ ok => x.handle # e.handle /\ Key(x) # e
           /\ \A x \in subs : x \notin subs' =>
                 x.sym \in lapsed' \/ (ok /\ Key(x) = e /\ x.sym = call.sym)
  <1>1. SubsInv
    BY DEF SafeInv
  <1>2. /\ subs' \subseteq subs
        /\ lapsed' \subseteq Sym /\ lapsed \subseteq lapsed'
        /\ ok => e # None
        /\ ~ok => call.sym \in lapsed'
        /\ \A x \in subs' : /\ ok => x.handle # e.handle
                            /\ \/ store'[x.handle] = store[x.handle]
                               \/ x.id \in dangling'
                            /\ x.id \in dangling => x.id \in dangling'
        /\ \A x \in subs : x \notin subs' =>
              e # None /\ x.handle = e.handle /\ (x.id = e.id \/ x.sym \in lapsed')
    BY <1>1, DeleteDoes
  <1>3. SubsInv'
    BY <1>1, <1>2 DEF SubsInv
  <1>4. ASSUME NEW x \in subs'
        PROVE  /\ store'[x.handle] = x.id \/ x.id \in dangling'
               /\ ok => x.handle # e.handle /\ Key(x) # e
    <2>1. x \in subs /\ ~Adding(x) /\ Key(x).handle = x.handle
      BY <1>2, SubFacts DEF Adding
    <2>2. store[x.handle] = x.id \/ x.id \in dangling
      BY <2>1 DEF SafeInv, CallbackAlive
    <2> QED
      BY <1>2, <2>1, <2>2
  <1>5. ASSUME NEW x \in subs, x \notin subs'
        PROVE  x.sym \in lapsed' \/ (ok /\ Key(x) = e /\ x.sym = call.sym)
    <2>1. e \in Entry /\ x.handle = e.handle /\ (x.id = e.id \/ x.sym \in lapsed')
      BY <1>2, <1>5
    <2>2. CASE x.id = e.id
      <3>1. Key(x) = e
        BY <2>1, <2>2 DEF Key, Entry
      <3>2. x.sym = call.sym
        BY <3>1 DEF Remembers, SafeInv, OwnerInv
      <3> QED
        BY <1>2, <3>1, <3>2
    <2> QED
      BY <2>1, <2>2
  <1> QED
    BY <1>2, <1>3, <1>4, <1>5

LEMMA DelStep ==
    ASSUME TypeInv, SafeInv, Del
    PROVE  SafeInv'
  <1>0. /\ call.op \in {"del", "auto_off"} /\ call.sym \in Sym
        /\ call.entry \in Entry \cup {None}
        /\ call' = Idle
        /\ UNCHANGED <<opened, made>>
        /\ \A t \in Sym \ {call.sym} : list'[t] = list[t] /\ auto'[t] = auto[t]
    BY DelDoes
  <1>1. PICK ok \in BOOLEAN :
            /\ Delete(call.entry, ok)
            /\ ~ok => list' = list /\ auto' = auto
            /\ ok => list'[call.sym] = Without(list[call.sym], call.entry)
            /\ IF ok /\ call.op = "auto_off" THEN auto'[call.sym] = None
               ELSE auto' = auto
    BY DelDoes
  <1> DEFINE e == call.entry
             s == call.sym
  <1>2. Remembers(e)
    BY <1>0 DEF SafeInv, DelInv, Remembers
  <1>3. /\ SubsInv'
        /\ subs' \subseteq subs
        /\ lapsed \subseteq lapsed' /\ lapsed' \subseteq Sym
        /\ ok => e # None /\ e \in Entry
        /\ ~ok => s \in lapsed'
        /\ \A x \in subs' : /\ store'[x.handle] = x.id \/ x.id \in dangling'
                            /\ ok => x.handle # e.handle /\ Key(x) # e
        /\ \A x \in subs : x \notin subs' =>
              x.sym \in lapsed' \/ (ok /\ Key(x) = e /\ x.sym = s)
    BY <1>0, <1>1, <1>2, DeleteKeeps
  <1>4. /\ \A x \in subs : x \in Sub /\ x.sym \in Sym
        /\ \A x \in subs : /\ Key(x) \in Entry /\ Key(x) # None
                           /\ Key(x).handle = x.handle
        /\ \A x \in subs : ~Adding(x)
    BY <1>0, SubFacts DEF Adding
  <1>5. ASSUME ok
        PROVE  /\ Left(list'[s], list[s], e)
               /\ \A i, j \in 1 .. Len(list'[s]) :
                     list'[s][i] = list'[s][j] /\ list'[s][i] # None => i = j
    <2>1. list[s] \in Listing /\ e \in Entry
      BY <1>0, <1>3, <1>5, ListFacts
    <2>2. Once(list[s])
      BY <1>0 DEF SafeInv, ListInv, Once
    <2>3. list'[s] = Without(list[s], e)
      BY <1>1, <1>5
    <2> HIDE DEF e, s
    <2>4. Once(list'[s]) /\ Left(list'[s], list[s], e)
      BY <2>1, <2>2, <2>3, WithoutGives
    <2> QED
      BY <2>4 DEF Once
  <1> HIDE DEF e, s
  <1>6. \A t \in Sym : \A i \in 1 .. Len(list'[t]) : \E j \in 1 .. Len(list[t]) :
            list'[t][i] = list[t][j]
    <2>1. ASSUME NEW t \in Sym, NEW i \in 1 .. Len(list'[t])
          PROVE  \E j \in 1 .. Len(list[t]) : list'[t][i] = list[t][j]
      <3>1. CASE t = s /\ ok
        BY <1>5, <3>1, <2>1 DEF Left
      <3>2. CASE ~(t = s /\ ok)
        <4>1. list'[t] = list[t]
          BY <1>0, <1>1, <3>2 DEF s
        <4> QED
          BY <4>1
      <3> QED
        BY <3>1, <3>2
    <2> QED
      BY <2>1
  <1>7. \A t \in Sym : auto'[t] = auto[t] \/ auto'[t] = None
    BY <1>0, <1>1
  <1>8. ListInv'
    <2>1. ASSUME NEW t \in Sym, NEW i \in 1 .. Len(list'[t]), NEW j \in 1 .. Len(list'[t]),
                 list'[t][i] = list'[t][j], list'[t][i] # None
          PROVE  i = j
      <3>1. CASE t = s /\ ok
        BY <1>5, <3>1, <2>1
      <3>2. CASE ~(t = s /\ ok)
        <4>1. list'[t] = list[t]
          BY <1>0, <1>1, <3>2 DEF s
        <4> QED
          BY <2>1, <4>1 DEF SafeInv, ListInv
      <3> QED
        BY <3>1, <3>2
    <2>2. ASSUME NEW t \in Sym, NEW i \in 1 .. Len(list'[t]), list'[t][i] # None
          PROVE  list'[t][i].id <= made
      BY <1>6, <2>2 DEF SafeInv, ListInv
    <2>3. ASSUME NEW t \in Sym, auto'[t] # None PROVE auto'[t].id <= made
      BY <1>7, <2>3 DEF SafeInv, ListInv
    <2> QED
      BY <1>0, <2>1, <2>2, <2>3 DEF ListInv
  <1>9. AddInv' /\ DelInv' /\ ClearInv'
    BY <1>0 DEF AddInv, DelInv, ClearInv, Clearing, Idle
  <1>10. OwnerInv'
    <2>1. ASSUME NEW x \in subs', NEW t \in Sym, auto'[t] = Key(x)
          PROVE  x.sym = t
      BY <1>3, <1>4, <1>7, <2>1 DEF SafeInv, OwnerInv
    <2>2. ASSUME NEW x \in subs', NEW t \in Sym, NEW i \in 1 .. Len(list'[t]),
                 list'[t][i] = Key(x)
          PROVE  x.sym = t
      BY <1>3, <1>6, <2>2 DEF SafeInv, OwnerInv
    <2> QED
      BY <2>1, <2>2 DEF OwnerInv
  <1>11. AutoInv'
    <2>1. ASSUME NEW x \in subs', x.auto PROVE auto'[x.sym] = Key(x)
      <3>1. auto[x.sym] = Key(x) /\ x.sym \in Sym
        BY <1>3, <1>4, <2>1 DEF SafeInv, AutoInv
      <3>2. CASE ok /\ call.op = "auto_off" /\ x.sym = s
        <4>1. Key(x) = e
          BY <3>1, <3>2 DEF SafeInv, DelInv, e, s
        <4> QED
          BY <1>3, <3>2, <4>1
      <3>3. CASE ~(ok /\ call.op = "auto_off" /\ x.sym = s)
        BY <1>0, <1>1, <3>1, <3>3 DEF s
      <3> QED
        BY <3>2, <3>3
    <2> QED
      BY <2>1 DEF AutoInv
  <1>12. KeptInv'
    <2>1. ASSUME NEW x \in subs' PROVE Keeps(x)'
      <3>1. x.sym \in Sym /\ Keeps(x)
        BY <1>3, <1>4 DEF SafeInv, KeptInv
      <3>2. PICK i \in 1 .. Len(list[x.sym]) : list[x.sym][i] = Key(x)
        BY <3>1 DEF Keeps
      <3>3. \E j \in 1 .. Len(list'[x.sym]) : list'[x.sym][j] = Key(x)
        <4>1. CASE x.sym = s /\ ok
          <5>1. ~SameEntry(list[s][i], e)
            BY <1>3, <1>4, <3>2, <4>1 DEF SameEntry
          <5>2. Left(list'[s], list[s], e) /\ i \in 1 .. Len(list[s])
            BY <1>5, <3>2, <4>1
          <5>3. \E j \in 1 .. Len(list'[s]) : list'[s][j] = list[s][i]
            BY <5>1, <5>2 DEF Left
          <5> QED
            BY <3>2, <4>1, <5>3
        <4>2. CASE ~(x.sym = s /\ ok)
          <5>1. list'[x.sym] = list[x.sym]
            BY <1>0, <1>1, <3>1, <4>2 DEF s
          <5> QED
            BY <3>2, <5>1
        <4> QED
          BY <4>1, <4>2
      <3> QED
        BY <3>3 DEF Keeps
    <2> QED
      BY <2>1 DEF KeptInv
  <1>13. CallbackAlive'
    BY <1>3 DEF CallbackAlive
  <1>14. StaleInv'
    <2>1. ASSUME NEW t \in Sym, NEW i \in 1 .. Len(list'[t]),
                 t \notin lapsed', list'[t][i] # None
          PROVE  \E x \in subs' : Key(x) = list'[t][i]
      <3>1. PICK j \in 1 .. Len(list[t]) : list'[t][i] = list[t][j]
        BY <1>6
      <3>2. t \notin lapsed /\ ~Clearing(t)
        BY <1>0, <1>3, <2>1 DEF Clearing
      <3>3. PICK x \in subs : Key(x) = list[t][j]
        BY <2>1, <3>1, <3>2 DEF SafeInv, StaleInv, IsLive
      <3>4. CASE x \notin subs'
        <4>1. x.sym = t
          BY <3>3 DEF SafeInv, OwnerInv
        <4>2. ok /\ Key(x) = e /\ t = s
          BY <1>3, <2>1, <3>4, <4>1
        <4>3. PICK k \in 1 .. Len(list[s]) : list[s][k] # e /\ SameEntry(list[s][k], e)
          BY <1>5, <2>1, <3>1, <3>3, <4>2 DEF Left
        <4>4. list[s][k] # None /\ list[s][k].handle = e.handle
          BY <4>3 DEF SameEntry
        <4>5. PICK y \in subs : Key(y) = list[s][k]
          BY <3>2, <4>2, <4>4 DEF SafeInv, StaleInv, IsLive
        <4>6. y.handle = x.handle
          BY <1>4, <4>2, <4>4, <4>5
        <4>7. y = x
          BY <4>6 DEF SafeInv, SubsInv
        <4> QED
          BY <4>2, <4>3, <4>5, <4>7
      <3> QED
        BY <3>1, <3>3, <3>4
    <2> QED
      BY <2>1 DEF StaleInv, IsLive
  <1>15. TrueInv'
    <2>1. ASSUME NEW t \in Sym, t \notin lapsed', auto'[t] # None
          PROVE  \E x \in subs' : x.auto /\ x.sym = t /\ Key(x) = auto'[t]
      <3>1. auto'[t] = auto[t] /\ t \notin lapsed /\ ~Clearing(t)
        BY <1>0, <1>3, <1>7, <2>1 DEF Clearing
      <3>2. PICK x \in subs : x.auto /\ x.sym = t /\ Key(x) = auto[t]
        BY <2>1, <3>1 DEF SafeInv, TrueInv
      <3>3. CASE x \notin subs'
        <4>1. ok /\ auto[s] = e /\ t = s
          BY <1>3, <2>1, <3>2, <3>3
        <4>2. call.op = "auto_off"
          BY <1>0, <4>1 DEF SafeInv, DelInv, e, s
        <4> QED
          BY <1>1, <2>1, <4>1, <4>2 DEF s
      <3> QED
        BY <3>1, <3>2, <3>3
    <2> QED
      BY <2>1 DEF TrueInv
  <1> QED
    BY <1>3, <1>8, <1>9, <1>10, <1>11, <1>12, <1>13, <1>14, <1>15 DEF SafeInv

LEMMA ClearBeginStep ==
    ASSUME TypeInv, SafeInv, NEW s \in Sym, NEW dying \in BOOLEAN, ClearBegin(s, dying)
    PROVE  SafeInv'
  <1>1. /\ call = Idle /\ call.op = "none"
        /\ call'.op = "clear" /\ call'.sym = s /\ call'.next = 1
        /\ UNCHANGED <<opened, subs, store, list, auto, made, dangling, lapsed>>
    BY ClearBeginDoes DEF Idle, history
  <1>2. \A x \in subs : ~Adding(x)
    BY <1>1 DEF Adding
  <1>3. AddInv' /\ DelInv'
    BY <1>1 DEF AddInv, DelInv
  <1>4. ClearInv'
    <2>1. ASSUME NEW x \in subs
          PROVE  \E i \in 1 .. Len(list[x.sym]) : i >= 1 /\ list[x.sym][i] = Key(x)
      <3>1. Keeps(x)
        BY <1>2 DEF SafeInv, KeptInv
      <3> QED
        BY <3>1 DEF Keeps
    <2> QED
      BY <1>1, <2>1 DEF ClearInv
  <1> QED
    BY <1>1, <1>2, <1>3, <1>4, CallStep

LEMMA ClearStep ==
    ASSUME TypeInv, SafeInv, Clear
    PROVE  SafeInv'
  <1> DEFINE s == call.sym
             e == list[s][call.next]
  <1>0. /\ call.op = "clear" /\ s \in Sym /\ call.next \in Nat \ {0}
        /\ opened' = opened /\ made' = made
    BY ClearDoes
  <1>1. CASE /\ call.next \in 1 .. Len(list[s])
             /\ e \in Entry \cup {None}
             /\ UNCHANGED <<list, auto>>
             /\ \E ok \in BOOLEAN :
                   /\ Delete(e, ok)
                   /\ ~ok => call' = Idle
                   /\ ok => /\ call'.op = "clear" /\ call'.sym = s
                            /\ call'.next = call.next + 1
    <2>1. PICK ok \in BOOLEAN :
              /\ Delete(e, ok)
              /\ ~ok => call' = Idle
              /\ ok => /\ call'.op = "clear" /\ call'.sym = s
                       /\ call'.next = call.next + 1
      BY <1>1
    <2>2. Remembers(e)
      BY <1>1 DEF Remembers
    <2>3. /\ SubsInv'
          /\ subs' \subseteq subs
          /\ lapsed \subseteq lapsed' /\ lapsed' \subseteq Sym
          /\ ok => e # None
          /\ ~ok => s \in lapsed'
          /\ \A x \in subs' : /\ store'[x.handle] = x.id \/ x.id \in dangling'
                              /\ ok => x.handle # e.handle /\ Key(x) # e
          /\ \A x \in subs : x \notin subs' =>
                x.sym \in lapsed' \/ (ok /\ Key(x) = e /\ x.sym = s)
      BY <1>0, <1>1, <2>1, <2>2, DeleteKeeps
    <2> HIDE DEF e
    <2>4. \A x \in subs : x.sym \in Sym /\ ~Adding(x)
      BY <1>0, SubFacts DEF Adding
    <2>5. ListInv'
      BY <1>0, <1>1 DEF SafeInv, ListInv
    <2>6. AddInv' /\ DelInv'
      BY <2>1 DEF AddInv, DelInv, Idle
    <2>7. OwnerInv'
      BY <1>1, <2>3 DEF SafeInv, OwnerInv
    <2>8. AutoInv'
      BY <1>1, <2>3, <2>4 DEF SafeInv, AutoInv
    <2>9. KeptInv'
      BY <1>1, <2>3, <2>4 DEF SafeInv, KeptInv, Keeps
    <2>10. CallbackAlive'
      BY <2>3 DEF CallbackAlive
    <2>11. ClearInv'
      <3>1. CASE ok
        <4>1. ASSUME NEW x \in subs', x.sym = s
              PROVE  \E i \in 1 .. Len(list[s]) : i >= call.next + 1 /\ list[s][i] = Key(x)
          <5>1. PICK i \in 1 .. Len(list[s]) : i >= call.next /\ list[s][i] = Key(x)
            BY <1>0, <2>3, <4>1 DEF SafeInv, ClearInv, Clearing
          <5>2. i # call.next
            BY <2>3, <3>1, <5>1 DEF e
          <5> QED
            BY <1>0, <5>1, <5>2
        <4> QED
          BY <1>1, <2>1, <3>1, <4>1 DEF ClearInv, Clearing
      <3>2. CASE ~ok
        BY <2>1, <3>2 DEF ClearInv, Clearing, Idle
      <3> QED
        BY <3>1, <3>2
    <2>12. StaleInv'
      <3>1. ASSUME NEW t \in Sym, NEW i \in 1 .. Len(list[t]),
                   t \notin lapsed', list[t][i] # None,
                   ~(Clearing(t)' /\ i < call'.next)
            PROVE  \E x \in subs' : Key(x) = list[t][i]
        <4>1. ~(Clearing(t) /\ i < call.next)
          <5>1. CASE t = s
            BY <1>0, <2>1, <2>3, <3>1, <5>1 DEF Clearing
          <5>2. CASE t # s
            BY <5>2 DEF Clearing
          <5> QED
            BY <5>1, <5>2
        <4>2. PICK x \in subs : Key(x) = list[t][i]
          BY <2>3, <3>1, <4>1 DEF SafeInv, StaleInv, IsLive
        <4>3. CASE x \notin subs'
          <5>1. x.sym = t
            BY <4>2 DEF SafeInv, OwnerInv
          <5>2. ok /\ list[s][i] = e /\ t = s
            BY <2>3, <3>1, <4>2, <4>3, <5>1
          <5>3. i = call.next
            BY <1>0, <1>1, <2>3, <3>1, <5>2 DEF SafeInv, ListInv, e
          <5> QED
            BY <1>0, <2>1, <3>1, <5>2, <5>3 DEF Clearing
        <4> QED
          BY <4>2, <4>3
      <3> QED
        BY <1>1, <3>1 DEF StaleInv, IsLive
    <2>13. TrueInv'
      <3>1. ASSUME NEW t \in Sym, t \notin lapsed', auto[t] # None, ~Clearing(t)'
            PROVE  \E x \in subs' : x.auto /\ x.sym = t /\ Key(x) = auto[t]
        <4>1. t # s
          BY <2>1, <2>3, <3>1 DEF Clearing
        <4>2. PICK x \in subs : x.auto /\ x.sym = t /\ Key(x) = auto[t]
          BY <2>3, <3>1, <4>1 DEF SafeInv, TrueInv, Clearing
        <4>3. x \in subs'
          BY <2>3, <3>1, <4>1, <4>2
        <4> QED
          BY <4>2, <4>3
      <3> QED
        BY <1>1, <3>1 DEF TrueInv
    <2> QED
      BY <2>3, <2>5, <2>6, <2>7, <2>8, <2>9, <2>10, <2>11, <2>12, <2>13
      DEF SafeInv
  <1>2. CASE /\ call.next > Len(list[s])
             /\ call' = Idle
             /\ list'[s] = <<>> /\ auto'[s] = None
             /\ \A t \in Sym \ {s} : list'[t] = list[t] /\ auto'[t] = auto[t]
             /\ lapsed' = lapsed \ {s}
             /\ UNCHANGED <<subs, store, dangling>>
    <2>1. \A x \in subs : x.sym \in Sym \ {s} /\ ~Adding(x) /\ Key(x) # None
      <3>1. ASSUME NEW x \in subs, x.sym = s PROVE FALSE
        <4>1. PICK i \in 1 .. Len(list[s]) : i >= call.next
          BY <1>0, <3>1 DEF SafeInv, ClearInv, Clearing
        <4> QED
          BY <1>0, <1>2, <4>1, ListFacts
      <3> QED
        BY <1>0, <3>1, SubFacts DEF Adding
    <2>2. SubsInv'
      BY <1>0, <1>2 DEF SafeInv, SubsInv
    <2>3. \A t \in Sym :
              t # s => list'[t] = list[t] /\ auto'[t] = auto[t] /\ ~Clearing(t)
      BY <1>2 DEF Clearing
    <2>4. Len(list'[s]) = 0 /\ \A i \in 1 .. Len(list'[s]) : FALSE
      BY <1>2
    <2>5. ListInv'
      BY <1>0, <1>2, <2>3, <2>4 DEF SafeInv, ListInv
    <2>6. AddInv' /\ DelInv' /\ ClearInv'
      BY <1>2 DEF AddInv, DelInv, ClearInv, Clearing, Idle
    <2>7. OwnerInv'
      BY <1>2, <2>1, <2>3, <2>4 DEF SafeInv, OwnerInv
    <2>8. AutoInv'
      BY <1>2, <2>1 DEF SafeInv, AutoInv
    <2>9. KeptInv'
      BY <1>2, <2>1 DEF SafeInv, KeptInv, Keeps
    <2>10. CallbackAlive'
      BY <1>2, <2>1 DEF SafeInv, CallbackAlive
    <2>11. StaleInv'
      BY <1>2, <2>3, <2>4 DEF SafeInv, StaleInv, IsLive
    <2>12. TrueInv'
      BY <1>2, <2>3 DEF SafeInv, TrueInv
    <2> QED
      BY <2>2, <2>5, <2>6, <2>7, <2>8, <2>9, <2>10, <2>11, <2>12 DEF SafeInv
  <1> QED
    BY <1>1, <1>2, ClearDoes

-----------------------------------------------------------------------------
(* What is live *)

LEMMA CloseStep ==
    ASSUME TypeInv, SafeInv, Close
    PROVE  SafeInv'
  <1>1. /\ call = Idle /\ call' = call /\ subs' = {} /\ lapsed' = lapsed \cup Listed
        /\ UNCHANGED <<store, list, auto, made>>
    BY DEF Close
  <1>2. /\ SubsInv' /\ OwnerInv' /\ AutoInv' /\ ClearInv' /\ KeptInv'
        /\ CallbackAlive'
    BY <1>1 DEF SubsInv, OwnerInv, AutoInv, ClearInv, KeptInv, CallbackAlive
  <1>3. AddInv' /\ DelInv'
    BY <1>1 DEF AddInv, DelInv, Idle
  <1>4. ListInv'
    BY <1>1 DEF SafeInv, ListInv
  <1>5. \A s \in Sym : \A i \in 1 .. Len(list[s]) : s \in lapsed'
    <2>1. ASSUME NEW s \in Sym, NEW i \in 1 .. Len(list[s]) PROVE list[s] # <<>>
      BY <2>1
    <2> QED
      BY <1>1, <2>1 DEF Listed
  <1>6. StaleInv'
    BY <1>1, <1>5 DEF StaleInv
  <1>7. TrueInv'
    <2>1. ASSUME NEW s \in Sym, s \notin lapsed, auto[s] # None PROVE s \in lapsed'
      <3>1. PICK x \in subs : x.sym = s
        BY <1>1, <2>1 DEF SafeInv, TrueInv, Clearing, Idle
      <3>2. Keeps(x)
        BY <1>1 DEF SafeInv, KeptInv, Adding, Idle
      <3> QED
        BY <1>5, <3>1, <3>2 DEF Keeps
    <2> QED
      BY <1>1, <2>1 DEF TrueInv
  <1> QED
    BY <1>2, <1>3, <1>4, <1>6, <1>7 DEF SafeInv

LEMMA SampleStep ==
    ASSUME TypeInv, SafeInv, NEW x \in subs, Sample(x)
    PROVE  SafeInv'
  <1>0. /\ x \in Sub /\ x.auto
        /\ UNCHANGED <<opened, store, list, auto, call, made, dangling, lapsed>>
    BY SampleDoes DEF history
  <1>1. PICK y \in Sub : /\ y.id = x.id /\ y.handle = x.handle /\ y.sym = x.sym
                         /\ y.auto /\ Key(y) = Key(x)
                         /\ subs' = (subs \ {x}) \cup {y}
    BY SampleDoes
  <1> DEFINE of(z) == IF z = y THEN x ELSE z
  <1>2. \A z \in subs' : /\ of(z) \in subs
                         /\ of(z).id = z.id /\ of(z).handle = z.handle
                         /\ of(z).sym = z.sym /\ (z.auto => of(z).auto)
                         /\ Key(of(z)) = Key(z)
    BY <1>0, <1>1
  <1>3. \A w \in subs : \E z \in subs' : Key(z) = Key(w) /\ z.sym = w.sym /\ (w.auto => z.auto)
    BY <1>1
  <1>4. SubsInv'
    BY <1>0, <1>1 DEF SafeInv, SubsInv
  <1> HIDE DEF of
  <1>5. ListInv'
    BY <1>0 DEF SafeInv, ListInv
  <1>6. AddInv'
    <2>1. ASSUME call.op = "add", call.got # None
          PROVE  \E z \in subs' : /\ Key(z) = call.got
                                  /\ z.sym = call.sym
                                  /\ z.auto = call.auto
      <3>1. PICK w \in subs : Key(w) = call.got /\ w.sym = call.sym /\ w.auto = call.auto
        BY <2>1 DEF SafeInv, AddInv
      <3>2. CASE w = x
        <4>1. y \in subs' /\ y.auto = call.auto
          BY <1>0, <1>1, <2>1, <3>1, <3>2, CallFacts DEF TypeInv, TypeOK
        <4> QED
          BY <1>1, <3>1, <3>2, <4>1
      <3>3. CASE w # x
        BY <1>1, <3>1, <3>3
      <3> QED
        BY <3>2, <3>3
    <2> QED
      BY <1>0, <2>1 DEF SafeInv, AddInv
  <1>7. DelInv'
    BY <1>0 DEF SafeInv, DelInv
  <1>8. OwnerInv'
    BY <1>0, <1>2 DEF SafeInv, OwnerInv
  <1>9. \A z : Adding(z)' <=> call.op = "add" /\ call.got = Key(z)
    BY <1>0 DEF Adding, Key
  <1>10. AutoInv'
    <2>1. ASSUME NEW z \in subs', z.auto, ~(call.op = "add" /\ call.got = Key(z))
          PROVE  auto[z.sym] = Key(z)
      BY <1>2, <2>1, AddingIs DEF SafeInv, AutoInv
    <2> QED
      BY <1>0, <1>9, <2>1 DEF AutoInv
  <1>11. ClearInv'
    <2>1. ASSUME NEW z \in subs', Clearing(z.sym)
          PROVE  \E i \in 1 .. Len(list[z.sym]) : i >= call.next /\ list[z.sym][i] = Key(z)
      BY <1>2, <2>1 DEF SafeInv, ClearInv
    <2> QED
      BY <1>0, <2>1 DEF ClearInv, Clearing
  <1>12. KeptInv'
    <2>1. ASSUME NEW z \in subs', ~(call.op = "add" /\ call.got = Key(z))
          PROVE  \E i \in 1 .. Len(list[z.sym]) : list[z.sym][i] = Key(z)
      BY <1>2, <2>1, AddingIs DEF SafeInv, KeptInv, Keeps
    <2> QED
      BY <1>0, <1>9, <2>1 DEF KeptInv, Keeps
  <1>13. CallbackAlive'
    <2>1. ASSUME NEW z \in subs', ~(call.op = "add" /\ call.got = Key(z))
          PROVE  store[z.handle] = z.id \/ z.id \in dangling
      BY <1>2, <2>1, AddingIs DEF SafeInv, CallbackAlive
    <2> QED
      BY <1>0, <1>9, <2>1 DEF CallbackAlive
  <1>14. StaleInv'
    BY <1>0, <1>3 DEF SafeInv, StaleInv, IsLive, Clearing
  <1>15. TrueInv'
    BY <1>0, <1>3 DEF SafeInv, TrueInv, Clearing
  <1> QED
    BY <1>4, <1>5, <1>6, <1>7, <1>8, <1>10, <1>11, <1>12, <1>13, <1>14, <1>15
    DEF SafeInv

LEMMA SafeInit == Init => SafeInv
  <1> SUFFICES ASSUME Init PROVE SafeInv
    OBVIOUS
  <1>1. /\ subs = {} /\ call = Idle /\ call.op = "none"
        /\ \A s \in Sym : auto[s] = None /\ Len(list[s]) = 0
    BY DEF Init, Idle
  <1>2. \A s \in Sym : \A i \in 1 .. Len(list[s]) : FALSE
    BY <1>1
  <1>3. SubsInv /\ OwnerInv /\ AutoInv /\ ClearInv /\ KeptInv /\ CallbackAlive
    BY <1>1 DEF SubsInv, OwnerInv, AutoInv, ClearInv, KeptInv, CallbackAlive
  <1>4. AddInv /\ DelInv
    BY <1>1 DEF AddInv, DelInv
  <1>5. ListInv /\ StaleInv /\ TrueInv
    BY <1>1, <1>2 DEF ListInv, StaleInv, TrueInv
  <1> QED
    BY <1>3, <1>4, <1>5 DEF SafeInv

LEMMA SafeStep ==
    ASSUME TypeInv, SafeInv, [Next]_vars
    PROVE  SafeInv'
  <1>1. CASE Open
    BY <1>1, AsideStep DEF Open, history
  <1>2. CASE TalkNext
    <2>1. /\ UNCHANGED <<opened, subs, store, list, auto, made, dangling, lapsed>>
          /\ \/ call' = call
             \/ call.op \in {"none", "read", "write"} /\ call'.op \in {"none", "read", "write"}
      BY <1>2, TalkDoes
    <2> QED
      BY <2>1, AsideStep
  <1>3. CASE Callback
    BY <1>3, CallbackDoes, AsideStep DEF history
  <1>4. CASE UNCHANGED vars
    BY <1>4, AsideStep DEF vars
  <1> QED
    BY <1>1, <1>2, <1>3, <1>4, StepCases, AddStep, RegisterStep, StoreStep,
       DelBeginStep, DelStep, ClearBeginStep, ClearStep, CloseStep, SampleStep

\* The invariant of subscriptions, in every behaviour.
NotifyInv == TypeInv /\ SafeInv

LEMMA NotifyInvariant == Spec => []NotifyInv
  <1>1. Init => NotifyInv
    BY TypeInit, SafeInit DEF NotifyInv
  <1>2. NotifyInv /\ [Next]_vars => NotifyInv'
    <2> SUFFICES ASSUME NotifyInv, [Next]_vars PROVE TypeInv' /\ SafeInv'
      BY DEF NotifyInv
    <2>1. TypeInv /\ SafeInv /\ SubsInv
      BY DEF NotifyInv, SafeInv
    <2> QED
      BY <2>1, TypeStep, SafeStep
  <1> QED
    BY <1>1, <1>2, PTL DEF Spec

(* Every reachable state is well typed, and lists stay within their bound. *)
THEOREM NotificationTypes == Spec => []TypeOK
  <1>1. NotifyInv => TypeOK
    BY DEF NotifyInv, TypeInv
  <1> QED
    BY <1>1, NotifyInvariant, PTL

(* The router never calls into freed memory: a live subscription has its   *)
(* callback in callback_store, unless it is being registered or the target *)
(* refused to delete it.                                                   *)
THEOREM CallbackAliveHolds == Spec => []CallbackAlive
  <1>1. NotifyInv => CallbackAlive
    BY DEF NotifyInv, SafeInv
  <1> QED
    BY <1>1, NotifyInvariant, PTL

-----------------------------------------------------------------------------
(* Destructors *)

\* A symbol that is gone lists nothing, and no call of it is under way.
GoneInv ==
    /\ \A s \in Sym : life[s] = "gone" => list[s] = <<>>
    /\ call.op \in {"add", "del", "auto_off", "clear"} => life[call.sym] # "gone"

LEMMA GoneStep ==
    ASSUME TypeInv, GoneInv, [Next]_vars
    PROVE  GoneInv'
  <1>0. life \in [Sym -> Life] /\ Idle.op = "none"
    BY DEF TypeInv, TypeOK, Idle
  <1>1. CASE UNCHANGED <<life, list, call>>
    BY <1>1 DEF GoneInv
  <1>2. ASSUME NEW s \in Sym, NEW isAuto \in BOOLEAN, Add(s, isAuto)
        PROVE  GoneInv'
    <2>1. life[s] = "alive" /\ life' = life
      BY <1>2 DEF Add, objects
    <2>2. /\ \A t \in Sym \ {s} : list'[t] = list[t]
          /\ call'.op = "none" \/ call'.sym = s
      BY <1>0, <1>2, AddDoes
    <2> QED
      BY <2>1, <2>2 DEF GoneInv
  <1>3. CASE Register
    <2>1. life' = life /\ list' = list
      BY <1>3 DEF Register, objects
    <2>2. call.op = "add" /\ (call'.op = "none" \/ call'.sym = call.sym)
      BY <1>0, <1>3, RegisterDoes
    <2> QED
      BY <2>1, <2>2 DEF GoneInv
  <1>4. CASE Store
    <2>1. life' = life
      BY <1>4 DEF Store
    <2>2. /\ call.op = "add" /\ call' = Idle
          /\ \A s \in Sym \ {call.sym} : list'[s] = list[s]
      BY <1>4, StoreDoes
    <2> QED
      BY <1>0, <2>1, <2>2 DEF GoneInv
  <1>5. ASSUME NEW s \in Sym, NEW o \in {"del", "auto_off"}, DelBegin(s, o)
        PROVE  GoneInv'
    <2>1. life[s] = "alive" /\ life' = life /\ list' = list
      BY <1>5 DEF DelBegin, objects
    <2>2. call'.op = "none" \/ call'.sym = s
      BY <1>0, <1>5, DelBeginDoes
    <2> QED
      BY <2>1, <2>2 DEF GoneInv
  <1>6. CASE Del
    <2>1. life' = life
      BY <1>6 DEF Del
    <2>2. /\ call.op \in {"del", "auto_off"} /\ call' = Idle
          /\ \A t \in Sym \ {call.sym} : list'[t] = list[t]
      BY <1>6, DelDoes
    <2> QED
      BY <1>0, <2>1, <2>2 DEF GoneInv
  <1>7. ASSUME NEW s \in Sym, NEW dying \in BOOLEAN, ClearBegin(s, dying)
        PROVE  GoneInv'
    <2>1. /\ life[s] = "alive" /\ list' = list
          /\ life' = IF dying THEN [life EXCEPT ![s] = "dying"] ELSE life
      BY <1>7 DEF ClearBegin
    <2>2. call'.sym = s
      BY <1>7, ClearBeginDoes
    <2>3. \A t \in Sym : life'[t] = "gone" => life[t] = "gone" /\ t # s
      BY <1>0, <2>1
    <2> QED
      BY <2>1, <2>2, <2>3 DEF GoneInv
  <1>8. CASE Clear
    <2>1. call.op = "clear" /\ call.sym \in Sym
      BY <1>8, ClearDoes
    <2>2. CASE call.next <= Len(list[call.sym])
      <3>1. /\ list' = list
            /\ life' = life \/ Ends(call.sym, "cut")
            /\ call'.op = "none" \/ call'.sym = call.sym
        BY <1>0, <1>8, <2>1, <2>2 DEF Clear, TypeInv, TypeOK, Call
      <3>2. \A t \in Sym : life'[t] = "gone" => life[t] = "gone"
        BY <1>0, <2>1, <3>1 DEF Ends
      <3> QED
        BY <2>1, <3>1, <3>2 DEF GoneInv
    <2>3. CASE ~(call.next <= Len(list[call.sym]))
      <3>1. /\ list' = [list EXCEPT ![call.sym] = <<>>]
            /\ Ends(call.sym, "gone")
            /\ call' = Idle
        BY <1>8, <2>3 DEF Clear
      <3>2. list \in [Sym -> Listing]
        BY DEF TypeInv, TypeOK, Listing
      <3>3. ASSUME NEW t \in Sym, life'[t] = "gone"
            PROVE  list'[t] = <<>>
        <4>1. CASE t = call.sym
          BY <3>1, <3>2, <4>1
        <4>2. CASE t # call.sym
          <5>1. life[t] = "gone" /\ list'[t] = list[t]
            BY <1>0, <3>1, <3>2, <3>3, <4>2 DEF Ends
          <5> QED
            BY <5>1 DEF GoneInv
        <4> QED
          BY <4>1, <4>2
      <3> QED
        BY <1>0, <3>1, <3>3 DEF GoneInv
    <2> QED
      BY <2>2, <2>3
  <1>9. CASE TalkNext
    <2>1. life' = life
      BY <1>9 DEF TalkNext, ReadBegin, ReadAnswer, ReadKeep, WriteBegin,
                  WriteBuffer, WriteAnswer, PlcChanges, objects
    <2>2. /\ list' = list
          /\ call' = call \/ call'.op \in {"none", "read", "write"}
      BY <1>9, TalkDoes
    <2> QED
      BY <2>1, <2>2 DEF GoneInv
  <1>10. UNCHANGED <<life, list, call>> \/ ~(Open \/ Close \/ Callback
                \/ UNCHANGED vars \/ \E x \in subs : Sample(x))
    BY DEF Open, Close, Callback, Sample, vars, objects
  <1> QED
    BY <1>1, <1>2, <1>3, <1>4, <1>5, <1>6, <1>7, <1>8, <1>9, <1>10, StepCases

(* No subscription is forgotten: what is live on the target can still be   *)
(* deleted through the list of the symbol that registered it, except those *)
(* of a symbol whose destructor a failed deletion cut short.               *)
THEOREM NoOrphansHolds == Spec => []NoOrphans
  <1>1. Init => GoneInv
    BY DEF Init, GoneInv, Idle
  <1>2. NotifyInv /\ GoneInv /\ [Next]_vars => GoneInv'
    BY GoneStep DEF NotifyInv
  <1>3. NotifyInv /\ GoneInv => NoOrphans
    <2> SUFFICES ASSUME NotifyInv, GoneInv, NEW x \in subs, ~Adding(x)
                 PROVE  /\ life[x.sym] # "gone"
                        /\ \E i \in DOMAIN list[x.sym] :
                              list[x.sym][i] = [id |-> x.id, handle |-> x.handle]
      BY DEF NoOrphans
    <2>1. x.sym \in Sym /\ Keeps(x)
      BY SubFacts DEF NotifyInv, SafeInv, KeptInv
    <2>2. DOMAIN list[x.sym] = 1 .. Len(list[x.sym])
      BY <2>1, ListFacts DEF NotifyInv
    <2>3. list[x.sym] # <<>>
      BY <2>1 DEF Keeps
    <2> QED
      BY <2>1, <2>2, <2>3 DEF Keeps, Key, GoneInv
  <1> QED
    BY <1>1, <1>2, <1>3, NotifyInvariant, PTL DEF Spec

(* auto_update tells the truth of a symbol that has not lapsed and is not  *)
(* being cleared.                                                          *)
THEOREM AutoIsLiveHolds == Spec => []AutoIsLive
  <1>1. NotifyInv => AutoIsLive
    <2> SUFFICES ASSUME NotifyInv, NEW s \in Sym, s \notin lapsed, ~Clearing(s)
                 PROVE  \/ /\ auto[s] # None
                           /\ \E x \in subs : x.auto /\ x.sym = s /\ Key(x) = auto[s]
                        \/ /\ auto[s] = None
                           /\ \A x \in subs : x.auto /\ x.sym = s => Adding(x)
      BY DEF AutoIsLive, Key
    <2>1. CASE auto[s] = None
      BY <2>1, SubFacts DEF NotifyInv, SafeInv, AutoInv
    <2>2. CASE auto[s] # None
      BY <2>2 DEF NotifyInv, SafeInv, TrueInv
    <2> QED
      BY <2>1, <2>2
  <1> QED
    BY <1>1, NotifyInvariant, PTL

-----------------------------------------------------------------------------
(* What a symbol deletes *)

OwnDeletion ==
    \A x \in subs :
        (\A y \in subs' : y.id # x.id) /\ opened'
            => x.sym = call.sym \/ call.sym \in lapsed

LEMMA DeleteOwn ==
    ASSUME TypeInv, SafeInv, NEW e \in Entry \cup {None}, NEW ok \in BOOLEAN,
           call.sym \in Sym, Remembers(e), Delete(e, ok),
           e = None \/ IsLive(e) \/ call.sym \in lapsed
    PROVE  \A x \in subs : x \notin subs' => x.sym = call.sym \/ call.sym \in lapsed
  <1> SUFFICES ASSUME NEW x \in subs, x \notin subs', call.sym \notin lapsed
               PROVE  x.sym = call.sym
    OBVIOUS
  <1>1. e # None /\ x.handle = e.handle
    BY DeleteDoes DEF SafeInv
  <1>2. PICK y \in subs : Key(y) = e
    BY <1>1 DEF IsLive
  <1>3. y = x
    BY <1>1, <1>2, SubFacts DEF SafeInv, SubsInv
  <1> QED
    BY <1>2, <1>3 DEF Remembers, SafeInv, OwnerInv

LEMMA OwnStep ==
    ASSUME TypeInv, SafeInv, [Next]_vars
    PROVE  OwnDeletion
  <1>1. CASE subs \subseteq subs'
    BY <1>1 DEF OwnDeletion
  <1>2. CASE Close
    BY <1>2 DEF Close, OwnDeletion
  <1>3. ASSUME NEW x \in subs, Sample(x)
        PROVE  OwnDeletion
    <2>1. PICK y \in Sub : y.id = x.id /\ subs' = (subs \ {x}) \cup {y}
      BY <1>3, SampleDoes
    <2> QED
      BY <2>1 DEF OwnDeletion
  <1>4. CASE Del
    <2>1. /\ call.op \in {"del", "auto_off"} /\ call.sym \in Sym
          /\ call.entry \in Entry \cup {None}
          /\ \E ok \in BOOLEAN : Delete(call.entry, ok)
      BY <1>4, DelDoes
    <2>2. Remembers(call.entry)
      BY <2>1 DEF SafeInv, DelInv, Remembers
    <2>3. call.entry = None \/ IsLive(call.entry) \/ call.sym \in lapsed
      BY <2>1 DEF SafeInv, DelInv, StaleInv, TrueInv, IsLive, Clearing
    <2> QED
      BY <2>1, <2>2, <2>3, DeleteOwn DEF OwnDeletion
  <1>5. CASE Clear
    <2>1. /\ call.op = "clear" /\ call.sym \in Sym /\ call.next \in Nat
          /\ \/ /\ call.next \in 1 .. Len(list[call.sym])
                /\ list[call.sym][call.next] \in Entry \cup {None}
                /\ \E ok \in BOOLEAN : Delete(list[call.sym][call.next], ok)
             \/ subs' = subs
      BY <1>5, ClearDoes
    <2>2. CASE /\ call.next \in 1 .. Len(list[call.sym])
               /\ list[call.sym][call.next] \in Entry \cup {None}
               /\ \E ok \in BOOLEAN : Delete(list[call.sym][call.next], ok)
      <3>1. Remembers(list[call.sym][call.next])
        BY <2>2 DEF Remembers
      <3>2. \/ list[call.sym][call.next] = None
            \/ IsLive(list[call.sym][call.next])
            \/ call.sym \in lapsed
        BY <2>1, <2>2 DEF SafeInv, StaleInv
      <3> QED
        BY <2>1, <2>2, <3>1, <3>2, DeleteOwn DEF OwnDeletion
    <2> QED
      BY <1>1, <2>1, <2>2
  <1>6. CASE Open \/ UNCHANGED vars
    BY <1>1, <1>6 DEF Open, vars
  <1>7. CASE \E s \in Sym : \E isAuto \in BOOLEAN : Add(s, isAuto)
    BY <1>1, <1>7 DEF Add
  <1>8. CASE Register
    BY <1>1, <1>8, RegisterDoes
  <1>9. CASE Store \/ \E s \in Sym : \E dying \in BOOLEAN : ClearBegin(s, dying)
    BY <1>1, <1>9 DEF Store, ClearBegin
  <1>10. CASE \E s \in Sym : \E o \in {"del", "auto_off"} : DelBegin(s, o)
    BY <1>1, <1>10 DEF DelBegin
  <1>11. CASE TalkNext
    BY <1>1, <1>11, TalkDoes
  <1>12. CASE Callback
    BY <1>1, <1>12 DEF Callback
  <1> QED
    BY <1>2, <1>3, <1>4, <1>5, <1>6, <1>7, <1>8, <1>9, <1>10, <1>11, <1>12,
       StepCases

(* A symbol ends only subscriptions of its own, unless its list kept the   *)
(* handle of one that is gone (after a close or a deletion that failed).   *)
THEOREM DeletesOwnHolds == Spec => DeletesOwn
  <1>1. NotifyInv /\ [Next]_vars => [OwnDeletion]_vars
    BY OwnStep DEF NotifyInv
  <1>2. [OwnDeletion]_vars =>
            [\A x \in subs :
                /\ \A y \in subs' : y.id # x.id
                /\ opened'
                => x.sym = call.sym \/ call.sym \in lapsed]_vars
    BY DEF OwnDeletion
  <1> QED
    BY <1>1, <1>2, NotifyInvariant, PTL DEF Spec, DeletesOwn

-----------------------------------------------------------------------------
(* The buffered value *)

\* Of one symbol there is one automatic subscription.
LEMMA OneAuto ==
    ASSUME TypeInv, SafeInv, NEW x \in subs, NEW y \in subs,
           x.auto, y.auto, x.sym = y.sym
    PROVE  x = y
  <1>1. ASSUME NEW z \in subs, z.auto, Adding(z)
        PROVE  auto[z.sym] = None
    <2>1. PICK w \in subs : Key(w) = Key(z) /\ w.sym = call.sym /\ w.auto = call.auto
      BY <1>1, SubFacts, AddingIs DEF SafeInv, AddInv
    <2>2. w = z
      BY <2>1, SubFacts DEF SafeInv, SubsInv
    <2> QED
      BY <1>1, <2>1, <2>2 DEF Adding, SafeInv, AddInv
  <1>2. Key(x) = Key(y)
    <2>1. CASE Adding(x) /\ Adding(y)
      BY <2>1, AddingIs
    <2>2. CASE ~(Adding(x) /\ Adding(y))
      BY <1>1, <2>2, SubFacts DEF SafeInv, AutoInv
    <2> QED
      BY <2>1, <2>2
  <1> QED
    BY <1>2, SubFacts DEF SafeInv, SubsInv

\* BufferFollows with the indexes of this module.
FollowInv ==
    \A x \in subs :
        /\ x.auto
        /\ x.sym \notin ahead
        /\ \A i \in 1 .. Len(pending) : pending[i].id # x.id
        => buffer[x.sym] = x.last

LEMMA FollowIs == TypeInv => (BufferFollows <=> FollowInv)
  BY PendingFacts DEF BufferFollows, FollowInv

ValueInv == PendingInv /\ FollowInv

\* Fewer subscriptions, the same notifications.
LEMMA ValueKept ==
    ASSUME ValueInv, subs' \subseteq subs,
           UNCHANGED <<pending, made, buffer, ahead>>
    PROVE  ValueInv'
  <1>1. PendingInv'
    BY DEF ValueInv, PendingInv
  <1>2. FollowInv'
    BY DEF ValueInv, FollowInv
  <1> QED
    BY <1>1, <1>2 DEF ValueInv

LEMMA ValuePut ==
    ASSUME TypeInv, ValueInv, NEW s \in Sym, NEW v \in Value, Put(s, v),
           UNCHANGED <<subs, pending, made>>
    PROVE  ValueInv'
  <1>1. PendingInv'
    BY DEF ValueInv, PendingInv
  <1>2. ASSUME NEW x \in subs, x.auto, x.sym \notin ahead',
               \A i \in 1 .. Len(pending) : pending[i].id # x.id
        PROVE  buffer'[x.sym] = x.last
    <2>1. x.sym \in Sym /\ buffer \in [Sym -> Value \cup {None}]
      BY SubFacts DEF TypeInv, TypeOK
    <2>2. CASE x.sym = s
      <3>1. LastSample(s) \subseteq {v}
        BY <1>2, <2>2 DEF Put
      <3>2. x.last \in LastSample(s)
        BY <1>2, <2>2 DEF LastSample
      <3> QED
        BY <2>1, <2>2, <3>1, <3>2 DEF Put
    <2>3. CASE x.sym # s
      <3>1. x.sym \notin ahead
        BY <1>2, <2>3 DEF Put
      <3> QED
        BY <1>2, <2>1, <2>3, <3>1 DEF Put, ValueInv, FollowInv
    <2> QED
      BY <2>2, <2>3
  <1>3. FollowInv'
    BY <1>2 DEF FollowInv
  <1> QED
    BY <1>1, <1>3 DEF ValueInv

\* Another notification of x follows.
Later(x, i) == \E j \in i + 1 .. Len(pending) : pending[j].id = x.id

LEMMA ValueRegister ==
    ASSUME TypeInv, SafeInv, ValueInv, Register
    PROVE  ValueInv'
  <1>0. UNCHANGED <<buffer, ahead>> /\ made \in Nat
    BY RegisterDoes, SubFacts DEF plcVars
  <1>1. CASE UNCHANGED <<made, subs, pending>>
    BY <1>0, <1>1, ValueKept
  <1>2. CASE ~UNCHANGED <<made, subs, pending>>
    <2>1. PICK h \in Handle :
              /\ made' = made + 1
              /\ NewSub(h) \in Sub
              /\ subs' = subs \cup {NewSub(h)}
              /\ pending' = IF call.auto THEN Append(pending, NewNote(NewSub(h)))
                            ELSE pending
              /\ NewNote(NewSub(h)) \in Note
      BY <1>2, RegisterDoes
    <2>2. PICK n : n = NewSub(h)
      OBVIOUS
    <2>3. /\ n \in Sub /\ n.id = made + 1 /\ n.auto = call.auto
          /\ subs' = subs \cup {n}
          /\ n.last = plc[n.sym]
      BY <2>1, <2>2 DEF NewSub
    <2>4. \A x \in subs : x.id # n.id
      BY <1>0, <2>3, SubFacts DEF SafeInv, SubsInv, Id
    <2>5. /\ \A i \in 1 .. Len(pending) : pending[i].id # n.id /\ pending[i].id \in Nat
          /\ Len(pending) \in Nat
      BY <1>0, <2>3, PendingFacts DEF ValueInv, PendingInv, Note, Id
    <2>6. CASE ~call.auto
      <3>1. pending' = pending /\ ~n.auto
        BY <2>1, <2>3, <2>6
      <3>2. PendingInv'
        BY <1>0, <2>1, <2>3, <2>5, <3>1 DEF ValueInv, PendingInv
      <3>3. FollowInv'
        BY <1>0, <2>3, <3>1 DEF ValueInv, FollowInv
      <3> QED
        BY <3>2, <3>3 DEF ValueInv
    <2>7. CASE call.auto
      <3>1. PICK m : m = NewNote(n)
        OBVIOUS
      <3>2. m \in Note /\ m.id = n.id /\ m.sym = n.sym /\ m.value = n.last /\ n.auto
        BY <2>1, <2>2, <2>3, <2>7, <3>1 DEF NewNote
      <3>3. /\ Len(pending') = Len(pending) + 1
            /\ \A i \in 1 .. Len(pending) : pending'[i] = pending[i]
            /\ pending'[Len(pending) + 1] = m
        BY <2>1, <2>2, <2>7, <3>1, <3>2, PendingFacts, AppendFacts
      <3>4. ASSUME NEW i \in 1 .. Len(pending')
            PROVE  /\ pending'[i].id <= made + 1
                   /\ \A x \in subs' : pending'[i].id = x.id =>
                         /\ x.auto
                         /\ pending'[i].sym = x.sym
                         /\ \/ pending'[i].value = x.last
                            \/ \E j \in i + 1 .. Len(pending') : pending'[j].id = x.id
        <4>1. CASE i = Len(pending) + 1
          BY <1>0, <2>3, <2>4, <3>2, <3>3, <4>1
        <4>2. CASE i \in 1 .. Len(pending)
          <5>1. pending'[i] = pending[i] /\ pending[i].id # n.id /\ pending[i].id <= made + 1
            BY <1>0, <2>5, <3>3, <4>2 DEF ValueInv, PendingInv
          <5>2. ASSUME NEW x \in subs, pending[i].id = x.id
                PROVE  /\ x.auto
                       /\ pending[i].sym = x.sym
                       /\ \/ pending[i].value = x.last
                          \/ \E j \in i + 1 .. Len(pending') : pending'[j].id = x.id
            <6>1. /\ x.auto /\ pending[i].sym = x.sym
                  /\ pending[i].value = x.last \/ Later(x, i)
              BY <4>2, <5>2 DEF ValueInv, PendingInv, Later
            <6>2. ASSUME NEW j \in i + 1 .. Len(pending), pending[j].id = x.id
                  PROVE  j \in i + 1 .. Len(pending') /\ pending'[j].id = x.id
              BY <2>5, <3>3, <4>2, <6>2
            <6> QED
              BY <6>1, <6>2 DEF Later
          <5> QED
            BY <2>3, <5>1, <5>2
        <4> QED
          BY <2>5, <3>3, <4>1, <4>2
      <3>5. PendingInv'
        BY <2>1, <3>4 DEF PendingInv
      <3>6. FollowInv'
        <4>1. ASSUME NEW x \in subs', x.auto, x.sym \notin ahead,
                     \A i \in 1 .. Len(pending') : pending'[i].id # x.id
              PROVE  buffer[x.sym] = x.last
          <5>1. x # n
            BY <2>5, <3>2, <3>3, <4>1
          <5>2. \A i \in 1 .. Len(pending) : pending[i].id # x.id
            BY <2>5, <3>3, <4>1
          <5> QED
            BY <2>3, <4>1, <5>1, <5>2 DEF ValueInv, FollowInv
        <4> QED
          BY <1>0, <4>1 DEF FollowInv
      <3> QED
        BY <3>5, <3>6 DEF ValueInv
    <2>8. call.auto \in BOOLEAN
      BY <2>3 DEF Sub
    <2> QED
      BY <2>6, <2>7, <2>8
  <1> QED
    BY <1>1, <1>2

LEMMA ValueSample ==
    ASSUME TypeInv, SafeInv, ValueInv, NEW x \in subs, Sample(x)
    PROVE  ValueInv'
  <1>1. PICK y \in Sub : /\ y.id = x.id /\ y.sym = x.sym /\ y.auto
                         /\ y.last = plc[x.sym]
                         /\ subs' = (subs \ {x}) \cup {y}
    BY SampleDoes
  <1>2. PICK m : m = NewNote(x)
    OBVIOUS
  <1>3. /\ m \in Note /\ m.id = x.id /\ m.sym = x.sym /\ m.value = plc[x.sym]
        /\ pending' = Append(pending, m)
        /\ UNCHANGED <<buffer, ahead, made>>
    BY <1>2, SampleDoes DEF NewNote, plcVars, history
  <1>4. /\ Len(pending) \in Nat
        /\ Len(pending') = Len(pending) + 1
        /\ \A i \in 1 .. Len(pending) : pending'[i] = pending[i]
        /\ pending'[Len(pending) + 1] = m
    BY <1>3, PendingFacts, AppendFacts
  <1>5. \A z \in subs : z = x \/ z.id # x.id
    BY DEF SafeInv, SubsInv
  <1>6. ASSUME NEW i \in 1 .. Len(pending')
        PROVE  /\ pending'[i].id <= made
               /\ \A z \in subs' : pending'[i].id = z.id =>
                     /\ z.auto
                     /\ pending'[i].sym = z.sym
                     /\ \/ pending'[i].value = z.last
                        \/ \E j \in i + 1 .. Len(pending') : pending'[j].id = z.id
    <2>1. CASE i = Len(pending) + 1
      <3>1. pending'[i] = m /\ m.id <= made
        BY <1>3, <1>4, <2>1 DEF SafeInv, SubsInv
      <3>2. \A z \in subs' : z = y \/ z.id # m.id
        BY <1>1, <1>3, <1>5
      <3> QED
        BY <1>1, <1>3, <3>1, <3>2
    <2>2. CASE i \in 1 .. Len(pending)
      <3>1. pending'[i] = pending[i] /\ pending[i].id <= made
        BY <1>4, <2>2 DEF ValueInv, PendingInv
      <3>2. ASSUME NEW z \in subs, z # x, pending[i].id = z.id
            PROVE  /\ z.auto
                   /\ pending[i].sym = z.sym
                   /\ \/ pending[i].value = z.last
                      \/ \E j \in i + 1 .. Len(pending') : pending'[j].id = z.id
        <4>1. /\ z.auto /\ pending[i].sym = z.sym
              /\ pending[i].value = z.last \/ Later(z, i)
          BY <2>2, <3>2 DEF ValueInv, PendingInv, Later
        <4>2. ASSUME NEW j \in i + 1 .. Len(pending), pending[j].id = z.id
              PROVE  j \in i + 1 .. Len(pending') /\ pending'[j].id = z.id
          BY <1>4, <2>2, <4>2
        <4> QED
          BY <4>1, <4>2 DEF Later
      <3>3. ASSUME pending[i].id = y.id
            PROVE  /\ pending[i].sym = y.sym
                   /\ \E j \in i + 1 .. Len(pending') : pending'[j].id = y.id
        <4>1. pending[i].sym = x.sym
          BY <1>1, <2>2, <3>3 DEF ValueInv, PendingInv
        <4>2. Len(pending) + 1 \in i + 1 .. Len(pending')
          BY <1>4, <2>2
        <4> QED
          BY <1>1, <1>3, <1>4, <4>1, <4>2
      <3> QED
        BY <1>1, <3>1, <3>2, <3>3
    <2> QED
      BY <1>4, <2>1, <2>2
  <1>7. PendingInv'
    BY <1>3, <1>6 DEF PendingInv
  <1>8. FollowInv'
    <2>1. ASSUME NEW z \in subs', z.auto, z.sym \notin ahead,
                 \A i \in 1 .. Len(pending') : pending'[i].id # z.id
          PROVE  buffer[z.sym] = z.last
      <3>1. z # y
        BY <1>1, <1>3, <1>4, <2>1
      <3>2. \A i \in 1 .. Len(pending) : pending[i].id # z.id
        BY <1>4, <2>1
      <3> QED
        BY <1>1, <2>1, <3>1, <3>2 DEF ValueInv, FollowInv
    <2> QED
      BY <1>3, <2>1 DEF FollowInv
  <1> QED
    BY <1>7, <1>8 DEF ValueInv

LEMMA ValueCallback ==
    ASSUME TypeInv, SafeInv, ValueInv, Callback
    PROVE  ValueInv'
  <1>1. /\ pending[1] \in Note
        /\ Len(pending) \in Nat \ {0}
        /\ Len(pending') = Len(pending) - 1
        /\ \A n \in 1 .. Len(pending') : pending'[n] = pending[n + 1]
        /\ UNCHANGED <<subs, made>>
        /\ IF \E x \in subs : x.id = pending[1].id
           THEN /\ buffer' = [buffer EXCEPT ![pending[1].sym] = pending[1].value]
                /\ ahead' = ahead \ {pending[1].sym}
           ELSE UNCHANGED <<buffer, ahead>>
    BY CallbackDoes DEF history
  <1>2. ASSUME NEW i \in 1 .. Len(pending')
        PROVE  /\ pending'[i].id <= made
               /\ \A x \in subs : pending'[i].id = x.id =>
                     /\ x.auto
                     /\ pending'[i].sym = x.sym
                     /\ \/ pending'[i].value = x.last
                        \/ \E j \in i + 1 .. Len(pending') : pending'[j].id = x.id
    <2>1. i + 1 \in 1 .. Len(pending) /\ pending'[i] = pending[i + 1]
      BY <1>1
    <2>2. pending[i + 1].id <= made
      BY <2>1 DEF ValueInv, PendingInv
    <2>3. ASSUME NEW x \in subs, pending[i + 1].id = x.id
          PROVE  /\ x.auto
                 /\ pending[i + 1].sym = x.sym
                 /\ \/ pending[i + 1].value = x.last
                    \/ \E j \in i + 1 .. Len(pending') : pending'[j].id = x.id
      <3>1. /\ x.auto /\ pending[i + 1].sym = x.sym
            /\ pending[i + 1].value = x.last \/ Later(x, i + 1)
        BY <2>1, <2>3 DEF ValueInv, PendingInv, Later
      <3>2. ASSUME NEW j \in (i + 1) + 1 .. Len(pending), pending[j].id = x.id
            PROVE  j - 1 \in i + 1 .. Len(pending') /\ pending'[j - 1].id = x.id
        <4>1. j - 1 \in i + 1 .. Len(pending') /\ (j - 1) + 1 = j
          BY <1>1, <3>2
        <4> QED
          BY <1>1, <3>2, <4>1
      <3> QED
        BY <3>1, <3>2 DEF Later
    <2> QED
      BY <2>1, <2>2, <2>3
  <1>3. PendingInv'
    BY <1>1, <1>2 DEF PendingInv
  <1>4. ASSUME NEW x \in subs, x.auto, x.sym \notin ahead',
               \A i \in 1 .. Len(pending') : pending'[i].id # x.id
        PROVE  buffer'[x.sym] = x.last
    <2>1. x.sym \in Sym /\ buffer \in [Sym -> Value \cup {None}]
      BY SubFacts DEF TypeInv, TypeOK
    <2>2. \A i \in 2 .. Len(pending) : pending[i].id # x.id
      <3>1. ASSUME NEW i \in 2 .. Len(pending)
            PROVE  pending[i].id # x.id
        <4>1. i - 1 \in 1 .. Len(pending') /\ (i - 1) + 1 = i
          BY <1>1
        <4>2. pending'[i - 1] = pending[i]
          BY <1>1, <4>1
        <4> QED
          BY <1>4, <4>1, <4>2
      <3> QED
        BY <3>1
    <2>3. CASE pending[1].id = x.id
      <3>1. /\ pending[1].sym = x.sym
            /\ pending[1].value = x.last \/ Later(x, 1)
        BY <1>1, <2>3 DEF ValueInv, PendingInv, Later
      <3>2. ~Later(x, 1)
        BY <2>2 DEF Later
      <3>3. buffer' = [buffer EXCEPT ![pending[1].sym] = pending[1].value]
        BY <1>1, <2>3
      <3> QED
        BY <2>1, <3>1, <3>2, <3>3
    <2>4. CASE pending[1].id # x.id
      <3>1. \A i \in 1 .. Len(pending) : pending[i].id # x.id
        BY <1>1, <2>2, <2>4
      <3>2. CASE \E y \in subs : y.id = pending[1].id
        <4>1. PICK y \in subs : y.id = pending[1].id
          BY <3>2
        <4>2. y.auto /\ y.sym = pending[1].sym
          BY <1>1, <4>1 DEF ValueInv, PendingInv
        <4>3. pending[1].sym # x.sym
          BY <1>4, <2>4, <4>1, <4>2, OneAuto
        <4>4. /\ buffer' = [buffer EXCEPT ![pending[1].sym] = pending[1].value]
              /\ ahead' = ahead \ {pending[1].sym}
          BY <1>1, <3>2
        <4> QED
          BY <1>4, <2>1, <3>1, <4>3, <4>4 DEF ValueInv, FollowInv
      <3>3. CASE ~\E y \in subs : y.id = pending[1].id
        BY <1>1, <1>4, <3>1, <3>3 DEF ValueInv, FollowInv
      <3> QED
        BY <3>2, <3>3
    <2> QED
      BY <2>3, <2>4
  <1>5. FollowInv'
    BY <1>1, <1>4 DEF FollowInv
  <1> QED
    BY <1>3, <1>5 DEF ValueInv

LEMMA ValueStep ==
    ASSUME TypeInv, SafeInv, ValueInv, [Next]_vars
    PROVE  ValueInv'
  <1>1. CASE Close
    <2>1. subs' = {} /\ pending' = <<>> /\ made' = made
      BY <1>1 DEF Close
    <2>2. \A i \in 1 .. Len(pending') : FALSE
      BY <2>1
    <2> QED
      BY <2>1, <2>2 DEF ValueInv, PendingInv, FollowInv
  <1>2. CASE Open \/ UNCHANGED vars
    BY <1>2, ValueKept DEF Open, vars, plcVars, history
  <1>3. CASE \E s \in Sym : \E isAuto \in BOOLEAN : Add(s, isAuto)
    BY <1>3, ValueKept DEF Add, plcVars, history
  <1>4. CASE Store \/ \E s \in Sym : \E dying \in BOOLEAN : ClearBegin(s, dying)
    BY <1>4, ValueKept DEF Store, ClearBegin, plcVars, history
  <1>5. CASE \E s \in Sym : \E o \in {"del", "auto_off"} : DelBegin(s, o)
    BY <1>5, ValueKept DEF DelBegin, plcVars, history
  <1>6. CASE Del
    <2>1. /\ call.sym \in Sym /\ call.entry \in Entry \cup {None}
          /\ \E ok \in BOOLEAN : Delete(call.entry, ok)
          /\ UNCHANGED <<pending, plcVars, made>>
      BY <1>6, DelDoes
    <2>2. subs' \subseteq subs
      BY <2>1, DeleteDoes DEF SafeInv
    <2> QED
      BY <2>1, <2>2, ValueKept DEF plcVars
  <1>7. CASE Clear
    <2>1. /\ call.sym \in Sym
          /\ UNCHANGED <<pending, plcVars, made>>
          /\ \/ /\ list[call.sym][call.next] \in Entry \cup {None}
                /\ \E ok \in BOOLEAN : Delete(list[call.sym][call.next], ok)
             \/ subs' = subs
      BY <1>7, ClearDoes
    <2>2. subs' \subseteq subs
      BY <2>1, DeleteDoes DEF SafeInv
    <2> QED
      BY <2>1, <2>2, ValueKept DEF plcVars
  <1>8. CASE TalkNext
    <2>1. /\ UNCHANGED <<subs, pending, made>>
          /\ \/ buffer' = buffer /\ ahead' = ahead
             \/ \E s \in Sym : \E v \in Value : Put(s, v)
      BY <1>8, TalkDoes
    <2> QED
      BY <2>1, ValueKept, ValuePut
  <1> QED
    BY <1>1, <1>2, <1>3, <1>4, <1>5, <1>6, <1>7, <1>8, StepCases,
       ValueRegister, ValueSample, ValueCallback

(* With auto_update the buffer follows: once the callbacks have caught up  *)
(* it is the last sampled value, unless a read or a write of the user put  *)
(* another value there since the last callback.                            *)
THEOREM BufferFollowsHolds == Spec => []BufferFollows
  <1>1. Init => ValueInv
    <2> SUFFICES ASSUME Init PROVE ValueInv
      OBVIOUS
    <2>1. subs = {} /\ \A i \in 1 .. Len(pending) : FALSE
      BY DEF Init
    <2> QED
      BY <2>1 DEF ValueInv, PendingInv, FollowInv
  <1>2. NotifyInv /\ ValueInv /\ [Next]_vars => ValueInv'
    BY ValueStep DEF NotifyInv
  <1>3. NotifyInv /\ ValueInv => BufferFollows
    BY FollowIs DEF NotifyInv, ValueInv
  <1> QED
    BY <1>1, <1>2, <1>3, NotifyInvariant, PTL DEF Spec

=============================================================================
