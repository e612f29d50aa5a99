-------------------------- MODULE TestServerProofs --------------------------
(***************************************************************************)
(* Theorems about TestServer, for any number of peers and whatever each of *)
(* them sends.                                                             *)
(***************************************************************************)
EXTENDS TestServer, SequenceTheorems, FiniteSetTheorems, TLAPS

(* What carries the invariants *)

\* The types that do not rest on another invariant.
BaseOK ==
    /\ server \in {"new", "started", "listen", "loop", "select", "accept",
                   "spawn", "append", "ended"}
    /\ srun \in BOOLEAN
    /\ listening \in {"bound", "open", "closed"}
    /\ accepted \subseteq Peer
    /\ clients \in Seq(Peer)
    /\ thread \in [Peer -> {"none", "started", "loop", "select", "handle", "ended"}]
    /\ crun \in [Peer -> BOOLEAN]
    /\ socket \in [Peer -> {"none", "queued", "open", "closed"}]
    /\ peer \in [Peer -> {"away", "connected", "gone"}]
    /\ sent \in [Peer -> Nat]
    /\ inbox \in [Peer -> Seq(Nat)]
    /\ answers \in [Peer -> Seq(Nat)]
    /\ misread \subseteq Peer
    /\ stop \in [at : {"idle", "loop", "join", "clear", "flag", "done"}, i : Nat \ {0}]
    /\ known \subseteq Peer
    /\ unheard \subseteq Peer

\* A peer connects once.
AwayInv == \A p \in Peer : socket[p] = "none" => peer[p] = "away"

\* A client is a peer that was accepted once, and its thread was started before
\* it was put in clients.
ThreadInv ==
    /\ server \in {"spawn", "append"} => \E p \in Peer : accepted = {p}
    /\ server \notin {"spawn", "append"} => accepted = {}
    /\ \A p \in accepted : /\ socket[p] \in {"open", "closed"}
                           /\ thread[p] = "none" <=> server = "spawn"
    /\ \A p \in Peer : thread[p] # "none" => socket[p] \in {"open", "closed"}
    /\ \A i \in 1 .. Len(clients) :
          thread[clients[i]] # "none" /\ clients[i] \notin accepted
    /\ \A i, j \in 1 .. Len(clients) : clients[i] = clients[j] => i = j

Over(p) == thread[p] = "ended" /\ socket[p] = "closed"

\* stop goes through the list of clients as it is when it gets there, and that
\* holds those it was called with.
StopInv ==
    /\ stop.at = "idle" => known = {} /\ stop.i = 1
    /\ stop.at \in {"loop", "join"} =>
          /\ \A p \in known : \E i \in 1 .. Len(clients) : clients[i] = p
          /\ stop.i <= Len(clients) + 1
          /\ \A i \in 1 .. stop.i - 1 : Over(clients[i])
    /\ stop.at = "join" => stop.i <= Len(clients)
    /\ stop.at \in {"clear", "flag", "done"} => \A p \in known : Over(p)
    /\ stop.i <= Cardinality(Peer) + 1

\* Requests are read in the order in which they were sent, and what was
\* answered was read.
Read(p) == sent[p] - Len(inbox[p])

InboxInv ==
    \A p \in Peer :
        /\ sent[p] <= Len(Request[p])
        /\ Read(p) \in Nat
        /\ \A i \in 1 .. Len(inbox[p]) : inbox[p][i] = Read(p) + i
        /\ \A i \in 1 .. Len(answers[p]) : answers[p][i] \in 1 .. Read(p)
        /\ p \notin Pipelining => Len(inbox[p]) <= 1

\* What became of a request; what AnswersInOrder says.
Fate(p, r) ==
    \/ r \in Answered(p)
    \/ r \in {inbox[p][i] : i \in DOMAIN inbox[p]}
    \/ Request[p][r] = "short"
    \/ thread[p] = "ended"
    \/ peer[p] = "gone"

OrderInv ==
    \A p \in Peer :
        /\ \A i, j \in 1 .. Len(answers[p]) : i < j => answers[p][i] < answers[p][j]
        /\ p \notin Pipelining => \A r \in 1 .. sent[p] : Fate(p, r)

\* Only what follows a short request on its way can be read wrongly.
MisreadInv ==
    \A p \in misread : /\ p \in Pipelining
                       /\ \E r \in 1 .. sent[p] - 1 : Request[p][r] = "short"

ServerInv ==
    BaseOK /\ AwayInv /\ ThreadInv /\ StopInv /\ InboxInv /\ OrderInv /\ MisreadInv
-----------------------------------------------------------------------------
LEMMA StepCases ==
    ASSUME [ServerNext]_serverVars
    PROVE  \/ StartServer \/ ServerRun \/ ServerLoop \/ ServerSelect
           \/ ServerAccept \/ ServerSpawn
           \/ \E p \in Peer : \/ ClientRun(p) \/ ClientSelect(p) \/ ClientHandle(p)
                              \/ Connect(p) \/ Send(p) \/ Disconnect(p)
           \/ StopBegin \/ StopLoop \/ StopJoin \/ StopServer
           \/ UNCHANGED serverVars
  BY DEF ServerNext, Server, Client, Stop

LEMMA AppendFacts ==
    ASSUME NEW S, NEW s \in Seq(S), NEW e \in S
    PROVE  /\ Append(s, e) \in Seq(S)
           /\ Len(s) \in Nat /\ Len(Append(s, e)) = Len(s) + 1
           /\ \A i \in 1 .. Len(s) : Append(s, e)[i] = s[i] /\ s[i] \in S
           /\ Append(s, e)[Len(s) + 1] = e
  OBVIOUS

\* Taking the first n of a sequence off.
LEMMA DropFacts ==
    ASSUME NEW S, NEW s \in Seq(S), NEW n \in 1 .. Len(s)
    PROVE  LET t == SubSeq(s, n + 1, Len(s))
           IN  /\ t \in Seq(S)
               /\ Len(t) = Len(s) - n
               /\ \A i \in 1 .. Len(t) : t[i] = s[n + i]
<1>1. Len(s) \in Nat /\ n + 1 \in Int /\ Len(s) \in Int
  OBVIOUS
<1>2. \A i \in n + 1 .. Len(s) : s[i] \in S
  BY <1>1
<1> DEFINE t == SubSeq(s, n + 1, Len(s))
<1>3. /\ t \in Seq(S)
      /\ Len(t) = IF n + 1 <= Len(s) THEN Len(s) - (n + 1) + 1 ELSE 0
      /\ \A i \in 1 .. Len(s) - (n + 1) + 1 : t[i] = s[n + 1 + i - 1]
  BY <1>1, <1>2, SubSeqProperties
<1>4. Len(t) = Len(s) - n /\ Len(s) - (n + 1) + 1 = Len(s) - n
  BY <1>1, <1>3
<1>5. \A i \in Int : n + 1 + i - 1 = n + i
  BY <1>1
<1> HIDE DEF t
<1>6. ASSUME NEW i \in 1 .. Len(t)
      PROVE  t[i] = s[n + i]
  <2>1. i \in Int /\ i \in 1 .. Len(s) - (n + 1) + 1
    BY <1>1, <1>4
  <2>2. t[i] = s[n + 1 + i - 1] /\ n + 1 + i - 1 = n + i
    BY <1>3, <1>5, <2>1
  <2> QED
    BY <2>2
<1>7. /\ t \in Seq(S) /\ Len(t) = Len(s) - n
      /\ \A i \in 1 .. Len(t) : t[i] = s[n + i]
  BY <1>3, <1>4, <1>6
<1> QED
  BY <1>7 DEF t

LEMMA RequestFacts ==
    \A p \in Peer : Len(Request[p]) \in Nat /\ DOMAIN Request[p] = 1 .. Len(Request[p])
  BY TestServerAssumption

\* What ClientHandle does with a read of n requests, of which r is the first.
Does(p, n, r) ==
    /\ inbox' = [inbox EXCEPT ![p] = Rest(@, n)]
    /\ \/ /\ \A i \in 1 .. n : Request[p][inbox[p][i]] = "short"
          /\ Turns(p, "loop")
          /\ UNCHANGED <<answers, misread>>
       \/ /\ Request[p][r] = "short" /\ n > 1
          /\ misread' = misread \cup {p}
          /\ Turns(p, "loop") \/ Turns(p, "ended")
          /\ UNCHANGED answers
       \/ /\ Request[p][r] = "unknown"
          /\ Turns(p, "ended")
          /\ UNCHANGED <<answers, misread>>
       \/ /\ Request[p][r] \notin {"short", "unknown"} /\ peer[p] # "gone"
          /\ answers' = [answers EXCEPT ![p] = Append(@, r)]
          /\ Turns(p, "loop")
          /\ UNCHANGED misread
       \/ /\ Request[p][r] \notin {"short", "unknown"} /\ peer[p] = "gone"
          /\ Turns(p, "loop") \/ Turns(p, "ended")
          /\ UNCHANGED <<answers, misread>>

\* One read takes requests from the front, the first of which is the next one.
LEMMA HandleDoes ==
    ASSUME BaseOK, InboxInv, NEW p \in Peer, ClientHandle(p)
    PROVE  /\ UNCHANGED <<server, srun, listening, accepted, clients, crun, socket, peer,
                          sent, stopping>>
           /\ thread[p] = "handle"
           /\ thread' \in {[thread EXCEPT ![p] = "loop"], [thread EXCEPT ![p] = "ended"]}
           /\ \E n \in 1 .. Len(inbox[p]) :
                 inbox' = [inbox EXCEPT ![p] = SubSeq(@, n + 1, Len(@))]
           /\ Len(inbox[p]) >= 1
           /\ answers' \in {answers, [answers EXCEPT ![p] = Append(@, Read(p) + 1)]}
           /\ \/ answers' = [answers EXCEPT ![p] = Append(@, Read(p) + 1)]
              \/ Request[p][Read(p) + 1] = "short"
              \/ thread'[p] = "ended"
              \/ peer[p] = "gone"
           /\ \/ misread' = misread
              \/ /\ misread' = misread \cup {p}
                 /\ Request[p][Read(p) + 1] = "short" /\ Len(inbox[p]) > 1
<1>1. PICK n, r : /\ n \in 1 .. Len(inbox[p])
                  /\ r = Head(inbox[p])
                  /\ Does(p, n, r)
  BY DEF ClientHandle, Does
<1>2. inbox[p] \in Seq(Nat) /\ Len(inbox[p]) \in Nat /\ Len(inbox[p]) >= 1 /\ n <= Len(inbox[p])
  BY <1>1 DEF BaseOK
<1>3. Head(inbox[p]) = Read(p) + 1 /\ inbox[p][1] = Read(p) + 1
  BY <1>2 DEF InboxInv
<1>4. r = Read(p) + 1 /\ inbox[p][1] = r
  BY <1>1, <1>3
<1>5. inbox' = [inbox EXCEPT ![p] = SubSeq(@, n + 1, Len(@))]
  BY <1>1 DEF Does, Rest
<1>6. thread' \in {[thread EXCEPT ![p] = "loop"], [thread EXCEPT ![p] = "ended"]}
  BY <1>1 DEF Does, Turns
<1>7. UNCHANGED <<server, srun, listening, accepted, clients, crun, socket, peer,
                  sent, stopping>> /\ thread[p] = "handle"
  BY DEF ClientHandle
<1>8. /\ answers' \in {answers, [answers EXCEPT ![p] = Append(@, r)]}
      /\ \/ answers' = [answers EXCEPT ![p] = Append(@, r)]
         \/ Request[p][r] = "short"
         \/ thread'[p] = "ended"
         \/ peer[p] = "gone"
      /\ \/ misread' = misread
         \/ misread' = misread \cup {p} /\ Request[p][r] = "short" /\ Len(inbox[p]) > 1
  <2>1. CASE \A i \in 1 .. n : Request[p][inbox[p][i]] = "short"
    <3>1. Request[p][r] = "short"
      BY <1>1, <1>2, <1>4, <2>1
    <3> QED
      BY <1>1, <1>2, <3>1 DEF Does
  <2>2. CASE Request[p][r] = "short" /\ n > 1
    BY <1>1, <1>2, <2>2 DEF Does
  <2>3. CASE Request[p][r] = "unknown"
    BY <1>1, <1>2, <1>4, <2>3 DEF Does, Turns, BaseOK
  <2>4. CASE Request[p][r] \notin {"short", "unknown"}
    BY <1>1, <1>2, <1>4, <2>4 DEF Does
  <2> QED
    BY <1>1, <2>1, <2>2, <2>3, <2>4 DEF Does
<1> QED
  BY <1>1, <1>2, <1>4, <1>5, <1>6, <1>7, <1>8

LEMMA BaseStep ==
    ASSUME BaseOK, InboxInv, StopInv, [ServerNext]_serverVars
    PROVE  BaseOK'
<1>1. CASE StartServer \/ ServerRun \/ ServerLoop \/ ServerSelect
  BY <1>1 DEF BaseOK, StartServer, ServerRun, ServerLoop, ServerSelect, Go, sockets, stopping
<1>2. CASE ServerAccept
  <2>1. accepted' \subseteq Peer
    BY <1>2 DEF BaseOK, ServerAccept, Queued
  <2>2. socket' \in [Peer -> {"none", "queued", "open", "closed"}]
    <3>1. \/ socket' = socket
          \/ \E p : \/ socket' = [socket EXCEPT ![p] = "open"]
                   \/ socket' = [socket EXCEPT ![p] = "closed"]
      BY <1>2 DEF ServerAccept
    <3>2. socket \in [Peer -> {"none", "queued", "open", "closed"}]
      BY DEF BaseOK
    <3> QED
      BY <3>1, <3>2
  <2>3. server' \in {"loop", "spawn"}
    BY <1>2 DEF ServerAccept, Go
  <2> QED
    BY <1>2, <2>1, <2>2, <2>3 DEF BaseOK, ServerAccept, sockets, stopping
<1>3. CASE ServerSpawn
  <2>1. clients' = clients \/ \E p \in accepted : clients' = Append(clients, p)
    BY <1>3 DEF ServerSpawn
  <2>2. clients' \in Seq(Peer)
    <3>1. CASE clients' = clients
      BY <3>1 DEF BaseOK
    <3>2. ASSUME NEW p \in accepted, clients' = Append(clients, p)
          PROVE  clients' \in Seq(Peer)
      <4>1. p \in Peer /\ clients \in Seq(Peer)
        BY DEF BaseOK
      <4> QED
        BY <3>2, <4>1, AppendFacts
    <3> QED
      BY <2>1, <3>1, <3>2
  <2> QED
    BY <1>3, <2>2 DEF BaseOK, ServerSpawn, Go, sockets, stopping
<1>4. ASSUME NEW p \in Peer, ClientRun(p)
      PROVE  BaseOK'
  <2>1. /\ crun' \in {crun, [crun EXCEPT ![p] = TRUE]}
        /\ \E at \in {"loop", "select", "ended"} : thread' = [thread EXCEPT ![p] = at]
        /\ UNCHANGED <<server, srun, listening, accepted, clients, socket, sockets, stopping>>
    BY <1>4 DEF ClientRun
  <2>2. crun' \in [Peer -> BOOLEAN]
    BY <2>1 DEF BaseOK
  <2>3. thread' \in [Peer -> {"none", "started", "loop", "select", "handle", "ended"}]
    <3>1. PICK at \in {"loop", "select", "ended"} : thread' = [thread EXCEPT ![p] = at]
      BY <2>1
    <3>2. thread \in [Peer -> {"none", "started", "loop", "select", "handle", "ended"}]
      BY DEF BaseOK
    <3> QED
      BY <3>1, <3>2
  <2> QED
    BY <2>1, <2>2, <2>3 DEF BaseOK, sockets, stopping
<1>5. ASSUME NEW p \in Peer, ClientSelect(p)
      PROVE  BaseOK'
  BY <1>5 DEF BaseOK, ClientSelect, sockets, stopping
<1>6. ASSUME NEW p \in Peer, ClientHandle(p)
      PROVE  BaseOK'
  <2>1. PICK n \in 1 .. Len(inbox[p]) :
           inbox' = [inbox EXCEPT ![p] = SubSeq(@, n + 1, Len(@))]
    BY <1>6, HandleDoes
  <2>2. inbox' \in [Peer -> Seq(Nat)]
    BY <2>1, DropFacts DEF BaseOK
  <2>3. Read(p) + 1 \in Nat
    BY DEF InboxInv
  <2>4. answers' \in [Peer -> Seq(Nat)]
    <3>1. Append(answers[p], Read(p) + 1) \in Seq(Nat)
      BY <2>3, AppendFacts DEF BaseOK
    <3>2. answers' \in {answers, [answers EXCEPT ![p] = Append(@, Read(p) + 1)]}
      BY <1>6, HandleDoes
    <3> QED
      BY <3>1, <3>2 DEF BaseOK
  <2>5. thread' \in [Peer -> {"none", "started", "loop", "select", "handle", "ended"}]
    <3>1. thread' \in {[thread EXCEPT ![p] = "loop"], [thread EXCEPT ![p] = "ended"]}
      BY <1>6, HandleDoes
    <3> QED
      BY <3>1 DEF BaseOK
  <2>6. misread' \subseteq Peer
    <3>1. misread' = misread \/ misread' = misread \cup {p}
      BY <1>6, HandleDoes
    <3> QED
      BY <3>1 DEF BaseOK
  <2>7. UNCHANGED <<server, srun, listening, accepted, clients, crun, socket, peer,
                    sent, stop, known, unheard>>
    BY <1>6, HandleDoes DEF stopping
  <2> QED
    BY <2>2, <2>4, <2>5, <2>6, <2>7 DEF BaseOK
<1>7. ASSUME NEW p \in Peer, Connect(p) \/ Disconnect(p)
      PROVE  BaseOK'
  BY <1>7 DEF BaseOK, Connect, Disconnect, stopping
<1>8. ASSUME NEW p \in Peer, Send(p)
      PROVE  BaseOK'
  <2>1. sent[p] + 1 \in Nat /\ inbox[p] \in Seq(Nat)
    BY DEF BaseOK
  <2>2. inbox' \in [Peer -> Seq(Nat)] /\ sent' \in [Peer -> Nat]
    BY <1>8, <2>1, AppendFacts DEF BaseOK, Send
  <2> QED
    BY <1>8, <2>2 DEF BaseOK, Send, stopping
<1>9. CASE StopBegin
  <2>1. known' \subseteq Peer
    BY <1>9 DEF BaseOK, StopBegin
  <2> QED
    BY <1>9, <2>1 DEF BaseOK, StopBegin, sockets
<1>10. CASE StopLoop
  <2>1. stop.i \in Nat \ {0} /\ Len(clients) \in Nat
    BY DEF BaseOK
  <2>2. stop.i <= Len(clients) => clients[stop.i] \in Peer
    BY <2>1 DEF BaseOK
  <2>3. stop' \in [at : {"idle", "loop", "join", "clear", "flag", "done"}, i : Nat \ {0}]
    <3>1. stop' \in {[stop EXCEPT !.at = "clear"], [stop EXCEPT !.at = "join"],
                     [stop EXCEPT !.i = @ + 1]}
      BY <1>10 DEF StopLoop
    <3> QED
      BY <2>1, <3>1 DEF BaseOK
  <2>4. /\ crun' \in [Peer -> BOOLEAN] /\ unheard' \subseteq Peer
        /\ socket' \in [Peer -> {"none", "queued", "open", "closed"}]
    <3>1. CASE stop.i > Len(clients)
      BY <1>10, <3>1 DEF BaseOK, StopLoop
    <3>2. CASE ~(stop.i > Len(clients))
      <4>1. PICK p \in Peer : p = clients[stop.i]
        BY <2>1, <2>2, <3>2
      <4>2. /\ crun' \in {crun, [crun EXCEPT ![p] = FALSE]}
            /\ unheard' \in {unheard, unheard \cup {p}}
            /\ socket' \in {socket, [socket EXCEPT ![p] = "closed"]}
        BY <1>10, <3>2, <4>1 DEF StopLoop
      <4> QED
        BY <4>2 DEF BaseOK
    <3> QED
      BY <3>1, <3>2
  <2> QED
    BY <1>10, <2>3, <2>4 DEF BaseOK, StopLoop, sockets
<1>11. CASE StopJoin
  <2>1. stop.i \in Nat \ {0} /\ Len(clients) \in Nat /\ clients[stop.i] \in Peer
    BY <1>11 DEF BaseOK, StopInv, StopJoin
  <2>2. stop' \in [at : {"idle", "loop", "join", "clear", "flag", "done"}, i : Nat \ {0}]
    BY <1>11, <2>1 DEF StopJoin
  <2>3. socket' \in [Peer -> {"none", "queued", "open", "closed"}]
    BY <1>11, <2>1 DEF BaseOK, StopJoin
  <2> QED
    BY <1>11, <2>2, <2>3 DEF BaseOK, StopJoin, sockets
<1>12. CASE StopServer
  <2>1. clients' \in Seq(Peer)
    <3>1. clients' = clients \/ clients' = <<>>
      BY <1>12 DEF StopServer
    <3>2. clients \in Seq(Peer) /\ <<>> \in Seq(Peer)
      BY DEF BaseOK
    <3> QED
      BY <3>1, <3>2
  <2>2. stop' \in {[stop EXCEPT !.at = "flag"], [stop EXCEPT !.at = "done"]}
    BY <1>12 DEF StopServer
  <2>3. stop' \in [at : {"idle", "loop", "join", "clear", "flag", "done"}, i : Nat \ {0}]
    BY <2>2 DEF BaseOK
  <2>4. srun' \in BOOLEAN /\ listening' \in {"bound", "open", "closed"}
    BY <1>12 DEF BaseOK, StopServer
  <2> QED
    BY <1>12, <2>1, <2>3, <2>4 DEF BaseOK, StopServer, sockets
<1>13. CASE UNCHANGED serverVars
  BY <1>13 DEF BaseOK, serverVars
<1> QED
  BY <1>1, <1>2, <1>3, <1>4, <1>5, <1>6, <1>7, <1>8, <1>9, <1>10, <1>11, <1>12, <1>13, StepCases
-----------------------------------------------------------------------------
(* Clients *)

\* Where no peer is accepted, spawned or appended.
LEMMA ThreadStays ==
    ASSUME BaseOK, ThreadInv, accepted' = accepted, clients' = clients \/ clients' = <<>>,
           server' = server \/ {server, server'} \cap {"spawn", "append"} = {},
           \A q \in Peer : thread'[q] = "none" <=> thread[q] = "none",
           \A q \in Peer : socket[q] \in {"open", "closed"} => socket'[q] \in {"open", "closed"}
    PROVE  ThreadInv'
<1>1. /\ server' \in {"spawn", "append"} => \E p \in Peer : accepted' = {p}
      /\ server' \notin {"spawn", "append"} => accepted' = {}
  BY DEF ThreadInv
<1>2. ASSUME NEW p \in accepted'
      PROVE  /\ socket'[p] \in {"open", "closed"}
             /\ thread'[p] = "none" <=> server' = "spawn"
  <2>1. p \in accepted /\ p \in Peer /\ server \in {"spawn", "append"}
    BY <1>2 DEF BaseOK, ThreadInv
  <2>2. server' = server
    BY <2>1
  <2> QED
    BY <2>1, <2>2 DEF ThreadInv
<1>3. \A p \in Peer : thread'[p] # "none" => socket'[p] \in {"open", "closed"}
  BY DEF ThreadInv
<1>4. CASE clients' = clients
  <2>1. \A i \in 1 .. Len(clients) : clients[i] \in Peer
    BY DEF BaseOK
  <2>2. \A i \in 1 .. Len(clients') :
           thread'[clients'[i]] # "none" /\ clients'[i] \notin accepted'
    BY <1>4, <2>1 DEF ThreadInv
  <2>3. \A i, j \in 1 .. Len(clients') : clients'[i] = clients'[j] => i = j
    BY <1>4 DEF ThreadInv
  <2> QED
    BY <1>1, <1>2, <1>3, <2>2, <2>3 DEF ThreadInv
<1>5. CASE clients' = <<>>
  <2>1. 1 .. Len(clients') = {}
    BY <1>5
  <2> QED
    BY <1>1, <1>2, <1>3, <2>1 DEF ThreadInv
<1> QED
  BY <1>4, <1>5

LEMMA ClientThread ==
    ASSUME BaseOK, InboxInv, NEW p \in Peer, ClientRun(p) \/ ClientSelect(p) \/ ClientHandle(p)
    PROVE  /\ UNCHANGED <<server, accepted, clients, peer, stopping>>
           /\ thread[p] \notin {"none", "ended"}
           /\ \E at \in {"loop", "select", "handle", "ended"} : thread' = [thread EXCEPT ![p] = at]
           /\ \A q \in Peer : socket'[q] = socket[q] \/ (q = p /\ socket'[q] = "closed")
<1>1. CASE ClientRun(p)
  BY <1>1 DEF ClientRun, sockets
<1>2. CASE ClientSelect(p)
  <2>1. socket' = socket \/ socket' = [socket EXCEPT ![p] = "closed"]
    BY <1>2 DEF ClientSelect
  <2>2. \A q \in Peer : socket'[q] = socket[q] \/ (q = p /\ socket'[q] = "closed")
    BY <2>1 DEF BaseOK
  <2> QED
    BY <1>2, <2>2 DEF ClientSelect, sockets
<1>3. CASE ClientHandle(p)
  BY <1>3, HandleDoes
<1> QED
  BY <1>1, <1>2, <1>3

LEMMA AcceptThread ==
    ASSUME BaseOK, ThreadInv, ServerAccept
    PROVE  ThreadInv'
<1>1. /\ server = "accept" /\ clients' = clients /\ thread' = thread
      /\ accepted = {}
  BY DEF ServerAccept, ThreadInv
<1>2. CASE UNCHANGED <<accepted, socket>> /\ server' = "loop"
  BY <1>1, <1>2, ThreadStays
<1>3. ASSUME NEW p \in Queued, UNCHANGED accepted, server' = "loop",
             socket' = [socket EXCEPT ![p] = "closed"]
      PROVE  ThreadInv'
  <2>1. \A q \in Peer : socket[q] \in {"open", "closed"} => socket'[q] \in {"open", "closed"}
    BY <1>3 DEF BaseOK
  <2> QED
    BY <1>1, <1>3, <2>1, ThreadStays
<1>4. ASSUME NEW p \in Queued, server' = "spawn", accepted' = {p},
             socket' = [socket EXCEPT ![p] = "open"]
      PROVE  ThreadInv'
  <2>2. p \in Peer /\ socket[p] = "queued" /\ thread[p] = "none"
    BY DEF Queued, ThreadInv, BaseOK
  <2>3. /\ socket'[p] = "open"
        /\ \A q \in Peer : q # p => socket'[q] = socket[q]
    BY <1>4, <2>2 DEF BaseOK
  <2>4. \A i \in 1 .. Len(clients) : clients[i] \in Peer /\ clients[i] # p
    <3>1. \A i \in 1 .. Len(clients) : clients[i] \in Peer
      BY DEF BaseOK
    <3>2. \A i \in 1 .. Len(clients) : thread[clients[i]] # "none"
      BY DEF ThreadInv
    <3> QED
      BY <2>2, <3>1, <3>2
  <2>5. /\ server' \in {"spawn", "append"} => \E q \in Peer : accepted' = {q}
        /\ server' \notin {"spawn", "append"} => accepted' = {}
        /\ \A q \in accepted' : /\ socket'[q] \in {"open", "closed"}
                                /\ thread'[q] = "none" <=> server' = "spawn"
    BY <1>1, <1>4, <2>2, <2>3
  <2>6. \A q \in Peer : thread'[q] # "none" => socket'[q] \in {"open", "closed"}
    BY <1>1, <2>3 DEF ThreadInv
  <2>7. /\ \A i \in 1 .. Len(clients) : thread[clients[i]] # "none" /\ clients[i] \notin accepted'
        /\ \A i, j \in 1 .. Len(clients) : clients[i] = clients[j] => i = j
    BY <1>4, <2>4 DEF ThreadInv
  <2> QED
    BY <1>1, <2>5, <2>6, <2>7 DEF ThreadInv
<1> QED
  BY <1>2, <1>3, <1>4 DEF ServerAccept, Go

LEMMA SpawnDoes ==
    ASSUME BaseOK, ThreadInv, ServerSpawn
    PROVE  \E p \in Peer :
              /\ accepted = {p} /\ socket[p] \in {"open", "closed"}
              /\ UNCHANGED <<socket, peer, sent, inbox, answers, stopping>>
              /\ \/ /\ server = "spawn" /\ server' = "append" /\ thread[p] = "none"
                    /\ thread' = [thread EXCEPT ![p] = "started"]
                    /\ UNCHANGED <<accepted, clients>>
                 \/ /\ server = "append" /\ server' = "loop" /\ thread[p] # "none"
                    /\ clients' = Append(clients, p)
                    /\ accepted' = {}
                    /\ thread' = thread
<1>1. PICK p \in Peer : accepted = {p}
  BY DEF ServerSpawn, ThreadInv
<1>2. UNCHANGED <<socket, peer, sent, inbox, answers, stopping>>
  BY DEF ServerSpawn, sockets
<1>3. CASE server = "spawn"
  <2>1. thread' = [q \in Peer |-> IF q \in accepted THEN "started" ELSE thread[q]]
    BY <1>3 DEF ServerSpawn
  <2>2. thread' = [thread EXCEPT ![p] = "started"]
    BY <1>1, <2>1 DEF BaseOK
  <2> QED
    BY <1>1, <1>2, <1>3, <2>2 DEF ServerSpawn, ThreadInv, Go
<1>4. CASE server = "append"
  BY <1>1, <1>2, <1>4 DEF ServerSpawn, ThreadInv, Go
<1> QED
  BY <1>3, <1>4 DEF ServerSpawn

LEMMA SpawnThread ==
    ASSUME BaseOK, ThreadInv, ServerSpawn
    PROVE  ThreadInv'
<1>1. PICK p \in Peer :
              /\ accepted = {p} /\ socket[p] \in {"open", "closed"}
              /\ socket' = socket
              /\ \/ /\ server = "spawn" /\ server' = "append" /\ thread[p] = "none"
                    /\ thread' = [thread EXCEPT ![p] = "started"]
                    /\ UNCHANGED <<accepted, clients>>
                 \/ /\ server = "append" /\ server' = "loop" /\ thread[p] # "none"
                    /\ clients' = Append(clients, p)
                    /\ accepted' = {}
                    /\ thread' = thread
  BY SpawnDoes
<1>2. \A i \in 1 .. Len(clients) : clients[i] \in Peer /\ clients[i] # p
  <2>1. \A i \in 1 .. Len(clients) : clients[i] \in Peer
    BY DEF BaseOK
  <2>2. \A i \in 1 .. Len(clients) : clients[i] \notin accepted
    BY DEF ThreadInv
  <2> QED
    BY <1>1, <2>1, <2>2
<1>3. CASE server = "spawn"
  <2>1. /\ server' = "append" /\ accepted' = {p} /\ clients' = clients /\ socket' = socket
        /\ thread'[p] = "started"
        /\ \A q \in Peer : q # p => thread'[q] = thread[q]
    BY <1>1, <1>3 DEF BaseOK
  <2>2. /\ server' \in {"spawn", "append"} => \E q \in Peer : accepted' = {q}
        /\ server' \notin {"spawn", "append"} => accepted' = {}
        /\ \A q \in accepted' : /\ socket'[q] \in {"open", "closed"}
                                /\ thread'[q] = "none" <=> server' = "spawn"
    BY <1>1, <2>1
  <2>3. \A q \in Peer : thread'[q] # "none" => socket'[q] \in {"open", "closed"}
    BY <1>1, <2>1 DEF ThreadInv
  <2>4. /\ \A i \in 1 .. Len(clients') :
              thread'[clients'[i]] # "none" /\ clients'[i] \notin accepted'
        /\ \A i, j \in 1 .. Len(clients') : clients'[i] = clients'[j] => i = j
    BY <1>1, <1>2, <2>1 DEF ThreadInv
  <2> QED
    BY <2>2, <2>3, <2>4 DEF ThreadInv
<1>4. CASE server = "append"
  <2>1. /\ server' = "loop" /\ accepted' = {} /\ thread' = thread /\ socket' = socket
        /\ thread[p] # "none"
    BY <1>1, <1>4
  <2>2. /\ Len(clients) \in Nat /\ Len(clients') = Len(clients) + 1
        /\ \A i \in 1 .. Len(clients) : clients'[i] = clients[i]
        /\ clients'[Len(clients) + 1] = p
    <3>1. clients' = Append(clients, p) /\ clients \in Seq(Peer)
      BY <1>1, <1>4 DEF BaseOK
    <3> QED
      BY <3>1, AppendFacts
  <2>3. \A i \in 1 .. Len(clients') : i \in 1 .. Len(clients) \/ i = Len(clients) + 1
    BY <2>2
  <2>4. \A i \in 1 .. Len(clients') :
              thread'[clients'[i]] # "none" /\ clients'[i] \notin accepted'
    BY <2>1, <2>2, <2>3 DEF ThreadInv
  <2>5. ASSUME NEW i \in 1 .. Len(clients'), NEW j \in 1 .. Len(clients'),
               clients'[i] = clients'[j]
        PROVE  i = j
    BY <1>2, <2>2, <2>3, <2>5 DEF ThreadInv
  <2> QED
    BY <2>1, <2>4, <2>5 DEF ThreadInv
<1> QED
  BY <1>1, <1>3, <1>4

LEMMA ThreadStep ==
    ASSUME BaseOK, ThreadInv, InboxInv, [ServerNext]_serverVars
    PROVE  ThreadInv'
<1>1. CASE StartServer \/ ServerRun \/ ServerLoop \/ ServerSelect
  <2>1. /\ UNCHANGED <<accepted, clients, thread, socket>>
        /\ {server, server'} \cap {"spawn", "append"} = {}
    BY <1>1 DEF StartServer, ServerRun, ServerLoop, ServerSelect, Go, sockets
  <2> QED
    BY <2>1, ThreadStays
<1>2. ASSUME NEW p \in Peer, ClientRun(p) \/ ClientSelect(p) \/ ClientHandle(p)
      PROVE  ThreadInv'
  <2>1. /\ UNCHANGED <<server, accepted, clients, peer>>
        /\ thread[p] \notin {"none", "ended"}
        /\ \E at \in {"loop", "select", "handle", "ended"} : thread' = [thread EXCEPT ![p] = at]
        /\ \A q \in Peer : socket'[q] = socket[q] \/ (q = p /\ socket'[q] = "closed")
    BY <1>2, ClientThread
  <2>2. \A q \in Peer : thread'[q] = "none" <=> thread[q] = "none"
    BY <2>1 DEF BaseOK
  <2> QED
    BY <2>1, <2>2, ThreadStays
<1>3. ASSUME NEW p \in Peer, Connect(p) \/ Send(p) \/ Disconnect(p)
      PROVE  ThreadInv'
  <2>1. UNCHANGED <<server, accepted, clients, thread>>
    BY <1>3 DEF Connect, Send, Disconnect
  <2>2. \/ socket' = socket
        \/ socket[p] = "none" /\ socket' = [socket EXCEPT ![p] = "queued"]
    BY <1>3 DEF Connect, Send, Disconnect
  <2>3. \A q \in Peer : socket[q] \in {"open", "closed"} => socket'[q] \in {"open", "closed"}
    BY <2>2 DEF BaseOK
  <2> QED
    BY <2>1, <2>3, ThreadStays
<1>4. CASE StopBegin \/ StopLoop \/ StopJoin \/ StopServer \/ UNCHANGED serverVars
  <2>1. UNCHANGED <<server, accepted, thread>> /\ (clients' = clients \/ clients' = <<>>)
    BY <1>4 DEF StopBegin, StopLoop, StopJoin, StopServer, serverVars
  <2>2. socket' = socket \/ \E c : socket' = [socket EXCEPT ![c] = "closed"]
    BY <1>4 DEF StopBegin, StopLoop, StopJoin, StopServer, serverVars
  <2>3. \A q \in Peer : socket[q] \in {"open", "closed"} => socket'[q] \in {"open", "closed"}
    BY <2>2 DEF BaseOK
  <2> QED
    BY <2>1, <2>3, ThreadStays
<1> QED
  BY <1>1, <1>2, <1>3, <1>4, AcceptThread, SpawnThread, StepCases
-----------------------------------------------------------------------------
(* stop *)

LEMMA StopLoopDoes ==
    ASSUME BaseOK, StopInv, ThreadInv, StopLoop
    PROVE  /\ UNCHANGED <<server, accepted, clients, thread, peer, sent, inbox, answers, known>>
           /\ stop.at = "loop"
           /\ \/ /\ stop.i > Len(clients)
                 /\ stop' = [stop EXCEPT !.at = "clear"]
                 /\ socket' = socket
              \/ /\ stop.i <= Len(clients)
                 /\ stop' = [stop EXCEPT !.at = "join"]
                 /\ socket' = socket
              \/ /\ stop.i <= Len(clients)
                 /\ clients[stop.i] \in Peer
                 /\ thread[clients[stop.i]] = "ended"
                 /\ socket' = [socket EXCEPT ![clients[stop.i]] = "closed"]
                 /\ stop' = [stop EXCEPT !.i = @ + 1]
<1>1. /\ UNCHANGED <<server, accepted, clients, thread, peer, sent, inbox, answers, known>>
      /\ stop.at = "loop"
  BY DEF StopLoop, sockets
<1>2. stop.i \in Nat \ {0} /\ Len(clients) \in Nat
  BY DEF BaseOK
<1>3. CASE stop.i > Len(clients)
  BY <1>1, <1>3 DEF StopLoop
<1>4. CASE ~(stop.i > Len(clients))
  <2>1. stop.i <= Len(clients) /\ stop.i \in 1 .. Len(clients)
    BY <1>2, <1>4
  <2>2. clients[stop.i] \in Peer /\ thread[clients[stop.i]] # "none"
    BY <2>1 DEF BaseOK, ThreadInv
  <2>3. CASE IsAlive(clients[stop.i])
    BY <1>1, <1>4, <2>1, <2>3 DEF StopLoop
  <2>4. CASE ~IsAlive(clients[stop.i])
    <3>1. thread[clients[stop.i]] = "ended"
      BY <2>2, <2>4 DEF IsAlive
    <3> QED
      BY <1>1, <1>4, <2>1, <2>2, <2>4, <3>1 DEF StopLoop
  <2> QED
    BY <2>3, <2>4
<1> QED
  BY <1>3, <1>4

LEMMA StopJoinDoes ==
    ASSUME BaseOK, StopInv, ThreadInv, StopJoin
    PROVE  /\ UNCHANGED <<server, accepted, clients, thread, peer, sent, inbox, answers, known>>
           /\ stop.at = "join"
           /\ stop.i \in 1 .. Len(clients)
           /\ clients[stop.i] \in Peer
           /\ thread[clients[stop.i]] = "ended"
           /\ socket' = [socket EXCEPT ![clients[stop.i]] = "closed"]
           /\ stop' = [at |-> "loop", i |-> stop.i + 1]
<1>1. /\ UNCHANGED <<server, accepted, clients, thread, peer, sent, inbox, answers, known>>
      /\ stop.at = "join"
      /\ ~IsAlive(clients[stop.i])
      /\ socket' = [socket EXCEPT ![clients[stop.i]] = "closed"]
      /\ stop' = [at |-> "loop", i |-> stop.i + 1]
  BY DEF StopJoin, sockets
<1>2. stop.i \in 1 .. Len(clients)
  BY <1>1 DEF BaseOK, StopInv
<1>3. clients[stop.i] \in Peer /\ thread[clients[stop.i]] = "ended"
  BY <1>1, <1>2 DEF BaseOK, ThreadInv, IsAlive
<1> QED
  BY <1>1, <1>2, <1>3

\* A client whose thread has ended and whose socket is closed stays so: the
\* peer is not accepted again.
LEMMA OverStays ==
    ASSUME BaseOK, ThreadInv, StopInv, InboxInv, [ServerNext]_serverVars,
           NEW q \in Peer, Over(q)
    PROVE  Over(q)'
<1>0. thread[q] = "ended" /\ socket[q] = "closed"
  BY DEF Over
<1>1. CASE StartServer \/ ServerRun \/ ServerLoop \/ ServerSelect
  BY <1>0, <1>1 DEF StartServer, ServerRun, ServerLoop, ServerSelect, Over
<1>2. CASE ServerAccept
  <2>1. /\ thread' = thread
        /\ \/ socket' = socket
           \/ \E p \in Queued, e \in {"open", "closed"} : socket' = [socket EXCEPT ![p] = e]
    BY <1>2 DEF ServerAccept
  <2>2. q \notin Queued
    BY <1>0 DEF Queued
  <2>3. socket'[q] = socket[q]
    BY <2>1, <2>2 DEF BaseOK
  <2> QED
    BY <1>0, <2>1, <2>3 DEF Over
<1>3. CASE ServerSpawn
  <2>1. PICK p \in Peer : /\ socket' = socket
                          /\ \/ thread[p] = "none" /\ thread' = [thread EXCEPT ![p] = "started"]
                             \/ thread' = thread
    BY <1>3, SpawnDoes
  <2> QED
    BY <1>0, <2>1 DEF Over, BaseOK
<1>4. ASSUME NEW p \in Peer, ClientRun(p) \/ ClientSelect(p) \/ ClientHandle(p)
      PROVE  Over(q)'
  <2>1. /\ thread[p] \notin {"none", "ended"}
        /\ \E at \in {"loop", "select", "handle", "ended"} : thread' = [thread EXCEPT ![p] = at]
        /\ \A r \in Peer : socket'[r] = socket[r] \/ (r = p /\ socket'[r] = "closed")
    BY <1>4, ClientThread
  <2> QED
    BY <1>0, <2>1 DEF Over, BaseOK
<1>5. ASSUME NEW p \in Peer, Connect(p) \/ Send(p) \/ Disconnect(p)
      PROVE  Over(q)'
  BY <1>0, <1>5 DEF Connect, Send, Disconnect, Over, BaseOK
<1>6. CASE StopBegin \/ StopServer \/ UNCHANGED serverVars
  BY <1>0, <1>6 DEF StopBegin, StopServer, serverVars, Over
<1>7. CASE StopLoop \/ StopJoin
  <2>1. /\ thread' = thread
        /\ socket' = socket \/ socket' = [socket EXCEPT ![clients[stop.i]] = "closed"]
    BY <1>7, StopLoopDoes, StopJoinDoes
  <2> QED
    BY <1>0, <2>1 DEF Over, BaseOK
<1> QED
  BY <1>1, <1>2, <1>3, <1>4, <1>5, <1>6, <1>7, StepCases

\* More clients than peers there are not.
LEMMA ClientsFit ==
    ASSUME BaseOK, ThreadInv
    PROVE  Len(clients) \in Nat /\ Cardinality(Peer) \in Nat /\ Len(clients) <= Cardinality(Peer)
<1>1. /\ Len(clients) \in Nat /\ clients \in [1 .. Len(clients) -> Peer]
      /\ IsFiniteSet(Peer) /\ Cardinality(Peer) \in Nat
  BY FS_CardinalityType, TestServerAssumption DEF BaseOK
<1>2. clients \in Injection(1 .. Len(clients), Peer)
  BY <1>1 DEF ThreadInv, Injection, IsInjective
<1>3. Cardinality(1 .. Len(clients)) <= Cardinality(Peer)
  BY <1>1, <1>2, FS_Injection
<1>4. Cardinality(1 .. Len(clients)) = Len(clients)
  <2>1. PICK n \in Nat : n = Len(clients)
    BY <1>1
  <2>2. Cardinality(1 .. n) = IF 1 > n THEN 0 ELSE n - 1 + 1
    BY FS_Interval
  <2> QED
    BY <2>1, <2>2
<1> QED
  BY <1>1, <1>3, <1>4

\* Where stop does nothing, and clients are not forgotten.
LEMMA StopStays ==
    ASSUME BaseOK, StopInv, UNCHANGED <<stop, known>>,
           clients' = clients \/ \E p \in Peer : clients' = Append(clients, p),
           \A q \in Peer : Over(q) => Over(q)'
    PROVE  StopInv'
<1>1. /\ Len(clients) \in Nat /\ Len(clients') \in Nat /\ Len(clients) <= Len(clients')
      /\ \A i \in 1 .. Len(clients) : clients[i] \in Peer /\ clients'[i] = clients[i]
  <2>1. CASE clients' = clients
    BY <2>1 DEF BaseOK
  <2>2. ASSUME NEW p \in Peer, clients' = Append(clients, p)
        PROVE  /\ Len(clients) \in Nat /\ Len(clients') \in Nat /\ Len(clients) <= Len(clients')
               /\ \A i \in 1 .. Len(clients) : clients[i] \in Peer /\ clients'[i] = clients[i]
    <3>1. clients \in Seq(Peer)
      BY DEF BaseOK
    <3> QED
      BY <2>2, <3>1, AppendFacts
  <2> QED
    BY <2>1, <2>2
<1>2. stop.i \in Nat \ {0} /\ known \subseteq Peer
  BY DEF BaseOK
<1>3. ASSUME stop.at \in {"loop", "join"}
      PROVE  /\ \A p \in known : \E i \in 1 .. Len(clients') : clients'[i] = p
             /\ stop.i <= Len(clients') + 1
             /\ \A i \in 1 .. stop.i - 1 : Over(clients[i])' /\ clients'[i] = clients[i]
  <2>1. /\ \A p \in known : \E i \in 1 .. Len(clients) : clients[i] = p
        /\ stop.i <= Len(clients) + 1
        /\ \A i \in 1 .. stop.i - 1 : Over(clients[i])
    BY <1>3 DEF StopInv
  <2>2. \A i \in 1 .. Len(clients) : i \in 1 .. Len(clients')
    BY <1>1
  <2>3. \A p \in known : \E i \in 1 .. Len(clients') : clients'[i] = p
    BY <1>1, <2>1, <2>2
  <2>4. \A i \in 1 .. stop.i - 1 : i \in 1 .. Len(clients)
    BY <1>1, <1>2, <2>1
  <2>5. ASSUME NEW i \in 1 .. stop.i - 1
        PROVE  Over(clients[i])' /\ clients'[i] = clients[i]
    <3>1. clients[i] \in Peer /\ clients'[i] = clients[i] /\ Over(clients[i])
      BY <1>1, <2>1, <2>4
    <3>2. PICK c : c = clients[i]
      OBVIOUS
    <3>3. Over(c)'
      BY <3>1, <3>2
    <3> QED
      BY <3>1, <3>2, <3>3
  <2> QED
    BY <1>1, <1>2, <2>1, <2>3, <2>5
<1>4. stop.at = "join" => stop.i <= Len(clients')
  BY <1>1, <1>2 DEF StopInv
<1>5. stop.at \in {"clear", "flag", "done"} => \A p \in known : Over(p)'
  BY <1>2 DEF StopInv
<1> QED
  BY <1>3, <1>4, <1>5 DEF StopInv, Over

LEMMA StopStep ==
    ASSUME BaseOK, ThreadInv, StopInv, InboxInv, [ServerNext]_serverVars
    PROVE  StopInv'
<1>0. \A q \in Peer : Over(q) => Over(q)'
  BY OverStays
<1>1. CASE StartServer \/ ServerRun \/ ServerLoop \/ ServerSelect \/ ServerAccept
  <2>1. UNCHANGED <<stop, known, clients>>
    BY <1>1 DEF StartServer, ServerRun, ServerLoop, ServerSelect, ServerAccept, stopping
  <2> QED
    BY <1>0, <2>1, StopStays
<1>2. CASE ServerSpawn
  <2>1. UNCHANGED <<stop, known>>
        /\ (clients' = clients \/ \E p \in Peer : clients' = Append(clients, p))
    BY <1>2, SpawnDoes DEF stopping
  <2> QED
    BY <1>0, <2>1, StopStays
<1>3. ASSUME NEW p \in Peer, ClientRun(p) \/ ClientSelect(p) \/ ClientHandle(p)
      PROVE  StopInv'
  <2>1. UNCHANGED <<stop, known, clients>>
    BY <1>3, ClientThread DEF stopping
  <2> QED
    BY <1>0, <2>1, StopStays
<1>4. ASSUME NEW p \in Peer, Connect(p) \/ Send(p) \/ Disconnect(p)
      PROVE  StopInv'
  <2>1. UNCHANGED <<stop, known, clients>>
    BY <1>4 DEF Connect, Send, Disconnect, stopping
  <2> QED
    BY <1>0, <2>1, StopStays
<1>5. CASE UNCHANGED serverVars
  <2>1. UNCHANGED <<stop, known, clients>>
    BY <1>5 DEF serverVars
  <2> QED
    BY <1>0, <2>1, StopStays
<1>6. CASE StopBegin
  <2>1. /\ stop.at = "idle" /\ stop.i = 1 /\ clients' = clients
        /\ stop'.at = "loop" /\ stop'.i = 1
        /\ known' = {clients[i] : i \in 1 .. Len(clients)}
    <3>1. stop.at = "idle" /\ clients' = clients /\ stop' = [stop EXCEPT !.at = "loop"]
      BY <1>6 DEF StopBegin
    <3>2. stop.i = 1 /\ stop'.at = "loop" /\ stop'.i = stop.i
      BY <3>1 DEF StopInv, BaseOK
    <3>3. known' = {clients[i] : i \in DOMAIN clients} /\ DOMAIN clients = 1 .. Len(clients)
      BY <1>6 DEF StopBegin, BaseOK
    <3> QED
      BY <3>1, <3>2, <3>3
  <2>2. /\ Len(clients) \in Nat
        /\ \A p \in known' : \E i \in 1 .. Len(clients) : clients[i] = p
    BY <2>1, ClientsFit
  <2>3. 1 .. stop'.i - 1 = {} /\ stop'.i <= Len(clients') + 1 /\ stop'.i <= Cardinality(Peer) + 1
    BY <2>1, <2>2, ClientsFit
  <2> QED
    BY <2>1, <2>2, <2>3 DEF StopInv
<1>7. CASE StopLoop \/ StopJoin
  <2>1. /\ stop.at \in {"loop", "join"} /\ stop.i \in Nat \ {0}
        /\ clients' = clients /\ known' = known /\ known \subseteq Peer
    BY <1>7, StopLoopDoes, StopJoinDoes DEF BaseOK
  <2>2. /\ \A p \in known : \E i \in 1 .. Len(clients) : clients[i] = p
        /\ stop.i <= Len(clients) + 1
        /\ \A i \in 1 .. stop.i - 1 : Over(clients[i])
        /\ stop.i <= Cardinality(Peer) + 1
    BY <2>1 DEF StopInv
  <2>3. /\ Len(clients) \in Nat /\ Cardinality(Peer) \in Nat /\ Len(clients) <= Cardinality(Peer)
        /\ \A i \in 1 .. Len(clients) : clients[i] \in Peer
    BY ClientsFit DEF BaseOK
  <2>4. ASSUME NEW i \in 1 .. stop.i - 1
        PROVE  Over(clients[i])'
    <3>1. PICK c \in Peer : c = clients[i] /\ Over(c)
      BY <2>1, <2>2, <2>3
    <3>2. Over(c)'
      BY <1>0, <3>1
    <3> QED
      BY <2>1, <3>1, <3>2 DEF Over
  <2>5. CASE stop.i > Len(clients) /\ stop' = [stop EXCEPT !.at = "clear"]
    <3>1. /\ stop'.at = "clear" /\ stop'.i = stop.i
          /\ \A i \in 1 .. Len(clients) : i \in 1 .. stop.i - 1
      BY <2>1, <2>3, <2>5 DEF BaseOK
    <3>2. ASSUME NEW p \in known
          PROVE  Over(p)'
      <4>1. PICK i \in 1 .. Len(clients) : clients[i] = p
        BY <2>2
      <4>2. i \in 1 .. stop.i - 1
        BY <3>1, <4>1
      <4> QED
        BY <2>1, <2>4, <4>1, <4>2 DEF Over
    <3> QED
      BY <2>1, <2>2, <3>1, <3>2 DEF StopInv
  <2>6. CASE stop.i <= Len(clients) /\ stop' = [stop EXCEPT !.at = "join"]
    <3>1. stop'.at = "join" /\ stop'.i = stop.i
      BY <2>6 DEF BaseOK
    <3> QED
      BY <2>1, <2>2, <2>3, <2>4, <2>6, <3>1 DEF StopInv
  <2>7. CASE /\ stop.i <= Len(clients)
             /\ thread[clients[stop.i]] = "ended" /\ thread' = thread
             /\ socket' = [socket EXCEPT ![clients[stop.i]] = "closed"]
             /\ stop'.at = "loop" /\ stop'.i = stop.i + 1
    <3>1. stop.i \in 1 .. Len(clients) /\ clients[stop.i] \in Peer
      BY <2>1, <2>3, <2>7
    <3>2. ASSUME NEW i \in 1 .. stop'.i - 1
          PROVE  thread'[clients[i]] = "ended" /\ socket'[clients[i]] = "closed"
      <4>1. i \in 1 .. stop.i - 1 \/ i = stop.i
        BY <2>1, <2>7
      <4>2. CASE i \in 1 .. stop.i - 1
        BY <2>1, <2>4, <4>2 DEF Over
      <4>3. CASE i = stop.i
        BY <2>7, <3>1, <4>3 DEF BaseOK
      <4> QED
        BY <4>1, <4>2, <4>3
    <3>3. stop'.i <= Len(clients) + 1 /\ stop'.i <= Cardinality(Peer) + 1
      BY <2>1, <2>3, <2>7
    <3> QED
      BY <2>1, <2>2, <2>7, <3>2, <3>3 DEF StopInv, Over
  <2>8. stop = [at |-> stop.at, i |-> stop.i]
    BY DEF BaseOK
  <2>9. CASE StopLoop
    <3>1. \/ stop.i > Len(clients) /\ stop' = [stop EXCEPT !.at = "clear"]
          \/ stop.i <= Len(clients) /\ stop' = [stop EXCEPT !.at = "join"]
          \/ /\ stop.i <= Len(clients)
             /\ thread[clients[stop.i]] = "ended" /\ thread' = thread
             /\ socket' = [socket EXCEPT ![clients[stop.i]] = "closed"]
             /\ stop' = [stop EXCEPT !.i = @ + 1]
      BY <2>9, StopLoopDoes
    <3>2. stop' = [stop EXCEPT !.i = @ + 1] => stop'.at = "loop" /\ stop'.i = stop.i + 1
      BY <2>8, <2>9 DEF StopLoop
    <3> QED
      BY <2>5, <2>6, <2>7, <3>1, <3>2
  <2>10. CASE StopJoin
    BY <2>1, <2>7, <2>10, StopJoinDoes
  <2> QED
    BY <1>7, <2>9, <2>10
<1>8. CASE StopServer
  <2>1. /\ stop.at \in {"clear", "flag"} /\ stop'.at \in {"flag", "done"} /\ stop'.i = stop.i
        /\ known' = known
    BY <1>8 DEF StopServer, BaseOK
  <2>2. \A p \in known : Over(p)'
    BY <1>0, <2>1 DEF StopInv, BaseOK
  <2> QED
    BY <2>1, <2>2 DEF StopInv
<1> QED
  BY <1>1, <1>2, <1>3, <1>4, <1>5, <1>6, <1>7, <1>8, StepCases
-----------------------------------------------------------------------------
(* Requests and answers *)

LEMMA InboxStep ==
    ASSUME BaseOK, InboxInv, [ServerNext]_serverVars
    PROVE  InboxInv'
<1>0. ASSUME NEW p \in Peer
      PROVE  /\ sent[p] \in Nat /\ inbox[p] \in Seq(Nat) /\ answers[p] \in Seq(Nat)
             /\ Len(inbox[p]) \in Nat /\ Len(answers[p]) \in Nat
             /\ sent[p] <= Len(Request[p]) /\ Len(Request[p]) \in Nat
             /\ Read(p) \in Nat /\ sent[p] = Read(p) + Len(inbox[p])
             /\ \A i \in 1 .. Len(inbox[p]) : inbox[p][i] = Read(p) + i
             /\ \A i \in 1 .. Len(answers[p]) : answers[p][i] \in 1 .. Read(p)
             /\ p \notin Pipelining => Len(inbox[p]) <= 1
  <2>1. /\ sent[p] \in Nat /\ inbox[p] \in Seq(Nat) /\ answers[p] \in Seq(Nat)
        /\ Len(inbox[p]) \in Nat /\ Len(answers[p]) \in Nat
    BY DEF BaseOK
  <2>2. sent[p] = Read(p) + Len(inbox[p])
    BY <2>1 DEF Read
  <2> QED
    BY <2>1, <2>2, RequestFacts DEF InboxInv
<1>1. CASE UNCHANGED <<sent, inbox, answers>>
  BY <1>1 DEF InboxInv, Read
<1>2. ASSUME NEW p \in Peer, ClientHandle(p)
      PROVE  InboxInv'
  <2>1. PICK n \in 1 .. Len(inbox[p]) : inbox' = [inbox EXCEPT ![p] = SubSeq(@, n + 1, Len(@))]
    BY <1>2, HandleDoes
  <2>2. /\ sent' = sent
        /\ answers' \in {answers, [answers EXCEPT ![p] = Append(@, Read(p) + 1)]}
    BY <1>2, HandleDoes
  <2>3. /\ inbox'[p] = SubSeq(inbox[p], n + 1, Len(inbox[p]))
        /\ \A q \in Peer : q # p => inbox'[q] = inbox[q] /\ answers'[q] = answers[q]
        /\ answers'[p] \in {answers[p], Append(answers[p], Read(p) + 1)}
    BY <2>1, <2>2 DEF BaseOK
  <2>4. /\ Len(inbox'[p]) = Len(inbox[p]) - n
        /\ \A i \in 1 .. Len(inbox'[p]) : inbox'[p][i] = inbox[p][n + i]
    BY <1>0, <2>3, DropFacts
  <2>5. n \in Nat /\ n >= 1 /\ n <= Len(inbox[p]) /\ Read(p)' = Read(p) + n
    BY <1>0, <2>2, <2>4 DEF Read
  <2>6. \A i \in 1 .. Len(inbox'[p]) : inbox'[p][i] = Read(p) + n + i
    <3>1. TAKE i \in 1 .. Len(inbox'[p])
    <3>2. n + i \in 1 .. Len(inbox[p]) /\ i \in Nat
      <4>1. PICK l \in Nat : l = Len(inbox[p])
        BY <1>0
      <4>2. n \in 1 .. l /\ i \in 1 .. l - n
        BY <2>4, <2>5, <4>1
      <4> QED
        BY <4>1, <4>2
    <3>3. inbox'[p][i] = inbox[p][n + i] /\ inbox[p][n + i] = Read(p) + (n + i)
      BY <1>0, <2>4, <3>2
    <3>4. PICK k : k = Read(p) /\ k \in Nat
      BY <1>0
    <3>5. k + (n + i) = k + n + i
      BY <2>5, <3>2, <3>4
    <3> QED
      BY <3>3, <3>4, <3>5
  <2>7. \A i \in 1 .. Len(answers'[p]) : answers'[p][i] \in 1 .. Read(p) + n
    <3>1. CASE answers'[p] = answers[p]
      BY <1>0, <2>5, <3>1
    <3>2. CASE answers'[p] = Append(answers[p], Read(p) + 1)
      <4>1. /\ Len(answers'[p]) = Len(answers[p]) + 1
            /\ \A i \in 1 .. Len(answers[p]) : answers'[p][i] = answers[p][i]
            /\ answers'[p][Len(answers[p]) + 1] = Read(p) + 1
        BY <1>0, <3>2, AppendFacts
      <4>2. \A i \in 1 .. Len(answers'[p]) :
               i \in 1 .. Len(answers[p]) \/ i = Len(answers[p]) + 1
        BY <1>0, <4>1
      <4>3. ASSUME NEW i \in 1 .. Len(answers[p])
            PROVE  answers'[p][i] \in 1 .. Read(p) + n
        <5>1. PICK a, b : a = answers[p][i] /\ b = Read(p) /\ a \in 1 .. b /\ b \in Nat
          BY <1>0
        <5>2. a \in 1 .. b + n
          BY <2>5, <5>1
        <5> QED
          BY <4>1, <5>1, <5>2
      <4>4. Read(p) + 1 \in 1 .. Read(p) + n
        BY <1>0, <2>5
      <4> QED
        BY <4>1, <4>2, <4>3, <4>4
    <3> QED
      BY <2>3, <3>1, <3>2
  <2>8. ASSUME NEW q \in Peer, q # p
        PROVE  Read(q)' = Read(q)
    BY <2>2, <2>3, <2>8 DEF Read
  <2>9. Len(inbox'[p]) <= Len(inbox[p]) /\ Read(p) + n \in Nat
    BY <1>0, <2>4, <2>5
  <2>10. ASSUME NEW q \in Peer
         PROVE  /\ sent'[q] <= Len(Request[q])
                /\ Read(q)' \in Nat
                /\ \A i \in 1 .. Len(inbox'[q]) : inbox'[q][i] = Read(q)' + i
                /\ \A i \in 1 .. Len(answers'[q]) : answers'[q][i] \in 1 .. Read(q)'
                /\ q \notin Pipelining => Len(inbox'[q]) <= 1
    <3>1. CASE q # p
      BY <1>0, <2>2, <2>3, <2>8, <3>1
    <3>2. CASE q = p
      <4>1. Len(inbox'[p]) \in Nat /\ (p \notin Pipelining => Len(inbox'[p]) <= 1)
        BY <1>0, <2>4, <2>5
      <4> QED
        BY <1>0, <2>2, <2>5, <2>6, <2>7, <2>9, <3>2, <4>1
    <3> QED
      BY <3>1, <3>2
  <2> QED
    BY <2>10 DEF InboxInv
<1>3. ASSUME NEW p \in Peer, Send(p)
      PROVE  InboxInv'
  <2>1. /\ sent[p] < Len(Request[p]) /\ answers' = answers
        /\ p \in Pipelining \/ 1 .. sent[p] \subseteq Answered(p)
        /\ sent'[p] = sent[p] + 1 /\ inbox'[p] = Append(inbox[p], sent[p] + 1)
        /\ \A q \in Peer : q # p => sent'[q] = sent[q] /\ inbox'[q] = inbox[q]
    BY <1>3 DEF Send, BaseOK
  <2>2. /\ Len(inbox'[p]) = Len(inbox[p]) + 1
        /\ \A i \in 1 .. Len(inbox[p]) : inbox'[p][i] = inbox[p][i]
        /\ inbox'[p][Len(inbox[p]) + 1] = sent[p] + 1
    <3>1. inbox[p] \in Seq(Nat) /\ sent[p] + 1 \in Nat
      BY <1>0
    <3>2. inbox'[p] = Append(inbox[p], sent[p] + 1)
      BY <2>1
    <3> QED
      BY <3>1, <3>2, AppendFacts
  <2>3. Read(p)' = Read(p)
    <3>1. /\ sent[p] \in Nat /\ Len(inbox[p]) \in Nat
          /\ sent'[p] = sent[p] + 1 /\ Len(inbox'[p]) = Len(inbox[p]) + 1
      BY <1>0, <2>1, <2>2
    <3> QED
      BY <3>1 DEF Read
  <2>4. \A i \in 1 .. Len(inbox'[p]) : i \in 1 .. Len(inbox[p]) \/ i = Len(inbox[p]) + 1
    BY <1>0, <2>2
  <2>5. sent[p] + 1 = Read(p) + (Len(inbox[p]) + 1)
    BY <1>0
  <2>6. \A i \in 1 .. Len(inbox'[p]) : inbox'[p][i] = Read(p) + i
    BY <1>0, <2>2, <2>4, <2>5
  <2>7. p \notin Pipelining => Len(inbox'[p]) <= 1
    <3>1. SUFFICES ASSUME p \notin Pipelining, Len(inbox[p]) # 0 PROVE FALSE
      BY <1>0, <2>2
    <3>2. sent[p] \in 1 .. sent[p] /\ Read(p) < sent[p]
      BY <1>0, <3>1
    <3>3. PICK i \in DOMAIN answers[p] : sent[p] = answers[p][i]
      BY <2>1, <3>1, <3>2 DEF Answered
    <3>4. i \in 1 .. Len(answers[p])
      BY <1>0
    <3>5. answers[p][i] \in 1 .. Read(p)
      BY <1>0, <3>4
    <3> QED
      BY <1>0, <3>2, <3>3, <3>5
  <2>8. ASSUME NEW q \in Peer, q # p
        PROVE  Read(q)' = Read(q)
    BY <2>1, <2>8 DEF Read
  <2>9. sent[p] + 1 <= Len(Request[p])
    BY <1>0, <2>1
  <2>10. ASSUME NEW q \in Peer
         PROVE  /\ sent'[q] <= Len(Request[q])
                /\ Read(q)' \in Nat
                /\ \A i \in 1 .. Len(inbox'[q]) : inbox'[q][i] = Read(q)' + i
                /\ \A i \in 1 .. Len(answers'[q]) : answers'[q][i] \in 1 .. Read(q)'
                /\ q \notin Pipelining => Len(inbox'[q]) <= 1
    <3>1. CASE q # p
      BY <1>0, <2>1, <2>8, <3>1
    <3>2. CASE q = p
      BY <1>0, <2>1, <2>3, <2>6, <2>7, <2>9, <3>2
    <3> QED
      BY <3>1, <3>2
  <2> QED
    BY <2>10 DEF InboxInv
<1>4. \/ UNCHANGED <<sent, inbox, answers>>
      \/ \E p \in Peer : ClientHandle(p) \/ Send(p)
  BY StepCases DEF StartServer, ServerRun, ServerLoop, ServerSelect, ServerAccept, ServerSpawn,
     ClientRun, ClientSelect, Connect, Disconnect, StopBegin, StopLoop, StopJoin, StopServer,
     serverVars, sockets
<1> QED
  BY <1>1, <1>2, <1>3, <1>4

\* No socket of the server goes back to where no peer has connected.
LEMMA AwayStep ==
    ASSUME BaseOK, AwayInv, ThreadInv, StopInv, [ServerNext]_serverVars
    PROVE  AwayInv'
<1>1. ASSUME NEW q \in Peer, socket'[q] = "none"
      PROVE  socket[q] = "none" \/ socket' = socket
  <2>1. \/ socket' = socket
        \/ \E p, e : e # "none" /\ socket' = [socket EXCEPT ![p] = e]
    BY StepCases DEF StartServer, ServerRun, ServerLoop, ServerSelect, ServerAccept, ServerSpawn,
       ClientRun, ClientSelect, ClientHandle, Connect, Send, Disconnect, StopBegin, StopLoop,
       StopJoin, StopServer, serverVars
  <2> QED
    BY <1>1, <2>1 DEF BaseOK
<1>2. \/ peer' = peer
      \/ \E p \in Peer : Connect(p) \/ Disconnect(p)
  BY StepCases DEF StartServer, ServerRun, ServerLoop, ServerSelect, ServerAccept, ServerSpawn,
     ClientRun, ClientSelect, ClientHandle, Send, StopBegin, StopLoop, StopJoin, StopServer,
     serverVars, sockets
<1>3. ASSUME NEW p \in Peer, Connect(p)
      PROVE  AwayInv'
  BY <1>3 DEF Connect, AwayInv, BaseOK
<1>4. ASSUME NEW p \in Peer, Disconnect(p)
      PROVE  AwayInv'
  BY <1>4 DEF Disconnect, AwayInv, BaseOK
<1> QED
  BY <1>1, <1>2, <1>3, <1>4 DEF AwayInv

\* A thread that has ended does not run again, nor does a peer come back.
LEMMA EndsStay ==
    ASSUME BaseOK, AwayInv, ThreadInv, StopInv, InboxInv, [ServerNext]_serverVars, NEW q \in Peer
    PROVE  /\ thread[q] = "ended" => thread'[q] = "ended"
           /\ peer[q] = "gone" => peer'[q] = "gone"
<1>1. CASE ServerAccept
  BY <1>1 DEF ServerAccept, sockets
<1>2. CASE ServerSpawn
  <2>0. peer' = peer
    BY <1>2 DEF ServerSpawn, sockets
  <2>1. PICK p \in Peer : /\ peer' = peer
                          /\ \/ thread[p] = "none" /\ thread' = [thread EXCEPT ![p] = "started"]
                             \/ thread' = thread
    BY <1>2, SpawnDoes
  <2> QED
    BY <2>1 DEF BaseOK
<1>3. ASSUME NEW p \in Peer, ClientRun(p) \/ ClientSelect(p) \/ ClientHandle(p)
      PROVE  /\ thread[q] = "ended" => thread'[q] = "ended"
             /\ peer' = peer
  <2>1. /\ thread[p] # "ended" /\ peer' = peer
        /\ \E at \in {"loop", "select", "handle", "ended"} : thread' = [thread EXCEPT ![p] = at]
    BY <1>3, ClientThread
  <2> QED
    BY <2>1 DEF BaseOK
<1>4. ASSUME NEW p \in Peer, Connect(p) \/ Send(p) \/ Disconnect(p)
      PROVE  /\ thread' = thread
             /\ peer[q] = "gone" => peer'[q] = "gone"
  BY <1>4 DEF Connect, Send, Disconnect, BaseOK, AwayInv
<1>5. CASE \/ StartServer \/ ServerRun \/ ServerLoop \/ ServerSelect
           \/ StopBegin \/ StopLoop \/ StopJoin \/ StopServer \/ UNCHANGED serverVars
  BY <1>5 DEF StartServer, ServerRun, ServerLoop, ServerSelect, StopBegin, StopLoop, StopJoin,
     StopServer, serverVars, sockets
<1> QED
  BY <1>1, <1>2, <1>3, <1>4, <1>5, StepCases

LEMMA FateStays ==
    ASSUME NEW q \in Peer, NEW r, Fate(q, r),
           answers'[q] = answers[q], inbox'[q] = inbox[q],
           thread[q] = "ended" => thread'[q] = "ended",
           peer[q] = "gone" => peer'[q] = "gone"
    PROVE  Fate(q, r)'
  BY DEF Fate, Answered

LEMMA OrderStep ==
    ASSUME BaseOK, AwayInv, ThreadInv, StopInv, InboxInv, OrderInv, [ServerNext]_serverVars
    PROVE  OrderInv'
<1> DEFINE Increasing(a) == \A i, j \in 1 .. Len(a) : i < j => a[i] < a[j]
<1>0. ASSUME NEW p \in Peer
      PROVE  /\ sent[p] \in Nat /\ inbox[p] \in Seq(Nat) /\ answers[p] \in Seq(Nat)
             /\ Len(inbox[p]) \in Nat /\ Len(answers[p]) \in Nat
             /\ Read(p) \in Nat /\ sent[p] = Read(p) + Len(inbox[p])
             /\ \A i \in 1 .. Len(inbox[p]) : inbox[p][i] = Read(p) + i
             /\ \A i \in 1 .. Len(answers[p]) : answers[p][i] \in 1 .. Read(p)
             /\ p \notin Pipelining => Len(inbox[p]) <= 1
             /\ Increasing(answers[p])
             /\ p \notin Pipelining => \A r \in 1 .. sent[p] : Fate(p, r)
  <2>1. /\ sent[p] \in Nat /\ inbox[p] \in Seq(Nat) /\ answers[p] \in Seq(Nat)
        /\ Len(inbox[p]) \in Nat /\ Len(answers[p]) \in Nat
    BY DEF BaseOK
  <2>2. sent[p] = Read(p) + Len(inbox[p])
    BY <2>1 DEF Read
  <2> QED
    BY <2>1, <2>2 DEF InboxInv, OrderInv
<1>00. \A q \in Peer : /\ thread[q] = "ended" => thread'[q] = "ended"
                       /\ peer[q] = "gone" => peer'[q] = "gone"
  BY EndsStay
<1> HIDE DEF Increasing
<1>1. SUFFICES ASSUME NEW q \in Peer
               PROVE  /\ Increasing(answers'[q])
                      /\ q \notin Pipelining => \A r \in 1 .. sent'[q] : Fate(q, r)'
  BY DEF OrderInv, Increasing
<1>2. CASE sent'[q] = sent[q] /\ inbox'[q] = inbox[q] /\ answers'[q] = answers[q]
  BY <1>0, <1>00, <1>2, FateStays
<1>3. CASE ClientHandle(q)
  <2>1. /\ sent' = sent /\ Len(inbox[q]) >= 1
        /\ answers' \in {answers, [answers EXCEPT ![q] = Append(@, Read(q) + 1)]}
        /\ \/ answers' = [answers EXCEPT ![q] = Append(@, Read(q) + 1)]
           \/ Request[q][Read(q) + 1] = "short"
           \/ thread'[q] = "ended"
           \/ peer[q] = "gone"
    BY <1>3, HandleDoes
  <2>2. /\ answers'[q] \in {answers[q], Append(answers[q], Read(q) + 1)}
        /\ \/ answers'[q] = Append(answers[q], Read(q) + 1)
           \/ Request[q][Read(q) + 1] = "short"
           \/ thread'[q] = "ended"
           \/ peer[q] = "gone"
    BY <2>1 DEF BaseOK
  <2>3. ASSUME answers'[q] = Append(answers[q], Read(q) + 1)
        PROVE  /\ Len(answers'[q]) = Len(answers[q]) + 1
               /\ \A i \in 1 .. Len(answers[q]) : answers'[q][i] = answers[q][i]
               /\ answers'[q][Len(answers[q]) + 1] = Read(q) + 1
               /\ DOMAIN answers'[q] = 1 .. Len(answers'[q])
    BY <1>0, <2>3, AppendFacts
  <2>4. Increasing(answers'[q])
    <3>1. CASE answers'[q] = answers[q]
      BY <1>0, <3>1
    <3>2. CASE answers'[q] = Append(answers[q], Read(q) + 1)
      <4>1. SUFFICES ASSUME NEW i \in 1 .. Len(answers'[q]), NEW j \in 1 .. Len(answers'[q]), i < j
                     PROVE  answers'[q][i] < answers'[q][j]
        BY DEF Increasing
      <4>2. i \in 1 .. Len(answers[q]) /\ answers'[q][i] = answers[q][i]
        BY <1>0, <2>3, <3>2, <4>1
      <4>3. CASE j \in 1 .. Len(answers[q])
        BY <1>0, <2>3, <3>2, <4>1, <4>2, <4>3 DEF Increasing
      <4>4. CASE j = Len(answers[q]) + 1
        <5>1. answers[q][i] \in 1 .. Read(q) /\ answers'[q][j] = Read(q) + 1
          BY <1>0, <2>3, <3>2, <4>2, <4>4
        <5> QED
          BY <1>0, <4>2, <5>1
      <4> QED
        BY <1>0, <2>3, <3>2, <4>3, <4>4
    <3> QED
      BY <2>2, <3>1, <3>2
  <2>5. ASSUME q \notin Pipelining, NEW r \in 1 .. sent'[q]
        PROVE  Fate(q, r)'
    <3>1. r \in 1 .. sent[q] /\ Fate(q, r) /\ sent[q] = Read(q) + 1
      BY <1>0, <2>1, <2>5
    <3>2. CASE r = Read(q) + 1
      <4>1. CASE answers'[q] = Append(answers[q], Read(q) + 1)
        <5>1. Len(answers[q]) + 1 \in DOMAIN answers'[q] /\ answers'[q][Len(answers[q]) + 1] = r
          BY <1>0, <2>3, <3>2, <4>1
        <5> QED
          BY <5>1 DEF Fate, Answered
      <4> QED
        BY <1>00, <2>2, <3>2, <4>1 DEF Fate
    <3>3. CASE r # Read(q) + 1
      <4>1. r \notin {inbox[q][i] : i \in DOMAIN inbox[q]}
        <5>1. DOMAIN inbox[q] = 1 .. 1
          BY <1>0, <2>1, <2>5
        <5>2. inbox[q][1] = Read(q) + 1
          BY <1>0, <2>1
        <5> QED
          BY <3>3, <5>1, <5>2
      <4>2. CASE r \in Answered(q)
        <5>1. PICK i \in DOMAIN answers[q] : answers[q][i] = r
          BY <4>2 DEF Answered
        <5>2. i \in 1 .. Len(answers[q])
          BY <1>0
        <5>3. i \in DOMAIN answers'[q] /\ answers'[q][i] = r
          <6>1. CASE answers'[q] = answers[q]
            BY <5>1, <6>1
          <6>2. CASE answers'[q] = Append(answers[q], Read(q) + 1)
            BY <1>0, <2>3, <5>1, <5>2, <6>2
          <6> QED
            BY <2>2, <6>1, <6>2
        <5> QED
          BY <5>3 DEF Fate, Answered
      <4> QED
        BY <1>00, <3>1, <4>1, <4>2 DEF Fate
    <3> QED
      BY <3>2, <3>3
  <2> QED
    BY <2>4, <2>5
<1>4. CASE Send(q)
  <2>1. /\ answers' = answers /\ sent'[q] = sent[q] + 1
        /\ inbox'[q] = Append(inbox[q], sent[q] + 1)
    BY <1>4 DEF Send, BaseOK
  <2>2. /\ Len(inbox'[q]) = Len(inbox[q]) + 1 /\ inbox'[q] \in Seq(Nat)
        /\ \A i \in 1 .. Len(inbox[q]) : inbox'[q][i] = inbox[q][i]
        /\ inbox'[q][Len(inbox[q]) + 1] = sent[q] + 1
    BY <1>0, <2>1, AppendFacts
  <2>3. DOMAIN inbox'[q] = 1 .. Len(inbox[q]) + 1 /\ DOMAIN inbox[q] = 1 .. Len(inbox[q])
    BY <1>0, <2>2
  <2>4. ASSUME q \notin Pipelining, NEW r \in 1 .. sent'[q]
        PROVE  Fate(q, r)'
    <3>1. CASE r = sent[q] + 1
      <4>1. Len(inbox[q]) + 1 \in DOMAIN inbox'[q] /\ inbox'[q][Len(inbox[q]) + 1] = r
        BY <1>0, <2>2, <2>3, <3>1
      <4> QED
        BY <4>1 DEF Fate
    <3>2. CASE r # sent[q] + 1
      <4>1. Fate(q, r)
        BY <1>0, <2>1, <2>4, <3>2
      <4>2. CASE r \in {inbox[q][i] : i \in DOMAIN inbox[q]}
        <5>1. PICK i \in 1 .. Len(inbox[q]) : inbox[q][i] = r
          BY <2>3, <4>2
        <5>2. i \in 1 .. Len(inbox[q]) + 1
          BY <1>0
        <5>3. i \in DOMAIN inbox'[q]
          BY <2>3, <5>2
        <5>4. inbox'[q][i] = r
          BY <2>2, <5>1
        <5> QED
          BY <5>3, <5>4 DEF Fate
      <4>3. CASE r \notin {inbox[q][i] : i \in DOMAIN inbox[q]}
        BY <1>00, <2>1, <4>1, <4>3 DEF Fate, Answered
      <4> QED
        BY <4>2, <4>3
    <3> QED
      BY <3>1, <3>2
  <2> QED
    BY <1>0, <2>1, <2>4
<1>5. \/ UNCHANGED <<sent, inbox, answers>>
      \/ \E p \in Peer : ClientHandle(p) \/ Send(p)
  BY StepCases DEF StartServer, ServerRun, ServerLoop, ServerSelect, ServerAccept, ServerSpawn,
     ClientRun, ClientSelect, Connect, Disconnect, StopBegin, StopLoop, StopJoin, StopServer,
     serverVars, sockets
<1>6. ASSUME NEW p \in Peer, ClientHandle(p) \/ Send(p), p # q
      PROVE  sent'[q] = sent[q] /\ inbox'[q] = inbox[q] /\ answers'[q] = answers[q]
  <2>1. CASE ClientHandle(p)
    <3>1. /\ sent' = sent
          /\ \E n \in 1 .. Len(inbox[p]) : inbox' = [inbox EXCEPT ![p] = SubSeq(@, n + 1, Len(@))]
          /\ answers' \in {answers, [answers EXCEPT ![p] = Append(@, Read(p) + 1)]}
      BY <2>1, HandleDoes
    <3> QED
      BY <1>6, <3>1 DEF BaseOK
  <2>2. CASE Send(p)
    BY <1>6, <2>2 DEF BaseOK, Send
  <2> QED
    BY <1>6, <2>1, <2>2
<1> QED
  BY <1>2, <1>3, <1>4, <1>5, <1>6
\* A read is taken apart wrongly where a short request had others behind it, which
\* a peer that waits for each answer never sends.
LEMMA MisreadStep ==
    ASSUME BaseOK, InboxInv, MisreadInv, [ServerNext]_serverVars
    PROVE  MisreadInv'
<1>1. ASSUME NEW p \in Peer, ClientHandle(p)
      PROVE  MisreadInv'
  <2>1. /\ sent' = sent
        /\ \/ misread' = misread
           \/ /\ misread' = misread \cup {p}
              /\ Request[p][Read(p) + 1] = "short" /\ Len(inbox[p]) > 1
    BY <1>1, HandleDoes
  <2>2. ASSUME Request[p][Read(p) + 1] = "short", Len(inbox[p]) > 1
        PROVE  p \in Pipelining /\ \E r \in 1 .. sent[p] - 1 : Request[p][r] = "short"
    <3>1. /\ sent[p] \in Nat /\ Len(inbox[p]) \in Nat /\ Read(p) \in Nat
          /\ Read(p) = sent[p] - Len(inbox[p])
      BY DEF BaseOK, InboxInv, Read
    <3>2. Read(p) + 1 \in 1 .. sent[p] - 1
      BY <2>2, <3>1
    <3>3. p \in Pipelining
      BY <2>2, <3>1 DEF InboxInv
    <3> QED
      BY <2>2, <3>2, <3>3
  <2> QED
    BY <2>1, <2>2 DEF MisreadInv
<1>2. ASSUME NEW p \in Peer, Send(p)
      PROVE  MisreadInv'
  <2>1. misread' = misread /\ sent' = [sent EXCEPT ![p] = @ + 1]
    BY <1>2 DEF Send
  <2>2. ASSUME NEW q \in misread
        PROVE  q \in Pipelining /\ \E r \in 1 .. sent'[q] - 1 : Request[q][r] = "short"
    <3>1. PICK r \in 1 .. sent[q] - 1 : Request[q][r] = "short"
      BY <2>2 DEF MisreadInv
    <3>2. q \in Peer /\ sent[q] \in Nat /\ sent'[q] \in {sent[q], sent[q] + 1}
      BY <2>1, <2>2 DEF BaseOK
    <3>3. r \in 1 .. sent'[q] - 1
      BY <3>2
    <3> QED
      BY <2>2, <3>1, <3>3 DEF MisreadInv
  <2> QED
    BY <2>1, <2>2 DEF MisreadInv
<1>3. \/ UNCHANGED <<sent, misread>>
      \/ \E p \in Peer : ClientHandle(p) \/ Send(p)
  BY StepCases DEF StartServer, ServerRun, ServerLoop, ServerSelect, ServerAccept, ServerSpawn,
     ClientRun, ClientSelect, Connect, Disconnect, StopBegin, StopLoop, StopJoin, StopServer,
     serverVars, sockets
<1> QED
  BY <1>1, <1>2, <1>3 DEF MisreadInv
-----------------------------------------------------------------------------
(* The inductive invariant of the test server's threads, of stop, and of   *)
(* the requests of each peer from sending to answer.                       *)
THEOREM ServerInvariant == ServerSpec => []ServerInv
<1>1. ServerInit => ServerInv
  <2> SUFFICES ASSUME ServerInit PROVE ServerInv
    OBVIOUS
  <2> USE DEF ServerInit
  <2>1. <<>> \in Seq(Peer) /\ <<>> \in Seq(Nat) /\ Len(<<>>) = 0
    OBVIOUS
  <2>2. BaseOK /\ AwayInv
    BY <2>1 DEF BaseOK, AwayInv
  <2>3. ThreadInv
    BY <2>1 DEF ThreadInv
  <2>4. StopInv
    <3>1. Cardinality(Peer) \in Nat
      BY FS_CardinalityType, TestServerAssumption
    <3> QED
      BY <3>1 DEF StopInv
  <2>5. InboxInv
    BY <2>1, RequestFacts DEF InboxInv, Read
  <2>6. OrderInv /\ MisreadInv
    BY <2>1 DEF OrderInv, MisreadInv
  <2> QED
    BY <2>2, <2>3, <2>4, <2>5, <2>6 DEF ServerInv
<1>2. ServerInv /\ [ServerNext]_serverVars => ServerInv'
  <2> SUFFICES ASSUME ServerInv, [ServerNext]_serverVars PROVE ServerInv'
    OBVIOUS
  <2>1. BaseOK /\ AwayInv /\ ThreadInv /\ StopInv /\ InboxInv /\ OrderInv /\ MisreadInv
    BY DEF ServerInv
  <2>2. BaseOK' /\ AwayInv' /\ ThreadInv' /\ StopInv'
    BY <2>1, BaseStep, AwayStep, ThreadStep, StopStep
  <2>3. InboxInv' /\ OrderInv' /\ MisreadInv'
    BY <2>1, InboxStep, OrderStep, MisreadStep
  <2> QED
    BY <2>2, <2>3 DEF ServerInv
<1> QED
  BY <1>1, <1>2, PTL DEF ServerSpec

\* A sequence of what is in a smaller set.
LEMMA SeqOf ==
    ASSUME NEW s \in Seq(Nat), NEW S, \A i \in 1 .. Len(s) : s[i] \in S
    PROVE  s \in Seq(S)
<1>1. Len(s) \in Nat /\ s \in [1 .. Len(s) -> S]
  OBVIOUS
<1> QED
  BY <1>1, SeqDef

(* Every variable of the test server has its type: stop never indexes past *)
(* the clients there can be, and requests are those of their peer.         *)
THEOREM ServerTypes == ServerSpec => []ServerTypeOK
<1>1. ServerInv => ServerTypeOK
  <2> SUFFICES ASSUME ServerInv PROVE ServerTypeOK
    OBVIOUS
  <2>0. BaseOK /\ ThreadInv /\ StopInv /\ InboxInv
    BY DEF ServerInv
  <2>1. Cardinality(accepted) <= 1
    <3>1. accepted = {} \/ \E p \in Peer : accepted = {p}
      BY <2>0 DEF ThreadInv
    <3> QED
      BY <3>1, FS_EmptySet, FS_Singleton
  <2>2. ASSUME NEW p \in Peer
        PROVE  /\ sent[p] \in 0 .. Len(Request[p])
               /\ inbox[p] \in Seq(Numbers(p))
               /\ answers[p] \in Seq(Numbers(p))
    <3>1. /\ sent[p] \in Nat /\ inbox[p] \in Seq(Nat) /\ answers[p] \in Seq(Nat)
          /\ Len(inbox[p]) \in Nat /\ sent[p] <= Len(Request[p]) /\ Len(Request[p]) \in Nat
          /\ Numbers(p) = 1 .. Len(Request[p])
      BY <2>0, RequestFacts DEF BaseOK, InboxInv, Numbers
    <3>2. Read(p) \in Nat /\ Read(p) + Len(inbox[p]) <= Len(Request[p])
      BY <2>0, <3>1 DEF InboxInv, Read
    <3>3. PICK k, l, m : k = Read(p) /\ l = Len(inbox[p]) /\ m = Len(Request[p])
      OBVIOUS
    <3>4. k \in Nat /\ l \in Nat /\ m \in Nat /\ k + l <= m
      BY <3>1, <3>2, <3>3
    <3>5. \A i \in 1 .. l : k + i \in 1 .. m
      BY <3>4
    <3>6. \A i \in 1 .. k : i \in 1 .. m
      BY <3>4
    <3>7. \A i \in 1 .. Len(inbox[p]) : inbox[p][i] \in Numbers(p)
      BY <2>0, <3>1, <3>3, <3>5 DEF InboxInv
    <3>8. \A i \in 1 .. Len(answers[p]) : answers[p][i] \in Numbers(p)
      BY <2>0, <3>1, <3>3, <3>6 DEF InboxInv
    <3>9. inbox[p] \in Seq(Nat) /\ answers[p] \in Seq(Nat)
      BY <3>1
    <3>10. inbox[p] \in Seq(Numbers(p)) /\ answers[p] \in Seq(Numbers(p))
      BY <3>7, <3>8, <3>9, SeqOf
    <3> QED
      BY <3>1, <3>10
  <2>3. stop \in [at : {"idle", "loop", "join", "clear", "flag", "done"},
                  i : 1 .. Cardinality(Peer) + 1]
    <3>1. stop.i \in 1 .. Cardinality(Peer) + 1
      BY <2>0, ClientsFit DEF BaseOK, StopInv
    <3> QED
      BY <2>0, <3>1 DEF BaseOK
  <2> QED
    BY <2>0, <2>1, <2>2, <2>3 DEF ServerTypeOK, BaseOK
<1> QED
  BY <1>1, ServerInvariant, PTL

(* When stop has returned, the thread of every client it was called with   *)
(* has ended and its socket is closed, however peers come, send and leave  *)
(* meanwhile, and whatever the server appends while stop loops.            *)
THEOREM StoppedClientsHolds == ServerSpec => []StoppedClients
<1>1. ServerInv => StoppedClients
  BY DEF ServerInv, StopInv, StoppedClients, Over, IsAlive
<1> QED
  BY <1>1, ServerInvariant, PTL

-----------------------------------------------------------------------------
(* The thread that stop waits for *)

Heard(p) ==
    \/ p \in unheard
    \/ thread[p] = "ended"
    \/ ~crun[p] /\ thread[p] \notin {"none", "started"}

\* Past its first line a thread does not raise its flag again; before it, it is
\* one of the unheard.
HearInv == stop.at = "join" => Heard(clients[stop.i])

LEMMA HeardStays ==
    ASSUME BaseOK, ThreadInv, InboxInv, [ServerNext]_serverVars, NEW q \in Peer, Heard(q)
    PROVE  Heard(q)'
<1>0. /\ thread \in [Peer -> {"none", "started", "loop", "select", "handle", "ended"}]
      /\ crun \in [Peer -> BOOLEAN]
  BY DEF BaseOK
<1>1. CASE StartServer \/ ServerRun \/ ServerLoop \/ ServerSelect \/ ServerAccept
  <2>1. UNCHANGED <<unheard, thread, crun>>
    BY <1>1 DEF StartServer, ServerRun, ServerLoop, ServerSelect, ServerAccept, stopping
  <2> QED
    BY <2>1 DEF Heard
<1>2. CASE ServerSpawn
  <2>1. crun' = crun /\ unheard' = unheard
    BY <1>2 DEF ServerSpawn, stopping
  <2>2. PICK p \in Peer : \/ thread[p] = "none" /\ thread' = [thread EXCEPT ![p] = "started"]
                         \/ thread' = thread
    BY <1>2, SpawnDoes
  <2> QED
    BY <1>0, <2>1, <2>2 DEF Heard
<1>3. ASSUME NEW p \in Peer, ClientRun(p)
      PROVE  Heard(q)'
  <2>1. /\ unheard' = unheard
        /\ \/ /\ thread[p] = "started" /\ crun' = [crun EXCEPT ![p] = TRUE]
              /\ thread' = [thread EXCEPT ![p] = "loop"]
           \/ /\ thread[p] = "loop" /\ crun' = crun
              /\ thread' = [thread EXCEPT ![p] = "select"]
           \/ /\ thread[p] = "loop" /\ crun' = crun
              /\ thread' = [thread EXCEPT ![p] = "ended"]
    BY <1>3 DEF ClientRun, stopping
  <2> QED
    BY <1>0, <2>1 DEF Heard
<1>4. ASSUME NEW p \in Peer, ClientSelect(p)
      PROVE  Heard(q)'
  <2>1. /\ unheard' = unheard /\ thread[p] = "select"
        /\ crun' = crun \/ crun' = [crun EXCEPT ![p] = FALSE]
        /\ \/ thread' = [thread EXCEPT ![p] = "loop"]
           \/ thread' = [thread EXCEPT ![p] = "handle"]
    BY <1>4 DEF ClientSelect, stopping
  <2> QED
    BY <1>0, <2>1 DEF Heard
<1>5. ASSUME NEW p \in Peer, ClientHandle(p)
      PROVE  Heard(q)'
  <2>1. /\ unheard' = unheard /\ crun' = crun /\ thread[p] = "handle"
        /\ \/ thread' = [thread EXCEPT ![p] = "loop"]
           \/ thread' = [thread EXCEPT ![p] = "ended"]
    BY <1>5, HandleDoes DEF stopping
  <2> QED
    BY <1>0, <2>1 DEF Heard
<1>6. ASSUME NEW p \in Peer, Connect(p) \/ Send(p) \/ Disconnect(p)
      PROVE  Heard(q)'
  <2>1. UNCHANGED <<unheard, thread, crun>>
    BY <1>6 DEF Connect, Send, Disconnect, stopping
  <2> QED
    BY <2>1 DEF Heard
<1>7. CASE StopLoop
  <2>1. /\ thread' = thread
        /\ unheard \subseteq unheard'
        /\ crun' = crun \/ crun' = [crun EXCEPT ![clients[stop.i]] = FALSE]
    BY <1>7 DEF StopLoop
  <2> QED
    BY <1>0, <2>1 DEF Heard
<1>8. CASE StopBegin \/ StopJoin \/ StopServer \/ UNCHANGED serverVars
  <2>1. UNCHANGED <<unheard, thread, crun>>
    BY <1>8 DEF StopBegin, StopJoin, StopServer, serverVars, stopping
  <2> QED
    BY <2>1 DEF Heard
<1> QED
  BY <1>1, <1>2, <1>3, <1>4, <1>5, <1>6, <1>7, <1>8, StepCases

\* stop tells a client that it waits for.
LEMMA StopTells ==
    ASSUME BaseOK, ThreadInv, StopInv, StopLoop, stop'.at = "join"
    PROVE  HearInv'
<1>1. stop.at = "loop" /\ stop.i <= Len(clients) /\ clients' = clients /\ thread' = thread
  <2>1. /\ UNCHANGED <<clients, thread>> /\ stop.at = "loop"
        /\ \/ stop' = [stop EXCEPT !.at = "clear"]
           \/ stop.i <= Len(clients)
    BY StopLoopDoes
  <2>2. stop' = [stop EXCEPT !.at = "clear"] => stop'.at = "clear"
    BY DEF BaseOK
  <2> QED
    BY <2>1, <2>2
<1>2. stop.i \in 1 .. Len(clients) /\ ~(stop.i > Len(clients))
  <2>1. stop.i \in Nat \ {0} /\ Len(clients) \in Nat
    BY DEF BaseOK
  <2> QED
    BY <1>1, <2>1
<1>3. PICK p \in Peer : p = clients[stop.i] /\ thread[p] # "none"
  <2>1. clients[stop.i] \in Peer
    BY <1>2 DEF BaseOK
  <2>2. thread[clients[stop.i]] # "none"
    BY <1>2 DEF ThreadInv
  <2> QED
    BY <2>1, <2>2
<1>4. IsAlive(p)
  BY <1>1, <1>2, <1>3 DEF StopLoop, BaseOK
<1>5. /\ crun' = [crun EXCEPT ![p] = FALSE]
      /\ unheard' = IF thread[p] = "started" THEN unheard \cup {p} ELSE unheard
      /\ stop'.i = stop.i
  BY <1>1, <1>2, <1>3, <1>4 DEF StopLoop, BaseOK
<1>6. Heard(p)'
  BY <1>1, <1>3, <1>5 DEF Heard, BaseOK
<1> QED
  BY <1>1, <1>3, <1>5, <1>6 DEF HearInv, Heard

LEMMA HearStep ==
    ASSUME ServerInv, HearInv, [ServerNext]_serverVars
    PROVE  HearInv'
<1> SUFFICES ASSUME stop'.at = "join" PROVE HearInv'
  BY DEF HearInv
<1>0. BaseOK /\ ThreadInv /\ StopInv /\ InboxInv
  BY DEF ServerInv
<1>1. CASE StopLoop
  BY <1>0, <1>1, StopTells
<1>2. CASE stop' = stop /\ (clients' = clients \/ \E p \in Peer : clients' = Append(clients, p))
  <2>1. stop.i \in 1 .. Len(clients)
    <3>1. stop.i \in Nat \ {0} /\ Len(clients) \in Nat
      BY <1>0 DEF BaseOK
    <3>2. stop.i <= Len(clients)
      BY <1>0, <1>2 DEF StopInv
    <3> QED
      BY <3>1, <3>2
  <2>2. PICK q \in Peer : q = clients[stop.i]
    BY <1>0, <2>1 DEF BaseOK
  <2>3. clients'[stop'.i] = q
    BY <1>0, <1>2, <2>1, <2>2 DEF BaseOK
  <2>4. Heard(q)
    BY <1>2, <2>2 DEF HearInv
  <2>5. Heard(q)'
    BY <1>0, <2>4, HeardStays
  <2> QED
    BY <2>3, <2>5 DEF HearInv, Heard
<1>3. CASE StopBegin \/ StopJoin \/ StopServer
  <2>1. stop'.at # "join"
    BY <1>0, <1>3 DEF StopBegin, StopJoin, StopServer, BaseOK
  <2> QED
    BY <2>1
<1>4. CASE ServerSpawn
  <2>1. stop' = stop /\ (clients' = clients \/ \E p \in Peer : clients' = Append(clients, p))
    BY <1>0, <1>4, SpawnDoes DEF stopping
  <2> QED
    BY <1>2, <2>1
<1>5. CASE StartServer \/ ServerRun \/ ServerLoop \/ ServerSelect \/ ServerAccept
           \/ UNCHANGED serverVars
  <2>1. UNCHANGED <<stop, clients>>
    BY <1>5 DEF StartServer, ServerRun, ServerLoop, ServerSelect, ServerAccept, stopping,
                serverVars
  <2> QED
    BY <1>2, <2>1
<1>6. ASSUME NEW p \in Peer, \/ ClientRun(p) \/ ClientSelect(p) \/ ClientHandle(p)
                              \/ Connect(p) \/ Send(p) \/ Disconnect(p)
      PROVE  UNCHANGED <<stop, clients>>
  BY <1>6 DEF ClientRun, ClientSelect, ClientHandle, Connect, Send, Disconnect, stopping
<1> QED
  BY <1>1, <1>2, <1>3, <1>4, <1>5, <1>6, StepCases

\* stop never waits for a thread that has not been told to end, unless it was told
\* before its first line.
THEOREM StopIsHeardHolds == ServerSpec => []StopIsHeard
<1>1. ServerInit => HearInv
  BY DEF ServerInit, HearInv
<1>2. HearInv => StopIsHeard
  BY DEF HearInv, Heard, StopIsHeard, IsAlive
<1> QED
  BY <1>1, <1>2, HearStep, ServerInvariant, PTL DEF ServerSpec

-----------------------------------------------------------------------------
(* However the requests of a peer are cut into reads, it never gets the    *)
(* answers out of order or twice; one that waits for each answer is never  *)
(* left with a request that was read and neither answered, discarded nor   *)
(* the death of its client's thread; and answers to no request come only   *)
(* where a short packet was sent with more behind it.                      *)
THEOREM AnswersInOrderHolds == ServerSpec => []AnswersInOrder
<1>1. ServerInv => AnswersInOrder
  <2> SUFFICES ASSUME ServerInv PROVE AnswersInOrder
    OBVIOUS
  <2>1. \A p \in Peer : DOMAIN answers[p] = 1 .. Len(answers[p])
    BY DEF ServerInv, BaseOK
  <2>2. OrderInv /\ MisreadInv
    BY DEF ServerInv
  <2> QED
    BY <2>1, <2>2 DEF OrderInv, MisreadInv, AnswersInOrder, Fate
<1> QED
  BY <1>1, ServerInvariant, PTL
=============================================================================
