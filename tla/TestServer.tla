------------------------------ MODULE TestServer ------------------------------
(***************************************************************************)
(* pyads.testserver: the thread of an AdsTestServer accepts peers, a       *)
(* thread of its own (AdsClientConnection) answers the requests of each,   *)
(* and stop, in a third thread, ends all of them through flags and joins.  *)
(*                                                                         *)
(* External: sockets.  A peer may connect while the server listens, and is *)
(* queued until it is accepted, also when it has left by then; it sends    *)
(* requests, and one read takes one or more whole requests; select finds a *)
(* socket ready, or gives up after its tenth of a second when it is not.   *)
(***************************************************************************)
EXTENDS Naturals, Sequences, FiniteSets

CONSTANTS
    Peer,       \* connections that are made to the server
    Pipelining, \* those that send a request before the last was answered
    Request     \* per peer, what it sends, a sequence of kinds

RequestKind == {"plain", "short", "unknown"}

ASSUME TestServerAssumption ==
    /\ IsFiniteSet(Peer)
    /\ Pipelining \subseteq Peer
    /\ \A p \in Peer : Request[p] \in Seq(RequestKind)

VARIABLES
    server,     \* where the thread of the server is
    srun,       \* AdsTestServer._run
    listening,  \* its socket: "bound", "open" or "closed"
    accepted,   \* the peer it has accepted and not yet put in clients
    clients,    \* AdsTestServer.clients
    thread,     \* where the thread of each AdsClientConnection is
    crun,       \* their _run
    socket,     \* server's end of each connection, "queued" until accepted
    peer,       \* each peer: "away", "connected" or "gone"
    sent,       \* how many of its requests it has sent
    inbox,      \* requests on their way to the server
    answers,    \* answers to its requests that it has received
    misread,    \* history: peers of which a read was taken apart wrongly
    stop,       \* where stop is, with the index of its loop
    known,      \* history: clients when stop was called
    unheard     \* history: clients told to stop before their first line

serverVars == <<server, srun, listening, accepted, clients, thread, crun,
                socket, peer, sent, inbox, answers, misread, stop, known,
                unheard>>
sockets == <<peer, sent, inbox, answers, misread>>
stopping == <<stop, known, unheard>>
-----------------------------------------------------------------------------
Numbers(p) == DOMAIN Request[p]

ServerTypeOK ==
    /\ server \in {"new", "started", "listen", "loop", "select", "accept",
                   "spawn", "append", "ended"}
    /\ srun \in BOOLEAN
    /\ listening \in {"bound", "open", "closed"}
    /\ accepted \subseteq Peer /\ Cardinality(accepted) <= 1
    /\ clients \in Seq(Peer)
    /\ thread \in [Peer -> {"none", "started", "loop", "select", "handle", "ended"}]
    /\ crun \in [Peer -> BOOLEAN]
    /\ socket \in [Peer -> {"none", "queued", "open", "closed"}]
    /\ peer \in [Peer -> {"away", "connected", "gone"}]
    /\ \A p \in Peer : /\ sent[p] \in 0 .. Len(Request[p])
                       /\ inbox[p] \in Seq(Numbers(p))
                       /\ answers[p] \in Seq(Numbers(p))
    /\ misread \subseteq Peer
    /\ stop \in [at : {"idle", "loop", "join", "clear", "flag", "done"},
                 i : 1 .. Cardinality(Peer) + 1]
    /\ known \subseteq Peer
    /\ unheard \subseteq Peer

ServerInit ==
    /\ server = "new"
    /\ srun = TRUE
    /\ listening = "bound"
    /\ accepted = {}
    /\ clients = <<>>
    /\ thread = [p \in Peer |-> "none"]
    /\ crun = [p \in Peer |-> TRUE]
    /\ socket = [p \in Peer |-> "none"]
    /\ peer = [p \in Peer |-> "away"]
    /\ sent = [p \in Peer |-> 0]
    /\ inbox = [p \in Peer |-> <<>>]
    /\ answers = [p \in Peer |-> <<>>]
    /\ misread = {}
    /\ stop = [at |-> "idle", i |-> 1]
    /\ known = {}
    /\ unheard = {}
-----------------------------------------------------------------------------
(* The thread of the server                                                *)

Go(next) == server' = next

StartServer ==
    /\ server = "new"
    /\ Go("started")
    /\ UNCHANGED <<srun, listening, accepted, clients, thread, crun, socket,
                   sockets, stopping>>

\* run sets its flag again, whatever stop has done; then listen raises on a
\* socket that stop has closed.
ServerRun ==
    /\ server \in {"started", "listen"}
    /\ IF server = "started"
       THEN /\ srun' = TRUE
            /\ Go("listen")
            /\ UNCHANGED listening
       ELSE /\ listening' = IF listening = "bound" THEN "open" ELSE "closed"
            /\ Go(IF listening = "bound" THEN "loop" ELSE "ended")
            /\ UNCHANGED srun
    /\ UNCHANGED <<accepted, clients, thread, crun, socket, sockets, stopping>>

ServerLoop ==
    /\ server = "loop"
    /\ Go(IF srun THEN "select" ELSE "ended")
    /\ UNCHANGED <<srun, listening, accepted, clients, thread, crun, socket,
                   sockets, stopping>>

Queued == {p \in Peer : socket[p] = "queued"}
\* select on a closed socket raises.
ServerSelect ==
    /\ server = "select"
    /\ Go(IF listening = "closed" THEN "ended"
          ELSE IF Queued # {} THEN "accept" ELSE "loop")
    /\ UNCHANGED <<srun, listening, accepted, clients, thread, crun, socket,
                   sockets, stopping>>

\* accept raises when the socket was closed after select; a peer that has left
\* is accepted like any other, or its connection was aborted and accept raises.
ServerAccept ==
    /\ server = "accept"
    /\ \/ /\ listening = "closed"
          /\ Go("loop")
          /\ UNCHANGED <<accepted, socket>>
       \/ \E p \in Queued :
             /\ listening # "closed"
             /\ Go("spawn")
             /\ accepted' = {p}
             /\ socket' = [socket EXCEPT ![p] = "open"]
       \/ \E p \in Queued :
             /\ listening # "closed"
             /\ peer[p] = "gone"
             /\ Go("loop")
             /\ socket' = [socket EXCEPT ![p] = "closed"]
             /\ UNCHANGED accepted
    /\ UNCHANGED <<srun, listening, clients, thread, crun, sockets, stopping>>

\* The client's thread runs before it is in clients.
ServerSpawn ==
    /\ \/ /\ server = "spawn"
          /\ Go("append")
          /\ thread' = [p \in Peer |-> IF p \in accepted THEN "started" ELSE thread[p]]
          /\ UNCHANGED <<accepted, clients>>
       \/ /\ server = "append"
          /\ Go("loop")
          /\ \E p \in accepted : clients' = Append(clients, p)
          /\ accepted' = {}
          /\ UNCHANGED thread
    /\ UNCHANGED <<srun, listening, crun, socket, sockets, stopping>>
-----------------------------------------------------------------------------
(* The thread of a client                                                  *)

\* A mutant: the flag is set before every look at it.
ClientRunAnew(p) ==
    /\ thread[p] \in {"started", "loop"}
    /\ crun' = [crun EXCEPT ![p] = TRUE]
    /\ thread' = [thread EXCEPT ![p] = IF @ = "started" THEN "loop" ELSE "select"]
    /\ UNCHANGED <<server, srun, listening, accepted, clients, socket, sockets,
                   stopping>>

\* run sets its flag again; then the flag is looked at once per turn.
ClientRun(p) ==
    /\ thread[p] \in {"started", "loop"}
    /\ IF thread[p] = "started"
       THEN /\ crun' = [crun EXCEPT ![p] = TRUE]
            /\ thread' = [thread EXCEPT ![p] = "loop"]
       ELSE /\ thread' = [thread EXCEPT ![p] = IF crun[p] THEN "select" ELSE "ended"]
            /\ UNCHANGED crun
    /\ UNCHANGED <<server, srun, listening, accepted, clients, socket, sockets,
                   stopping>>

\* Nothing to read, the end of the connection, or data.
ClientSelect(p) ==
    /\ thread[p] = "select"
    /\ IF inbox[p] = <<>> /\ peer[p] = "gone"
       THEN /\ socket' = [socket EXCEPT ![p] = "closed"]
            /\ crun' = [crun EXCEPT ![p] = FALSE]
       ELSE UNCHANGED <<socket, crun>>
    /\ thread' = [thread EXCEPT ![p] = IF inbox[p] = <<>> THEN "loop" ELSE "handle"]
    /\ UNCHANGED <<server, srun, listening, accepted, clients, sockets, stopping>>

\* A mutant: what a read took and did not handle is put behind what has come
\* in the meantime.
RestRequeued(q, n) == SubSeq(q, n + 1, Len(q)) \o SubSeq(q, 2, n)
\* What is left to read of the requests q when one read has taken n of them.
Rest(q, n) == SubSeq(q, n + 1, Len(q))

Turns(p, at) == thread' = [thread EXCEPT ![p] = at]

\* One read takes n requests and handles them as one packet: less than 38 bytes
\* are discarded; a short request with others behind it has the wrong bytes in
\* its fields, and gives an answer to no request or an exception; otherwise the
\* first is answered alone (to a peer that has left the answer may raise), or
\* ends the thread with a KeyError, when it is for an unknown variable, and
\* leaves the socket open.
ClientHandle(p) ==
    /\ thread[p] = "handle"
    /\ \E n \in 1 .. Len(inbox[p]) :
          LET r == Head(inbox[p])
              kind == Request[p][r]
          IN  /\ inbox' = [inbox EXCEPT ![p] = Rest(@, n)]
              /\ \/ /\ \A i \in 1 .. n : Request[p][inbox[p][i]] = "short"
                    /\ Turns(p, "loop")
                    /\ UNCHANGED <<answers, misread>>
                 \/ /\ kind = "short" /\ n > 1
                    /\ misread' = misread \cup {p}
                    /\ Turns(p, "loop") \/ Turns(p, "ended")
                    /\ UNCHANGED answers
                 \/ /\ kind = "unknown"
                    /\ Turns(p, "ended")
                    /\ UNCHANGED <<answers, misread>>
                 \/ /\ kind \notin {"short", "unknown"} /\ peer[p] # "gone"
                    /\ answers' = [answers EXCEPT ![p] = Append(@, r)]
                    /\ Turns(p, "loop")
                    /\ UNCHANGED misread
                 \/ /\ kind \notin {"short", "unknown"} /\ peer[p] = "gone"
                    /\ Turns(p, "loop") \/ Turns(p, "ended")
                    /\ UNCHANGED <<answers, misread>>
    /\ UNCHANGED <<server, srun, listening, accepted, clients, crun, socket, peer,
                   sent, stopping>>
-----------------------------------------------------------------------------
(* External: the peers                                                     *)

Connect(p) ==
    /\ socket[p] = "none"
    /\ listening = "open"
    /\ peer' = [peer EXCEPT ![p] = "connected"]
    /\ socket' = [socket EXCEPT ![p] = "queued"]
    /\ UNCHANGED <<server, srun, listening, accepted, clients, thread, crun,
                   sent, inbox, answers, misread, stopping>>

Answered(p) == {answers[p][i] : i \in DOMAIN answers[p]}

Send(p) ==
    /\ peer[p] = "connected"
    /\ sent[p] < Len(Request[p])
    /\ p \in Pipelining \/ 1 .. sent[p] \subseteq Answered(p)
    /\ sent' = [sent EXCEPT ![p] = @ + 1]
    /\ inbox' = [inbox EXCEPT ![p] = Append(@, sent[p] + 1)]
    /\ UNCHANGED <<server, srun, listening, accepted, clients, thread, crun,
                   socket, peer, answers, misread, stopping>>

Disconnect(p) ==
    /\ peer[p] = "connected"
    /\ peer' = [peer EXCEPT ![p] = "gone"]
    /\ UNCHANGED <<server, srun, listening, accepted, clients, thread, crun,
                   socket, sent, inbox, answers, misread, stopping>>
-----------------------------------------------------------------------------
(* stop, which close calls                                                 *)

StopBegin ==
    /\ stop.at = "idle"
    /\ stop' = [stop EXCEPT !.at = "loop"]
    /\ known' = {clients[i] : i \in DOMAIN clients}
    /\ UNCHANGED <<server, srun, listening, accepted, clients, thread, crun,
                   socket, sockets, unheard>>

IsAlive(p) == thread[p] \notin {"none", "ended"}

\* client.close() of the next client, as far as its join.
StopLoop ==
    /\ stop.at = "loop"
    /\ IF stop.i > Len(clients)
       THEN /\ stop' = [stop EXCEPT !.at = "clear"]
            /\ UNCHANGED <<crun, socket, unheard>>
       ELSE LET p == clients[stop.i]
            IN  IF IsAlive(p)
                THEN /\ crun' = [crun EXCEPT ![p] = FALSE]
                     /\ unheard' = IF thread[p] = "started"
                                   THEN unheard \cup {p} ELSE unheard
                     /\ stop' = [stop EXCEPT !.at = "join"]
                     /\ UNCHANGED socket
                ELSE /\ socket' = [socket EXCEPT ![p] = "closed"]
                     /\ stop' = [stop EXCEPT !.i = @ + 1]
                     /\ UNCHANGED <<crun, unheard>>
    /\ UNCHANGED <<server, srun, listening, accepted, clients, thread, sockets,
                   known>>

\* A mutant: the client's socket is closed without waiting for its thread.
StopGoesOn ==
    /\ stop.at = "join"
    /\ socket' = [socket EXCEPT ![clients[stop.i]] = "closed"]
    /\ stop' = [at |-> "loop", i |-> stop.i + 1]
    /\ UNCHANGED <<server, srun, listening, accepted, clients, thread, crun,
                   sockets, known, unheard>>

StopJoin ==
    /\ stop.at = "join"
    /\ ~IsAlive(clients[stop.i])
    /\ socket' = [socket EXCEPT ![clients[stop.i]] = "closed"]
    /\ stop' = [at |-> "loop", i |-> stop.i + 1]
    /\ UNCHANGED <<server, srun, listening, accepted, clients, thread, crun,
                   sockets, known, unheard>>

\* A mutant: the server's flag stays set and its socket open.
StopClients ==
    /\ stop.at \in {"clear", "flag"}
    /\ clients' = <<>>
    /\ stop' = [stop EXCEPT !.at = IF stop.at = "clear" THEN "flag" ELSE "done"]
    /\ UNCHANGED <<server, srun, listening, accepted, thread, crun, socket,
                   sockets, known, unheard>>

\* A client appended since the loop ended is forgotten with the others.
StopServer ==
    /\ \/ /\ stop.at = "clear"
          /\ clients' = <<>>
          /\ stop' = [stop EXCEPT !.at = "flag"]
          /\ UNCHANGED <<srun, listening>>
       \/ /\ stop.at = "flag"
          /\ srun' = FALSE
          /\ listening' = "closed"
          /\ stop' = [stop EXCEPT !.at = "done"]
          /\ UNCHANGED clients
    /\ UNCHANGED <<server, accepted, thread, crun, socket, sockets, known, unheard>>
-----------------------------------------------------------------------------
Server == ServerRun \/ ServerLoop \/ ServerSelect \/ ServerAccept \/ ServerSpawn
Client(p) == ClientRun(p) \/ ClientSelect(p) \/ ClientHandle(p)
Stop == StopLoop \/ StopJoin \/ StopServer

ServerNext ==
    \/ StartServer
    \/ Server
    \/ \E p \in Peer : Client(p)
    \/ \E p \in Peer : Connect(p) \/ Send(p) \/ Disconnect(p)
    \/ StopBegin
    \/ Stop

ServerSpec == ServerInit /\ [][ServerNext]_serverVars

\* Threads that have been started run.
ServerFairness ==
    /\ WF_serverVars(Server)
    /\ WF_serverVars(Stop)
    /\ \A p \in Peer : WF_serverVars(Client(p))
-----------------------------------------------------------------------------
(* When stop has returned, the thread of every client it was called with   *)
(* has ended and its socket is closed (a client that was being accepted    *)
(* meanwhile may live on: nothing will stop it but its peer).              *)
StoppedClients ==
    stop.at = "done" => \A p \in known : ~IsAlive(p) /\ socket[p] = "closed"

(* While stop waits for the thread of a client, that thread has ended or   *)
(* its flag is down, so it will end with its turn; nothing the thread does *)
(* raises the flag again but its first line, when stop came before it.     *)
StopIsHeard ==
    stop.at = "join" =>
        LET p == clients[stop.i]
        IN  ~IsAlive(p) \/ ~crun[p] \/ p \in unheard

(* A peer never gets the answers to its requests out of order or twice,    *)
(* and a peer that waits for each answer is never left with a request that *)
(* was read and neither answered, discarded nor the death of its client's  *)
(* thread.  Answers to no request come only to a peer that has sent a      *)
(* short packet and more requests behind it.                               *)
AnswersInOrder ==
    \A p \in Peer :
        /\ \A i, j \in DOMAIN answers[p] : i < j => answers[p][i] < answers[p][j]
        /\ p \notin Pipelining =>
              \A r \in 1 .. sent[p] :
                 \/ r \in Answered(p)
                 \/ r \in {inbox[p][i] : i \in DOMAIN inbox[p]}
                 \/ Request[p][r] = "short"
                 \/ thread[p] = "ended"
                 \/ peer[p] = "gone"
        /\ p \in misread =>
              p \in Pipelining /\ \E r \in 1 .. sent[p] - 1 : Request[p][r] = "short"

(* stop returns, and after it the server's thread ends, also when stop is  *)
(* called before run has set its own flag; but not when a client's thread  *)
(* is told to stop before its first line, which sets its flag again: then  *)
(* stop waits for the peer to leave.                                       *)
StopEnds ==
    (stop.at # "idle") ~> \/ unheard # {}
                          \/ stop.at = "done" /\ server \in {"new", "ended"}
=============================================================================
