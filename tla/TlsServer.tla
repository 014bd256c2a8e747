----------------------------- MODULE TlsServer -----------------------------
(* TlsServerTransport in esm446/io/cot_transport.py: the thread that calls *)
(* publish and close (the capture, or cli/cot_server.py) and the thread    *)
(* that accepts clients, sharing the client list under a lock.  The far    *)
(* end of a connection is external: it reads, stops reading, comes back or *)
(* goes away.  Neither the handshake nor sendall has a timeout, since      *)
(* accept gives blocking sockets, so both wait for a peer that is stalled. *)
EXTENDS Integers, Sequences, FiniteSets, SequencesExt

CONSTANTS
    Clients,        \* peers that may connect, each once
    Nobody,         \* no client
    MaxBroadcasts   \* bound of the model: calls of publish with a payload

ASSUME TlsServerAssumption == Nobody \notin Clients /\ MaxBroadcasts \in Nat

VARIABLES
    clients,      \* _clients
    lock,         \* _lock: "free" or held by "main"
    running,      \* _running
    listening,    \* the listener is open
    acceptor,     \* where _accept_forever is
    inHand,       \* the connection it has accepted and not yet listed
    main,         \* where the publishing thread is
    todo,         \* publish: the clients still to send to
    dead,         \* publish: the clients whose send failed
    result,       \* publish: whether the last call returned len(events)
    peer,         \* external: what the far end of each connection does
    broadcasts,   \* history: calls of publish so far
    got,          \* history: per client, the broadcasts sent to it
    joined        \* history: per client, the broadcasts before it was listed

mainVars == <<main, todo, dead, result, broadcasts, got>>
acceptorVars == <<acceptor, inHand, joined>>
vars == <<clients, lock, running, listening, acceptorVars, mainVars, peer>>

Init ==
    /\ clients = <<>>
    /\ lock = "free"
    /\ running = TRUE
    /\ listening = TRUE
    /\ acceptor = "check"
    /\ inHand = Nobody
    /\ main = "idle"
    /\ todo = <<>>
    /\ dead = {}
    /\ result = FALSE
    /\ peer = [c \in Clients |-> "away"]
    /\ broadcasts = 0
    /\ got = [c \in Clients |-> {}]
    /\ joined = [c \in Clients |-> 0]

-----------------------------------------------------------------------------
(* The far ends. *)
PeerMoves(c, from, to) ==
    /\ peer[c] \in from
    /\ peer' = [peer EXCEPT ![c] = to]
    /\ UNCHANGED <<clients, lock, running, listening, acceptorVars, mainVars>>

Dial(c)   == listening /\ PeerMoves(c, {"away"}, "dialing")
Stall(c)  == PeerMoves(c, {"reading"}, "stalled")
Resume(c) == PeerMoves(c, {"stalled"}, "reading")
Leave(c)  == PeerMoves(c, {"dialing", "reading", "stalled"}, "gone")

-----------------------------------------------------------------------------
(* _accept_forever *)

CheckRunning ==
    /\ acceptor = "check"
    /\ acceptor' = IF running THEN "accept" ELSE "exited"
    /\ UNCHANGED <<clients, lock, running, listening, inHand, joined,
                   mainVars, peer>>

(* accept returns a connection; its peer may handshake or stall. *)
Accept(c) ==
    /\ acceptor = "accept" /\ listening
    /\ peer[c] = "dialing"
    /\ acceptor' = "handshake"
    /\ inHand' = c
    /\ \E p \in {"reading", "stalled"} : peer' = [peer EXCEPT ![c] = p]
    /\ UNCHANGED <<clients, lock, running, listening, joined, mainVars>>

(* accept times out, or the listener is closed. *)
AcceptNothing ==
    /\ acceptor = "accept"
    /\ acceptor' = "check"
    /\ UNCHANGED <<clients, lock, running, listening, inHand, joined,
                   mainVars, peer>>

Handshake ==
    /\ acceptor = "handshake"
    /\ peer[inHand] = "reading"
    /\ acceptor' = "append"
    /\ UNCHANGED <<clients, lock, running, listening, inHand, joined,
                   mainVars, peer>>

HandshakeFailsOpen ==  \* slip: the raw connection is not closed
    /\ acceptor = "handshake"
    /\ peer[inHand] \in {"reading", "gone"}
    /\ acceptor' = "check"
    /\ inHand' = Nobody
    /\ UNCHANGED <<clients, lock, running, listening, joined, mainVars, peer>>

HandshakeFailsUncaught ==  \* slip: the failure ends the thread
    /\ acceptor = "handshake"
    /\ peer[inHand] \in {"reading", "gone"}
    /\ acceptor' = "exited"
    /\ inHand' = Nobody
    /\ peer' = [peer EXCEPT ![inHand] = "gone"]
    /\ UNCHANGED <<clients, lock, running, listening, joined, mainVars>>

HandshakeFails ==
    /\ acceptor = "handshake"
    /\ peer[inHand] \in {"reading", "gone"}
    /\ acceptor' = "check"
    /\ inHand' = Nobody
    /\ peer' = [peer EXCEPT ![inHand] = "gone"]
    /\ UNCHANGED <<clients, lock, running, listening, joined, mainVars>>

ListAndHold ==  \* slip: the lock is not given back
    /\ acceptor = "append"
    /\ lock = "free"
    /\ lock' = "acceptor"
    /\ clients' = Append(clients, inHand)
    /\ joined' = [joined EXCEPT ![inHand] = broadcasts]
    /\ inHand' = Nobody
    /\ acceptor' = "check"
    /\ UNCHANGED <<running, listening, mainVars, peer>>

ListClient ==
    /\ acceptor = "append"
    /\ lock = "free"
    /\ clients' = Append(clients, inHand)
    /\ joined' = [joined EXCEPT ![inHand] = broadcasts]
    /\ inHand' = Nobody
    /\ acceptor' = "check"
    /\ UNCHANGED <<lock, running, listening, mainVars, peer>>

-----------------------------------------------------------------------------
(* publish *)
StartBroadcast ==
    /\ main = "idle" /\ broadcasts < MaxBroadcasts
    /\ lock = "free"
    /\ lock' = "main"
    /\ main' = "sending"
    /\ broadcasts' = broadcasts + 1
    /\ todo' = clients
    /\ dead' = {}
    /\ UNCHANGED <<clients, running, listening, acceptorVars, result, got,
                   peer>>

(* sendall to the next client: it goes out, into the buffer of a peer that *)
(* reads or of one whose leaving has not been noticed; or it fails; or, to *)
(* a peer that has let its buffers fill, it waits.                         *)
SendRegardless ==  \* slip: a failed send is not noted
    /\ main = "sending" /\ todo # <<>>
    /\ \/ /\ peer[Head(todo)] \in {"reading", "gone"}
          /\ got' = [got EXCEPT ![Head(todo)] = @ \cup {broadcasts}]
       \/ peer[Head(todo)] = "gone" /\ UNCHANGED got
    /\ todo' = Tail(todo)
    /\ UNCHANGED <<clients, lock, running, listening, acceptorVars, main, dead,
                   result, broadcasts, peer>>

Send ==
    /\ main = "sending" /\ todo # <<>>
    /\ LET c == Head(todo)
       IN  \/ /\ peer[c] \in {"reading", "gone"}
              /\ got' = [got EXCEPT ![c] = @ \cup {broadcasts}]
              /\ UNCHANGED dead
           \/ /\ peer[c] = "gone"
              /\ dead' = dead \cup {c}
              /\ UNCHANGED got
    /\ todo' = Tail(todo)
    /\ UNCHANGED <<clients, lock, running, listening, acceptorVars, main,
                   result, broadcasts, peer>>

(* The clients whose send failed are taken off the list one by one. *)
Drop(c) ==
    /\ main = "sending" /\ todo = <<>>
    /\ c \in dead
    /\ \E i \in DOMAIN clients :
        clients[i] = c /\ clients' = RemoveAt(clients, i)
    /\ dead' = dead \ {c}
    /\ UNCHANGED <<lock, running, listening, acceptorVars, main, todo, result,
                   broadcasts, got, peer>>

UnlockNever ==  \* slip: client_count is called inside the lock
    /\ main = "sending" /\ todo = <<>> /\ dead = {}
    /\ main' = "counting"
    /\ UNCHANGED <<clients, lock, running, listening, acceptorVars, todo, dead,
                   result, broadcasts, got, peer>>

Unlock ==
    /\ main = "sending" /\ todo = <<>> /\ dead = {}
    /\ lock' = "free"
    /\ main' = "counting"
    /\ UNCHANGED <<clients, running, listening, acceptorVars, todo, dead,
                   result, broadcasts, got, peer>>

(* client_count takes the lock again. *)
Count ==
    /\ main = "counting"
    /\ lock = "free"
    /\ result' = (clients # <<>>)
    /\ main' = "idle"
    /\ UNCHANGED <<clients, lock, running, listening, acceptorVars, todo,
                   dead, broadcasts, got, peer>>

(* close *)
StopRunning ==
    /\ main = "idle"
    /\ running' = FALSE
    /\ main' = "closing clients"
    /\ UNCHANGED <<clients, lock, listening, acceptorVars, todo, dead, result,
                   broadcasts, got, peer>>

CloseClients ==
    /\ main = "closing clients"
    /\ lock = "free"
    /\ clients' = <<>>
    /\ peer' = [c \in Clients |->
                  IF \E i \in DOMAIN clients : clients[i] = c
                  THEN "gone" ELSE peer[c]]
    /\ main' = "closing listener"
    /\ UNCHANGED <<lock, running, listening, acceptorVars, todo, dead, result,
                   broadcasts, got>>

ForgetListener ==  \* slip: the listener is left open
    /\ main = "closing listener"
    /\ main' = "joining"
    /\ UNCHANGED <<clients, lock, running, listening, acceptorVars, todo, dead,
                   result, broadcasts, got, peer>>

CloseListener ==
    /\ main = "closing listener"
    /\ listening' = FALSE
    /\ main' = "joining"
    /\ UNCHANGED <<clients, lock, running, acceptorVars, todo, dead, result,
                   broadcasts, got, peer>>

(* join gives up after two seconds, whether the thread has ended or not. *)
Join ==
    /\ main = "joining"
    /\ main' = "closed"
    /\ UNCHANGED <<clients, lock, running, listening, acceptorVars, todo,
                   dead, result, broadcasts, got, peer>>

-----------------------------------------------------------------------------
Acceptor ==
    \/ CheckRunning \/ AcceptNothing \/ Handshake \/ HandshakeFails
    \/ ListClient
    \/ \E c \in Clients : Accept(c)

Dropping == \E c \in Clients : Drop(c)

Publishing == StartBroadcast \/ Send \/ Dropping \/ Unlock \/ Count
Closing == StopRunning \/ CloseClients \/ CloseListener \/ Join

Peers == \E c \in Clients : Dial(c) \/ Stall(c) \/ Resume(c) \/ Leave(c)

Next == Acceptor \/ Publishing \/ Closing \/ Peers

Spec == Init /\ [][Next]_vars

(* Both threads run on whenever they can; nobody has to publish or close.  *)
(* A connection that waits in the backlog is accepted before long: accept  *)
(* may fail now and then but not for ever.  A peer that keeps coming back  *)
(* takes a little each time, and a payload and a handshake are finite.     *)
ThreadFairness ==
    /\ WF_vars(Acceptor)
    /\ SF_vars(\E c \in Clients : Accept(c))
    /\ SF_vars(Handshake \/ HandshakeFails)
    /\ SF_vars(Send)
    /\ WF_vars(Dropping \/ Unlock \/ Count)
    /\ WF_vars(CloseClients \/ CloseListener \/ Join)

FairSpec == Spec /\ ThreadFairness

(* Nothing in the code makes a stalled peer move; a network where each one *)
(* comes back or goes away in the end.                                     *)
PeerFairness ==
    \A c \in Clients :
        WF_vars(peer[c] = "stalled" /\ (Resume(c) \/ Leave(c)))

FairPeersSpec == FairSpec /\ PeerFairness

-----------------------------------------------------------------------------
TypeOK ==
    /\ clients \in Seq(Clients)
    /\ lock \in {"free", "main"}
    /\ running \in BOOLEAN /\ listening \in BOOLEAN
    /\ acceptor \in {"check", "accept", "handshake", "append", "exited"}
    /\ inHand \in Clients \cup {Nobody}
    /\ main \in {"idle", "sending", "counting", "closing clients",
                 "closing listener", "joining", "closed"}
    /\ todo \in Seq(Clients)
    /\ dead \subseteq Clients
    /\ result \in BOOLEAN
    /\ peer \in [Clients -> {"away", "dialing", "reading", "stalled", "gone"}]
    /\ broadcasts \in 0 .. MaxBroadcasts
    /\ got \in [Clients -> SUBSET (1 .. MaxBroadcasts)]
    /\ joined \in [Clients -> 0 .. MaxBroadcasts]

Listed == {clients[i] : i \in DOMAIN clients}
ToDo == {todo[i] : i \in DOMAIN todo}

(* A listed client has been sent every broadcast since it was listed, each *)
(* once and none by halves, however accepting and broadcasting interleave. *)
ListedMissNothing ==
    \A c \in Listed :
        LET behind == main = "sending" /\ c \in ToDo \cup dead
        IN  got[c] = joined[c] + 1 .. broadcasts - (IF behind THEN 1 ELSE 0)

(* A connection that is up is known to one thread: it is in the list, or   *)
(* in the hand of the acceptor, and never in both or in the list twice.    *)
EveryConnectionIsKept ==
    /\ \A c \in Clients : peer[c] \in {"reading", "stalled"} =>
           c = inHand \/ c \in Listed
    /\ inHand \notin Listed
    /\ Len(clients) = Cardinality(Listed)

(* Once closed is over, the acceptor lists at most the connection it had   *)
(* in its hand, and takes no other.                                        *)
NothingIsAcceptedAfterClose ==
    [][main = "closed" => inHand' \in {inHand, Nobody}]_vars

(* The server keeps the promise of FanOut: a client whose send has failed  *)
(* is lost there and then, before it is taken off the list, and the doors  *)
(* are shut when close has returned, but for a connection in the hand of   *)
(* the acceptor.                                                           *)
Promise ==
    INSTANCE FanOut WITH
        said     <- broadcasts,
        doors    <- IF main # "closed" THEN "open"
                    ELSE IF inHand # Nobody THEN "last one" ELSE "closed",
        audience <- Listed \ dead,
        since    <- joined,
        received <- got

KeepsFanOut == Promise!Spec

(* publish comes back, if the peers that stop reading come back or go.     *)
PublishReturns == main \in {"sending", "counting"} ~> main = "idle"

(* close comes back, and the accepting thread it cannot wait for ends. *)
CloseReturns ==
    /\ main = "closing clients" ~> main = "closed"
    /\ ~running ~> acceptor = "exited"

(* A client that dials is taken, or gives up, or the server is closed. *)
DialIsAnswered ==
    \A c \in Clients : peer[c] = "dialing" ~> (peer[c] # "dialing" \/ ~running)
=============================================================================
