-------------------------- MODULE TransportProofs --------------------------
(* What two threads that share a list of clients keep, for any number of   *)
(* clients and of broadcasts: a listed client misses nothing, a connection *)
(* is never lost or listed twice, and a closed server takes no other; and  *)
(* the backoff of the stream transports, for every start, cap and timeout: *)
(* no attempt comes before its wait is over, and no outage costs more than *)
(* one full backoff once the server is up.                                 *)
EXTENDS TlsServer, StreamLink, SequenceTheorems, FiniteSetTheorems, TLAPS

-----------------------------------------------------------------------------
(* The list of clients.                                                    *)

Distinct(s) == \A i, j \in DOMAIN s : s[i] = s[j] => i = j
Members(s)  == {s[i] : i \in DOMAIN s}

(* _clients.remove takes one entry out and leaves the others, so that a    *)
(* client listed once is not listed any more.                              *)
LEMMA RemoveAtProperties ==
  ASSUME NEW S, NEW s \in Seq(S), Distinct(s), NEW i \in DOMAIN s
  PROVE  /\ RemoveAt(s, i) \in Seq(S)
         /\ Distinct(RemoveAt(s, i))
         /\ Members(RemoveAt(s, i)) = Members(s) \ {s[i]}
<1>. DEFINE a == SubSeq(s, 1, i - 1)
            b == SubSeq(s, i + 1, Len(s))
            t == [k \in 1 .. Len(s) - 1 |-> IF k < i THEN s[k] ELSE s[k + 1]]
<1>1. /\ Len(s) \in Nat /\ DOMAIN s = 1 .. Len(s) /\ i \in 1 .. Len(s)
      /\ \A k \in 1 .. Len(s) : s[k] \in S
  BY LenProperties, ElementOfSeq
<1>2. /\ a \in Seq(S) /\ Len(a) = i - 1
      /\ \A k \in 1 .. i - 1 : a[k] = s[k]
  BY <1>1, SubSeqProperties
<1>3. /\ b \in Seq(S) /\ Len(b) = Len(s) - i
      /\ \A k \in 1 .. Len(s) - i : b[k] = s[i + k]
  <2>1. /\ i + 1 \in Int /\ Len(s) \in Int
        /\ \A k \in i + 1 .. Len(s) : s[k] \in S
    BY <1>1
  <2>2. /\ b \in Seq(S)
        /\ Len(b) = IF i + 1 <= Len(s) THEN Len(s) - (i + 1) + 1 ELSE 0
        /\ \A k \in 1 .. Len(s) - (i + 1) + 1 : b[k] = s[(i + 1) + k - 1]
    BY <2>1, SubSeqProperties
  <2>3. Len(s) - (i + 1) + 1 = Len(s) - i /\ i <= Len(s)
    BY <1>1
  <2>4. \A k \in 1 .. Len(s) - i : (i + 1) + k - 1 = i + k
    BY <1>1
  <2>. QED BY <1>1, <2>2, <2>3, <2>4
<1>4. /\ a \o b \in Seq(S) /\ Len(a \o b) = Len(s) - 1
      /\ DOMAIN (a \o b) = 1 .. Len(s) - 1
      /\ \A k \in 1 .. Len(s) - 1 : (a \o b)[k] = t[k]
  <2>. HIDE DEF a, b
  <2>1. /\ a \o b \in Seq(S) /\ Len(a \o b) = Len(a) + Len(b)
        /\ \A k \in 1 .. Len(a) + Len(b) :
               (a \o b)[k] = IF k <= Len(a) THEN a[k] ELSE b[k - Len(a)]
    BY <1>2, <1>3, ConcatProperties
  <2>2. Len(a) + Len(b) = Len(s) - 1 /\ Len(a) = i - 1
    BY <1>1, <1>2, <1>3
  <2>3. DOMAIN (a \o b) = 1 .. Len(s) - 1
    BY <2>1, <2>2, LenProperties
  <2>4. ASSUME NEW k \in 1 .. Len(s) - 1
        PROVE  (a \o b)[k] = t[k]
    <3>1. (a \o b)[k] = IF k <= i - 1 THEN a[k] ELSE b[k - (i - 1)]
      BY <2>1, <2>2, <2>4
    <3>2. CASE k < i
      <4>1. k <= i - 1 /\ k \in 1 .. i - 1
        BY <1>1, <2>4, <3>2
      <4>. QED BY <1>2, <3>1, <3>2, <4>1
    <3>3. CASE ~(k < i)
      <4>1. ~(k <= i - 1) /\ k - (i - 1) \in 1 .. Len(s) - i
        BY <1>1, <2>4, <3>3
      <4>2. i + (k - (i - 1)) = k + 1
        BY <1>1
      <4>. QED BY <1>3, <3>1, <3>3, <4>1, <4>2
    <3>. QED BY <3>2, <3>3
  <2>. QED BY <2>1, <2>2, <2>3, <2>4
<1>5. RemoveAt(s, i) = a \o b
  BY DEF RemoveAt
<1>6. Distinct(a \o b)
  <2>. HIDE DEF a, b
  <2>1. ASSUME NEW j \in 1 .. Len(s) - 1, NEW k \in 1 .. Len(s) - 1,
               t[j] = t[k]
        PROVE  j = k
    <3>. DEFINE at(m) == IF m < i THEN m ELSE m + 1
    <3>1. at(j) \in DOMAIN s /\ at(k) \in DOMAIN s
      BY <1>1
    <3>2. s[at(j)] = s[at(k)]
      BY <2>1
    <3>3. at(j) = at(k)
      BY <3>1, <3>2 DEF Distinct
    <3>. QED BY <1>1, <3>3
  <2>. HIDE DEF t
  <2>. QED BY <1>4, <2>1 DEF Distinct
<1>7. Members(a \o b) = Members(s) \ {s[i]}
  <2>1. ASSUME NEW k \in 1 .. Len(s) - 1
        PROVE  t[k] \in Members(s) \ {s[i]}
    <3>1. CASE k < i
      <4>1. k \in DOMAIN s /\ k # i /\ t[k] = s[k]
        BY <1>1, <2>1, <3>1
      <4>. QED BY <4>1 DEF Members, Distinct
    <3>2. CASE ~(k < i)
      <4>1. k + 1 \in DOMAIN s /\ k + 1 # i /\ t[k] = s[k + 1]
        BY <1>1, <2>1, <3>2
      <4>. QED BY <4>1 DEF Members, Distinct
    <3>. QED BY <3>1, <3>2
  <2>2. ASSUME NEW k \in DOMAIN s, k # i
        PROVE  \E m \in 1 .. Len(s) - 1 : t[m] = s[k]
    <3>1. CASE k < i
      <4>1. k \in 1 .. Len(s) - 1 /\ t[k] = s[k]
        BY <1>1, <3>1
      <4>. QED BY <4>1
    <3>2. CASE k > i
      <4>1. k - 1 \in 1 .. Len(s) - 1 /\ t[k - 1] = s[k]
        BY <1>1, <3>2
      <4>. QED BY <4>1
    <3>. QED BY <1>1, <2>2, <3>1, <3>2
  <2>. HIDE DEF a, b, t
  <2>3. Members(a \o b) \subseteq Members(s) \ {s[i]}
    BY <1>4, <2>1 DEF Members
  <2>4. Members(s) \ {s[i]} \subseteq Members(a \o b)
    BY <1>4, <2>2 DEF Members
  <2>. QED BY <2>3, <2>4
<1>. QED BY <1>4, <1>5, <1>6, <1>7

(* A client that is not listed is put at the end of the list. *)
LEMMA AppendMembers ==
  ASSUME NEW S, NEW s \in Seq(S), Distinct(s), NEW c \in S, c \notin Members(s)
  PROVE  /\ Append(s, c) \in Seq(S)
         /\ Distinct(Append(s, c))
         /\ Members(Append(s, c)) = Members(s) \cup {c}
<1>1. /\ Append(s, c) \in Seq(S) /\ Len(Append(s, c)) = Len(s) + 1
      /\ \A k \in 1 .. Len(s) : Append(s, c)[k] = s[k]
      /\ Append(s, c)[Len(s) + 1] = c
      /\ DOMAIN Append(s, c) = 1 .. Len(s) + 1
      /\ Len(s) \in Nat /\ DOMAIN s = 1 .. Len(s)
  BY AppendProperties, LenProperties
<1>2. Distinct(Append(s, c))
  BY <1>1 DEF Distinct, Members
<1>3. Members(Append(s, c)) = Members(s) \cup {c}
  BY <1>1 DEF Members
<1>. QED BY <1>1, <1>2, <1>3

(* The loop over the clients leaves those it has not come to.              *)
LEMMA TailMembers ==
  ASSUME NEW S, NEW s \in Seq(S), Distinct(s), s # <<>>
  PROVE  /\ Tail(s) \in Seq(S) /\ Distinct(Tail(s))
         /\ Head(s) \in Members(s)
         /\ Members(Tail(s)) = Members(s) \ {Head(s)}
<1>1. /\ Tail(s) \in Seq(S) /\ Len(Tail(s)) = Len(s) - 1
      /\ \A k \in 1 .. Len(Tail(s)) : Tail(s)[k] = s[k + 1]
      /\ Head(s) = s[1] /\ Len(s) \in Nat /\ Len(s) # 0
      /\ DOMAIN s = 1 .. Len(s) /\ DOMAIN Tail(s) = 1 .. Len(s) - 1
  BY HeadTailProperties, LenProperties, EmptySeq
<1>2. Distinct(Tail(s))
  BY <1>1 DEF Distinct
<1>3. Head(s) \in Members(s)
  BY <1>1 DEF Members
<1>4. Members(Tail(s)) = Members(s) \ {Head(s)}
  <2>1. ASSUME NEW k \in 1 .. Len(s) - 1
        PROVE  Tail(s)[k] \in Members(s) \ {Head(s)}
    BY <1>1, <2>1 DEF Members, Distinct
  <2>2. ASSUME NEW k \in DOMAIN s, k # 1
        PROVE  k - 1 \in 1 .. Len(s) - 1 /\ s[k] = Tail(s)[k - 1]
    BY <1>1, <2>2
  <2>3. Members(Tail(s)) \subseteq Members(s) \ {Head(s)}
    BY <1>1, <2>1 DEF Members
  <2>4. ASSUME NEW x \in Members(s), x # Head(s)
        PROVE  x \in Members(Tail(s))
    <3>1. PICK k \in DOMAIN s : x = s[k]
      BY <2>4 DEF Members
    <3>2. k - 1 \in DOMAIN Tail(s) /\ x = Tail(s)[k - 1]
      BY <1>1, <2>2, <2>4, <3>1
    <3>. QED BY <3>2 DEF Members
  <2>. QED BY <2>3, <2>4
<1>. QED BY <1>1, <1>2, <1>3, <1>4

(* A list without repetition has as many entries as members. *)
LEMMA DistinctCardinality ==
  ASSUME NEW S, NEW s \in Seq(S), Distinct(s)
  PROVE  Len(s) = Cardinality(Members(s))
<1>1. Len(s) \in Nat /\ DOMAIN s = 1 .. Len(s) /\ s \in [1 .. Len(s) -> Members(s)]
  BY LenProperties DEF Members
<1>2. s \in Bijection(1 .. Len(s), Members(s))
  BY <1>1 DEF Distinct, Members, Bijection, Injection, Surjection, IsInjective
<1>3. ExistsBijection(1 .. Len(s), Members(s))
  BY <1>2 DEF ExistsBijection
<1>. QED BY <1>1, <1>3, FS_CountingElements

-----------------------------------------------------------------------------
(* The invariant.  What is listed, accepted and sent is only right         *)
(* together: the lock keeps the list as it is while a broadcast goes       *)
(* through it, a connection comes to the list only out of the acceptor's   *)
(* hand, and nothing goes to a client before it is listed.                 *)

(* The lock is held exactly while a broadcast is being sent. *)
LockInv == lock = (IF main = "sending" THEN "main" ELSE "free")

(* The acceptor has a connection in its hand from accept to the list. *)
HandInv ==
    /\ (inHand # Nobody) <=> acceptor \in {"handshake", "append"}
    /\ inHand # Nobody => peer[inHand] \notin {"away", "dialing"}

(* Both lists name a client once, and the broadcast is over clients that   *)
(* are listed, each of them in one of three ways: still to be sent to, or  *)
(* failed, and then gone, or done.                                         *)
BroadcastInv ==
    /\ Distinct(clients) /\ Distinct(todo)
    /\ main = "sending" => ToDo \cup dead \subseteq Listed
    /\ main # "sending" => ToDo = {} /\ dead = {}
    /\ ToDo \cap dead = {}
    /\ \A c \in dead : peer[c] = "gone"
    /\ main = "sending" => \A c \in Listed : joined[c] < broadcasts

(* A client that is not listed yet has been sent nothing. *)
FreshInv ==
    \A c \in Clients :
        peer[c] \in {"away", "dialing"} \/ c = inHand =>
            c \notin Listed /\ got[c] = {}

(* A connection that is up is in the list or in the hand. *)
KeptInv ==
    \A c \in Clients : peer[c] \in {"reading", "stalled"} =>
        c = inHand \/ c \in Listed

(* The listener is closed before close waits for the thread. *)
ClosedInv == main \in {"joining", "closed"} => ~listening

(* Nobody was listed in the future. *)
JoinedInv == \A c \in Clients : joined[c] <= broadcasts

IInv ==
    /\ TypeOK /\ JoinedInv /\ LockInv /\ HandInv /\ BroadcastInv /\ FreshInv
    /\ KeptInv /\ ClosedInv /\ ListedMissNothing

(* What is assumed of the constants is used throughout.                    *)
USE TlsServerAssumption DEF TlsServerAssumption

(* The server starts in the invariant. *)
LEMMA InitIInv == Init => IInv
<1>. SUFFICES ASSUME Init PROVE IInv
  OBVIOUS
<1>1. /\ <<>> \in Seq(Clients) /\ DOMAIN <<>> = {}
  BY EmptySeq, LenProperties
<1>2. Listed = {} /\ ToDo = {} /\ Distinct(clients) /\ Distinct(todo)
  BY <1>1 DEF Init, Listed, ToDo, Distinct
<1>3. TypeOK
  <2>1. /\ lock = "free" /\ main = "idle" /\ acceptor = "check"
        /\ clients = <<>> /\ todo = <<>> /\ dead \subseteq Clients
        /\ inHand \in Clients \cup {Nobody} /\ broadcasts \in 0 .. MaxBroadcasts
    BY DEF Init
  <2>3. running \in BOOLEAN /\ listening \in BOOLEAN /\ result \in BOOLEAN
    BY Zenon DEF Init
  <2>2. /\ peer \in [Clients -> {"away", "dialing", "reading", "stalled", "gone"}]
        /\ got \in [Clients -> SUBSET (1 .. MaxBroadcasts)]
        /\ joined \in [Clients -> 0 .. MaxBroadcasts]
    BY DEF Init
  <2>. QED BY <1>1, <2>1, <2>2, <2>3 DEF TypeOK
<1>4. LockInv /\ HandInv /\ ClosedInv /\ JoinedInv
  BY DEF Init, LockInv, HandInv, ClosedInv, JoinedInv
<1>5. BroadcastInv /\ FreshInv /\ KeptInv /\ ListedMissNothing
  BY <1>2 DEF Init, BroadcastInv, FreshInv, KeptInv, ListedMissNothing
<1>. QED BY <1>3, <1>4, <1>5 DEF IInv

(* The histories count broadcasts. *)
LEMMA HistoryType ==
  ASSUME TypeOK
  PROVE  /\ broadcasts \in 0 .. MaxBroadcasts /\ broadcasts \in Nat
         /\ joined \in [Clients -> 0 .. MaxBroadcasts]
         /\ got \in [Clients -> SUBSET (1 .. MaxBroadcasts)]
<1>1. /\ broadcasts \in 0 .. MaxBroadcasts
      /\ joined \in [Clients -> 0 .. MaxBroadcasts]
      /\ got \in [Clients -> SUBSET (1 .. MaxBroadcasts)]
  BY DEF TypeOK
<1>. QED BY <1>1

(* Who is listed, or still to be sent to, is a client. *)
LEMMA ListedType ==
  ASSUME TypeOK
  PROVE  Listed \subseteq Clients /\ ToDo \subseteq Clients
<1>1. /\ DOMAIN clients = 1 .. Len(clients) /\ DOMAIN todo = 1 .. Len(todo)
  BY LenProperties DEF TypeOK
<1>2. /\ \A i \in DOMAIN clients : clients[i] \in Clients
      /\ \A i \in DOMAIN todo : todo[i] \in Clients
  BY <1>1, ElementOfSeq DEF TypeOK
<1>. QED BY <1>2 DEF Listed, ToDo

(* The far ends come and go; only a client that has not been accepted yet  *)
(* may still dial.                                                         *)
LEMMA PeersIInv ==
  ASSUME IInv, NEW c \in Clients, Dial(c) \/ Stall(c) \/ Resume(c) \/ Leave(c)
  PROVE  IInv'
<1>0. UNCHANGED <<clients, lock, running, listening, acceptorVars, mainVars>>
  BY DEF Dial, Stall, Resume, Leave, PeerMoves
<1>1. /\ Listed' = Listed /\ ToDo' = ToDo
      /\ Distinct(clients)' = Distinct(clients) /\ Distinct(todo)' = Distinct(todo)
  BY <1>0 DEF Listed, ToDo, Distinct, mainVars
<1>2. /\ peer' \in [Clients -> {"away", "dialing", "reading", "stalled", "gone"}]
      /\ \A d \in Clients : d # c => peer'[d] = peer[d]
      /\ \/ peer[c] = "away" /\ peer'[c] = "dialing"
         \/ peer[c] \in {"reading", "stalled"} /\ peer'[c] \in {"reading", "stalled"}
         \/ peer[c] \in {"dialing", "reading", "stalled"} /\ peer'[c] = "gone"
  BY DEF IInv, TypeOK, Dial, Stall, Resume, Leave, PeerMoves
<1>3. TypeOK' /\ LockInv' /\ HandInv' /\ ClosedInv' /\ JoinedInv'
  BY <1>0, <1>2 DEF IInv, TypeOK, LockInv, HandInv, ClosedInv, JoinedInv, mainVars, acceptorVars
<1>4. BroadcastInv'
  BY <1>0, <1>1, <1>2 DEF IInv, TypeOK, BroadcastInv, mainVars, acceptorVars
<1>5. FreshInv' /\ KeptInv' /\ ListedMissNothing'
  BY <1>0, <1>1, <1>2 DEF IInv, FreshInv, KeptInv, ListedMissNothing, mainVars, acceptorVars
<1>. QED BY <1>3, <1>4, <1>5 DEF IInv

(* The acceptor, as long as it does not touch the list. *)
LEMMA AcceptorIInv ==
  ASSUME IInv,
         \/ CheckRunning \/ AcceptNothing \/ Handshake \/ HandshakeFails
         \/ \E c \in Clients : Accept(c)
  PROVE  IInv'
<1>0. UNCHANGED <<clients, lock, running, listening, joined, mainVars>>
  BY DEF CheckRunning, AcceptNothing, Handshake, HandshakeFails, Accept
<1>1. /\ Listed' = Listed /\ ToDo' = ToDo
      /\ Distinct(clients)' = Distinct(clients) /\ Distinct(todo)' = Distinct(todo)
  BY <1>0 DEF Listed, ToDo, Distinct, mainVars
<1>2. LockInv' /\ ClosedInv' /\ JoinedInv'
  BY <1>0 DEF IInv, LockInv, ClosedInv, JoinedInv, mainVars
<1>3. CASE CheckRunning \/ AcceptNothing \/ Handshake
  <2>0. UNCHANGED <<inHand, peer>>
    BY <1>3 DEF CheckRunning, AcceptNothing, Handshake
  <2>1. TypeOK' /\ HandInv'
    BY <1>0, <1>3, <2>0 DEF IInv, TypeOK, HandInv, CheckRunning, AcceptNothing,
       Handshake, mainVars
  <2>2. BroadcastInv' /\ FreshInv' /\ KeptInv' /\ ListedMissNothing'
    BY <1>0, <1>1, <2>0 DEF IInv, BroadcastInv, FreshInv, KeptInv,
       ListedMissNothing, mainVars
  <2>. QED BY <1>2, <2>1, <2>2 DEF IInv
<1>4. CASE HandshakeFails
  <2>0. /\ inHand \in Clients /\ inHand' = Nobody
        /\ peer' = [peer EXCEPT ![inHand] = "gone"]
    BY <1>4 DEF IInv, TypeOK, HandInv, HandshakeFails
  <2>1. TypeOK' /\ HandInv'
    BY <1>0, <1>4, <2>0 DEF IInv, TypeOK, HandInv, HandshakeFails, mainVars
  <2>2. BroadcastInv' /\ FreshInv' /\ KeptInv' /\ ListedMissNothing'
    BY <1>0, <1>1, <2>0 DEF IInv, TypeOK, BroadcastInv, FreshInv, KeptInv,
       ListedMissNothing, mainVars
  <2>. QED BY <1>2, <2>1, <2>2 DEF IInv
<1>5. ASSUME NEW c \in Clients, Accept(c) PROVE IInv'
  <2>0. /\ inHand = Nobody /\ inHand' = c /\ peer[c] = "dialing"
        /\ \E q \in {"reading", "stalled"} : peer' = [peer EXCEPT ![c] = q]
    BY <1>5 DEF IInv, HandInv, Accept
  <2>1. TypeOK' /\ HandInv'
    BY <1>0, <1>5, <2>0 DEF IInv, TypeOK, HandInv, Accept, mainVars
  <2>2. BroadcastInv' /\ FreshInv' /\ KeptInv' /\ ListedMissNothing'
    BY <1>0, <1>1, <2>0 DEF IInv, TypeOK, BroadcastInv, FreshInv, KeptInv,
       ListedMissNothing, mainVars
  <2>. QED BY <1>2, <2>1, <2>2 DEF IInv
<1>. QED BY <1>3, <1>4, <1>5

(* The acceptor lists the connection in its hand, under the lock. *)
LEMMA ListClientIInv ==
  ASSUME IInv, ListClient
  PROVE  IInv'
<1>0. /\ inHand \in Clients /\ inHand' = Nobody /\ main # "sending"
      /\ acceptor' = "check"
      /\ peer[inHand] \notin {"away", "dialing"}
      /\ inHand \notin Listed /\ got[inHand] = {}
      /\ clients' = Append(clients, inHand)
      /\ joined' = [joined EXCEPT ![inHand] = broadcasts]
      /\ UNCHANGED <<lock, running, listening, mainVars, peer>>
  BY DEF IInv, TypeOK, HandInv, LockInv, FreshInv, ListClient
<1>1. /\ clients' \in Seq(Clients) /\ Distinct(clients)'
      /\ Listed' = Listed \cup {inHand}
      /\ ToDo' = ToDo /\ Distinct(todo)' = Distinct(todo)
  <2>1. Distinct(clients) /\ clients \in Seq(Clients) /\ inHand \notin Members(clients)
    BY <1>0 DEF IInv, TypeOK, BroadcastInv, Members, Listed
  <2>. QED BY <1>0, <2>1, AppendMembers DEF Members, Listed, ToDo, Distinct, mainVars
<1>2. TypeOK' /\ HandInv' /\ LockInv' /\ ClosedInv' /\ JoinedInv'
  <2>1. TypeOK'
    BY <1>0, <1>1 DEF IInv, TypeOK, mainVars
  <2>2. HandInv' /\ LockInv' /\ ClosedInv'
    BY <1>0 DEF IInv, HandInv, LockInv, ClosedInv, mainVars
  <2>3. JoinedInv'
    <3>1. \A c \in Clients : joined'[c] = IF c = inHand THEN broadcasts ELSE joined[c]
      BY <1>0, HistoryType DEF IInv
    <3>. QED BY <1>0, <3>1, HistoryType DEF IInv, JoinedInv, mainVars
  <2>. QED BY <2>1, <2>2, <2>3
<1>3. BroadcastInv' /\ FreshInv' /\ KeptInv'
  BY <1>0, <1>1 DEF IInv, TypeOK, BroadcastInv, FreshInv, KeptInv, mainVars
<1>4. ListedMissNothing'
  <2>0. /\ joined \in [Clients -> 0 .. MaxBroadcasts] /\ broadcasts \in Nat
        /\ Listed \subseteq Clients
    BY ListedType, HistoryType DEF IInv
  <2>1. joined'[inHand] = broadcasts /\ \A c \in Listed : joined'[c] = joined[c]
    BY <1>0, <2>0
  <2>2. got[inHand] = broadcasts + 1 .. broadcasts
    BY <1>0, <2>0
  <2>3. /\ main # "sending" /\ main' = main /\ got' = got
        /\ broadcasts' = broadcasts
    BY <1>0 DEF mainVars
  <2>4. \A c \in Listed : got[c] = joined[c] + 1 .. broadcasts - 0
    BY <2>3 DEF IInv, ListedMissNothing
  <2>5. \A c \in Listed' : got'[c] = joined'[c] + 1 .. broadcasts' - 0
    BY <1>1, <2>0, <2>1, <2>2, <2>3, <2>4
  <2>. QED BY <2>3, <2>5 DEF ListedMissNothing
<1>. QED BY <1>2, <1>3, <1>4 DEF IInv

(* A broadcast begins: every listed client is one behind. *)
LEMMA StartBroadcastIInv ==
  ASSUME IInv, StartBroadcast
  PROVE  IInv'
<1>0. /\ main = "idle" /\ main' = "sending" /\ lock' = "main"
      /\ broadcasts' = broadcasts + 1 /\ broadcasts < MaxBroadcasts
      /\ todo' = clients /\ dead' = {}
      /\ UNCHANGED <<clients, running, listening, acceptorVars, result, got, peer>>
  BY DEF StartBroadcast
<1>1. /\ Listed' = Listed /\ ToDo' = Listed
      /\ Distinct(clients)' /\ Distinct(todo)'
  BY <1>0 DEF IInv, BroadcastInv, Listed, ToDo, Distinct
<1>2. /\ broadcasts \in Nat /\ joined \in [Clients -> 0 .. MaxBroadcasts]
      /\ \A c \in Listed : joined[c] \in Nat /\ joined[c] <= broadcasts
      /\ broadcasts' \in 0 .. MaxBroadcasts
  BY <1>0, ListedType DEF IInv, TypeOK, JoinedInv
<1>3. TypeOK' /\ HandInv' /\ LockInv' /\ ClosedInv' /\ JoinedInv'
  BY <1>0, <1>2 DEF IInv, TypeOK, HandInv, LockInv, ClosedInv, JoinedInv, acceptorVars
<1>4. BroadcastInv' /\ FreshInv' /\ KeptInv'
  BY <1>0, <1>1, <1>2 DEF IInv, BroadcastInv, FreshInv, KeptInv, acceptorVars
<1>5. ListedMissNothing'
  <2>1. \A c \in Listed : got[c] = joined[c] + 1 .. broadcasts - 0
    BY <1>0 DEF IInv, ListedMissNothing
  <2>2. broadcasts - 0 = broadcasts' - 1
    BY <1>0, <1>2
  <2>. QED BY <1>0, <1>1, <2>1, <2>2 DEF ListedMissNothing, acceptorVars
<1>. QED BY <1>3, <1>4, <1>5 DEF IInv

(* sendall: the next client has the broadcast, or is gone and noted. *)
LEMMA SendIInv ==
  ASSUME IInv, Send
  PROVE  IInv'
<1>. DEFINE c == Head(todo)
<1>0. /\ main = "sending" /\ todo # <<>> /\ todo' = Tail(todo)
      /\ \/ got' = [got EXCEPT ![c] = @ \cup {broadcasts}] /\ dead' = dead
         \/ peer[c] = "gone" /\ dead' = dead \cup {c} /\ got' = got
      /\ UNCHANGED <<clients, lock, running, listening, acceptorVars, main,
                     result, broadcasts, peer>>
  BY DEF Send
<1>1. /\ todo' \in Seq(Clients) /\ Distinct(todo)'
      /\ c \in ToDo /\ ToDo' = ToDo \ {c}
      /\ Listed' = Listed /\ Distinct(clients)' = Distinct(clients)
  <2>1. Distinct(todo) /\ todo \in Seq(Clients) /\ todo # <<>>
    BY <1>0 DEF IInv, TypeOK, BroadcastInv
  <2>. QED BY <1>0, <2>1, TailMembers DEF Members, Listed, ToDo, Distinct
<1>2. /\ c \in Clients /\ c \in Listed /\ c \notin dead
      /\ joined[c] \in Nat /\ broadcasts \in 1 .. MaxBroadcasts
      /\ joined[c] < broadcasts
  BY <1>0, <1>1, ListedType DEF IInv, TypeOK, BroadcastInv
<1>. HIDE DEF c
<1>3. TypeOK' /\ HandInv' /\ LockInv' /\ ClosedInv' /\ JoinedInv'
  <2>1. dead' \subseteq Clients /\ got' \in [Clients -> SUBSET (1 .. MaxBroadcasts)]
    <3>1. dead \subseteq Clients
      BY DEF IInv, TypeOK
    <3>. QED BY <1>0, <1>2, <3>1, HistoryType DEF IInv
  <2>2. TypeOK'
    BY <1>0, <1>1, <2>1 DEF IInv, TypeOK, acceptorVars
  <2>3. HandInv' /\ LockInv' /\ ClosedInv' /\ JoinedInv'
    BY <1>0 DEF IInv, HandInv, LockInv, ClosedInv, JoinedInv, acceptorVars
  <2>. QED BY <2>2, <2>3
<1>4. BroadcastInv' /\ FreshInv' /\ KeptInv'
  BY <1>0, <1>1, <1>2 DEF IInv, TypeOK, BroadcastInv, FreshInv, KeptInv, acceptorVars
<1>5. ListedMissNothing'
  <2>1. got[c] = joined[c] + 1 .. broadcasts - 1
    BY <1>0, <1>1, <1>2 DEF IInv, ListedMissNothing
  <2>2. got[c] \cup {broadcasts} = joined[c] + 1 .. broadcasts - 0
    BY <1>2, <2>1
  <2>3. ASSUME NEW d \in Listed, d # c
        PROVE  /\ got'[d] = got[d]
               /\ (d \in ToDo' \cup dead') = (d \in ToDo \cup dead)
    BY <1>0, <1>1, <2>3, ListedType DEF IInv, TypeOK
  <2>4. \/ got'[c] = got[c] \cup {broadcasts} /\ c \notin ToDo' \cup dead'
        \/ got'[c] = got[c] /\ c \in ToDo' \cup dead'
    BY <1>0, <1>1, <1>2 DEF IInv, TypeOK
  <2>. QED BY <1>0, <1>1, <2>1, <2>2, <2>3, <2>4 DEF IInv, ListedMissNothing, acceptorVars
<1>. QED BY <1>3, <1>4, <1>5 DEF IInv

(* A client whose send failed leaves the list; no other does. *)
LEMMA DropIInv ==
  ASSUME IInv, NEW c \in Clients, Drop(c)
  PROVE  IInv'
<1>0. /\ main = "sending" /\ c \in dead /\ dead' = dead \ {c}
      /\ UNCHANGED <<lock, running, listening, acceptorVars, main, todo, result,
                     broadcasts, got, peer>>
  BY DEF Drop
<1>1. /\ clients' \in Seq(Clients) /\ Distinct(clients)'
      /\ Listed' = Listed \ {c}
  <2>1. PICK i \in DOMAIN clients : clients[i] = c /\ clients' = RemoveAt(clients, i)
    BY DEF Drop
  <2>2. Distinct(clients) /\ clients \in Seq(Clients)
    BY DEF IInv, TypeOK, BroadcastInv
  <2>3. /\ clients' \in Seq(Clients) /\ Distinct(clients')
        /\ Members(clients') = Members(clients) \ {c}
    BY <2>1, <2>2, RemoveAtProperties
  <2>. QED BY <2>3 DEF Members, Listed, Distinct
<1>2. ToDo' = ToDo /\ Distinct(todo)' = Distinct(todo) /\ peer[c] = "gone"
  BY <1>0 DEF IInv, BroadcastInv, ToDo, Distinct
<1>3. TypeOK' /\ HandInv' /\ LockInv' /\ ClosedInv' /\ JoinedInv'
  BY <1>0, <1>1 DEF IInv, TypeOK, HandInv, LockInv, ClosedInv, JoinedInv, acceptorVars
<1>4. BroadcastInv' /\ FreshInv' /\ KeptInv'
  BY <1>0, <1>1, <1>2 DEF IInv, BroadcastInv, FreshInv, KeptInv, acceptorVars
<1>5. ListedMissNothing'
  BY <1>0, <1>1, <1>2 DEF IInv, ListedMissNothing, acceptorVars
<1>. QED BY <1>3, <1>4, <1>5 DEF IInv

(* The rest of publish and close. *)
LEMMA CloseClientsIInv ==
  ASSUME IInv, CloseClients
  PROVE  IInv'
<1>0. /\ main = "closing clients" /\ main' = "closing listener"
      /\ clients' = <<>>
      /\ peer' = [c \in Clients |-> IF c \in Listed THEN "gone" ELSE peer[c]]
      /\ UNCHANGED <<lock, running, listening, acceptorVars, todo, dead, result,
                     broadcasts, got>>
  BY DEF CloseClients, Listed
<1>1. /\ clients' \in Seq(Clients) /\ Distinct(clients)' /\ Listed' = {}
  <2>1. <<>> \in Seq(Clients) /\ DOMAIN <<>> = {}
    BY EmptySeq, LenProperties
  <2>. QED BY <1>0, <2>1 DEF Distinct, Listed
<1>2. ToDo' = ToDo /\ Distinct(todo)' = Distinct(todo)
  BY <1>0 DEF ToDo, Distinct
<1>3. TypeOK' /\ HandInv' /\ LockInv' /\ ClosedInv' /\ JoinedInv'
  BY <1>0, <1>1 DEF IInv, TypeOK, HandInv, LockInv, ClosedInv, JoinedInv, acceptorVars
<1>4. BroadcastInv' /\ FreshInv' /\ KeptInv' /\ ListedMissNothing'
  BY <1>0, <1>1, <1>2 DEF IInv, TypeOK, BroadcastInv, FreshInv, KeptInv,
     ListedMissNothing, acceptorVars
<1>. QED BY <1>3, <1>4 DEF IInv

(* Steps of the publishing thread that touch neither list nor broadcast. *)
LEMMA MainIInv ==
  ASSUME IInv, Unlock \/ Count \/ StopRunning \/ CloseListener \/ Join
  PROVE  IInv'
<1>0. UNCHANGED <<clients, acceptorVars, todo, dead, broadcasts, got, peer>>
  BY DEF Unlock, Count, StopRunning, CloseListener, Join
<1>1. /\ Listed' = Listed /\ ToDo' = ToDo
      /\ Distinct(clients)' = Distinct(clients) /\ Distinct(todo)' = Distinct(todo)
  BY <1>0 DEF Listed, ToDo, Distinct
<1>2. /\ main' # "sending"
      /\ main = "sending" => todo = <<>> /\ dead = {}
      /\ lock' = "free"
  BY DEF IInv, LockInv, Unlock, Count, StopRunning, CloseListener, Join
<1>c. ClosedInv'
  <2>1. CASE Unlock \/ Count \/ StopRunning
    BY <2>1 DEF ClosedInv, Unlock, Count, StopRunning
  <2>2. CASE CloseListener
    BY <2>2 DEF ClosedInv, CloseListener
  <2>3. CASE Join
    BY <2>3 DEF IInv, ClosedInv, Join
  <2>. QED BY <2>1, <2>2, <2>3
<1>3. ToDo' = {} /\ dead' = {}
  <2>1. todo = <<>> => ToDo = {}
    BY EmptySeq, LenProperties DEF ToDo
  <2>. QED BY <1>0, <1>1, <1>2, <2>1 DEF IInv, BroadcastInv
<1>4. /\ main' \in {"idle", "sending", "counting", "closing clients",
                     "closing listener", "joining", "closed"}
  BY DEF Unlock, Count, StopRunning, CloseListener, Join
<1>5. running' \in BOOLEAN /\ listening' \in BOOLEAN /\ result' \in BOOLEAN
  BY DEF IInv, TypeOK, Unlock, Count, StopRunning, CloseListener, Join
<1>6. TypeOK' /\ HandInv' /\ LockInv' /\ JoinedInv'
  BY <1>0, <1>2, <1>4, <1>5 DEF IInv, TypeOK, HandInv, LockInv, JoinedInv, acceptorVars
<1>7. BroadcastInv' /\ FreshInv' /\ KeptInv'
  BY <1>0, <1>1, <1>2, <1>3 DEF IInv, BroadcastInv, FreshInv, KeptInv, acceptorVars
<1>8. ListedMissNothing'
  BY <1>0, <1>1, <1>2, <1>3 DEF IInv, BroadcastInv, ListedMissNothing, acceptorVars
<1>. QED BY <1>c, <1>6, <1>7, <1>8 DEF IInv

(* Every step of either thread, and of the far ends, keeps the invariant. *)
LEMMA NextIInv == IInv /\ [Next]_vars => IInv'
<1>. SUFFICES ASSUME IInv, [Next]_vars PROVE IInv'
  OBVIOUS
<1>1. CASE Acceptor
  BY <1>1, AcceptorIInv, ListClientIInv DEF Acceptor
<1>2. CASE Publishing
  BY <1>2, StartBroadcastIInv, SendIInv, DropIInv, MainIInv DEF Publishing, Dropping
<1>3. CASE Closing
  BY <1>3, CloseClientsIInv, MainIInv DEF Closing
<1>4. CASE Peers
  BY <1>4, PeersIInv DEF Peers
<1>5. CASE UNCHANGED vars
  <2>1. /\ Listed' = Listed /\ ToDo' = ToDo
        /\ Distinct(clients)' = Distinct(clients) /\ Distinct(todo)' = Distinct(todo)
    BY <1>5 DEF vars, mainVars, Listed, ToDo, Distinct
  <2>2. TypeOK' /\ JoinedInv' /\ LockInv' /\ HandInv' /\ ClosedInv'
    BY <1>5 DEF vars, mainVars, acceptorVars, IInv, TypeOK, JoinedInv, LockInv, HandInv,
       ClosedInv
  <2>3. BroadcastInv' /\ FreshInv' /\ KeptInv' /\ ListedMissNothing'
    BY <1>5, <2>1 DEF vars, mainVars, acceptorVars, IInv, BroadcastInv, FreshInv, KeptInv,
       ListedMissNothing
  <2>. QED BY <2>2, <2>3 DEF IInv
<1>. QED BY <1>1, <1>2, <1>3, <1>4, <1>5 DEF Next

(* The state of the server always has its type. *)
THEOREM TypeCorrect == Spec => []TypeOK
<1>1. IInv => TypeOK
  BY DEF IInv
<1>. QED BY <1>1, InitIInv, NextIInv, PTL DEF Spec

(* However accepting, broadcasting, dropping and closing interleave, and   *)
(* whatever the clients do, a listed client has been sent every broadcast  *)
(* since it was listed, once.                                              *)
THEOREM NothingIsMissed == Spec => []ListedMissNothing
<1>1. IInv => ListedMissNothing
  BY DEF IInv
<1>. QED BY <1>1, InitIInv, NextIInv, PTL DEF Spec

(* No connection that is up is ever lost, or listed twice. *)
THEOREM ConnectionsAreKept == Spec => []EveryConnectionIsKept
<1>1. IInv => EveryConnectionIsKept
  <2>. SUFFICES ASSUME IInv PROVE EveryConnectionIsKept
    OBVIOUS
  <2>1. Len(clients) = Cardinality(Listed)
    <3>1. clients \in Seq(Clients) /\ Distinct(clients)
      BY DEF IInv, TypeOK, BroadcastInv
    <3>2. Listed = Members(clients)
      BY DEF Listed, Members
    <3>. QED BY <3>1, <3>2, DistinctCardinality
  <2>2. inHand \notin Listed
    BY ListedType DEF IInv, TypeOK, FreshInv
  <2>. QED BY <2>1, <2>2 DEF IInv, KeptInv, EveryConnectionIsKept
<1>. QED BY <1>1, InitIInv, NextIInv, PTL DEF Spec

(* A server that is closed takes no connection but the one in its hand. *)
THEOREM ClosedTakesNone == Spec => NothingIsAcceptedAfterClose
<1>1. IInv /\ [Next]_vars => [main = "closed" => inHand' \in {inHand, Nobody}]_vars
  <2>. SUFFICES ASSUME IInv, Next, main = "closed"
                PROVE  inHand' \in {inHand, Nobody}
    BY DEF vars
  <2>1. ~listening
    BY DEF IInv, ClosedInv
  <2>. QED BY <2>1 DEF Next, Acceptor, Publishing, Dropping, Closing, Peers,
          CheckRunning, Accept, AcceptNothing, Handshake, HandshakeFails, ListClient,
          StartBroadcast, Send, Drop, Unlock, Count, StopRunning, CloseClients,
          CloseListener, Join, Dial, Stall, Resume, Leave, PeerMoves, acceptorVars
<1>. QED BY <1>1, InitIInv, NextIInv, PTL DEF Spec, NothingIsAcceptedAfterClose
-----------------------------------------------------------------------------
(* The promise of FanOut, step by step. *)

Doors == IF main # "closed" THEN "open"
         ELSE IF inHand # Nobody THEN "last one" ELSE "closed"

Audience == Listed \ dead

(* Steps that touch neither the audience nor what it hears shut the doors, *)
(* or are nothing to it.                                                   *)
LEMMA DoorsOnly ==
  ASSUME UNCHANGED <<broadcasts, joined, got>>, Audience' = Audience,
         Doors' = Doors \/ Promise!Shut
  PROVE  [Promise!Next]_(Promise!fanOutVars)
<1>1. CASE Doors' = Doors
  BY <1>1 DEF Promise!fanOutVars, Doors, Audience
<1>2. CASE Promise!Shut
  BY <1>2 DEF Promise!Next
<1>. QED BY <1>1, <1>2

(* The list is what its sequence holds. *)
LEMMA SameAudience ==
  ASSUME UNCHANGED <<clients, dead>>
  PROVE  Listed' = Listed /\ Audience' = Audience
BY DEF Listed, Audience

LEMMA AcceptorKeepsPromise ==
  ASSUME IInv,
         \/ CheckRunning \/ AcceptNothing \/ Handshake \/ HandshakeFails
         \/ \E c \in Clients : Accept(c)
  PROVE  [Promise!Next]_(Promise!fanOutVars)
<1>1. UNCHANGED <<broadcasts, joined, got, clients, dead, main>>
  BY DEF CheckRunning, AcceptNothing, Handshake, HandshakeFails, Accept, mainVars
<1>2. Doors' = Doors \/ Promise!Shut
  <2>1. CASE inHand' = inHand
    BY <1>1, <2>1 DEF Doors
  <2>2. CASE main # "closed"
    BY <1>1, <2>2 DEF Doors
  <2>3. CASE main = "closed" /\ HandshakeFails
    <3>1. inHand # Nobody /\ inHand' = Nobody
      BY <2>3 DEF HandshakeFails, IInv, HandInv
    <3>. QED BY <1>1, <2>3, <3>1, SameAudience DEF Promise!Shut, Audience
  <2>4. ASSUME main = "closed", NEW c \in Clients, Accept(c) PROVE FALSE
    BY <2>4 DEF Accept, IInv, ClosedInv
  <2>5. CheckRunning \/ AcceptNothing \/ Handshake => inHand' = inHand
    BY DEF CheckRunning, AcceptNothing, Handshake
  <2>. QED BY <2>1, <2>2, <2>3, <2>4, <2>5
<1>. QED BY <1>1, <1>2, SameAudience, DoorsOnly

(* The acceptor lists the client in its hand: it enters.                   *)
LEMMA ListClientEnters ==
  ASSUME IInv, ListClient
  PROVE  Promise!Enter(inHand) /\ inHand \in Clients
<1>0. /\ inHand \in Clients /\ inHand' = Nobody /\ main # "sending"
      /\ inHand \notin Listed /\ got[inHand] = {} /\ inHand # Nobody
      /\ clients' = Append(clients, inHand)
      /\ joined' = [joined EXCEPT ![inHand] = broadcasts]
      /\ UNCHANGED <<main, dead, broadcasts, got>>
  BY DEF IInv, TypeOK, HandInv, LockInv, FreshInv, ListClient, mainVars
<1>1. Listed' = Listed \cup {inHand} /\ dead = {}
  <2>1. Distinct(clients) /\ clients \in Seq(Clients) /\ inHand \notin Members(clients)
    BY <1>0 DEF IInv, TypeOK, BroadcastInv, Members, Listed
  <2>2. dead = {}
    BY <1>0 DEF IInv, BroadcastInv
  <2>. QED BY <1>0, <2>1, <2>2, AppendMembers DEF Members, Listed
<1>. QED BY <1>0, <1>1 DEF Promise!Enter

(* A broadcast begins when everybody has the one before.                   *)
LEMMA StartBroadcastSays ==
  ASSUME IInv, StartBroadcast
  PROVE  Promise!Say
<1>0. /\ main = "idle" /\ main' = "sending"
      /\ broadcasts' = broadcasts + 1 /\ dead' = {} /\ dead = {}
      /\ UNCHANGED <<clients, inHand, joined, got>>
  BY DEF StartBroadcast, acceptorVars, IInv, BroadcastInv
<1>1. Listed' = Listed
  BY <1>0 DEF Listed
<1>2. broadcasts - 0 = broadcasts
  BY HistoryType DEF IInv
<1>3. \A c \in Listed : got[c] = joined[c] + 1 .. broadcasts
  BY <1>0, <1>2 DEF IInv, ListedMissNothing
<1>. QED BY <1>0, <1>1, <1>3 DEF Promise!Say

(* A send goes out, and is heard, or fails, and the client is lost.        *)
LEMMA SendIsHeard ==
  ASSUME IInv, Send
  PROVE  Promise!Next
<1>. DEFINE c == Head(todo)
<1>0. /\ main = "sending" /\ todo # <<>>
      /\ \/ got' = [got EXCEPT ![c] = @ \cup {broadcasts}] /\ dead' = dead
         \/ dead' = dead \cup {c} /\ got' = got
      /\ UNCHANGED <<clients, main, inHand, joined, broadcasts>>
  BY DEF Send, acceptorVars
<1>1. c \in ToDo
  <2>1. Distinct(todo) /\ todo \in Seq(Clients) /\ todo # <<>>
    BY <1>0 DEF IInv, TypeOK, BroadcastInv
  <2>. QED BY <2>1, TailMembers DEF Members, ToDo
<1>2. /\ c \in Clients /\ c \in Listed /\ c \notin dead
      /\ joined[c] < broadcasts
      /\ got[c] = joined[c] + 1 .. broadcasts - 1
  BY <1>0, <1>1, ListedType DEF IInv, BroadcastInv, ListedMissNothing
<1>. HIDE DEF c
<1>3. Listed' = Listed
  BY <1>0 DEF Listed
<1>4. CASE got' = [got EXCEPT ![c] = @ \cup {broadcasts}] /\ dead' = dead
  <2>1. Promise!Hear(c)
    BY <1>0, <1>2, <1>3, <1>4 DEF Promise!Hear
  <2>. QED BY <1>2, <2>1 DEF Promise!Next
<1>5. CASE dead' = dead \cup {c} /\ got' = got
  <2>1. Promise!Lose
    BY <1>0, <1>3, <1>5 DEF Promise!Lose
  <2>. QED BY <2>1 DEF Promise!Next
<1>. QED BY <1>0, <1>4, <1>5

(* To drop a client that was lost is nothing to the audience.              *)
LEMMA DropChangesNothing ==
  ASSUME IInv, NEW c \in Clients, Drop(c)
  PROVE  UNCHANGED Promise!fanOutVars
<1>0. /\ main = "sending" /\ c \in dead /\ dead' = dead \ {c}
      /\ UNCHANGED <<main, inHand, broadcasts, joined, got>>
  BY DEF Drop, acceptorVars
<1>1. Listed' = Listed \ {c}
  <2>1. PICK i \in DOMAIN clients : clients[i] = c /\ clients' = RemoveAt(clients, i)
    BY DEF Drop
  <2>2. Distinct(clients) /\ clients \in Seq(Clients)
    BY DEF IInv, TypeOK, BroadcastInv
  <2>3. Members(clients') = Members(clients) \ {c}
    BY <2>1, <2>2, RemoveAtProperties
  <2>. QED BY <2>3 DEF Members, Listed
<1>2. (Listed \ {c}) \ (dead \ {c}) = Listed \ dead
  BY <1>0
<1>. QED BY <1>0, <1>1, <1>2 DEF Promise!fanOutVars

LEMMA MainKeepsPromise ==
  ASSUME IInv, Unlock \/ Count \/ Closing
  PROVE  [Promise!Next]_(Promise!fanOutVars)
<1>1. CASE Unlock \/ Count \/ StopRunning \/ CloseListener
  <2>1. /\ UNCHANGED <<broadcasts, joined, got, clients, dead, inHand>>
        /\ main # "closed" /\ main' # "closed"
    BY <1>1 DEF Unlock, Count, StopRunning, CloseListener, acceptorVars
  <2>2. Doors' = Doors
    BY <2>1 DEF Doors
  <2>. QED BY <2>1, <2>2, SameAudience, DoorsOnly
<1>2. CASE Join
  <2>1. /\ UNCHANGED <<broadcasts, joined, got, clients, dead, inHand>>
        /\ main # "closed" /\ main' = "closed"
    BY <1>2 DEF Join, acceptorVars
  <2>2. Listed' = Listed
    BY <2>1 DEF Listed
  <2>3. Promise!Shut
    BY <2>1, <2>2 DEF Promise!Shut
  <2>. QED BY <2>3 DEF Promise!Next
<1>3. CASE CloseClients
  <2>1. /\ UNCHANGED <<broadcasts, joined, got, dead, inHand>>
        /\ main # "closed" /\ main' # "closed" /\ clients' = <<>>
    BY <1>3 DEF CloseClients, acceptorVars
  <2>2. Listed' = {}
    BY <2>1, EmptySeq, LenProperties DEF Listed
  <2>3. Promise!Lose
    BY <2>1, <2>2 DEF Promise!Lose
  <2>. QED BY <2>3 DEF Promise!Next
<1>. QED BY <1>1, <1>2, <1>3 DEF Closing

(* The server, with its two threads, its lock and its lists, is a fan-out: *)
(* whatever the clients do, each one is sent an unbroken run of events     *)
(* that starts where it joined, and nobody comes in behind close.          *)
THEOREM Refinement == Spec => KeepsFanOut
<1>1. Init => Promise!Init
  <2>1. ASSUME Init PROVE Listed = {}
    BY <2>1, EmptySeq, LenProperties DEF Init, Listed
  <2>. QED BY <2>1 DEF Init, Promise!Init
<1>2. ASSUME IInv, [Next]_vars
      PROVE  [Promise!Next]_(Promise!fanOutVars)
  <2>1. CASE Acceptor
    <3>1. CASE ListClient
      BY <1>2, <3>1, ListClientEnters DEF Promise!Next
    <3>. QED BY <1>2, <2>1, <3>1, AcceptorKeepsPromise DEF Acceptor
  <2>2. CASE StartBroadcast \/ Send
    BY <1>2, <2>2, StartBroadcastSays, SendIsHeard DEF Promise!Next
  <2>3. CASE Dropping
    BY <1>2, <2>3, DropChangesNothing DEF Dropping
  <2>4. CASE Unlock \/ Count \/ Closing
    BY <1>2, <2>4, MainKeepsPromise
  <2>5. CASE Peers \/ UNCHANGED vars
    <3>1. UNCHANGED <<broadcasts, joined, got, clients, dead, inHand, main>>
      BY <2>5 DEF Peers, Dial, Stall, Resume, Leave, PeerMoves, vars, mainVars,
         acceptorVars
    <3>. QED BY <3>1, SameAudience, DoorsOnly DEF Doors
  <2>. QED BY <1>2, <2>1, <2>2, <2>3, <2>4, <2>5 DEF Next, Publishing
<1>. QED
  BY <1>1, <1>2, InitIInv, NextIInv, PTL DEF Spec, KeepsFanOut, Promise!Spec
-----------------------------------------------------------------------------
(* The stream transports: the backoff, for every start, cap and timeout.   *)

(* The clocks of the link, by type. *)
Clocks ==
    /\ wait \in 0 .. BackoffMax
    /\ backoff \in BackoffStart .. BackoffMax
    /\ sinceTry \in 0 .. Horizon
    /\ pause \in 0 .. BackoffMax
    /\ upFor \in 0 .. Horizon

(* The wait that was announced has passed or is left, and what is left of  *)
(* it is no more than the cap less the time the server has been up.        *)
WaitIsAccounted ==
    /\ pause <= sinceTry + wait
    /\ wait > 0 => upFor + wait <= BackoffMax

(* The external and the Boolean part of the state, by type. *)
Ends ==
    /\ connected \in BOOLEAN
    /\ server \in {"up", "down", "resetting"}
    /\ alive \in BOOLEAN

LinkInv == Ends /\ Clocks /\ WaitIsAccounted

(* Time that passes leaves clocks in range, counted up or down.            *)
LEMMA Passing ==
  ASSUME Clocks, NEW d \in Nat
  PROVE  /\ Sooner(wait, d) \in 0 .. BackoffMax
         /\ Later(sinceTry, d) \in 0 .. Horizon
         /\ Later(upFor, d) \in 0 .. Horizon
         /\ Later(sinceTry, d) = sinceTry + d \/ Later(sinceTry, d) > BackoffMax
         /\ Later(upFor, d) <= upFor + d
BY StreamLinkAssumption
   DEF StreamLinkAssumption, Clocks, Sooner, Later, Least, Horizon

(* The history of the server's time up, after a step that takes d. *)
LEMMA UpForPasses ==
  ASSUME Clocks, NEW d \in Nat, Elapse(d)
  PROVE  upFor' \in 0 .. Horizon /\ upFor' <= upFor + d
<1>1. CASE server = "up"
  BY <1>1, Passing DEF Elapse
<1>2. CASE server # "up"
  <2>1. upFor' = 0 /\ upFor \in Nat /\ Horizon \in Nat
    BY <1>2, StreamLinkAssumption
       DEF Elapse, Clocks, Horizon, StreamLinkAssumption
  <2>. QED BY <2>1
<1>. QED BY <1>1, <1>2

(* What passes on one clock is spent on the other. *)
LEMMA WhatPassesIsSpent ==
  ASSUME NEW u \in Nat, NEW v \in Nat, NEW w \in Nat, NEW d \in Nat,
         NEW m \in Nat, u + w <= m, v <= u + d, w > d
  PROVE  v + (w - d) <= m
OBVIOUS

(* A step that only lets d go by keeps the clocks and what they account    *)
(* for.                                                                    *)
LEMMA TimeGoesBy ==
  ASSUME Clocks, WaitIsAccounted, NEW d \in Nat,
         wait' = Sooner(wait, d), sinceTry' = Later(sinceTry, d), Elapse(d),
         UNCHANGED <<backoff, pause>>
  PROVE  Clocks' /\ WaitIsAccounted'
<1>1. upFor' \in 0 .. Horizon /\ upFor' <= upFor + d
  BY UpForPasses
<1>2. /\ wait' \in 0 .. BackoffMax
      /\ sinceTry' \in 0 .. Horizon
      /\ sinceTry' = sinceTry + d \/ sinceTry' > BackoffMax
  BY Passing
<1>3. Clocks'
  BY <1>1, <1>2 DEF Clocks
<1>4. BackoffMax \in Nat /\ Horizon \in Nat
  BY StreamLinkAssumption DEF StreamLinkAssumption, Horizon
<1>5. wait' = IF wait > d THEN wait - d ELSE 0
  BY DEF Sooner
<1>6. pause' <= sinceTry' + wait'
  BY <1>2, <1>4, <1>5 DEF Clocks, WaitIsAccounted
<1>7. ASSUME wait' > 0 PROVE upFor' + wait' <= BackoffMax
  <2>1. wait \in Nat /\ upFor \in Nat /\ upFor' \in Nat
    BY <1>1, <1>4 DEF Clocks
  <2>2. wait > d /\ wait' = wait - d
    BY <1>5, <1>7
  <2>3. upFor + wait <= BackoffMax
    BY <2>1, <2>2 DEF WaitIsAccounted
  <2>4. upFor' <= upFor + d
    BY <1>1
  <2>. QED BY <1>4, <2>1, <2>2, <2>3, <2>4, WhatPassesIsSpent
<1>. QED BY <1>3, <1>6, <1>7 DEF WaitIsAccounted

(* A failed attempt announces a wait within the cap, from a clock at zero. *)
LEMMA FailedAttempt ==
  ASSUME Clocks, NEW d \in Nat, ConnectFails(d)
  PROVE  Clocks' /\ WaitIsAccounted'
<1>1. /\ wait' = backoff /\ backoff' = Doubled /\ sinceTry' = 0
      /\ pause' = backoff /\ server # "up"
      /\ upFor' = IF server = "up" THEN Later(upFor, d) ELSE 0
  BY Zenon DEF ConnectFails, Elapse
<1>2. upFor' = 0
  BY <1>1
<1>3. /\ BackoffStart \in Nat \ {0} /\ BackoffMax \in Nat
      /\ BackoffStart <= BackoffMax /\ Horizon \in Nat
  BY StreamLinkAssumption DEF StreamLinkAssumption, Horizon
<1>4. Doubled \in BackoffStart .. BackoffMax
  BY <1>3 DEF Doubled, Least, Clocks
<1>5. /\ wait' \in 0 .. BackoffMax /\ backoff' \in BackoffStart .. BackoffMax
      /\ sinceTry' \in 0 .. Horizon /\ pause' \in 0 .. BackoffMax
      /\ upFor' \in 0 .. Horizon
  BY <1>1, <1>2, <1>3, <1>4 DEF Clocks
<1>6. pause' <= sinceTry' + wait' /\ upFor' + wait' <= BackoffMax
  BY <1>1, <1>2, <1>3 DEF Clocks
<1>. QED BY <1>5, <1>6 DEF Clocks, WaitIsAccounted

(* A step with a connection, old or new. *)
LEMMA Sending ==
  ASSUME Clocks, WaitIsAccounted, NEW n, NEW sent, NEW d \in Nat,
         SendEvents(n, sent, d)
  PROVE  Clocks' /\ WaitIsAccounted'
<1>1. CASE connected
  <2>1. /\ wait' = Sooner(wait, d) /\ sinceTry' = Later(sinceTry, d)
        /\ Elapse(d) /\ backoff' = backoff /\ pause' = pause
    BY <1>1 DEF SendEvents
  <2>. QED BY <2>1, TimeGoesBy
<1>2. CASE ~connected
  <2>1. wait = 0
    BY <1>2 DEF SendEvents, HasConnection, MayConnect
  <2>2. /\ wait' = Sooner(0, d) /\ sinceTry' = 0 /\ Elapse(d)
        /\ backoff' = BackoffStart /\ pause' = 0
    BY <1>2, <2>1 DEF SendEvents
  <2>3. wait' = 0
    BY <2>2 DEF Sooner
  <2>4. upFor' \in 0 .. Horizon
    BY <2>2, UpForPasses
  <2>5. /\ BackoffStart \in BackoffStart .. BackoffMax
        /\ BackoffMax \in Nat /\ Horizon \in Nat
    BY StreamLinkAssumption DEF StreamLinkAssumption, Horizon
  <2>. QED BY <2>2, <2>3, <2>4, <2>5 DEF Clocks, WaitIsAccounted
<1>. QED BY <1>1, <1>2

(* What the server does, and what is connected, keeps its type.            *)
LEMMA EndsStep == Ends /\ [LinkNext]_linkVars => Ends'
<1>. SUFFICES ASSUME Ends, [LinkNext]_linkVars PROVE Ends'
  OBVIOUS
<1>1. CASE ServerChanges
  BY <1>1 DEF ServerChanges, Ends
<1>2. ASSUME NEW n, NEW sent, NEW d, SendEvents(n, sent, d) PROVE Ends'
  <2>1. /\ connected' = (sent = n)
        /\ alive' = (Holds /\ sent = n)
        /\ server' = server
    BY <1>2 DEF SendEvents, KeepsConnection
  <2>. QED BY <2>1 DEF Ends
<1>3. CASE UNCHANGED <<connected, server, alive>>
  BY <1>3 DEF Ends
<1>. QED
  BY <1>1, <1>2, <1>3
  DEF LinkNext, Tick, Publish, SendFails, Decline, ConnectFails, linkVars

(* Every step keeps the clocks and what they account for.                  *)
LEMMA ClocksStep ==
  Clocks /\ WaitIsAccounted /\ [LinkNext]_linkVars => Clocks' /\ WaitIsAccounted'
<1>. SUFFICES ASSUME Clocks, WaitIsAccounted, [LinkNext]_linkVars
              PROVE  Clocks' /\ WaitIsAccounted'
  OBVIOUS
<1>t. 0 .. Timeout \subseteq Nat
  OBVIOUS
<1>1. CASE Tick
  BY <1>1, TimeGoesBy DEF Tick
<1>2. CASE ServerChanges
  <2>1. upFor' = 0 /\ UNCHANGED <<wait, backoff, sinceTry, pause>>
    BY <1>2 DEF ServerChanges
  <2>2. Horizon \in Nat /\ BackoffMax \in Nat
    BY StreamLinkAssumption DEF StreamLinkAssumption, Horizon
  <2>. QED BY <2>1, <2>2 DEF Clocks, WaitIsAccounted
<1>3. CASE SendFails
  BY <1>3, <1>t, Sending DEF SendFails
<1>4. ASSUME NEW d \in 0 .. Timeout, ConnectFails(d)
      PROVE  Clocks' /\ WaitIsAccounted'
  BY <1>4, <1>t, FailedAttempt
<1>5. ASSUME NEW n, NEW d \in 0 .. Timeout, SendEvents(n, n, d)
      PROVE  Clocks' /\ WaitIsAccounted'
  BY <1>5, <1>t, Sending
<1>6. CASE UNCHANGED linkVars
  BY <1>6 DEF linkVars, Clocks, WaitIsAccounted
<1>. QED
  BY <1>1, <1>2, <1>3, <1>4, <1>5, <1>6 DEF LinkNext, Publish, Decline

(* The link starts with no wait and nothing announced. *)
LEMMA InitLinkInv == LinkInit => LinkInv
<1>. SUFFICES ASSUME LinkInit PROVE LinkInv
  OBVIOUS
<1>1. /\ BackoffStart \in BackoffStart .. BackoffMax
      /\ BackoffMax \in Nat /\ Horizon \in Nat
  BY StreamLinkAssumption DEF StreamLinkAssumption, Horizon
<1>2. Clocks /\ WaitIsAccounted
  BY <1>1 DEF LinkInit, Clocks, WaitIsAccounted
<1>3. Ends
  BY DEF LinkInit, Ends
<1>. QED BY <1>2, <1>3 DEF LinkInv

LEMMA AlwaysLinkInv == LinkSpec => []LinkInv
<1>1. LinkInv /\ [LinkNext]_linkVars => LinkInv'
  BY EndsStep, ClocksStep DEF LinkInv
<1>. QED BY <1>1, InitLinkInv, PTL DEF LinkSpec

(* The state of the link keeps its type: the backoff never passes its cap. *)
THEOREM LinkTypeCorrect == LinkSpec => []LinkTypeOK
<1>1. LinkInv => LinkTypeOK
  BY DEF LinkInv, Ends, Clocks, LinkTypeOK
<1>. QED BY <1>1, AlwaysLinkInv, PTL

(* No attempt to connect is made before the wait that the last failure     *)
(* announced is over (_connect's test of _next_attempt).                   *)
THEOREM BackoffIsKept == LinkSpec => []NoEarlyRetry
<1>1. LinkInv => NoEarlyRetry
  BY DEF LinkInv, Clocks, WaitIsAccounted, NoEarlyRetry, MayConnect
<1>. QED BY <1>1, AlwaysLinkInv, PTL

(* Once the server has been up for the longest backoff, nothing keeps the  *)
(* link from connecting.                                                   *)
THEOREM OutageIsBounded == LinkSpec => []OutageEndsInTime
<1>1. LinkInv => OutageEndsInTime
  BY StreamLinkAssumption
  DEF StreamLinkAssumption, LinkInv, Clocks, WaitIsAccounted, OutageEndsInTime,
      MayConnect
<1>. QED BY <1>1, AlwaysLinkInv, PTL
=============================================================================
