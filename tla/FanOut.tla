------------------------------- MODULE FanOut -------------------------------
(* What a server that sends events to whoever is connected promises (the   *)
(* docstring of TlsServerTransport in esm446/io/cot_transport.py), without *)
(* saying how: who joins hears every event from then on, in order, until   *)
(* it is lost; no event goes out before everybody has the one before; and  *)
(* once the doors are shut at most one more comes in.  Threads, the lock,  *)
(* lists and handshakes are no part of it.                                 *)
EXTENDS Integers

CONSTANT Clients

VARIABLES
    said,      \* events sent out so far
    doors,     \* "open", "last one" or "closed"
    audience,  \* the clients that are connected
    since,     \* per client, the events sent out before it joined
    received   \* per client, the events it has been sent

fanOutVars == <<said, doors, audience, since, received>>

Init ==
    /\ said = 0
    /\ doors = "open"
    /\ audience = {}
    /\ since = [c \in Clients |-> 0]
    /\ received = [c \in Clients |-> {}]

(* Nobody comes back into the middle of the events. *)
Enter(c) ==
    /\ doors # "closed"
    /\ c \notin audience /\ received[c] = {}
    /\ audience' = audience \cup {c}
    /\ since' = [since EXCEPT ![c] = said]
    /\ doors' = IF doors = "last one" THEN "closed" ELSE doors
    /\ UNCHANGED <<said, received>>

Say ==
    /\ \A c \in audience : received[c] = since[c] + 1 .. said
    /\ said' = said + 1
    /\ UNCHANGED <<doors, audience, since, received>>

Hear(c) ==
    /\ c \in audience /\ since[c] < said
    /\ received[c] = since[c] + 1 .. said - 1
    /\ received' = [received EXCEPT ![c] = @ \cup {said}]
    /\ UNCHANGED <<said, doors, audience, since>>

(* Some are lost, for whatever reason; the others do not notice. *)
Lose ==
    /\ audience' \subseteq audience
    /\ UNCHANGED <<said, doors, since, received>>

Shut ==
    /\ \/ doors = "open" /\ doors' \in {"last one", "closed"}
       \/ doors = "last one" /\ doors' = "closed"
    /\ UNCHANGED <<said, audience, since, received>>

Next ==
    \/ \E c \in Clients : Enter(c) \/ Hear(c)
    \/ Say \/ Lose \/ Shut

Spec == Init /\ [][Next]_fanOutVars
=============================================================================
