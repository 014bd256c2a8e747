---------------------------- MODULE StreamLink -----------------------------
(* StreamTransport in esm446/io/cot_transport.py, the base of the TCP and  *)
(* TLS clients: connect on demand, on a backoff that doubles; drop the     *)
(* connection when a send fails; queue nothing.  One thread calls publish. *)
(* time.monotonic() is modelled by what is left until _next_attempt, which *)
(* Tick counts down; the server is external and comes and goes.            *)
EXTENDS Integers

CONSTANTS
    BackoffStart,  \* _BACKOFF_START_S
    BackoffMax,    \* _BACKOFF_MAX_S
    Timeout,       \* DEFAULT_TIMEOUT_S: the longest connect or send
    MaxEvents      \* bound of the model: events in one call of publish

ASSUME StreamLinkAssumption ==
    /\ BackoffStart \in Nat \ {0}
    /\ BackoffMax \in Nat /\ BackoffStart <= BackoffMax
    /\ Timeout \in Nat
    /\ MaxEvents \in Nat \ {0}

VARIABLES
    connected,  \* _socket is not None
    wait,       \* what is left until _next_attempt
    backoff,    \* _backoff_s
    server,     \* external: "up", "down", or "resetting": it accepts a
                \* connection and drops it
    alive,      \* external: the server still holds the connection
    sinceTry,   \* history: time since the last attempt to connect ended
    pause,      \* history: the wait announced then, 0 if it succeeded
    upFor       \* history: how long the server has been up

linkVars == <<connected, wait, backoff, server, alive, sinceTry, pause, upFor>>

Least(a, b) == IF a < b THEN a ELSE b
Sooner(t, d) == IF t > d THEN t - d ELSE 0

(* Histories of time are only followed as far as a property looks. *)
Horizon == BackoffMax + Timeout + 1
Later(t, d) == Least(t + d, Horizon)

LinkInit ==
    /\ connected = FALSE
    /\ wait = 0
    /\ backoff = BackoffStart
    /\ server \in {"up", "down", "resetting"}
    /\ alive = FALSE
    /\ sinceTry = Horizon
    /\ pause = 0
    /\ upFor = 0

-----------------------------------------------------------------------------
(* Time that passes inside a call, or between calls. *)
Elapse(d) ==
    upFor' = IF server = "up" THEN Later(upFor, d) ELSE 0

Tick ==
    /\ wait' = Sooner(wait, 1)
    /\ sinceTry' = Later(sinceTry, 1)
    /\ Elapse(1)
    /\ UNCHANGED <<connected, backoff, server, alive, pause>>

ServerChanges ==
    /\ server' \in {"up", "down", "resetting"} \ {server}
    /\ upFor' = 0
    /\ alive' = FALSE
    /\ UNCHANGED <<connected, wait, backoff, sinceTry, pause>>

-----------------------------------------------------------------------------
(* _connect *)
MayConnectEarly == ~connected /\ wait <= 1  \* slip
MayConnect == ~connected /\ wait = 0

(* publish while the backoff is running: the events are dropped. *)
Decline == ~connected /\ wait > 0 /\ UNCHANGED linkVars

(* The wait after the next failure. *)
DoubledForEver == 2 * backoff  \* slip
Doubled == Least(2 * backoff, BackoffMax)

(* publish that cannot connect; the attempt takes d. *)
ConnectFails(d) ==
    /\ MayConnect /\ server # "up"
    /\ wait' = backoff
    /\ backoff' = Doubled
    /\ sinceTry' = 0
    /\ pause' = backoff
    /\ Elapse(d)
    /\ UNCHANGED <<connected, server, alive>>

(* publish with a connection, an old one or one _connect has made: sent of *)
(* the n events go out, and if the next one fails the connection is        *)
(* closed.  A connection the server has lost may take events for a while.  *)
HasConnection == connected \/ (MayConnect /\ server # "down")

Holds == IF connected THEN alive ELSE server = "up"

KeepsRegardless(n, sent) == TRUE  \* slip
KeepsConnection(n, sent) == sent = n

SendEvents(n, sent, d) ==
    /\ HasConnection
    /\ sent = n \/ ~Holds
    /\ connected' = KeepsConnection(n, sent)
    /\ alive' = (Holds /\ sent = n)
    /\ backoff' = IF connected THEN backoff ELSE BackoffStart
    /\ wait' = Sooner(wait, d)
    /\ sinceTry' = IF connected THEN Later(sinceTry, d) ELSE 0
    /\ pause' = IF connected THEN pause ELSE 0
    /\ Elapse(d)
    /\ UNCHANGED server

SendFails ==
    \E n \in 1 .. MaxEvents, d \in 0 .. Timeout : \E sent \in 0 .. n - 1 :
        SendEvents(n, sent, d)

Publish ==
    \/ SendFails
    \/ Decline
    \/ \E d \in 0 .. Timeout : ConnectFails(d)
    \/ \E n \in 1 .. MaxEvents, d \in 0 .. Timeout : SendEvents(n, n, d)

LinkNext == Tick \/ ServerChanges \/ Publish

LinkSpec == LinkInit /\ [][LinkNext]_linkVars

(* Time goes on and emissions keep coming, often enough for a connection   *)
(* the server has lost to show it.                                         *)
LinkFairSpec ==
    /\ LinkSpec
    /\ WF_linkVars(Tick) /\ WF_linkVars(Publish) /\ WF_linkVars(SendFails)

-----------------------------------------------------------------------------
LinkTypeOK ==
    /\ connected \in BOOLEAN
    /\ wait \in 0 .. BackoffMax
    /\ backoff \in BackoffStart .. BackoffMax
    /\ server \in {"up", "down", "resetting"}
    /\ alive \in BOOLEAN
    /\ sinceTry \in 0 .. Horizon
    /\ pause \in 0 .. BackoffMax
    /\ upFor \in 0 .. Horizon

(* After an attempt that failed, the next one is not made before the wait  *)
(* it announced is over, however long the calls in between took.           *)
NoEarlyRetry == MayConnect => sinceTry >= pause

(* An outage costs at most one full backoff more: once the server has been *)
(* up that long, the next publish connects.                                *)
OutageEndsInTime == upFor >= BackoffMax => connected \/ MayConnect

(* If the server stays up, the feed comes back and stays.                  *)
ComesBack == <>[](server = "up") => <>[](connected /\ alive)
=============================================================================
