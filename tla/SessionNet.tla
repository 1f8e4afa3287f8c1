----------------------------- MODULE SessionNet -----------------------------
(***************************************************************************)
(* What the DKG session and the signing session of the Rust coordinator    *)
(* (packages/rust/fserver) have in common: the participants' processes,    *)
(* their WebSockets, and the coordinator's registry of connections.        *)
(*                                                                         *)
(* A participant is the roster entry of one principal.  Its client is a    *)
(* process; <<p, k>> is the socket of p's k-th start of that process, so a *)
(* restarted client and the dead socket of its predecessor are different   *)
(* connections, as they are for the coordinator.  A socket is a FIFO queue *)
(* in each direction.                                                      *)
(***************************************************************************)
EXTENDS Naturals, Sequences, FiniteSets, Contributions

CONSTANTS
    Creator,        \* the participant that announces it
    Faulty,         \* participants whose process may crash and be started again
    MaxStarts,      \* bound: how often one participant's client is started
    MayExpire       \* whether the 15-minute timer may go off

ASSUME ParticipantsAssumption == IsFiniteSet(Participants) /\ Creator \in Participants
ASSUME FaultyAssumption == Faulty \subseteq Participants
ASSUME MaxStartsAssumption == MaxStarts \in Nat \ {0}
ASSUME MayExpireAssumption == MayExpire \in BOOLEAN

Conns == Participants \X (1..MaxStarts)

VARIABLES
    started,    \* started[p]: how often p's client was started
    phase,      \* phase[p]: how p's latest client process is doing
    toServer,   \* toServer[c]: sent on connection c, not yet read by the coordinator
    toClient,   \* toClient[p]: sent to p's running client, not yet read by it
    conns,      \* Inner.conns: connection number registered for a principal, 0 for none
    logged_in   \* sockets whose principal_json is set

netVars == <<started, phase, toServer, toClient>>

Phase == {"idle", "running", "finished", "aborted", "closed", "crashed"}

NetInit ==
    /\ started = [p \in Participants |-> 0]
    /\ phase = [p \in Participants |-> "idle"]
    /\ toServer = [c \in Conns |-> <<>>]
    /\ toClient = [p \in Participants |-> <<>>]

RegistryInit ==
    /\ conns = [p \in Participants |-> 0]
    /\ logged_in = {}

\* Connection number k of p is the one whose client process is running.
Live(p, k) == phase[p] = "running" /\ k = started[p]

\* toClient after msgs[p] is sent to each participant p over connection conn[p]
\* (0 for none).  What is sent on a dead socket is lost.
Sent(conn, msgs) ==
    [p \in Participants |->
        IF Live(p, conn[p]) THEN toClient[p] \o msgs[p] ELSE toClient[p]]

-----------------------------------------------------------------------------
(***************************************************************************)
(* The coordinator.                                                        *)
(***************************************************************************)

\* The coordinator takes the next message, of the given type, off connection c.
Reads(c, type) ==
    /\ toServer[c] # <<>>
    /\ Head(toServer[c]).type = type
    /\ toServer' = [toServer EXCEPT ![c] = Tail(@)]
    /\ UNCHANGED <<started, phase>>

\* The sender's own `tx`, which needs no entry in conns.
Reply(c, m) ==
    toClient' = Sent([p \in Participants |-> IF p = c[1] THEN c[2] ELSE 0],
                     [p \in Participants |-> <<m>>])

Broadcast(msgs) == toClient' = Sent(conns, msgs)

ToAll(msgs) == [p \in Participants |-> msgs]

\* Mutant of AllOf: one participant is not waited for.
AllButOne(S) == Cardinality(S) + 1 >= Cardinality(Participants)

\* s.<map>.len() == s.participants.len()
AllOf(S) == Cardinality(S) = Cardinality(Participants)

\* A re-login replaces the registered connection.  The challenge handshake
\* before it does not touch a session.
Register(c) ==
    /\ Reads(c, "Login")
    /\ conns' = [conns EXCEPT ![c[1]] = c[2]]
    /\ logged_in' = logged_in \cup {c}
    /\ Reply(c, [type |-> "LoginOk"])

\* What is registered for the principal is cleared, whichever connection it is.
Unregister(c) ==
    /\ conns' = [conns EXCEPT ![c[1]] = 0]
    /\ logged_in' = logged_in \ {c}

-----------------------------------------------------------------------------
(***************************************************************************)
(* The clients.                                                            *)
(***************************************************************************)

\* The running client of p takes the next message, of the given type.
Receives(p, type) ==
    /\ phase[p] = "running"
    /\ toClient[p] # <<>>
    /\ Head(toClient[p]).type = type

Conn(p) == <<p, started[p]>>

\* Sent by p and not yet read.
Unread(p) == toServer[Conn(p)]

\* p goes on to its next message after sending msgs.
Sends(p, msgs) ==
    /\ toClient' = [toClient EXCEPT ![p] = Tail(@)]
    /\ toServer' = [toServer EXCEPT ![Conn(p)] = @ \o msgs]
    /\ UNCHANGED <<started, phase>>

\* p's process ends; its socket closes after delivering msgs.
Ends(p, how, msgs) ==
    /\ phase' = [phase EXCEPT ![p] = how]
    /\ toClient' = [toClient EXCEPT ![p] = <<>>]
    /\ toServer' = [toServer EXCEPT ![Conn(p)] = Append(msgs, [type |-> "Close"])]
    /\ UNCHANGED started

\* p's client is started, or started again after it died.  RequestChallenge,
\* Challenge and Login run before anything else on a new socket and are one
\* Login message here.
Starts(p) ==
    /\ phase[p] # "running"
    /\ started[p] = 0 \/ (p \in Faulty /\ phase[p] # "finished")
    /\ started[p] < MaxStarts
    /\ started' = [started EXCEPT ![p] = @ + 1]
    /\ phase' = [phase EXCEPT ![p] = "running"]
    /\ toServer' = [toServer EXCEPT ![<<p, started[p] + 1>>] = <<[type |-> "Login"]>>]
    /\ UNCHANGED toClient
=============================================================================
