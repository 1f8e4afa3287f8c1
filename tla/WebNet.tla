------------------------------- MODULE WebNet -------------------------------
(***************************************************************************)
(* What the DKG page and the signing page of the web client (packages/ts/  *)
(* web) share towards the TypeScript coordinator (packages/ts/ts-fserver): *)
(* the WebSockets, and how a page logs in on one.                          *)
(*                                                                         *)
(* A participant has one page open.  The page has at most one socket at a  *)
(* time; <<p, k>> is the k-th one p's page opened, so the coordinator can  *)
(* still be reading a socket whose page is on the next one already.        *)
(***************************************************************************)
EXTENDS Naturals, Sequences, FiniteSets, Contributions

CONSTANTS
    Sessions,     \* session identifiers (uuidv4) the coordinator may draw
    NoSession,
    Creator,      \* the participant who announces sessions
    Unreliable,   \* participants whose socket may be lost
    MaxSockets,   \* bound: how many sockets a page opens; the last one stays open
    MaxJoins,     \* bound: MaxJoins[p] is how often p clicks Join
    MayRefresh    \* whether users click Refresh Sessions

ASSUME WebParticipantsAssumption == IsFiniteSet(Participants) /\ Creator \in Participants
ASSUME WebSessionsAssumption == IsFiniteSet(Sessions) /\ NoSession \notin Sessions
ASSUME UnreliableAssumption == Unreliable \subseteq Participants
ASSUME MaxSocketsAssumption == MaxSockets \in Nat \ {0}
ASSUME MaxJoinsAssumption == MaxJoins \in [Participants -> Nat]
ASSUME MayRefreshAssumption == MayRefresh \in BOOLEAN

Conns == Participants \X (1..MaxSockets)

VARIABLES
    socket,      \* socket[p]: the number of p's latest socket
    online,      \* online[p]: whether that socket is open
    toServer,    \* toServer[c]: sent on socket c, not yet read by the coordinator
    toClient,    \* toClient[p]: sent on p's open socket, not yet read by the page
    challenged,  \* sockets with AuthenticatedSocket.challenge
    logged_in    \* sockets in ServerImpl.connections with a publicKey

netVars == <<socket, online, toServer, toClient, challenged, logged_in>>

NetInit ==
    /\ socket = [p \in Participants |-> 0]
    /\ online = [p \in Participants |-> FALSE]
    /\ toServer = [c \in Conns |-> <<>>]
    /\ toClient = [p \in Participants |-> <<>>]
    /\ challenged = {}
    /\ logged_in = {}

SocketsTypeOK ==
    /\ socket \in [Participants -> 0..MaxSockets]
    /\ online \in [Participants -> BOOLEAN]
    /\ \A p \in Participants : online[p] => socket[p] # 0
    /\ challenged \subseteq Conns
    /\ logged_in \subseteq challenged

Conn(p) == <<p, socket[p]>>

\* toClient after msgs[p] is sent to each participant p on its socket number
\* conn[p], 0 for none.  What is sent on a closed socket is lost.
Sent(conn, msgs) ==
    [p \in Participants |->
        IF online[p] /\ conn[p] = socket[p] THEN toClient[p] \o msgs[p] ELSE toClient[p]]

-----------------------------------------------------------------------------
(***************************************************************************)
(* The coordinator.                                                        *)
(***************************************************************************)

\* The coordinator takes the next message, of the given type, off socket c.
Reads(c, type) ==
    /\ toServer[c] # <<>>
    /\ Head(toServer[c]).type = type
    /\ toServer' = [toServer EXCEPT ![c] = Tail(@)]
    /\ UNCHANGED <<socket, online>>

Broadcast(conn, msgs) == toClient' = Sent(conn, msgs)

Reply(c, m) ==
    Broadcast([p \in Participants |-> IF p = c[1] THEN c[2] ELSE 0],
              [p \in Participants |-> <<m>>])

\* notifyAllParticipants: the logged-in sockets but c, of which the open ones
\* are the pages' latest.
AllBut(c) ==
    [p \in Participants |-> IF Conn(p) \in logged_in \ {c} THEN socket[p] ELSE 0]

ToAll(m) == [p \in Participants |-> <<m>>]

HandleRequestChallenge(c) ==
    /\ Reads(c, "RequestChallenge")
    /\ challenged' = challenged \cup {c}
    /\ Reply(c, [type |-> "Challenge"])
    /\ UNCHANGED logged_in

\* The challenge is kept: it is not asked for again after a login.
HandleLogin(c) ==
    /\ Reads(c, "Login")
    /\ IF c \in challenged
       THEN logged_in' = logged_in \cup {c} /\ Reply(c, [type |-> "LoginOk"])
       ELSE UNCHANGED logged_in /\ Reply(c, [type |-> "Error"])
    /\ UNCHANGED challenged

\* Mutant of Forget: the closed socket stays in the table, logged in.
ForgetChallenge(c) ==
    /\ challenged' = challenged \ {c}
    /\ UNCHANGED logged_in

\* Mutant of Forget: whatever sockets the principal has are deleted.
ForgetPrincipal(c) ==
    /\ logged_in' = {d \in logged_in : d[1] # c[1]}
    /\ challenged' = {d \in challenged : d[1] # c[1]}

\* connections.delete(socket.id)
Forget(c) ==
    /\ logged_in' = logged_in \ {c}
    /\ challenged' = challenged \ {c}

-----------------------------------------------------------------------------
(***************************************************************************)
(* The pages.                                                              *)
(***************************************************************************)

\* p's page takes the next message, of the given type, off its socket.
Receives(p, type) ==
    /\ toClient[p] # <<>>
    /\ Head(toClient[p]).type = type
    /\ toClient' = [toClient EXCEPT ![p] = Tail(@)]
    /\ UNCHANGED <<socket, online, challenged, logged_in>>

\* sendMessage on ws.current, which drops the message when it is not open.
Sends(p, m) ==
    toServer' = IF online[p] THEN [toServer EXCEPT ![Conn(p)] = Append(@, m)] ELSE toServer

\* A click or a timer of p's page.
Acts(p) == UNCHANGED <<socket, online, toClient, challenged, logged_in>>

OpenSocket(p) ==
    /\ ~online[p]
    /\ socket[p] < MaxSockets
    /\ socket' = [socket EXCEPT ![p] = @ + 1]
    /\ online' = [online EXCEPT ![p] = TRUE]
    /\ toServer' = [toServer EXCEPT ![<<p, socket[p] + 1>>] = <<[type |-> "RequestChallenge"]>>]
    /\ UNCHANGED <<toClient, challenged, logged_in>>

\* The socket of p is closed, by Disconnect or by a failure: of what the page
\* sent the coordinator still gets a prefix.
CloseSocket(p) ==
    /\ p \in Unreliable
    /\ online[p]
    /\ socket[p] < MaxSockets
    /\ online' = [online EXCEPT ![p] = FALSE]
    /\ \E n \in 0..Len(toServer[Conn(p)]) :
          toServer' = [toServer EXCEPT ![Conn(p)] =
                          Append(SubSeq(@, 1, n), [type |-> "Close"])]
    /\ toClient' = [toClient EXCEPT ![p] = <<>>]
    /\ UNCHANGED <<socket, challenged, logged_in>>

\* case 'Challenge'
AnswersChallenge(p) ==
    /\ Receives(p, "Challenge")
    /\ Sends(p, [type |-> "Login"])
=============================================================================
