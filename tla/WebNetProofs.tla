---------------------------- MODULE WebNetProofs ----------------------------
(***************************************************************************)
(* Lemmas about the sockets of WebNet, for both ceremonies over the web.   *)
(* What is known of a queue is put as a set its messages come from; C and  *)
(* M are the sets of the clients' and the coordinator's messages.          *)
(***************************************************************************)
EXTENDS WebNet, QueueProofs, TLAPS, FiniteSetTheorems, SequenceTheorems

Queues(C, M) ==
    /\ toServer \in [Conns -> Seq(C)]
    /\ toClient \in [Participants -> Seq(M)]

\* Nothing is under way on a socket that was not opened yet.
Unopened == \A c \in Conns : c[2] > socket[c[1]] => toServer[c] = <<>>

\* All of the roster is there when as many are there as it has.
LEMMA EverybodyThere ==
    ASSUME NEW S \in SUBSET Participants, Cardinality(S) = Cardinality(Participants)
    PROVE  S = Participants
BY WebParticipantsAssumption, FS_Subset

-----------------------------------------------------------------------------
(***************************************************************************)
(* The coordinator.                                                        *)
(***************************************************************************)

\* The coordinator takes a message: what is left in the queues was there before.
LEMMA WebReadsFacts ==
    ASSUME NEW C, NEW M, Queues(C, M), NEW c \in Conns, NEW type, Reads(c, type)
    PROVE  /\ Head(toServer[c]) \in C
           /\ Head(toServer[c]).type = type
           /\ toServer' \in [Conns -> Seq(C)]
           /\ \A S : toServer[c] \in Seq(S) => Head(toServer[c]) \in S
           /\ \A d \in Conns : \A S : toServer[d] \in Seq(S) => toServer'[d] \in Seq(S)
           /\ \A d \in Conns : toServer[d] = <<>> => toServer'[d] = <<>>
<1>1. toServer[c] \in Seq(C) /\ toServer[c] # <<>>
    BY DEF Queues, Reads
<1>2. \A S : toServer[c] \in Seq(S) => Head(toServer[c]) \in S /\ Tail(toServer[c]) \in Seq(S)
    BY <1>1, HeadTailProperties
<1>3. toServer' = [toServer EXCEPT ![c] = Tail(toServer[c])]
    BY DEF Reads
<1>. QED BY <1>1, <1>2, <1>3 DEF Reads, Queues

LEMMA ReadsOpened ==
    ASSUME NEW C, NEW M, Queues(C, M), Unopened, SocketsTypeOK,
           NEW c \in Conns, NEW type, Reads(c, type)
    PROVE  /\ Unopened'
           /\ c[2] <= socket[c[1]]
<1>1. c[1] \in Participants /\ c[2] \in 1..MaxSockets /\ socket[c[1]] \in 0..MaxSockets
    BY DEF Conns, SocketsTypeOK
<1>2. c[2] <= socket[c[1]]
    BY <1>1, MaxSocketsAssumption DEF Unopened, Reads
<1>3. Unopened'
    BY WebReadsFacts DEF Unopened, Reads
<1>. QED BY <1>2, <1>3

\* The coordinator sends: the open sockets it sends on get its messages.
LEMMA WebSentFacts ==
    ASSUME NEW C, NEW M, Queues(C, M), NEW conn, NEW msgs,
           \A p \in Participants : msgs[p] \in Seq(M),
           toClient' = Sent(conn, msgs)
    PROVE  /\ toClient' \in [Participants -> Seq(M)]
           /\ \A p \in Participants : \A S :
                /\ toClient[p] \in Seq(S)
                /\ online[p] /\ conn[p] = socket[p] => msgs[p] \in Seq(S)
                => toClient'[p] \in Seq(S)
<1>1. \A p \in Participants :
        toClient'[p] = IF online[p] /\ conn[p] = socket[p]
                       THEN toClient[p] \o msgs[p] ELSE toClient[p]
    BY DEF Sent
<1>2. \A p \in Participants : \A S :
        /\ toClient[p] \in Seq(S)
        /\ online[p] /\ conn[p] = socket[p] => msgs[p] \in Seq(S)
        => toClient'[p] \in Seq(S)
    BY <1>1, ConcatProperties
<1>3. \A p \in Participants : toClient'[p] \in Seq(M)
    BY <1>2 DEF Queues
<1>. QED BY <1>2, <1>3 DEF Sent

\* A reply is a message for the page whose socket it is.
LEMMA WebReplyFacts ==
    ASSUME NEW C, NEW M, Queues(C, M), SocketsTypeOK,
           NEW c \in Conns, NEW m \in M, Reply(c, m)
    PROVE  /\ toClient' \in [Participants -> Seq(M)]
           /\ \A p \in Participants : \A S :
                toClient[p] \in Seq(S) /\ (p = c[1] => m \in S) => toClient'[p] \in Seq(S)
<1>. DEFINE conn == [p \in Participants |-> IF p = c[1] THEN c[2] ELSE 0]
            msgs == [p \in Participants |-> <<m>>]
<1>1. toClient' = Sent(conn, msgs)
    BY DEF Reply, Broadcast
<1>2. \A p \in Participants : msgs[p] \in Seq(M)
    OBVIOUS
<1>3. toClient' \in [Participants -> Seq(M)]
    <2>. HIDE DEF conn, msgs
    <2>. QED BY <1>1, <1>2, WebSentFacts
<1>4. ASSUME NEW p \in Participants, NEW S, toClient[p] \in Seq(S), p = c[1] => m \in S
      PROVE  toClient'[p] \in Seq(S)
    <2>1. CASE p = c[1]
        <3>1. toClient'[p] = toClient[p] \o <<m>> \/ toClient'[p] = toClient[p]
            BY <1>1 DEF Sent
        <3>2. <<m>> \in Seq(S)
            BY <1>4, <2>1, FewMessages
        <3>. QED BY <1>4, <3>1, <3>2, ConcatProperties
    <2>2. CASE p # c[1]
        BY <1>1, <1>4, <2>2 DEF Sent, SocketsTypeOK
    <2>. QED BY <2>1, <2>2
<1>. QED BY <1>3, <1>4
-----------------------------------------------------------------------------
(***************************************************************************)
(* The pages.                                                              *)
(***************************************************************************)

\* A page takes a message.
LEMMA WebReceivesFacts ==
    ASSUME NEW C, NEW M, Queues(C, M), NEW p \in Participants, NEW type, Receives(p, type)
    PROVE  /\ Head(toClient[p]) \in M
           /\ Head(toClient[p]).type = type
           /\ toClient' \in [Participants -> Seq(M)]
           /\ \A S : toClient[p] \in Seq(S) => Head(toClient[p]) \in S
           /\ \A q \in Participants : \A S : toClient[q] \in Seq(S) => toClient'[q] \in Seq(S)
<1>1. toClient[p] \in Seq(M) /\ toClient[p] # <<>>
    BY DEF Queues, Receives
<1>2. \A S : toClient[p] \in Seq(S) => Head(toClient[p]) \in S /\ Tail(toClient[p]) \in Seq(S)
    BY <1>1, HeadTailProperties
<1>3. toClient' = [toClient EXCEPT ![p] = Tail(toClient[p])]
    BY DEF Receives
<1>. QED BY <1>1, <1>2, <1>3 DEF Receives, Queues

\* A page whose socket is open has one of its own.
LEMMA ConnFacts ==
    ASSUME SocketsTypeOK, NEW p \in Participants
    PROVE  /\ online[p] => Conn(p) \in Conns
           /\ Conn(p)[1] = p /\ Conn(p)[2] = socket[p]
BY MaxSocketsAssumption DEF SocketsTypeOK, Conn, Conns

\* A page sends a message, which is lost unless its socket is open.
LEMMA WebSendsFacts ==
    ASSUME NEW C, NEW M, Queues(C, M), SocketsTypeOK,
           NEW p \in Participants, NEW m \in C, Sends(p, m)
    PROVE  /\ toServer' \in [Conns -> Seq(C)]
           /\ \A d \in Conns : \A S :
                /\ toServer[d] \in Seq(S)
                /\ online[p] /\ d = Conn(p) => m \in S
                => toServer'[d] \in Seq(S)
           /\ \A d \in Conns : d # Conn(p) => toServer'[d] = toServer[d]
<1>1. online[p] => Conn(p) \in Conns
    BY ConnFacts
<1>2. \A d \in Conns :
        toServer'[d] = IF online[p] /\ d = Conn(p) THEN Append(toServer[d], m) ELSE toServer[d]
    BY <1>1 DEF Sends, Queues
<1>3. \A d \in Conns : \A S :
        /\ toServer[d] \in Seq(S)
        /\ online[p] /\ d = Conn(p) => m \in S
        => toServer'[d] \in Seq(S)
    BY <1>2, QueueFacts
<1>4. \A d \in Conns : toServer'[d] \in Seq(C)
    BY <1>3 DEF Queues
<1>. QED BY <1>2, <1>3, <1>4 DEF Sends, Queues

LEMMA SendsOpened ==
    ASSUME NEW C, NEW M, Queues(C, M), SocketsTypeOK, Unopened,
           NEW p \in Participants, NEW m \in C, Sends(p, m), UNCHANGED socket
    PROVE  Unopened'
<1>1. SUFFICES ASSUME NEW d \in Conns, d[2] > socket[d[1]] PROVE toServer'[d] = <<>>
    BY DEF Unopened
<1>2. d # Conn(p)
    BY <1>1 DEF Conn, SocketsTypeOK
<1>. QED BY <1>1, <1>2, WebSendsFacts DEF Unopened

\* A page opens its next socket.
LEMMA OpenFacts ==
    ASSUME NEW C, NEW M, Queues(C, M), SocketsTypeOK, Unopened,
           NEW p \in Participants, OpenSocket(p), [type |-> "RequestChallenge"] \in C
    PROVE  /\ Queues(C, M)'
           /\ SocketsTypeOK'
           /\ Unopened'
           /\ socket'[p] = socket[p] + 1
           /\ \A q \in Participants : q # p =>
                 socket'[q] = socket[q] /\ online'[q] = online[q]
           /\ \A d \in Conns : \A S :
                toServer[d] \in Seq(S) /\ [type |-> "RequestChallenge"] \in S
                => toServer'[d] \in Seq(S)
<1>. DEFINE next == <<p, socket[p] + 1>>
<1>1. socket[p] \in 0..MaxSockets /\ socket[p] < MaxSockets
    BY DEF OpenSocket, SocketsTypeOK
<1>2. next \in Conns
    BY <1>1, MaxSocketsAssumption DEF Conns
<1>3. SocketsTypeOK'
    BY <1>1, MaxSocketsAssumption DEF OpenSocket, SocketsTypeOK
<1>4. \A d \in Conns :
        toServer'[d] = IF d = next THEN <<[type |-> "RequestChallenge"]>> ELSE toServer[d]
    BY <1>2 DEF OpenSocket, Queues
<1>5. \A d \in Conns : \A S :
        toServer[d] \in Seq(S) /\ [type |-> "RequestChallenge"] \in S => toServer'[d] \in Seq(S)
    BY <1>4, FewMessages
<1>6. Queues(C, M)'
    <2>1. \A d \in Conns : toServer'[d] \in Seq(C)
        BY <1>5 DEF Queues
    <2>. QED BY <2>1 DEF OpenSocket, Queues
<1>7. /\ socket'[p] = socket[p] + 1
      /\ \A q \in Participants : q # p => socket'[q] = socket[q] /\ online'[q] = online[q]
    BY DEF OpenSocket, SocketsTypeOK
<1>8. Unopened'
    <2>1. SUFFICES ASSUME NEW d \in Conns, d[2] > socket'[d[1]] PROVE toServer'[d] = <<>>
        BY DEF Unopened
    <2>2. d # next /\ d[2] > socket[d[1]]
        BY <1>1, <1>7, <2>1 DEF Conns, SocketsTypeOK
    <2>. QED BY <1>4, <2>2 DEF Unopened
<1>. QED BY <1>3, <1>5, <1>6, <1>7, <1>8

\* A page's socket is closed.
LEMMA CloseFacts ==
    ASSUME NEW C, NEW M, Queues(C, M), SocketsTypeOK, Unopened,
           NEW p \in Participants, CloseSocket(p), [type |-> "Close"] \in C
    PROVE  /\ Queues(C, M)'
           /\ SocketsTypeOK'
           /\ Unopened'
           /\ ~online'[p] /\ toClient'[p] = <<>>
           /\ \A q \in Participants : q # p =>
                 online'[q] = online[q] /\ toClient'[q] = toClient[q]
           /\ \A d \in Conns : \A S :
                toServer[d] \in Seq(S) /\ [type |-> "Close"] \in S => toServer'[d] \in Seq(S)
<1>1. Conn(p) \in Conns
    BY ConnFacts DEF CloseSocket
<1>2. PICK n \in 0..Len(toServer[Conn(p)]) :
        toServer' = [toServer EXCEPT ![Conn(p)] =
                        Append(SubSeq(toServer[Conn(p)], 1, n), [type |-> "Close"])]
    BY DEF CloseSocket
<1>3. \A d \in Conns :
        toServer'[d] = IF d = Conn(p)
                       THEN Append(SubSeq(toServer[d], 1, n), [type |-> "Close"])
                       ELSE toServer[d]
    BY <1>1, <1>2 DEF Queues
<1>4. ASSUME NEW d \in Conns, NEW S, toServer[d] \in Seq(S), [type |-> "Close"] \in S
      PROVE  toServer'[d] \in Seq(S)
    <2>1. CASE d = Conn(p)
        <3>1. SubSeq(toServer[d], 1, n) \in Seq(S)
            BY <1>4, <2>1, QueueFacts
        <3>2. Append(SubSeq(toServer[d], 1, n), [type |-> "Close"]) \in Seq(S)
            BY <1>4, <3>1, QueueFacts
        <3>. QED BY <1>3, <2>1, <3>2
    <2>2. CASE d # Conn(p)
        BY <1>3, <1>4, <2>2
    <2>. QED BY <2>1, <2>2
<1>5. Queues(C, M)'
    <2>1. \A d \in Conns : toServer'[d] \in Seq(C)
        BY <1>4 DEF Queues
    <2>2. toClient' \in [Participants -> Seq(M)]
        BY EmptySeq DEF CloseSocket, Queues
    <2>. QED BY <1>2, <2>1, <2>2 DEF Queues
<1>6. SocketsTypeOK'
    BY DEF CloseSocket, SocketsTypeOK
<1>7. Unopened'
    <2>1. SUFFICES ASSUME NEW d \in Conns, d[2] > socket[d[1]] PROVE toServer'[d] = <<>>
        BY DEF Unopened, CloseSocket
    <2>2. d # Conn(p)
        BY <2>1 DEF Conn, SocketsTypeOK
    <2>. QED BY <1>3, <2>1, <2>2 DEF Unopened
<1>. QED BY <1>4, <1>5, <1>6, <1>7 DEF CloseSocket, SocketsTypeOK, Queues

LEMMA InitSockets ==
    ASSUME NetInit, NEW C, NEW M
    PROVE  Queues(C, M) /\ SocketsTypeOK /\ Unopened
BY EmptySeq, MaxSocketsAssumption DEF NetInit, Queues, SocketsTypeOK, Unopened
-----------------------------------------------------------------------------
(***************************************************************************)
(* Which messages are under way, by their types T.                         *)
(***************************************************************************)

\* None of what q sent is still unread; at most one message is.
Unsent(q, T) == \A d \in Conns : d[1] = q => Free(toServer[d], T)
Once(q, T) ==
    /\ \A d \in Conns : d[1] = q => Single(toServer[d], T)
    /\ \A d, e \in Conns :
          d[1] = q /\ e[1] = q /\ ~Free(toServer[d], T) /\ ~Free(toServer[e], T) => d = e

\* No such message is sent to the coordinator, to the pages.
NoneSent(T) == \A d \in Conns : NoneNew(toServer[d], toServer'[d], T)
NoneCame(T) == \A p \in Participants : NoneNew(toClient[p], toClient'[p], T)

LEMMA UnsentIsOnce ==
    ASSUME NEW T, NEW q, Unsent(q, T)
    PROVE  Once(q, T)
BY FreeIsSingle DEF Unsent, Once

LEMMA NoneSentKeeps ==
    ASSUME NEW T, NoneSent(T)
    PROVE  /\ \A q \in Participants : Unsent(q, T) => Unsent(q, T)'
           /\ \A q \in Participants : Once(q, T) => Once(q, T)'
BY DEF NoneSent, NoneNew, Unsent, Once

LEMMA SilentStep ==
    ASSUME NEW T
    PROVE  /\ UNCHANGED toServer => NoneSent(T)
           /\ UNCHANGED toClient => NoneCame(T)
BY DEF NoneSent, NoneCame, NoneNew

LEMMA ReadsQueued ==
    ASSUME NEW C, NEW M, Queues(C, M), NEW c \in Conns, NEW type, Reads(c, type), NEW T
    PROVE  /\ NoneSent(T)
           /\ type \in T => ~Unsent(c[1], T)
           /\ type \in T /\ Once(c[1], T) => Unsent(c[1], T)'
<1>1. toServer[c] \in Seq(C) /\ toServer[c] # <<>> /\ Head(toServer[c]).type = type
    BY DEF Queues, Reads
<1>2. \A d \in Conns : toServer'[d] = IF d = c THEN Tail(toServer[c]) ELSE toServer[d]
    BY DEF Queues, Reads
<1>3. NoneSent(T)
    BY <1>1, <1>2, HeadQueued DEF NoneSent, NoneNew
<1>4. type \in T => ~Free(toServer[c], T)
    BY <1>1, HeadQueued
<1>5. type \in T => ~Unsent(c[1], T)
    BY <1>4 DEF Unsent
<1>6. ASSUME type \in T, Once(c[1], T), NEW d \in Conns, d[1] = c[1]
      PROVE  Free(toServer'[d], T)
    <2>1. CASE d = c
        BY <1>1, <1>2, <1>6, <2>1, HeadQueued DEF Once
    <2>2. CASE d # c
        BY <1>2, <1>4, <1>6, <2>2 DEF Once
    <2>. QED BY <2>1, <2>2
<1>. QED BY <1>3, <1>5, <1>6 DEF Unsent

LEMMA SendsQueued ==
    ASSUME NEW C, NEW M, Queues(C, M), SocketsTypeOK,
           NEW p \in Participants, NEW m \in C, Sends(p, m), NEW T
    PROVE  /\ m.type \notin T => NoneSent(T)
           /\ \A q \in Participants : q # p =>
                 (Unsent(q, T) => Unsent(q, T)') /\ (Once(q, T) => Once(q, T)')
           /\ Unsent(p, T) => Once(p, T)'
<1>1. online[p] => Conn(p) \in Conns
    BY ConnFacts
<1>2. \A d \in Conns :
        toServer'[d] = IF online[p] /\ d = Conn(p) THEN Append(toServer[d], m) ELSE toServer[d]
    BY <1>1 DEF Sends, Queues
<1>3. \A d \in Conns :
        /\ m.type \notin T => NoneNew(toServer[d], Append(toServer[d], m), T)
        /\ Free(toServer[d], T) => Single(Append(toServer[d], m), T)
    BY AppendQueued DEF Queues
<1>4. m.type \notin T => NoneSent(T)
    BY <1>2, <1>3 DEF NoneSent, NoneNew
<1>5. \A d \in Conns : d[1] # p => toServer'[d] = toServer[d]
    BY <1>2 DEF Conn
<1>6. \A q \in Participants : q # p =>
        (Unsent(q, T) => Unsent(q, T)') /\ (Once(q, T) => Once(q, T)')
    BY <1>5 DEF Unsent, Once
<1>7. ASSUME Unsent(p, T) PROVE Once(p, T)'
    <2>1. \A d \in Conns : d[1] = p => Single(toServer'[d], T)
        BY <1>2, <1>3, <1>7, FreeIsSingle DEF Unsent
    <2>2. \A d \in Conns : d[1] = p /\ ~Free(toServer'[d], T) => d = Conn(p)
        BY <1>2, <1>7 DEF Unsent
    <2>. QED BY <2>1, <2>2 DEF Once
<1>. QED BY <1>4, <1>6, <1>7

LEMMA OpenQueued ==
    ASSUME NEW C, NEW M, Queues(C, M), NEW p \in Participants, OpenSocket(p),
           NEW T, "RequestChallenge" \notin T
    PROVE  NoneSent(T) /\ NoneCame(T)
<1>1. \A d \in Conns : toServer'[d] \in {toServer[d], <<[type |-> "RequestChallenge"]>>}
    BY DEF OpenSocket, Queues
<1>2. NoneNew(<<>>, <<[type |-> "RequestChallenge"]>>, T)
    BY FewQueued DEF NoneNew
<1>3. Free(<<[type |-> "RequestChallenge"]>>, T) /\ Single(<<[type |-> "RequestChallenge"]>>, T)
    BY FewQueued
<1>4. NoneSent(T)
    BY <1>1, <1>3 DEF NoneSent, NoneNew
<1>. QED BY <1>4, SilentStep DEF OpenSocket

LEMMA CloseQueued ==
    ASSUME NEW C, NEW M, Queues(C, M), SocketsTypeOK, NEW p \in Participants, CloseSocket(p),
           [type |-> "Close"] \in C, NEW T, "Close" \notin T
    PROVE  NoneSent(T) /\ NoneCame(T)
<1>1. Conn(p) \in Conns
    BY ConnFacts DEF CloseSocket
<1>2. PICK n \in 0..Len(toServer[Conn(p)]) :
        toServer' = [toServer EXCEPT ![Conn(p)] =
                        Append(SubSeq(toServer[Conn(p)], 1, n), [type |-> "Close"])]
    BY DEF CloseSocket
<1>. DEFINE prefix == SubSeq(toServer[Conn(p)], 1, n)
<1>3. prefix \in Seq(C) /\ NoneNew(toServer[Conn(p)], prefix, T)
    BY <1>1, QueueFacts, PrefixQueued DEF Queues
<1>4. NoneNew(prefix, Append(prefix, [type |-> "Close"]), T)
    BY <1>3, AppendQueued
<1>5. \A d \in Conns :
        toServer'[d] = IF d = Conn(p) THEN Append(prefix, [type |-> "Close"]) ELSE toServer[d]
    BY <1>1, <1>2 DEF Queues
<1>6. NoneSent(T)
    <2>. HIDE DEF prefix
    <2>. QED BY <1>3, <1>4, <1>5 DEF NoneSent, NoneNew
<1>7. \A q \in Participants : toClient'[q] \in {toClient[q], <<>>}
    BY DEF CloseSocket, Queues
<1>8. NoneCame(T)
    BY <1>7, FewQueued, FreeIsSingle DEF NoneCame, NoneNew
<1>. QED BY <1>6, <1>8

LEMMA SentQueued ==
    ASSUME NEW C, NEW M, Queues(C, M), NEW conn, NEW msgs \in [Participants -> Seq(M)],
           toClient' = Sent(conn, msgs), NEW T
    PROVE  /\ (\A p \in Participants : Free(msgs[p], T)) => NoneCame(T)
           /\ \A p \in Participants :
                 Free(toClient[p], T) /\ Single(msgs[p], T) => Single(toClient'[p], T)
<1>1. \A p \in Participants : toClient'[p] \in {toClient[p], toClient[p] \o msgs[p]}
    BY DEF Sent
<1>2. \A p \in Participants :
        /\ Free(msgs[p], T) => NoneNew(toClient[p], toClient[p] \o msgs[p], T)
        /\ Free(toClient[p], T) /\ Single(msgs[p], T) => Single(toClient[p] \o msgs[p], T)
    BY ConcatQueued DEF Queues
<1>. QED BY <1>1, <1>2, FreeIsSingle DEF NoneCame, NoneNew

LEMMA ReplyQueued ==
    ASSUME NEW C, NEW M, Queues(C, M), NEW c \in Conns, NEW m \in M, Reply(c, m),
           NEW T, m.type \notin T
    PROVE  NoneCame(T)
<1>. DEFINE msgs == [p \in Participants |-> <<m>>]
<1>1. msgs \in [Participants -> Seq(M)] /\ \A p \in Participants : Free(msgs[p], T)
    BY FewMessages, FewQueued
<1>2. \E conn : toClient' = Sent(conn, msgs)
    BY DEF Reply, Broadcast
<1>. HIDE DEF msgs
<1>. QED BY <1>1, <1>2, SentQueued

LEMMA ReceivesQueued ==
    ASSUME NEW C, NEW M, Queues(C, M), NEW p \in Participants, NEW type, Receives(p, type), NEW T
    PROVE  /\ NoneCame(T)
           /\ type \in T => ~Free(toClient[p], T)
           /\ type \in T /\ Single(toClient[p], T) => Free(toClient'[p], T)
<1>1. toClient[p] \in Seq(M) /\ toClient[p] # <<>> /\ Head(toClient[p]).type = type
    BY DEF Queues, Receives
<1>2. \A q \in Participants : toClient'[q] = IF q = p THEN Tail(toClient[p]) ELSE toClient[q]
    BY DEF Queues, Receives
<1>. QED BY <1>1, <1>2, HeadQueued DEF NoneCame, NoneNew

-----------------------------------------------------------------------------
(***************************************************************************)
(* The coordinator hears of the end of a socket only when it is not a      *)
(* page's open one.                                                        *)
(***************************************************************************)
SocketEnd == {"Close"}

OpenSpeaks == \A p \in Participants : online[p] => Free(toServer[Conn(p)], SocketEnd)

LEMMA InitSpeaks == NetInit => OpenSpeaks
BY DEF NetInit, OpenSpeaks

LEMMA EndReadLate ==
    ASSUME NEW C, NEW M, Queues(C, M), OpenSpeaks, NEW c \in Conns, Reads(c, "Close"),
           NEW p \in Participants, online[p]
    PROVE  c # Conn(p)
<1>1. toServer[c] \in Seq(C) /\ toServer[c] # <<>> /\ Head(toServer[c]).type \in SocketEnd
    BY DEF Queues, Reads, SocketEnd
<1>2. ~Free(toServer[c], SocketEnd)
    BY <1>1, HeadQueued
<1>. QED BY <1>2 DEF OpenSpeaks

LEMMA SpeaksKept ==
    ASSUME SocketsTypeOK, OpenSpeaks, NoneSent(SocketEnd), UNCHANGED <<socket, online>>
    PROVE  OpenSpeaks'
<1>1. SUFFICES ASSUME NEW p \in Participants, online[p]
               PROVE  Free(toServer'[Conn(p)], SocketEnd)
    BY DEF OpenSpeaks, Conn
<1>2. Conn(p) \in Conns /\ Free(toServer[Conn(p)], SocketEnd)
    BY <1>1, ConnFacts DEF OpenSpeaks
<1>. QED BY <1>2 DEF NoneSent, NoneNew

LEMMA OpenSpeaksNext ==
    ASSUME NEW C, NEW M, Queues(C, M), SocketsTypeOK, OpenSpeaks,
           NEW p \in Participants, OpenSocket(p)
    PROVE  OpenSpeaks'
<1>. DEFINE next == <<p, socket[p] + 1>>
<1>1. /\ socket[p] \in 0..MaxSockets /\ socket[p] < MaxSockets
      /\ next \in Conns
    BY MaxSocketsAssumption DEF OpenSocket, SocketsTypeOK, Conns
<1>2. \A d \in Conns :
        toServer'[d] = IF d = next THEN <<[type |-> "RequestChallenge"]>> ELSE toServer[d]
    BY <1>1 DEF OpenSocket, Queues
<1>3. SUFFICES ASSUME NEW q \in Participants, online'[q]
               PROVE  Free(toServer'[<<q, socket'[q]>>], SocketEnd)
    BY DEF OpenSpeaks, Conn
<1>4. CASE q = p
    <2>1. socket'[q] = socket[p] + 1
        BY <1>4 DEF OpenSocket, SocketsTypeOK
    <2>2. Free(<<[type |-> "RequestChallenge"]>>, SocketEnd)
        BY FewQueued DEF SocketEnd
    <2>. QED BY <1>1, <1>2, <1>4, <2>1, <2>2
<1>5. CASE q # p
    <2>1. socket'[q] = socket[q] /\ online[q]
        BY <1>3, <1>5 DEF OpenSocket, SocketsTypeOK
    <2>2. Conn(q) \in Conns /\ Conn(q) # next /\ Free(toServer[Conn(q)], SocketEnd)
        BY <1>5, <2>1, ConnFacts DEF OpenSpeaks, Conn
    <2>. QED BY <1>2, <2>1, <2>2 DEF Conn
<1>. QED BY <1>4, <1>5

LEMMA CloseSpeaks ==
    ASSUME NEW C, NEW M, Queues(C, M), SocketsTypeOK, OpenSpeaks,
           NEW p \in Participants, CloseSocket(p)
    PROVE  OpenSpeaks'
<1>1. \A d \in Conns : d # Conn(p) => toServer'[d] = toServer[d]
    BY DEF CloseSocket, Queues
<1>2. UNCHANGED socket /\ ~online'[p] /\ \A q \in Participants : q # p => online'[q] = online[q]
    BY DEF CloseSocket, SocketsTypeOK
<1>3. SUFFICES ASSUME NEW q \in Participants, online'[q]
               PROVE  Free(toServer'[Conn(q)], SocketEnd)
    BY <1>2 DEF OpenSpeaks, Conn
<1>4. q # p /\ online[q] /\ Conn(q) # Conn(p)
    BY <1>2, <1>3 DEF Conn
<1>5. Conn(q) \in Conns /\ Free(toServer[Conn(q)], SocketEnd)
    BY <1>4, ConnFacts DEF OpenSpeaks
<1>. QED BY <1>1, <1>4, <1>5
=============================================================================
