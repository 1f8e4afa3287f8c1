---------------------------- MODULE SessionProofs ----------------------------
(***************************************************************************)
(* Lemmas about the sockets of SessionNet, for the DKG session and the     *)
(* signing session.  What is known of a queue is put as a set its messages *)
(* come from; C and M are the sets of the clients' and the coordinator's   *)
(* messages.                                                               *)
(***************************************************************************)
EXTENDS SessionNet, QueueProofs, TLAPS, FiniteSetTheorems, SequenceTheorems

Queues(C, M) ==
    /\ toServer \in [Conns -> Seq(C)]
    /\ toClient \in [Participants -> Seq(M)]

ProcessesTypeOK ==
    /\ started \in [Participants -> 0..MaxStarts]
    /\ phase \in [Participants -> Phase]
    /\ \A p \in Participants : phase[p] = "running" => started[p] # 0

-----------------------------------------------------------------------------
(***************************************************************************)
(* The coordinator.                                                        *)
(***************************************************************************)

\* The coordinator takes a message: it is of the type asked for, and what is
\* left in the queues was there before.
LEMMA SessionReads ==
    ASSUME NEW C, NEW M, Queues(C, M), NEW c \in Conns, NEW type, Reads(c, type)
    PROVE  /\ Head(toServer[c]) \in C
           /\ Head(toServer[c]).type = type
           /\ toServer' \in [Conns -> Seq(C)]
           /\ \A S : toServer[c] \in Seq(S) => Head(toServer[c]) \in S
           /\ \A d \in Conns : \A S : toServer[d] \in Seq(S) => toServer'[d] \in Seq(S)
<1>1. toServer[c] \in Seq(C) /\ toServer[c] # <<>>
    BY DEF Queues, Reads
<1>2. \A S : toServer[c] \in Seq(S) => Head(toServer[c]) \in S /\ Tail(toServer[c]) \in Seq(S)
    BY <1>1, HeadTailProperties
<1>3. toServer' = [toServer EXCEPT ![c] = Tail(toServer[c])]
    BY DEF Reads
<1>. QED BY <1>1, <1>2, <1>3 DEF Reads, Queues

\* The coordinator sends: each client's queue grows by its messages or stays.
LEMMA SessionSent ==
    ASSUME NEW C, NEW M, Queues(C, M), NEW conn, NEW msgs \in [Participants -> Seq(M)],
           toClient' = Sent(conn, msgs)
    PROVE  /\ toClient' \in [Participants -> Seq(M)]
           /\ \A p \in Participants : \A S :
                toClient[p] \in Seq(S) /\ msgs[p] \in Seq(S) => toClient'[p] \in Seq(S)
<1>1. \A p \in Participants :
        toClient'[p] = IF Live(p, conn[p]) THEN toClient[p] \o msgs[p] ELSE toClient[p]
    BY DEF Sent
<1>2. \A p \in Participants : \A S :
        toClient[p] \in Seq(S) /\ msgs[p] \in Seq(S) => toClient'[p] \in Seq(S)
    BY <1>1, ConcatProperties
<1>3. \A p \in Participants : toClient'[p] \in Seq(M)
    BY <1>2 DEF Queues
<1>. QED BY <1>2, <1>3 DEF Sent

\* What a handler sends, if anything.
Answers(M) ==
    \/ UNCHANGED toClient
    \/ \E conn : \E msgs \in [Participants -> Seq(M)] : toClient' = Sent(conn, msgs)

LEMMA ReplyAnswers ==
    ASSUME NEW M, NEW c \in Conns, NEW m \in M, Reply(c, m)
    PROVE  Answers(M)
<1>1. [p \in Participants |-> <<m>>] \in [Participants -> Seq(M)]
    BY FewMessages
<1>. QED BY <1>1 DEF Reply, Answers

LEMMA BroadcastAnswers ==
    ASSUME NEW M, NEW msgs \in Seq(M), Broadcast(ToAll(msgs))
    PROVE  Answers(M)
BY DEF Broadcast, ToAll, Answers

\* A handler leaves the queues well typed, and adds to the clients' queues what
\* it sends.
LEMMA HandlerQueues ==
    ASSUME NEW C, NEW M, Queues(C, M), NEW c \in Conns, NEW type, Reads(c, type), Answers(M)
    PROVE  /\ Queues(C, M)'
           /\ UNCHANGED <<started, phase>>
<1>1. toServer' \in [Conns -> Seq(C)]
    BY SessionReads
<1>2. toClient' \in [Participants -> Seq(M)]
    BY SessionSent DEF Answers, Queues
<1>. QED BY <1>1, <1>2 DEF Queues, Reads

-----------------------------------------------------------------------------
(***************************************************************************)
(* The clients.                                                            *)
(***************************************************************************)

LEMMA RunningConn ==
    ASSUME ProcessesTypeOK, NEW p \in Participants, phase[p] = "running"
    PROVE  Conn(p) \in Conns /\ started[p] \in 1..MaxStarts
BY MaxStartsAssumption DEF ProcessesTypeOK, Conn, Conns

\* A client takes a message.
LEMMA SessionReceives ==
    ASSUME NEW C, NEW M, Queues(C, M), NEW p \in Participants, NEW type, Receives(p, type)
    PROVE  /\ Head(toClient[p]) \in M
           /\ Head(toClient[p]).type = type
           /\ \A S : toClient[p] \in Seq(S) =>
                Head(toClient[p]) \in S /\ Tail(toClient[p]) \in Seq(S)
<1>1. toClient[p] \in Seq(M) /\ toClient[p] # <<>>
    BY DEF Queues, Receives
<1>2. \A S : toClient[p] \in Seq(S) => Head(toClient[p]) \in S /\ Tail(toClient[p]) \in Seq(S)
    BY <1>1, HeadTailProperties
<1>. QED BY <1>1, <1>2 DEF Receives

\* A client sends and goes on.
LEMMA SessionSends ==
    ASSUME NEW C, NEW M, Queues(C, M), ProcessesTypeOK, NEW p \in Participants,
           NEW type, Receives(p, type), NEW msgs \in Seq(C), Sends(p, msgs)
    PROVE  /\ Queues(C, M)' /\ ProcessesTypeOK'
           /\ \A q \in Participants : \A S : toClient[q] \in Seq(S) => toClient'[q] \in Seq(S)
           /\ \A d \in Conns : \A S :
                toServer[d] \in Seq(S) /\ (d = Conn(p) => msgs \in Seq(S)) => toServer'[d] \in Seq(S)
<1>1. Conn(p) \in Conns
    BY RunningConn DEF Receives
<1>2. \A q \in Participants : \A S : toClient[q] \in Seq(S) => toClient'[q] \in Seq(S)
    BY SessionReceives DEF Sends, Queues
<1>3. \A d \in Conns :
        toServer'[d] = IF d = Conn(p) THEN toServer[d] \o msgs ELSE toServer[d]
    BY <1>1 DEF Sends, Queues
<1>4. \A d \in Conns : \A S :
        toServer[d] \in Seq(S) /\ (d = Conn(p) => msgs \in Seq(S)) => toServer'[d] \in Seq(S)
    BY <1>3, ConcatProperties
<1>5. \A d \in Conns : toServer'[d] \in Seq(C)
    BY <1>4 DEF Queues
<1>6. \A q \in Participants : toClient'[q] \in Seq(M)
    BY <1>2 DEF Queues
<1>7. ProcessesTypeOK'
    BY DEF Sends, ProcessesTypeOK
<1>. QED BY <1>2, <1>4, <1>5, <1>6, <1>7 DEF Sends, Queues

\* A client ends, and what it still sends ends with Close.
LEMMA SessionEnds ==
    ASSUME NEW C, NEW M, Queues(C, M), ProcessesTypeOK, NEW p \in Participants,
           phase[p] = "running", NEW how \in Phase \ {"running"}, NEW msgs \in Seq(C),
           Ends(p, how, msgs), [type |-> "Close"] \in C
    PROVE  /\ Queues(C, M)' /\ ProcessesTypeOK'
           /\ \A q \in Participants : \A S : toClient[q] \in Seq(S) => toClient'[q] \in Seq(S)
           /\ \A d \in Conns : \A S :
                /\ toServer[d] \in Seq(S)
                /\ d = Conn(p) => msgs \in Seq(S)
                /\ [type |-> "Close"] \in S
                => toServer'[d] \in Seq(S)
<1>1. Conn(p) \in Conns
    BY RunningConn
<1>2. \A q \in Participants : \A S : toClient[q] \in Seq(S) => toClient'[q] \in Seq(S)
    BY EmptySeq DEF Ends, Queues
<1>3. \A d \in Conns :
        toServer'[d] = IF d = Conn(p) THEN Append(msgs, [type |-> "Close"]) ELSE toServer[d]
    BY <1>1 DEF Ends, Queues
<1>4. ASSUME NEW d \in Conns, NEW S, toServer[d] \in Seq(S),
             d = Conn(p) => msgs \in Seq(S), [type |-> "Close"] \in S
      PROVE  toServer'[d] \in Seq(S)
    <2>1. CASE d = Conn(p)
        BY <1>3, <1>4, <2>1, QueueFacts
    <2>2. CASE d # Conn(p)
        BY <1>3, <1>4, <2>2
    <2>. QED BY <2>1, <2>2
<1>5. \A d \in Conns : toServer'[d] \in Seq(C)
    BY <1>4 DEF Queues
<1>6. \A q \in Participants : toClient'[q] \in Seq(M)
    BY <1>2 DEF Queues
<1>7. Queues(C, M)'
    BY <1>5, <1>6 DEF Ends, Queues
<1>8. ProcessesTypeOK'
    BY DEF Ends, ProcessesTypeOK
<1>. QED BY <1>2, <1>4, <1>7, <1>8

\* What p had not delivered when it ended, or a prefix of it.
LEMMA UnreadMessages ==
    ASSUME NEW p \in Participants, NEW S, toServer[Conn(p)] \in Seq(S)
    PROVE  /\ Unread(p) \in Seq(S)
           /\ \A n \in 0..Len(Unread(p)) : SubSeq(Unread(p), 1, n) \in Seq(S)
<1>1. Unread(p) \in Seq(S)
    BY DEF Unread
<1>2. \A n \in 0..Len(Unread(p)) : \A i \in 1..n : Unread(p)[i] \in S
    BY <1>1, ElementOfSeq, LenProperties
<1>. QED BY <1>1, <1>2, SubSeqProperties, LenProperties

\* A client is started on a socket of its own.
LEMMA SessionStarts ==
    ASSUME NEW C, NEW M, Queues(C, M), ProcessesTypeOK, NEW p \in Participants, Starts(p),
           [type |-> "Login"] \in C
    PROVE  /\ Queues(C, M)' /\ ProcessesTypeOK' /\ UNCHANGED toClient
           /\ \A d \in Conns : \A S :
                toServer[d] \in Seq(S) /\ [type |-> "Login"] \in S => toServer'[d] \in Seq(S)
<1>1. started[p] + 1 \in 1..MaxStarts
    BY MaxStartsAssumption DEF Starts, ProcessesTypeOK
<1>2. \A d \in Conns : toServer'[d] \in {toServer[d], <<[type |-> "Login"]>>}
    BY <1>1 DEF Starts, Queues, Conns
<1>3. \A d \in Conns : \A S :
        toServer[d] \in Seq(S) /\ [type |-> "Login"] \in S => toServer'[d] \in Seq(S)
    BY <1>2, FewMessages
<1>4. toServer' \in [Conns -> Seq(C)]
    BY <1>1, <1>3 DEF Starts, Queues, Conns
<1>5. ProcessesTypeOK'
    BY <1>1 DEF Starts, ProcessesTypeOK, Phase
<1>. QED BY <1>3, <1>4, <1>5 DEF Starts, Queues

-----------------------------------------------------------------------------
\* All participants are there when as many are there as the session has.
LEMMA EverybodyThere ==
    ASSUME NEW S \in SUBSET Participants, AllOf(S)
    PROVE  S = Participants
BY ParticipantsAssumption, FS_Subset DEF AllOf

-----------------------------------------------------------------------------
(***************************************************************************)
(* Which messages are under way, by their types T.                         *)
(***************************************************************************)

\* None of what q sent is still unread; at most one message is.
Unsent(q, T) == \A d \in Conns : d[1] = q => Free(toServer[d], T)
Once(q, T) ==
    /\ \A d \in Conns : d[1] = q => Single(toServer[d], T)
    /\ \A d, e \in Conns :
          d[1] = q /\ e[1] = q /\ ~Free(toServer[d], T) /\ ~Free(toServer[e], T) => d = e

\* No such message is sent to the coordinator, to the clients.
NoneSent(T) == \A d \in Conns : NoneNew(toServer[d], toServer'[d], T)
NoneCame(T) == \A p \in Participants : NoneNew(toClient[p], toClient'[p], T)

LEMMA NoneSentKeeps ==
    ASSUME NEW T, NoneSent(T)
    PROVE  /\ \A q \in Participants : Unsent(q, T) => Unsent(q, T)'
           /\ \A q \in Participants : Once(q, T) => Once(q, T)'
BY DEF NoneSent, NoneNew, Unsent, Once

LEMMA UnsentIsOnce ==
    ASSUME NEW T, NEW q, Unsent(q, T)
    PROVE  Once(q, T)
BY FreeIsSingle DEF Unsent, Once

LEMMA SilentStep ==
    ASSUME NEW T
    PROVE  /\ UNCHANGED toServer => NoneSent(T)
           /\ UNCHANGED toClient => NoneCame(T)
BY DEF NoneSent, NoneCame, NoneNew

LEMMA ReadsQueued ==
    ASSUME NEW C, NEW M, Queues(C, M), NEW c \in Conns, NEW type, Reads(c, type), NEW T
    PROVE  /\ NoneSent(T)
           /\ type \in T => ~Unsent(c[1], T)
           /\ type \in T /\ Once(c[1], T) => Unsent(c[1], T)'
<1>1. toServer[c] \in Seq(C) /\ toServer[c] # <<>> /\ Head(toServer[c]).type = type
    BY DEF Queues, Reads
<1>2. \A d \in Conns : toServer'[d] = IF d = c THEN Tail(toServer[c]) ELSE toServer[d]
    BY DEF Queues, Reads
<1>3. NoneSent(T)
    BY <1>1, <1>2, HeadQueued DEF NoneSent, NoneNew
<1>4. type \in T => ~Free(toServer[c], T)
    BY <1>1, HeadQueued
<1>5. type \in T => ~Unsent(c[1], T)
    BY <1>4 DEF Unsent
<1>6. ASSUME type \in T, Once(c[1], T), NEW d \in Conns, d[1] = c[1]
      PROVE  Free(toServer'[d], T)
    <2>1. CASE d = c
        BY <1>1, <1>2, <1>6, <2>1, HeadQueued DEF Once
    <2>2. CASE d # c
        BY <1>2, <1>4, <1>6, <2>2 DEF Once
    <2>. QED BY <2>1, <2>2
<1>. QED BY <1>3, <1>5, <1>6 DEF Unsent

LEMMA SentQueued ==
    ASSUME NEW C, NEW M, Queues(C, M), NEW conn, NEW msgs \in [Participants -> Seq(M)],
           toClient' = Sent(conn, msgs), NEW T
    PROVE  /\ (\A p \in Participants : Free(msgs[p], T)) => NoneCame(T)
           /\ \A p \in Participants :
                 Free(toClient[p], T) /\ Single(msgs[p], T) => Single(toClient'[p], T)
<1>1. \A p \in Participants : toClient'[p] \in {toClient[p], toClient[p] \o msgs[p]}
    BY DEF Sent
<1>2. \A p \in Participants :
        /\ Free(msgs[p], T) => NoneNew(toClient[p], toClient[p] \o msgs[p], T)
        /\ Free(toClient[p], T) /\ Single(msgs[p], T) => Single(toClient[p] \o msgs[p], T)
    BY ConcatQueued DEF Queues
<1>. QED BY <1>1, <1>2, FreeIsSingle DEF NoneCame, NoneNew

LEMMA ReplyQueued ==
    ASSUME NEW C, NEW M, Queues(C, M), ProcessesTypeOK, NEW c \in Conns, NEW m \in M,
           Reply(c, m), NEW T
    PROVE  /\ m.type \notin T => NoneCame(T)
           /\ \A q \in Participants : q # c[1] => toClient'[q] = toClient[q]
           /\ Free(toClient[c[1]], T) => Single(toClient'[c[1]], T)
<1>. DEFINE msgs == [p \in Participants |-> <<m>>]
            conn == [p \in Participants |-> IF p = c[1] THEN c[2] ELSE 0]
<1>1. msgs \in [Participants -> Seq(M)] /\ \A p \in Participants : Single(msgs[p], T)
    BY FewMessages, FewQueued
<1>2. m.type \notin T => \A p \in Participants : Free(msgs[p], T)
    BY FewQueued
<1>3. toClient' = Sent(conn, msgs) /\ c[1] \in Participants
    BY DEF Reply, Conns
<1>4. ASSUME NEW q \in Participants, q # c[1] PROVE toClient'[q] = toClient[q]
    <2>1. conn[q] = 0 /\ ~Live(q, 0)
        BY <1>4 DEF Live, ProcessesTypeOK
    <2>2. toClient'[q] = IF Live(q, conn[q]) THEN toClient[q] \o msgs[q] ELSE toClient[q]
        BY <1>3 DEF Sent
    <2>. QED BY <2>1, <2>2
<1>. HIDE DEF msgs, conn
<1>. QED BY <1>1, <1>2, <1>3, <1>4, SentQueued

LEMMA ReceivesQueued ==
    ASSUME NEW C, NEW M, Queues(C, M), NEW p \in Participants, NEW type, Receives(p, type),
           toClient' = [toClient EXCEPT ![p] = Tail(@)], NEW T
    PROVE  /\ NoneCame(T)
           /\ type \in T => ~Free(toClient[p], T)
           /\ type \in T /\ Single(toClient[p], T) => Free(toClient'[p], T)
<1>1. toClient[p] \in Seq(M) /\ toClient[p] # <<>> /\ Head(toClient[p]).type = type
    BY DEF Queues, Receives
<1>2. \A q \in Participants : toClient'[q] = IF q = p THEN Tail(toClient[p]) ELSE toClient[q]
    BY DEF Queues
<1>3. /\ NoneNew(toClient[p], Tail(toClient[p]), T)
      /\ type \in T => ~Free(toClient[p], T)
      /\ type \in T /\ Single(toClient[p], T) => Free(Tail(toClient[p]), T)
    BY <1>1, HeadQueued
<1>. QED BY <1>2, <1>3 DEF NoneCame, NoneNew

LEMMA SendsQueued ==
    ASSUME NEW C, NEW M, Queues(C, M), ProcessesTypeOK, NEW p \in Participants,
           NEW type, Receives(p, type), NEW msgs \in Seq(C), Sends(p, msgs), NEW T
    PROVE  /\ Free(msgs, T) => NoneSent(T)
           /\ \A q \in Participants : q # p =>
                 (Unsent(q, T) => Unsent(q, T)') /\ (Once(q, T) => Once(q, T)')
           /\ Unsent(p, T) /\ Single(msgs, T) => Once(p, T)'
<1>1. Conn(p) \in Conns
    BY RunningConn DEF Receives
<1>2. \A d \in Conns :
        toServer'[d] = IF d = Conn(p) THEN toServer[d] \o msgs ELSE toServer[d]
    BY <1>1 DEF Sends, Queues
<1>3. \A d \in Conns :
        /\ Free(msgs, T) => NoneNew(toServer[d], toServer[d] \o msgs, T)
        /\ Free(toServer[d], T) /\ Single(msgs, T) => Single(toServer[d] \o msgs, T)
    BY ConcatQueued DEF Queues
<1>4. Free(msgs, T) => NoneSent(T)
    BY <1>2, <1>3 DEF NoneSent, NoneNew
<1>5. \A d \in Conns : d[1] # p => toServer'[d] = toServer[d]
    BY <1>2 DEF Conn
<1>6. \A q \in Participants : q # p =>
        (Unsent(q, T) => Unsent(q, T)') /\ (Once(q, T) => Once(q, T)')
    BY <1>5 DEF Unsent, Once
<1>7. ASSUME Unsent(p, T), Single(msgs, T) PROVE Once(p, T)'
    <2>1. \A d \in Conns : d[1] = p => Single(toServer'[d], T)
        BY <1>2, <1>3, <1>7, FreeIsSingle DEF Unsent
    <2>2. \A d \in Conns : d[1] = p /\ ~Free(toServer'[d], T) => d = Conn(p)
        BY <1>2, <1>7 DEF Unsent
    <2>. QED BY <2>1, <2>2 DEF Once
<1>. QED BY <1>4, <1>6, <1>7

\* A client that ends delivers no more than it had sent, and Logout or Close.
LEMMA EndsQueued ==
    ASSUME NEW C, NEW M, Queues(C, M), ProcessesTypeOK, NEW p \in Participants,
           phase[p] = "running", NEW how, NEW msgs \in Seq(C), Ends(p, how, msgs),
           [type |-> "Close"] \in C, NEW T, "Close" \notin T, NoneNew(Unread(p), msgs, T)
    PROVE  NoneSent(T) /\ NoneCame(T)
<1>1. Conn(p) \in Conns
    BY RunningConn
<1>2. \A d \in Conns :
        toServer'[d] = IF d = Conn(p) THEN Append(msgs, [type |-> "Close"]) ELSE toServer[d]
    BY <1>1 DEF Ends, Queues
<1>3. NoneNew(msgs, Append(msgs, [type |-> "Close"]), T)
    BY AppendQueued
<1>4. NoneSent(T)
    BY <1>2, <1>3 DEF NoneSent, NoneNew, Unread
<1>5. \A q \in Participants : toClient'[q] \in {toClient[q], <<>>}
    BY DEF Ends, Queues
<1>6. Free(<<>>, T)
    BY FewQueued
<1>7. NoneCame(T)
    BY <1>5, <1>6, FreeIsSingle DEF NoneCame, NoneNew
<1>. QED BY <1>4, <1>7

LEMMA StartsQueued ==
    ASSUME NEW C, NEW M, Queues(C, M), ProcessesTypeOK, NEW p \in Participants, Starts(p), NEW T
    PROVE  /\ "Login" \notin T => NoneSent(T)
           /\ NoneCame(T)
           /\ \A q \in Participants : q # p =>
                 (Unsent(q, T) => Unsent(q, T)') /\ (Once(q, T) => Once(q, T)')
           /\ Unsent(p, T) => Once(p, T)'
<1>. DEFINE fresh == <<p, started[p] + 1>>
            login == <<[type |-> "Login"]>>
<1>1. \A d \in Conns : toServer'[d] = IF d = fresh THEN login ELSE toServer[d]
    BY DEF Starts, Queues
<1>2. Single(login, T) /\ ("Login" \notin T => Free(login, T))
    BY FewQueued
<1>. HIDE DEF login
<1>3. "Login" \notin T => NoneSent(T)
    BY <1>1, <1>2 DEF NoneSent, NoneNew
<1>4. NoneCame(T)
    BY SilentStep DEF Starts
<1>5. \A d \in Conns : d[1] # p => toServer'[d] = toServer[d]
    BY <1>1
<1>6. \A q \in Participants : q # p =>
        (Unsent(q, T) => Unsent(q, T)') /\ (Once(q, T) => Once(q, T)')
    BY <1>5 DEF Unsent, Once
<1>7. ASSUME Unsent(p, T) PROVE Once(p, T)'
    <2>1. \A d \in Conns : d[1] = p => Single(toServer'[d], T)
        BY <1>1, <1>2, <1>7, FreeIsSingle DEF Unsent
    <2>2. \A d \in Conns : d[1] = p /\ ~Free(toServer'[d], T) => d = fresh
        BY <1>1, <1>7 DEF Unsent
    <2>. QED BY <2>1, <2>2 DEF Once
<1>. QED BY <1>3, <1>4, <1>6, <1>7
=============================================================================
