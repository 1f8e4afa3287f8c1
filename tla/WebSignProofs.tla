---------------------------- MODULE WebSignProofs ----------------------------
(***************************************************************************)
(* Type correctness of WebSignCeremony, and what its signatures are worth: *)
(* for any finite roster, any sessions, and whatever sockets are lost,     *)
(* pages reloaded and sessions joined again, every participant has signed  *)
(* the package of a signature.                                             *)
(* Then, while nobody joins twice: nonces sign one package each, and a     *)
(* published signature stays.                                              *)
(***************************************************************************)
EXTENDS WebSignCeremony, WebNetProofs

RoundTypes == {"SignReadyRound1", "SignSigningPackage"}
NotJoin == {m \in ClientMsg : m.type # "JoinSignSession"}
NotRound == {m \in ServerMsg : m.type \notin RoundTypes}

JoinedOnOpened == \A s \in Sessions : \A p \in Participants : joined[s][p] <= socket[p]

NotInSession(p) == \A s \in Sessions : joined[s][p] # socket[p]

\* A page sends what sessionIdRef holds, which is no session until it is set.
\* Until then its open socket is in no session, has not asked to be, and gets no
\* messages of a round.
PageWithoutSession ==
    \A p \in Participants : sessionIdRef[p] = NoSession =>
        /\ toClient[p] \in Seq(NotRound)
        /\ online[p] => toServer[Conn(p)] \in Seq(NotJoin) /\ NotInSession(p)

TypeInv ==
    /\ TypeOK
    /\ Unopened
    /\ JoinedOnOpened
    /\ PageWithoutSession

-----------------------------------------------------------------------------
(***************************************************************************)
(* The messages.                                                           *)
(***************************************************************************)

LEMMA SignPackagesFacts ==
    /\ NoPackages \in Packages
    /\ NoPackage \in Packages
    /\ NoShares \in [Participants -> Packages]
    /\ \A pkgs \in Packages, p \in Participants, g \in Nat : [pkgs EXCEPT ![p] = g] \in Packages
    /\ \A pkgs \in Packages : AllOf(Present(pkgs)) =>
            Present(pkgs) = Participants /\ pkgs \in SigningPackage
<1>1. ASSUME NEW pkgs \in Packages, AllOf(Present(pkgs))
      PROVE  Present(pkgs) = Participants /\ pkgs \in SigningPackage
    <2>1. Present(pkgs) \in SUBSET Participants
        BY DEF Present
    <2>2. Present(pkgs) = Participants
        BY <1>1, <2>1, EverybodyThere DEF AllOf
    <2>3. pkgs[Creator] # 0
        BY <2>2, WebParticipantsAssumption DEF Present
    <2>. QED BY <2>2, <2>3, WebParticipantsAssumption DEF SigningPackage, NoPackage, NoPackages
<1>2. /\ NoPackages \in Packages
      /\ NoPackage \in Packages
      /\ NoShares \in [Participants -> Packages]
      /\ \A pkgs \in Packages, p \in Participants, g \in Nat : [pkgs EXCEPT ![p] = g] \in Packages
    BY DEF NoPackages, NoPackage, NoShares, Packages
<1>. QED BY <1>1, <1>2

LEMMA ClientMsgFacts ==
    /\ \A t \in {"RequestChallenge", "Login", "AnnounceSignSession",
                 "ListPendingSigningSessions", "Close"} :
          [type |-> t] \in ClientMsg /\ [type |-> t] \in NotJoin
    /\ \A s \in Sessions :
          /\ [type |-> "JoinSignSession", session |-> s] \in ClientMsg
          /\ \A g \in Nat : g # 0 =>
                [type |-> "SignRound1Submit", session |-> s, gen |-> g] \in ClientMsg
          /\ \A pkg \in SigningPackage :
                [type |-> "SignRound2Submit", session |-> s, share |-> pkg] \in ClientMsg
    /\ \A m \in ClientMsg :
          /\ m.type \in {"JoinSignSession", "SignRound1Submit", "SignRound2Submit"}
                => m.session \in Sessions
          /\ m.type = "SignRound1Submit" => m.gen \in Nat /\ m.gen # 0
          /\ m.type = "SignRound2Submit" => m.share \in SigningPackage
BY DEF ClientMsg, NotJoin, Generation

LEMMA ServerMsgFacts ==
    /\ \A t \in {"Challenge", "LoginOk", "SignReadyRound1", "SessionAborted", "Error"} :
          /\ [type |-> t] \in ServerMsg
          /\ t \notin RoundTypes => [type |-> t] \in NotRound
    /\ \A s \in Sessions :
          \A t \in {"SignSessionCreated", "NewSignSession"} :
             /\ [type |-> t, session |-> s] \in ServerMsg
             /\ [type |-> t, session |-> s] \in NotRound
    /\ \A S \in SUBSET Sessions :
          /\ [type |-> "PendingSigningSessions", sessions |-> S] \in ServerMsg
          /\ [type |-> "PendingSigningSessions", sessions |-> S] \in NotRound
    /\ \A pkg \in SigningPackage :
          /\ [type |-> "SignSigningPackage", pkg |-> pkg] \in ServerMsg
          /\ [type |-> "SignatureReady", signature |-> pkg] \in ServerMsg
          /\ [type |-> "SignatureReady", signature |-> pkg] \in NotRound
    /\ \A m \in ServerMsg :
          /\ m.type \in {"SignSessionCreated", "NewSignSession"} => m.session \in Sessions
          /\ m.type = "PendingSigningSessions" => m.sessions \subseteq Sessions
          /\ m.type = "SignSigningPackage" => m.pkg \in SigningPackage
          /\ m.type = "SignatureReady" => m.signature \in SigningPackage
BY DEF ServerMsg, NotRound, RoundTypes

LEMMA QueuesTyped == TypeOK => Queues(ClientMsg, ServerMsg) /\ SocketsTypeOK
BY DEF TypeOK, NetTypeOK, Queues

LEMMA UnchangedTypes ==
    /\ ServerTypeOK /\ UNCHANGED sessionVars => ServerTypeOK'
    /\ ClientTypeOK /\ UNCHANGED clientVars => ClientTypeOK'
BY DEF ServerTypeOK, sessionVars, roundVars, ClientTypeOK, clientVars, pageVars, clickVars, history

-----------------------------------------------------------------------------
(***************************************************************************)
(* The coordinator.                                                        *)
(***************************************************************************)

\* A handler sends nothing, or well-typed messages that belong to a round only
\* where their page has a session.
LEMMA ServerSends ==
    ASSUME TypeInv, NEW c \in Conns, NEW type, Reads(c, type), SocketsTypeOK', JoinedOnOpened',
           UNCHANGED clientVars,
           \A p \in Participants : sessionIdRef[p] = NoSession /\ online[p] => NotInSession(p)',
           \/ UNCHANGED toClient
           \/ \E conn : \E msgs \in [Participants -> Seq(ServerMsg)] :
                 /\ toClient' = Sent(conn, msgs)
                 /\ \A p \in Participants :
                       sessionIdRef[p] = NoSession /\ online[p] /\ conn[p] = socket[p]
                          => msgs[p] \in Seq(NotRound)
    PROVE  NetTypeOK' /\ ClientTypeOK' /\ Unopened' /\ JoinedOnOpened' /\ PageWithoutSession'
<1>1. Queues(ClientMsg, ServerMsg) /\ SocketsTypeOK
    BY QueuesTyped DEF TypeInv
<1>2. toServer' \in [Conns -> Seq(ClientMsg)] /\ Unopened'
    BY <1>1, WebReadsFacts, ReadsOpened DEF TypeInv
<1>3. toClient' \in [Participants -> Seq(ServerMsg)]
    <2>1. CASE UNCHANGED toClient
        BY <1>1, <2>1 DEF Queues
    <2>2. ASSUME NEW conn, NEW msgs \in [Participants -> Seq(ServerMsg)], toClient' = Sent(conn, msgs)
          PROVE  toClient' \in [Participants -> Seq(ServerMsg)]
        BY <1>1, <2>2, WebSentFacts
    <2>. QED BY <2>1, <2>2
<1>4. ASSUME NEW p \in Participants, sessionIdRef'[p] = NoSession
      PROVE  /\ toClient'[p] \in Seq(NotRound)
             /\ online'[p] => toServer'[Conn(p)'] \in Seq(NotJoin) /\ NotInSession(p)'
    <2>1. /\ UNCHANGED <<socket, online>> /\ sessionIdRef[p] = NoSession
          /\ Conn(p)' = Conn(p)
        BY <1>4 DEF Reads, clientVars, Conn
    <2>2. toClient[p] \in Seq(NotRound)
        BY <2>1 DEF TypeInv, PageWithoutSession
    <2>3. toClient'[p] \in Seq(NotRound)
        <3>1. CASE UNCHANGED toClient
            BY <2>2, <3>1
        <3>2. ASSUME NEW conn, NEW msgs \in [Participants -> Seq(ServerMsg)],
                     toClient' = Sent(conn, msgs),
                     online[p] /\ conn[p] = socket[p] => msgs[p] \in Seq(NotRound)
              PROVE  toClient'[p] \in Seq(NotRound)
            BY <1>1, <2>2, <3>2, WebSentFacts
        <3>. QED BY <2>1, <3>1, <3>2
    <2>4. online'[p] => toServer'[Conn(p)] \in Seq(NotJoin)
        BY <1>1, <2>1, ConnFacts, WebReadsFacts DEF TypeInv, PageWithoutSession
    <2>. QED BY <2>1, <2>2, <2>3, <2>4
<1>5. ClientTypeOK'
    BY UnchangedTypes DEF TypeInv, TypeOK
<1>. QED BY <1>2, <1>3, <1>4, <1>5 DEF NetTypeOK, PageWithoutSession

\* Of a handler that leaves the records of participants alone.
LEMMA JoinedUnchanged ==
    ASSUME TypeInv, NEW c \in Conns, NEW type, Reads(c, type), UNCHANGED joined
    PROVE  /\ JoinedOnOpened'
           /\ \A p \in Participants : sessionIdRef[p] = NoSession /\ online[p] => NotInSession(p)'
BY DEF Reads, TypeInv, JoinedOnOpened, PageWithoutSession, NotInSession

\* A reply is not a message of a round.
LEMMA ReplySends ==
    ASSUME NEW c \in Conns, NEW m \in ServerMsg, m \in NotRound, Reply(c, m)
    PROVE  \E conn : \E msgs \in [Participants -> Seq(ServerMsg)] :
              /\ toClient' = Sent(conn, msgs)
              /\ \A p \in Participants : msgs[p] \in Seq(NotRound)
<1>1. [p \in Participants |-> <<m>>] \in [Participants -> Seq(ServerMsg)]
    BY FewMessages
<1>2. <<m>> \in Seq(NotRound)
    BY FewMessages
<1>. QED BY <1>1, <1>2 DEF Reply, Broadcast

\* A message to the participants of a session reaches only pages with a session.
LEMMA MembersHaveSession ==
    ASSUME TypeInv, NEW s \in Sessions, NEW p \in Participants,
           sessionIdRef[p] = NoSession, online[p]
    PROVE  joined[s][p] # socket[p] /\ 0 # socket[p]
BY DEF TypeInv, PageWithoutSession, NotInSession, TypeOK, NetTypeOK, SocketsTypeOK

LEMMA RefuseStep ==
    ASSUME TypeInv, NEW c \in Conns, NEW type, Reads(c, type), Refuse(c), UNCHANGED clientVars
    PROVE  TypeInv'
<1>1. SocketsTypeOK' /\ UNCHANGED joined /\ ServerTypeOK'
    BY UnchangedTypes DEF Refuse, serverVars, sessionVars, roundVars, Reads, SocketsTypeOK,
                          TypeInv, TypeOK, NetTypeOK
<1>2. \E conn : \E msgs \in [Participants -> Seq(ServerMsg)] :
          /\ toClient' = Sent(conn, msgs)
          /\ \A p \in Participants : msgs[p] \in Seq(NotRound)
    BY ReplySends, ServerMsgFacts DEF Refuse, RoundTypes
<1>3. NetTypeOK' /\ ClientTypeOK' /\ Unopened' /\ JoinedOnOpened' /\ PageWithoutSession'
    BY <1>1, <1>2, JoinedUnchanged, ServerSends
<1>. QED BY <1>1, <1>3 DEF TypeInv, TypeOK

LEMMA LoginSteps ==
    ASSUME TypeInv, NEW c \in Conns, HandleRequestChallengeSign(c) \/ HandleLoginSign(c),
           UNCHANGED clientVars
    PROVE  TypeInv'
<1>1. UNCHANGED joined /\ ServerTypeOK'
    BY UnchangedTypes DEF HandleRequestChallengeSign, HandleLoginSign, sessionVars, roundVars, TypeInv, TypeOK
<1>2. PICK type : Reads(c, type)
    BY DEF HandleRequestChallengeSign, HandleRequestChallenge, HandleLoginSign, HandleLogin
<1>3. SocketsTypeOK'
    BY DEF HandleRequestChallengeSign, HandleRequestChallenge, HandleLoginSign, HandleLogin, Reads,
           TypeInv, TypeOK, NetTypeOK, SocketsTypeOK
<1>4. \E conn : \E msgs \in [Participants -> Seq(ServerMsg)] :
          /\ toClient' = Sent(conn, msgs)
          /\ \A p \in Participants : msgs[p] \in Seq(NotRound)
    BY ReplySends, ServerMsgFacts
       DEF HandleRequestChallengeSign, HandleRequestChallenge, HandleLoginSign, HandleLogin, RoundTypes
<1>5. NetTypeOK' /\ ClientTypeOK' /\ Unopened' /\ JoinedOnOpened' /\ PageWithoutSession'
    BY <1>1, <1>2, <1>3, <1>4, JoinedUnchanged, ServerSends
<1>. QED BY <1>1, <1>5 DEF TypeInv, TypeOK

\* The coordinator keeps its tables of sockets in every handler of a session.
LEMMA TablesUnchanged ==
    ASSUME TypeInv, NEW c \in Conns, NEW type, Reads(c, type), UNCHANGED <<challenged, logged_in>>
    PROVE  SocketsTypeOK'
BY DEF Reads, SocketsTypeOK, TypeInv, TypeOK, NetTypeOK

LEMMA AnnounceStep ==
    ASSUME TypeInv, NEW c \in Conns, HandleAnnounceSign(c), UNCHANGED clientVars
    PROVE  TypeInv'
<1>1. PICK s \in Sessions :
          /\ state' = [state EXCEPT ![s] = "Pending"]
          /\ Broadcast(AnnouncedTo(c), [p \in Participants |->
                <<[type |-> IF Conn(p) = c THEN "SignSessionCreated" ELSE "NewSignSession",
                   session |-> s]>>])
    BY DEF HandleAnnounceSign
<1>. DEFINE msgs == [p \in Participants |->
                <<[type |-> IF Conn(p) = c THEN "SignSessionCreated" ELSE "NewSignSession",
                   session |-> s]>>]
<1>2. \A p \in Participants : msgs[p] \in Seq(ServerMsg) /\ msgs[p] \in Seq(NotRound)
    BY ServerMsgFacts, FewMessages
<1>3. msgs \in [Participants -> Seq(ServerMsg)]
    BY <1>2
<1>4. SocketsTypeOK' /\ UNCHANGED joined /\ Reads(c, "AnnounceSignSession")
    BY TablesUnchanged DEF HandleAnnounceSign
<1>5. ServerTypeOK'
    BY <1>1 DEF HandleAnnounceSign, roundVars, ServerTypeOK, TypeInv, TypeOK
<1>6. toClient' = Sent(AnnouncedTo(c), msgs)
    BY <1>1 DEF Broadcast
<1>7. NetTypeOK' /\ ClientTypeOK' /\ Unopened' /\ JoinedOnOpened' /\ PageWithoutSession'
    <2>. HIDE DEF msgs
    <2>. QED BY <1>2, <1>3, <1>4, <1>6, JoinedUnchanged, ServerSends
<1>. QED BY <1>5, <1>7 DEF TypeInv, TypeOK

\* A join is what puts a page's open socket into a session; the page has asked
\* for it, so it has a session.
LEMMA JoinStep ==
    ASSUME TypeInv, NEW c \in Conns, HandleJoinSign(c), UNCHANGED clientVars
    PROVE  TypeInv'
<1>. DEFINE s == Head(toServer[c]).session
            msgs == ToAll([type |-> "SignReadyRound1"])
<1>. USE DEF TypeInv, TypeOK
<1>1. Reads(c, "JoinSignSession") /\ SocketsTypeOK' /\ UNCHANGED <<socket, online>>
    BY TablesUnchanged DEF HandleJoinSign, Reads
<1>2. /\ s \in Sessions
      /\ c[1] \in Participants /\ c[2] \in 1..MaxSockets /\ c[2] <= socket[c[1]]
      /\ \A S : toServer[c] \in Seq(S) => Head(toServer[c]) \in S
    BY <1>1, QueuesTyped, WebReadsFacts, ReadsOpened, ClientMsgFacts DEF Conns
<1>3. joined' = [joined EXCEPT ![s][c[1]] = c[2]]
    BY DEF HandleJoinSign
<1>4. ServerTypeOK'
    <2>1. joined' \in [Sessions -> [Participants -> 0..MaxSockets]]
        BY <1>2, <1>3, MaxSocketsAssumption DEF ServerTypeOK
    <2>2. state' \in [Sessions -> {"none", "Pending", "Round1", "Round2", "Complete", "Failed"}]
        <3>1. CASE StartSignRound1(s, joined'[s])
            BY <1>2, <3>1 DEF StartSignRound1, ServerTypeOK
        <3>2. CASE UNCHANGED state
            BY <1>2, <3>2 DEF ServerTypeOK
        <3>. QED BY <3>1, <3>2 DEF HandleJoinSign
    <2>. QED BY <2>1, <2>2 DEF HandleJoinSign, roundVars, ServerTypeOK
<1>5. JoinedOnOpened'
    BY <1>1, <1>2, <1>3 DEF JoinedOnOpened, ServerTypeOK
<1>6. ASSUME NEW p \in Participants, sessionIdRef[p] = NoSession, online[p]
      PROVE  NotInSession(p)'
    <2>1. NotInSession(p) /\ toServer[Conn(p)] \in Seq(NotJoin)
        BY <1>6 DEF PageWithoutSession
    <2>2. c # Conn(p)
        BY <1>1, <1>2, <2>1 DEF NotJoin, Reads
    <2>3. c[1] = p => c[2] # socket[p]
        BY <2>2 DEF Conn, Conns
    <2>. QED BY <1>1, <1>2, <1>3, <2>1, <2>3 DEF NotInSession, ServerTypeOK
<1>7. \/ UNCHANGED toClient
      \/ toClient' = Sent(joined'[s], msgs)
    BY <1>3 DEF HandleJoinSign, StartSignRound1, Broadcast
<1>8. msgs \in [Participants -> Seq(ServerMsg)]
    BY ServerMsgFacts, FewMessages DEF ToAll
<1>9. \A p \in Participants :
        sessionIdRef[p] = NoSession /\ online[p] => joined'[s][p] # socket[p]
    BY <1>1, <1>2, <1>6 DEF NotInSession
<1>10. NetTypeOK' /\ ClientTypeOK' /\ Unopened' /\ JoinedOnOpened' /\ PageWithoutSession'
    <2>. HIDE DEF msgs, s
    <2>. QED BY <1>1, <1>5, <1>6, <1>7, <1>8, <1>9, ServerSends
<1>. QED BY <1>4, <1>10

LEMMA ListPendingStep ==
    ASSUME TypeInv, NEW c \in Conns, HandleListPendingSign(c), UNCHANGED clientVars
    PROVE  TypeInv'
<1>. DEFINE m == [type |-> "PendingSigningSessions",
                  sessions |-> {s \in Sessions : state[s] \notin {"none", "Complete", "Failed"}}]
<1>1. m \in ServerMsg /\ m \in NotRound
    BY ServerMsgFacts
<1>2. /\ Reads(c, "ListPendingSigningSessions") /\ SocketsTypeOK' /\ UNCHANGED joined
      /\ ServerTypeOK'
    BY TablesUnchanged, UnchangedTypes DEF HandleListPendingSign, serverVars, sessionVars, TypeInv, TypeOK
<1>3. \E conn : \E msgs \in [Participants -> Seq(ServerMsg)] :
          /\ toClient' = Sent(conn, msgs)
          /\ \A p \in Participants : msgs[p] \in Seq(NotRound)
    <2>1. Reply(c, m)
        BY DEF HandleListPendingSign
    <2>. HIDE DEF m
    <2>. QED BY <1>1, <2>1, ReplySends
<1>4. NetTypeOK' /\ ClientTypeOK' /\ Unopened' /\ JoinedOnOpened' /\ PageWithoutSession'
    BY <1>2, <1>3, JoinedUnchanged, ServerSends
<1>. QED BY <1>2, <1>4 DEF TypeInv, TypeOK

LEMMA Round1Step ==
    ASSUME TypeInv, NEW c \in Conns, HandleSignRound1Submit(c), UNCHANGED clientVars
    PROVE  TypeInv'
<1>. DEFINE s == Head(toServer[c]).session
            g == Head(toServer[c]).gen
            pkgs == [round1_commitments[s] EXCEPT ![c[1]] = g]
            msgs == ToAll([type |-> "SignSigningPackage", pkg |-> pkgs])
<1>1. Reads(c, "SignRound1Submit") /\ c[1] \in Participants
    BY DEF HandleSignRound1Submit, Conns
<1>2. CASE Refuse(c)
    BY <1>1, <1>2, RefuseStep
<1>3. CASE ~Refuse(c)
    <2>. USE DEF TypeInv, TypeOK
    <2>1. s \in Sessions /\ g \in Nat /\ g # 0
        BY <1>1, QueuesTyped, WebReadsFacts, ClientMsgFacts
    <2>2. pkgs \in Packages
        BY <1>1, <2>1, SignPackagesFacts DEF ServerTypeOK
    <2>3. /\ round1_commitments' = [round1_commitments EXCEPT ![s] = pkgs]
          /\ UNCHANGED <<challenged, logged_in, joined, round2_shares, completed>>
          /\ \/ UNCHANGED <<state, signing_package, toClient>>
             \/ /\ pkgs \in SigningPackage
                /\ FinishSignRound1(s, pkgs)
        <3>1. /\ round1_commitments' = [round1_commitments EXCEPT ![s][c[1]] = g]
              /\ UNCHANGED <<challenged, logged_in, joined, round2_shares, completed>>
              /\ \/ UNCHANGED <<state, signing_package, toClient>>
                 \/ /\ AllOf(Present(round1_commitments'[s]))
                    /\ FinishSignRound1(s, round1_commitments'[s])
            BY <1>3 DEF HandleSignRound1Submit
        <3>2. round1_commitments' = [round1_commitments EXCEPT ![s] = pkgs]
              /\ round1_commitments'[s] = pkgs
            BY <2>1, <3>1 DEF ServerTypeOK
        <3>. HIDE DEF pkgs
        <3>. QED BY <2>2, <3>1, <3>2, SignPackagesFacts
    <2>. HIDE DEF pkgs
    <2>4. ServerTypeOK'
        <3>. HIDE DEF s
        <3>1. round1_commitments' \in [Sessions -> Packages]
            BY <2>1, <2>2, <2>3 DEF ServerTypeOK
        <3>2. /\ state' \in [Sessions -> {"none", "Pending", "Round1", "Round2", "Complete", "Failed"}]
              /\ signing_package' \in [Sessions -> Packages]
            BY <2>1, <2>2, <2>3 DEF ServerTypeOK, FinishSignRound1
        <3>. QED BY <2>3, <3>1, <3>2 DEF ServerTypeOK
    <2>5. SocketsTypeOK'
        BY <1>1, <2>3, TablesUnchanged
    <2>6. \/ UNCHANGED toClient
          \/ /\ toClient' = Sent(joined[s], msgs)
             /\ msgs \in [Participants -> Seq(ServerMsg)]
        BY <2>3, ServerMsgFacts, FewMessages DEF FinishSignRound1, Broadcast, ToAll
    <2>7. \A p \in Participants :
            sessionIdRef[p] = NoSession /\ online[p] => joined[s][p] # socket[p]
        BY <2>1, MembersHaveSession
    <2>8. NetTypeOK' /\ ClientTypeOK' /\ Unopened' /\ JoinedOnOpened' /\ PageWithoutSession'
        <3>. HIDE DEF msgs, s
        <3>. QED BY <1>1, <2>3, <2>5, <2>6, <2>7, JoinedUnchanged, ServerSends
    <2>. QED BY <2>4, <2>8
<1>. QED BY <1>2, <1>3

LEMMA Round2Step ==
    ASSUME TypeInv, NEW c \in Conns, HandleSignRound2Submit(c), UNCHANGED clientVars
    PROVE  TypeInv'
<1>. DEFINE s == Head(toServer[c]).session
            share == Head(toServer[c]).share
            shares == [round2_shares[s] EXCEPT ![c[1]] = share]
            pkg == signing_package[s]
<1>1. Reads(c, "SignRound2Submit") /\ c[1] \in Participants
    BY DEF HandleSignRound2Submit, Conns
<1>2. CASE Refuse(c)
    BY <1>1, <1>2, RefuseStep
<1>3. CASE ~Refuse(c)
    <2>. USE DEF TypeInv, TypeOK
    <2>1. s \in Sessions /\ share \in Packages
        BY <1>1, QueuesTyped, WebReadsFacts, ClientMsgFacts DEF SigningPackage
    <2>2. pkg \in Packages /\ shares \in [Participants -> Packages]
        BY <2>1 DEF ServerTypeOK
    <2>3. /\ round2_shares' = [round2_shares EXCEPT ![s] = shares]
          /\ UNCHANGED <<challenged, logged_in, joined, round1_commitments, signing_package>>
          /\ \/ FinishSignRound2(s, shares)
             \/ UNCHANGED <<state, completed, toClient>>
        BY <1>3 DEF HandleSignRound2Submit
    <2>. HIDE DEF shares, share
    <2>4. \/ UNCHANGED <<state, completed, toClient>>
          \/ /\ state' = [state EXCEPT ![s] = "Complete"]
             /\ completed' = [completed EXCEPT ![s] = pkg]
             /\ pkg # NoPackage
             /\ Broadcast(joined[s], ToAll([type |-> "SignatureReady", signature |-> pkg]))
          \/ /\ UNCHANGED <<state, completed>>
             /\ Broadcast(joined[s], ToAll([type |-> "Error"]))
        BY <2>3 DEF FinishSignRound2, Aggregates
    <2>5. ServerTypeOK'
        BY <2>1, <2>2, <2>3, <2>4 DEF ServerTypeOK
    <2>6. SocketsTypeOK'
        BY <1>1, <2>3, TablesUnchanged
    <2>7. \/ UNCHANGED toClient
          \/ \E m \in ServerMsg : m \in NotRound /\ Broadcast(joined[s], ToAll(m))
        <3>1. pkg # NoPackage => [type |-> "SignatureReady", signature |-> pkg] \in ServerMsg
                                 /\ [type |-> "SignatureReady", signature |-> pkg] \in NotRound
            BY <2>2, ServerMsgFacts DEF SigningPackage
        <3>2. [type |-> "Error"] \in ServerMsg /\ [type |-> "Error"] \in NotRound
            BY ServerMsgFacts DEF RoundTypes
        <3>. QED BY <2>4, <3>1, <3>2
    <2>8. \/ UNCHANGED toClient
          \/ \E conn : \E msgs \in [Participants -> Seq(ServerMsg)] :
                /\ toClient' = Sent(conn, msgs)
                /\ \A p \in Participants : msgs[p] \in Seq(NotRound)
        <3>1. ASSUME NEW m \in ServerMsg, m \in NotRound, Broadcast(joined[s], ToAll(m))
              PROVE  \E conn : \E msgs \in [Participants -> Seq(ServerMsg)] :
                        /\ toClient' = Sent(conn, msgs)
                        /\ \A p \in Participants : msgs[p] \in Seq(NotRound)
            <4>1. /\ ToAll(m) \in [Participants -> Seq(ServerMsg)]
                  /\ \A p \in Participants : ToAll(m)[p] \in Seq(NotRound)
                BY <3>1, FewMessages DEF ToAll
            <4>. QED BY <3>1, <4>1 DEF Broadcast
        <3>. QED BY <2>7, <3>1
    <2>9. NetTypeOK' /\ ClientTypeOK' /\ Unopened' /\ JoinedOnOpened' /\ PageWithoutSession'
        BY <1>1, <2>3, <2>6, <2>8, JoinedUnchanged, ServerSends
    <2>. QED BY <2>5, <2>9
<1>. QED BY <1>2, <1>3

LEMMA DisconnectStep ==
    ASSUME TypeInv, NEW c \in Conns, HandleSignDisconnect(c), UNCHANGED clientVars
    PROVE  TypeInv'
<1>. USE DEF TypeInv, TypeOK
<1>1. /\ Reads(c, "Close") /\ UNCHANGED <<socket, online>>
      /\ c[1] \in Participants
    BY DEF HandleSignDisconnect, Reads, Conns
<1>2. SocketsTypeOK'
    BY <1>1 DEF HandleSignDisconnect, Forget, SocketsTypeOK, NetTypeOK
<1>. DEFINE left == {s \in Sessions : IsParticipant(c, s)}
            aborted == {s \in left : state[s] \in {"Round1", "Round2"}}
            msgs == [p \in Participants |->
                        [i \in 1..Cardinality(aborted) |-> [type |-> "SessionAborted"]]]
<1>3. /\ joined' = [s \in Sessions |->
                      IF s \in left THEN [joined[s] EXCEPT ![c[1]] = 0] ELSE joined[s]]
      /\ state' = [s \in Sessions |-> IF s \in aborted THEN "Failed" ELSE state[s]]
      /\ toClient' = Sent(AllBut(c), msgs)
      /\ UNCHANGED roundVars
    BY DEF HandleSignDisconnect, Broadcast
<1>4. ServerTypeOK'
    <2>1. joined' \in [Sessions -> [Participants -> 0..MaxSockets]]
        BY <1>1, <1>3, MaxSocketsAssumption DEF ServerTypeOK
    <2>2. state' \in [Sessions -> {"none", "Pending", "Round1", "Round2", "Complete", "Failed"}]
        BY <1>3 DEF ServerTypeOK
    <2>. QED BY <1>3, <2>1, <2>2 DEF roundVars, ServerTypeOK
<1>5. \A s \in Sessions, p \in Participants : joined'[s][p] \in {joined[s][p], 0}
    BY <1>1, <1>3 DEF ServerTypeOK
<1>6. JoinedOnOpened'
    <2>1. \A p \in Participants : 0 <= socket[p]
        BY MaxSocketsAssumption DEF NetTypeOK, SocketsTypeOK
    <2>. QED BY <1>1, <1>5, <2>1 DEF JoinedOnOpened
<1>7. \A p \in Participants : sessionIdRef[p] = NoSession /\ online[p] => NotInSession(p)'
    BY <1>1, <1>5, MembersHaveSession DEF NotInSession
<1>8. /\ msgs \in [Participants -> Seq(ServerMsg)]
      /\ \A p \in Participants : msgs[p] \in Seq(NotRound)
    <2>1. [type |-> "SessionAborted"] \in ServerMsg /\ [type |-> "SessionAborted"] \in NotRound
        BY ServerMsgFacts DEF RoundTypes
    <2>2. Cardinality(aborted) \in Nat
        BY WebSessionsAssumption, FS_Subset, FS_CardinalityType
    <2>3. \A S : [type |-> "SessionAborted"] \in S =>
            [i \in 1..Cardinality(aborted) |-> [type |-> "SessionAborted"]] \in Seq(S)
        BY <2>2, IsASeq
    <2>. QED BY <2>1, <2>3
<1>9. NetTypeOK' /\ ClientTypeOK' /\ Unopened' /\ JoinedOnOpened' /\ PageWithoutSession'
    <2>. HIDE DEF msgs
    <2>. QED BY <1>1, <1>2, <1>3, <1>6, <1>7, <1>8, ServerSends
<1>. QED BY <1>4, <1>9

LEMMA ServerStepTypeInv ==
    ASSUME TypeInv, NEW c \in Conns, ServerStep(c)
    PROVE  TypeInv'
BY LoginSteps, AnnounceStep, JoinStep, ListPendingStep, Round1Step, Round2Step, DisconnectStep
   DEF ServerStep

-----------------------------------------------------------------------------
(***************************************************************************)
(* The pages.                                                              *)
(***************************************************************************)

\* A page takes a message or not, and sends one or not, a join only when it has
\* a session.
LEMMA PageSends ==
    ASSUME TypeInv, NEW p \in Participants,
           UNCHANGED <<socket, online, challenged, logged_in>>, UNCHANGED sessionVars,
           ClientTypeOK',
           UNCHANGED toClient \/ \E type : Receives(p, type),
           \/ UNCHANGED toServer
           \/ \E m \in ClientMsg :
                Sends(p, m) /\ (sessionIdRef'[p] = NoSession => m \in NotJoin),
           \A q \in Participants : sessionIdRef'[q] = NoSession => sessionIdRef[q] = NoSession
    PROVE  TypeInv'
<1>. USE DEF TypeInv, TypeOK
<1>1. Queues(ClientMsg, ServerMsg) /\ SocketsTypeOK
    BY QueuesTyped
<1>2. SocketsTypeOK' /\ ServerTypeOK' /\ JoinedOnOpened'
    BY <1>1, UnchangedTypes DEF SocketsTypeOK, JoinedOnOpened, sessionVars
<1>3. /\ toClient' \in [Participants -> Seq(ServerMsg)]
      /\ \A q \in Participants : \A S : toClient[q] \in Seq(S) => toClient'[q] \in Seq(S)
    <2>1. CASE UNCHANGED toClient
        BY <1>1, <2>1 DEF Queues
    <2>2. CASE \E type : Receives(p, type)
        BY <1>1, <2>2, WebReceivesFacts
    <2>. QED BY <2>1, <2>2
<1>4. /\ toServer' \in [Conns -> Seq(ClientMsg)] /\ Unopened'
      /\ \A d \in Conns : \A S :
           /\ toServer[d] \in Seq(S)
           /\ online[p] /\ d = Conn(p) /\ sessionIdRef'[p] = NoSession => NotJoin \subseteq S
           /\ online[p] /\ d = Conn(p) /\ sessionIdRef'[p] # NoSession => ClientMsg \subseteq S
           => toServer'[d] \in Seq(S)
    <2>1. CASE UNCHANGED toServer
        BY <1>1, <2>1 DEF Queues, Unopened
    <2>2. CASE \E m \in ClientMsg :
                  Sends(p, m) /\ (sessionIdRef'[p] = NoSession => m \in NotJoin)
        BY <1>1, <2>2, WebSendsFacts, SendsOpened
    <2>. QED BY <2>1, <2>2
<1>5. ASSUME NEW q \in Participants, sessionIdRef'[q] = NoSession
      PROVE  /\ toClient'[q] \in Seq(NotRound)
             /\ online'[q] => toServer'[Conn(q)'] \in Seq(NotJoin) /\ NotInSession(q)'
    <2>1. /\ toClient[q] \in Seq(NotRound)
          /\ online[q] => toServer[Conn(q)] \in Seq(NotJoin) /\ NotInSession(q)
        BY <1>5 DEF PageWithoutSession
    <2>2. Conn(q)' = Conn(q) /\ NotInSession(q)' = NotInSession(q) /\ online'[q] = online[q]
        BY DEF Conn, NotInSession, sessionVars
    <2>3. online[q] => toServer'[Conn(q)] \in Seq(NotJoin)
        <3>1. online[q] => Conn(q) \in Conns /\ (Conn(q) = Conn(p) => q = p)
            BY <1>1, ConnFacts DEF Conn
        <3>. QED BY <1>4, <1>5, <2>1, <3>1
    <2>. QED BY <1>3, <1>5, <2>1, <2>2, <2>3
<1>. QED BY <1>2, <1>3, <1>4, <1>5 DEF NetTypeOK, PageWithoutSession

\* What a page sends when it handles a message that is not of a round.
LEMMA AnswerSteps ==
    ASSUME TypeInv, NEW p \in Participants, UNCHANGED sessionVars,
           \/ OnChallenge(p) \/ OnLoginOk(p) \/ OnSignSessionCreated(p) \/ OnPendingSessions(p)
           \/ OnNewSession(p) \/ OnSessionAborted(p) \/ OnError(p) \/ OnSignatureReady(p)
    PROVE  TypeInv'
<1>. USE DEF TypeInv, TypeOK
<1>1. PICK type : /\ Receives(p, type)
                  /\ OnSignSessionCreated(p) => type = "SignSessionCreated"
                  /\ OnPendingSessions(p) => type = "PendingSigningSessions"
                  /\ OnNewSession(p) => type = "NewSignSession"
                  /\ OnSignatureReady(p) => type = "SignatureReady"
    BY DEF OnChallenge, AnswersChallenge, OnLoginOk, OnSignSessionCreated, OnPendingSessions,
           OnNewSession, OnSessionAborted, OnError, OnSignatureReady, Receives
<1>2. Head(toClient[p]) \in ServerMsg /\ Head(toClient[p]).type = type
    BY <1>1, QueuesTyped, WebReceivesFacts
<1>3. \/ UNCHANGED toServer
      \/ \E m \in ClientMsg : m \in NotJoin /\ Sends(p, m)
    BY ClientMsgFacts
       DEF OnChallenge, AnswersChallenge, OnLoginOk, OnSignSessionCreated, OnPendingSessions,
           OnNewSession, OnSessionAborted, OnError, OnSignatureReady, ListPending
<1>4. /\ UNCHANGED <<socket, online, challenged, logged_in>>
      /\ UNCHANGED <<joining, nonces, clickVars, history>>
    BY DEF OnChallenge, AnswersChallenge, OnLoginOk, OnSignSessionCreated, OnPendingSessions,
           OnNewSession, OnSessionAborted, OnError, OnSignatureReady, Receives, clientVars, pageVars
<1>5. /\ sessionIdRef' \in [Participants -> Sessions \cup {NoSession}]
      /\ \A q \in Participants : sessionIdRef'[q] = NoSession => sessionIdRef[q] = NoSession
    <2>1. CASE OnSignSessionCreated(p)
        BY <1>1, <1>2, <2>1, ServerMsgFacts, WebSessionsAssumption
           DEF OnSignSessionCreated, ClientTypeOK
    <2>2. CASE ~OnSignSessionCreated(p)
        BY <2>2
           DEF OnChallenge, OnLoginOk, OnPendingSessions, OnNewSession, OnSessionAborted,
               OnError, OnSignatureReady, clientVars, ClientTypeOK
    <2>. QED BY <2>1, <2>2
<1>6. /\ connected' \in [Participants -> BOOLEAN]
      /\ signingStatus' \in [Participants -> SigningStatus]
    BY DEF OnChallenge, OnLoginOk, OnSignSessionCreated, OnPendingSessions, OnNewSession,
           OnSessionAborted, OnError, OnSignatureReady, clientVars, pageVars, Shows,
           SigningStatus, ClientTypeOK
<1>7. listed' \in [Participants -> SUBSET Sessions]
    <2>1. CASE OnPendingSessions(p)
        BY <1>1, <1>2, <2>1, ServerMsgFacts DEF OnPendingSessions, ClientTypeOK
    <2>2. CASE OnNewSession(p)
        BY <1>1, <1>2, <2>2, ServerMsgFacts DEF OnNewSession, ClientTypeOK
    <2>3. CASE ~OnPendingSessions(p) /\ ~OnNewSession(p)
        BY <2>3
           DEF OnChallenge, OnLoginOk, OnSignSessionCreated, OnSessionAborted, OnError,
               OnSignatureReady, clientVars, pageVars, ClientTypeOK
    <2>. QED BY <2>1, <2>2, <2>3
<1>8. finalSignature' \in [Participants -> Packages]
    <2>1. CASE OnSignatureReady(p)
        BY <1>1, <1>2, <2>1, ServerMsgFacts DEF OnSignatureReady, ClientTypeOK, SigningPackage
    <2>2. CASE ~OnSignatureReady(p)
        BY <2>2
           DEF OnChallenge, OnLoginOk, OnSignSessionCreated, OnPendingSessions, OnNewSession,
               OnSessionAborted, OnError, clientVars, ClientTypeOK
    <2>. QED BY <2>1, <2>2
<1>9. ClientTypeOK'
    BY <1>4, <1>5, <1>6, <1>7, <1>8 DEF ClientTypeOK, clickVars, history
<1>. QED BY <1>1, <1>3, <1>4, <1>5, <1>9, PageSends

\* The messages of a round come to pages that have a session.
LEMMA RoundMessage ==
    ASSUME TypeInv, NEW p \in Participants, NEW type \in RoundTypes, Receives(p, type)
    PROVE  /\ Head(toClient[p]) \in ServerMsg /\ Head(toClient[p]).type = type
           /\ sessionIdRef[p] \in Sessions
<1>1. /\ Head(toClient[p]) \in ServerMsg /\ Head(toClient[p]).type = type
      /\ \A S : toClient[p] \in Seq(S) => Head(toClient[p]) \in S
    BY QueuesTyped, WebReceivesFacts DEF TypeInv
<1>2. sessionIdRef[p] # NoSession
    BY <1>1 DEF TypeInv, PageWithoutSession, NotRound
<1>. QED BY <1>1, <1>2 DEF TypeInv, TypeOK, ClientTypeOK

LEMMA CommitStep ==
    ASSUME TypeInv, NEW p \in Participants, OnSignReadyRound1(p), UNCHANGED sessionVars
    PROVE  TypeInv'
<1>. USE DEF TypeInv, TypeOK
<1>1. Receives(p, "SignReadyRound1") /\ sessionIdRef[p] \in Sessions /\ UNCHANGED sessionIdRef
    BY RoundMessage DEF OnSignReadyRound1, RoundTypes
<1>2. gen' = [gen EXCEPT ![p] = gen[p] + 1] /\ gen'[p] \in Nat /\ gen'[p] # 0
    BY DEF OnSignReadyRound1, ClientTypeOK
<1>3. nonces' \in Packages
    BY <1>2, SignPackagesFacts DEF OnSignReadyRound1, ClientTypeOK
<1>4. ClientTypeOK'
    BY <1>1, <1>2, <1>3
       DEF OnSignReadyRound1, Shows, SigningStatus, ClientTypeOK, pageVars, clickVars
<1>5. \E m \in ClientMsg : Sends(p, m)
    BY <1>1, <1>2, ClientMsgFacts DEF OnSignReadyRound1
<1>6. UNCHANGED <<socket, online, challenged, logged_in>>
    BY <1>1 DEF Receives
<1>. QED BY <1>1, <1>4, <1>5, <1>6, WebSessionsAssumption, PageSends

LEMMA SignStep ==
    ASSUME TypeInv, NEW p \in Participants, OnSignSigningPackage(p), UNCHANGED sessionVars
    PROVE  TypeInv'
<1>. DEFINE pkg == Head(toClient[p]).pkg
<1>. USE DEF TypeInv, TypeOK
<1>1. /\ Receives(p, "SignSigningPackage") /\ sessionIdRef[p] \in Sessions
      /\ UNCHANGED sessionIdRef /\ pkg \in SigningPackage
    BY RoundMessage, ServerMsgFacts DEF OnSignSigningPackage, RoundTypes
<1>2. nonces[p] \in Nat
    BY DEF ClientTypeOK, Packages
<1>3. signed' \in [Participants -> SUBSET [nonces : Generation, pkg : SigningPackage]]
    <2>1. CASE UNCHANGED signed
        BY <2>1 DEF ClientTypeOK
    <2>2. CASE /\ nonces[p] # 0
               /\ signed' = [signed EXCEPT ![p] = signed[p] \cup {[nonces |-> nonces[p], pkg |-> pkg]}]
        <3>1. [nonces |-> nonces[p], pkg |-> pkg] \in [nonces : Generation, pkg : SigningPackage]
            BY <1>1, <1>2, <2>2 DEF Generation
        <3>. QED BY <2>2, <3>1 DEF ClientTypeOK
    <2>. QED BY <2>1, <2>2 DEF OnSignSigningPackage
<1>4. ClientTypeOK'
    BY <1>1, <1>3
       DEF OnSignSigningPackage, Shows, SigningStatus, ClientTypeOK, pageVars, clickVars
<1>5. UNCHANGED toServer \/ \E m \in ClientMsg : Sends(p, m)
    BY <1>1, ClientMsgFacts DEF OnSignSigningPackage
<1>6. UNCHANGED <<socket, online, challenged, logged_in>>
    BY <1>1 DEF Receives
<1>. QED BY <1>1, <1>4, <1>5, <1>6, WebSessionsAssumption, PageSends

LEMMA PageStepTypeInv ==
    ASSUME TypeInv, NEW p \in Participants, PageStep(p)
    PROVE  TypeInv'
BY AnswerSteps, CommitStep, SignStep DEF PageStep

-----------------------------------------------------------------------------
(***************************************************************************)
(* The user and the sockets.                                               *)
(***************************************************************************)

LEMMA ClickSteps ==
    ASSUME TypeInv, NEW p \in Participants, UNCHANGED sessionVars,
           Announce(p) \/ (\E s \in Sessions : Join(p, s)) \/ Refresh(p)
    PROVE  TypeInv'
<1>. USE DEF TypeInv, TypeOK
<1>1. UNCHANGED <<socket, online, toClient, challenged, logged_in>>
    BY DEF Announce, Join, Refresh, Acts
<1>2. CASE Announce(p)
    <2>1. announced' \in 0..Cardinality(Sessions)
        BY <1>2, WebSessionsAssumption, FS_CardinalityType DEF Announce, ClientTypeOK
    <2>2. ClientTypeOK'
        BY <1>2, <2>1 DEF Announce, ClientTypeOK, pageVars, history
    <2>3. UNCHANGED sessionIdRef
        BY <1>2 DEF Announce
    <2>4. \E m \in ClientMsg : m \in NotJoin /\ Sends(p, m)
        BY <1>2, ClientMsgFacts DEF Announce
    <2>. QED BY <1>1, <2>2, <2>3, <2>4, PageSends
<1>3. ASSUME NEW s \in Sessions, Join(p, s)
      PROVE  TypeInv'
    <2>1. /\ joins' \in [Participants -> Nat]
          /\ \A q \in Participants : joins'[q] <= MaxJoins[q]
        <3>1. /\ joins' = [joins EXCEPT ![p] = joins[p] + 1] /\ joins[p] < MaxJoins[p]
              /\ joins \in [Participants -> Nat]
              /\ \A q \in Participants : joins[q] <= MaxJoins[q]
            BY <1>3 DEF Join, ClientTypeOK
        <3>2. /\ joins[p] \in Nat /\ MaxJoins[p] \in Nat
              /\ \A q \in Participants : joins'[q] = IF q = p THEN joins[p] + 1 ELSE joins[q]
            BY <3>1, MaxJoinsAssumption
        <3>3. joins[p] + 1 \in Nat /\ joins[p] + 1 <= MaxJoins[p]
            BY <3>1, <3>2
        <3>4. joins' \in [Participants -> Nat]
            BY <3>1, <3>3
        <3>. QED BY <3>1, <3>2, <3>3, <3>4
    <2>2. ClientTypeOK'
        BY <1>3, <2>1 DEF Join, ClientTypeOK, history
    <2>3. sessionIdRef' = [sessionIdRef EXCEPT ![p] = s]
        BY <1>3 DEF Join
    <2>4. \A q \in Participants : sessionIdRef'[q] = NoSession => sessionIdRef[q] = NoSession
        BY <2>3, WebSessionsAssumption DEF ClientTypeOK
    <2>5. sessionIdRef'[p] # NoSession
        BY <2>3, WebSessionsAssumption DEF ClientTypeOK
    <2>6. \E m \in ClientMsg : Sends(p, m)
        BY <1>3, ClientMsgFacts DEF Join
    <2>. QED BY <1>1, <2>2, <2>4, <2>5, <2>6, PageSends
<1>4. CASE Refresh(p)
    <2>1. ClientTypeOK' /\ UNCHANGED clientVars
        BY <1>4, UnchangedTypes DEF Refresh
    <2>2. UNCHANGED sessionIdRef
        BY <2>1 DEF clientVars
    <2>3. \E m \in ClientMsg : m \in NotJoin /\ Sends(p, m)
        BY <1>4, ClientMsgFacts DEF Refresh, ListPending
    <2>. QED BY <1>1, <2>1, <2>2, <2>3, PageSends
<1>. QED BY <1>2, <1>3, <1>4

\* A new socket is in no session yet.
LEMMA ConnectStep ==
    ASSUME TypeInv, NEW p \in Participants, Connect(p), UNCHANGED sessionVars
    PROVE  TypeInv'
<1>. USE DEF TypeInv, TypeOK
<1>1. Queues(ClientMsg, ServerMsg) /\ SocketsTypeOK /\ OpenSocket(p)
    BY QueuesTyped DEF Connect
<1>2. [type |-> "RequestChallenge"] \in ClientMsg /\ [type |-> "RequestChallenge"] \in NotJoin
    BY ClientMsgFacts
<1>3. /\ Queues(ClientMsg, ServerMsg)' /\ SocketsTypeOK' /\ Unopened'
      /\ socket'[p] = socket[p] + 1
      /\ \A q \in Participants : q # p => socket'[q] = socket[q] /\ online'[q] = online[q]
      /\ \A d \in Conns : \A S :
            toServer[d] \in Seq(S) /\ [type |-> "RequestChallenge"] \in S => toServer'[d] \in Seq(S)
    BY <1>1, <1>2, OpenFacts
<1>4. ServerTypeOK' /\ UNCHANGED <<joined, sessionIdRef, toClient>>
    BY UnchangedTypes DEF Connect, sessionVars, OpenSocket
<1>5. \A q \in Participants : socket[q] \in 0..MaxSockets
    BY <1>1 DEF SocketsTypeOK
<1>6. JoinedOnOpened'
    <2>1. SUFFICES ASSUME NEW s \in Sessions, NEW q \in Participants
                   PROVE  joined[s][q] <= socket'[q]
        BY <1>4 DEF JoinedOnOpened
    <2>2. joined[s][q] \in 0..MaxSockets /\ joined[s][q] <= socket[q]
        BY DEF JoinedOnOpened, ServerTypeOK
    <2>3. socket'[q] = socket[q] \/ socket'[q] = socket[q] + 1
        BY <1>3
    <2>. QED BY <1>5, <2>2, <2>3, MaxSocketsAssumption
<1>7. \A s \in Sessions : joined[s][p] < socket'[p]
    BY <1>3, <1>5, MaxSocketsAssumption DEF JoinedOnOpened, ServerTypeOK
<1>8. ASSUME NEW q \in Participants, sessionIdRef'[q] = NoSession
      PROVE  /\ toClient'[q] \in Seq(NotRound)
             /\ online'[q] => toServer'[Conn(q)'] \in Seq(NotJoin) /\ NotInSession(q)'
    <2>1. toClient'[q] \in Seq(NotRound)
        BY <1>4, <1>8 DEF PageWithoutSession
    <2>2. CASE q = p
        <3>1. NotInSession(p)'
            BY <1>4, <1>5, <1>7, <1>3, MaxSocketsAssumption DEF NotInSession, ServerTypeOK
        <3>2. Conn(p)' = <<p, socket[p] + 1>> /\ Conn(p)' \in Conns
            BY <1>1, <1>3, <1>5, MaxSocketsAssumption DEF Conn, Conns, OpenSocket
        <3>3. toServer'[Conn(p)'] = <<[type |-> "RequestChallenge"]>>
            BY <1>1, <3>2 DEF OpenSocket, Queues
        <3>4. toServer'[Conn(p)'] \in Seq(NotJoin)
            BY <1>2, <3>3, FewMessages
        <3>. QED BY <2>1, <2>2, <3>1, <3>4
    <2>3. CASE q # p
        <3>1. Conn(q)' = Conn(q) /\ online'[q] = online[q] /\ NotInSession(q)' = NotInSession(q)
            BY <1>3, <1>4, <2>3 DEF Conn, NotInSession
        <3>2. online[q] => Conn(q) \in Conns /\ toServer[Conn(q)] \in Seq(NotJoin) /\ NotInSession(q)
            BY <1>1, <1>4, <1>8, ConnFacts DEF PageWithoutSession
        <3>. QED BY <1>2, <1>3, <2>1, <3>1, <3>2
    <2>. QED BY <2>2, <2>3
<1>9. ClientTypeOK'
    BY DEF Connect, ClientTypeOK, Shows, SigningStatus, pageVars, clickVars, history
<1>. QED BY <1>3, <1>4, <1>6, <1>8, <1>9 DEF PageWithoutSession, NetTypeOK, Queues

\* A page that lost its socket, or all its memory, gets nothing.
LEMMA CloseSteps ==
    ASSUME TypeInv, NEW p \in Participants, Disconnect(p) \/ Reload(p), UNCHANGED sessionVars
    PROVE  TypeInv'
<1>. USE DEF TypeInv, TypeOK
<1>1. Queues(ClientMsg, ServerMsg) /\ SocketsTypeOK /\ CloseSocket(p)
    BY QueuesTyped DEF Disconnect, Reload
<1>2. [type |-> "Close"] \in ClientMsg /\ [type |-> "Close"] \in NotJoin
    BY ClientMsgFacts
<1>3. /\ Queues(ClientMsg, ServerMsg)' /\ SocketsTypeOK' /\ Unopened'
      /\ ~online'[p] /\ toClient'[p] = <<>>
      /\ \A q \in Participants : q # p => online'[q] = online[q] /\ toClient'[q] = toClient[q]
      /\ \A d \in Conns : \A S :
            toServer[d] \in Seq(S) /\ [type |-> "Close"] \in S => toServer'[d] \in Seq(S)
    BY <1>1, <1>2, CloseFacts
<1>4. UNCHANGED <<socket, joined>> /\ ServerTypeOK' /\ JoinedOnOpened'
    BY <1>1, UnchangedTypes DEF CloseSocket, sessionVars, JoinedOnOpened
<1>5. ClientTypeOK'
    <2>1. CASE Disconnect(p)
        BY <2>1 DEF Disconnect, ClientTypeOK, Shows, SigningStatus, clickVars, history
    <2>2. CASE Reload(p)
        BY <2>2, SignPackagesFacts DEF Reload, ClientTypeOK, Shows, SigningStatus, clickVars, history
    <2>. QED BY <2>1, <2>2
<1>6. \A q \in Participants : q # p => sessionIdRef'[q] = sessionIdRef[q]
    BY DEF Disconnect, Reload, ClientTypeOK
<1>7. ASSUME NEW q \in Participants, sessionIdRef'[q] = NoSession
      PROVE  /\ toClient'[q] \in Seq(NotRound)
             /\ online'[q] => toServer'[Conn(q)'] \in Seq(NotJoin) /\ NotInSession(q)'
    <2>1. CASE q = p
        BY <1>3, <1>6, <1>7, <2>1, EmptySeq
    <2>2. CASE q # p
        <3>1. Conn(q)' = Conn(q) /\ online'[q] = online[q] /\ NotInSession(q)' = NotInSession(q)
            BY <1>3, <1>4, <2>2 DEF Conn, NotInSession
        <3>2. /\ toClient[q] \in Seq(NotRound)
              /\ online[q] => Conn(q) \in Conns /\ toServer[Conn(q)] \in Seq(NotJoin) /\ NotInSession(q)
            BY <1>1, <1>6, <1>7, <2>2, ConnFacts DEF PageWithoutSession
        <3>. QED BY <1>2, <1>3, <1>6, <2>2, <3>1, <3>2
    <2>. QED BY <2>1, <2>2
<1>. QED BY <1>3, <1>4, <1>5, <1>7 DEF PageWithoutSession, NetTypeOK, Queues

LEMMA InitTypeInv == Init => TypeInv
<1>. SUFFICES ASSUME Init PROVE TypeInv
    OBVIOUS
<1>1. Queues(ClientMsg, ServerMsg) /\ SocketsTypeOK /\ Unopened
    BY InitSockets DEF Init
<1>2. ServerTypeOK
    BY SignPackagesFacts, EmptySeq, MaxSocketsAssumption DEF Init, ServerInit, ServerTypeOK
<1>3. ClientTypeOK
    BY SignPackagesFacts, EmptySeq, WebSessionsAssumption, FS_CardinalityType, MaxJoinsAssumption
       DEF Init, ClientInit, SigningStatus, ClientTypeOK
<1>4. JoinedOnOpened
    BY DEF Init, NetInit, ServerInit, JoinedOnOpened
<1>5. PageWithoutSession
    BY EmptySeq DEF Init, NetInit, PageWithoutSession
<1>. QED BY <1>1, <1>2, <1>3, <1>4, <1>5 DEF TypeInv, TypeOK, NetTypeOK, Queues

LEMMA NextTypeInv == TypeInv /\ [Next]_vars => TypeInv'
<1>. SUFFICES ASSUME TypeInv, [Next]_vars PROVE TypeInv'
    OBVIOUS
<1>1. ASSUME NEW c \in Conns, ServerStep(c) PROVE TypeInv'
    BY <1>1, ServerStepTypeInv
<1>2. ASSUME NEW p \in Participants, PageStep(p) PROVE TypeInv'
    BY <1>2, PageStepTypeInv
<1>3. ASSUME NEW p \in Participants, UserStep(p) PROVE TypeInv'
    BY <1>3, ConnectStep, ClickSteps DEF UserStep
<1>4. ASSUME NEW p \in Participants, (Disconnect(p) \/ Reload(p)) /\ UNCHANGED sessionVars
      PROVE  TypeInv'
    BY <1>4, CloseSteps
<1>5. CASE UNCHANGED vars
    <2>1. TypeOK'
        BY <1>5, UnchangedTypes
           DEF vars, serverVars, TypeInv, TypeOK, NetTypeOK, SocketsTypeOK
    <2>. QED BY <1>5, <2>1
            DEF vars, serverVars, sessionVars, clientVars, TypeInv, Unopened,
                JoinedOnOpened, PageWithoutSession, NotInSession, Conn
<1>. QED BY <1>1, <1>2, <1>3, <1>4, <1>5 DEF Next

\* Every variable keeps its type, and every message of a round names a session.
THEOREM WebSignTypeCorrect == Spec => []TypeOK
<1>1. TypeInv => TypeOK
    BY DEF TypeInv
<1>. QED BY <1>1, InitTypeInv, NextTypeInv, PTL DEF Spec

-----------------------------------------------------------------------------
(***************************************************************************)
(* Signatures.  The coordinator knows of a share only what                 *)
(* SignRound2Submit says, so the invariant follows a share from the page   *)
(* that signed, through the socket, to the table of shares, which outlives *)
(* an attempt; and the signature from there to the pages.                  *)
(***************************************************************************)
SignedBy(p, pkg) == \E a \in signed[p] : a.pkg = pkg
SignedByAll(pkg) == \A p \in Participants : SignedBy(p, pkg)

FromPage(p) == {m \in ClientMsg : m.type = "SignRound2Submit" => SignedBy(p, m.share)}
FromCoordinator == {m \in ServerMsg : m.type = "SignatureReady" => SignedByAll(m.signature)}

MessagesTrue ==
    /\ \A c \in Conns : toServer[c] \in Seq(FromPage(c[1]))
    /\ \A p \in Participants : toClient[p] \in Seq(FromCoordinator)

SharesTrue ==
    \A s \in Sessions, p \in Participants :
        round2_shares[s][p] # NoPackage => SignedBy(p, round2_shares[s][p])

PackagesFull ==
    \A s \in Sessions : signing_package[s] # NoPackage => Present(signing_package[s]) = Participants

IInv ==
    /\ TypeInv
    /\ MessagesTrue
    /\ SharesTrue
    /\ PackagesFull
    /\ SignatureSignedByAll

\* What is signed stays signed.
NothingForgotten == \A p \in Participants : signed[p] \subseteq signed'[p]

LEMMA SignQueues ==
    TypeInv => Queues(ClientMsg, ServerMsg) /\ SocketsTypeOK /\ Unopened
BY QueuesTyped DEF TypeInv

LEMMA StillSigned ==
    ASSUME NothingForgotten
    PROVE  /\ \A p \in Participants : \A pkg : SignedBy(p, pkg) => SignedBy(p, pkg)'
           /\ \A pkg : SignedByAll(pkg) => SignedByAll(pkg)'
           /\ \A p \in Participants : FromPage(p) \subseteq FromPage(p)'
           /\ FromCoordinator \subseteq FromCoordinator'
<1>1. \A p \in Participants : \A pkg : SignedBy(p, pkg) => SignedBy(p, pkg)'
    BY DEF NothingForgotten, SignedBy
<1>2. \A pkg : SignedByAll(pkg) => SignedByAll(pkg)'
    BY <1>1 DEF SignedByAll
<1>. QED BY <1>1, <1>2 DEF FromPage, FromCoordinator

\* What arrives in the queues is true.
LEMMA QueuesKept ==
    ASSUME MessagesTrue, NothingForgotten,
           \A c \in Conns : \A S :
              toServer[c] \in Seq(S) /\ FromPage(c[1])' \subseteq S => toServer'[c] \in Seq(S),
           \A p \in Participants : \A S :
              toClient[p] \in Seq(S) /\ FromCoordinator' \subseteq S => toClient'[p] \in Seq(S)
    PROVE  MessagesTrue'
<1>1. ASSUME NEW c \in Conns PROVE toServer'[c] \in Seq(FromPage(c[1])')
    <2>1. FromPage(c[1]) \subseteq FromPage(c[1])'
        BY StillSigned DEF Conns
    <2>2. toServer[c] \in Seq(FromPage(c[1])')
        BY <2>1, SeqMonotone DEF MessagesTrue
    <2>. QED BY <2>2
<1>2. ASSUME NEW p \in Participants PROVE toClient'[p] \in Seq(FromCoordinator')
    <2>1. toClient[p] \in Seq(FromCoordinator')
        BY StillSigned, SeqMonotone DEF MessagesTrue
    <2>. QED BY <2>1
<1>. QED BY <1>1, <1>2 DEF MessagesTrue

\* Of a step that changes neither the tables of shares nor a signature.
LEMMA TablesKept ==
    ASSUME IInv, NothingForgotten, UNCHANGED <<round2_shares, signing_package, completed>>,
           \A p \in Participants : finalSignature'[p] \in {finalSignature[p], NoPackage}
    PROVE  SharesTrue' /\ PackagesFull' /\ SignatureSignedByAll'
<1>1. SharesTrue' /\ PackagesFull'
    BY StillSigned DEF IInv, SharesTrue, PackagesFull
<1>2. SignatureSignedByAll'
    BY DEF IInv, SignatureSignedByAll, NothingForgotten
<1>. QED BY <1>1, <1>2

-----------------------------------------------------------------------------
(***************************************************************************)
(* The coordinator.                                                        *)
(***************************************************************************)
Plain == {m \in ServerMsg : m.type # "SignatureReady"}

LEMMA ServerKeepsMessages ==
    ASSUME IInv, NEW c \in Conns, NEW type, Reads(c, type), UNCHANGED signed,
           \/ UNCHANGED toClient
           \/ \E conn : \E msgs \in [Participants -> Seq(ServerMsg)] :
                 /\ toClient' = Sent(conn, msgs)
                 /\ \A p \in Participants : msgs[p] \in Seq(FromCoordinator)
    PROVE  MessagesTrue'
<1>1. \A d \in Conns : \A S : toServer[d] \in Seq(S) => toServer'[d] \in Seq(S)
    BY SignQueues, WebReadsFacts DEF IInv
<1>2. \A p \in Participants : toClient'[p] \in Seq(FromCoordinator)
    BY SignQueues, WebSentFacts DEF IInv, MessagesTrue
<1>3. \A p \in Participants : FromPage(p)' = FromPage(p)
    BY DEF FromPage, SignedBy
<1>4. FromCoordinator' = FromCoordinator
    BY DEF FromCoordinator, SignedByAll, SignedBy
<1>. QED BY <1>1, <1>2, <1>3, <1>4 DEF IInv, MessagesTrue, Conns

LEMMA ReplyPlain ==
    ASSUME NEW c \in Conns, NEW m \in Plain, Reply(c, m)
    PROVE  \E conn : \E msgs \in [Participants -> Seq(ServerMsg)] :
              /\ toClient' = Sent(conn, msgs)
              /\ \A p \in Participants : msgs[p] \in Seq(FromCoordinator)
<1>1. m \in ServerMsg /\ m \in FromCoordinator
    BY DEF Plain, FromCoordinator
<1>. DEFINE msgs == [p \in Participants |-> <<m>>]
<1>2. msgs \in [Participants -> Seq(ServerMsg)]
    BY <1>1, FewMessages
<1>3. \A p \in Participants : msgs[p] \in Seq(FromCoordinator)
    BY <1>1, FewMessages
<1>. QED BY <1>2, <1>3 DEF Reply, Broadcast

LEMMA BroadcastTrue ==
    ASSUME NEW conn, NEW m \in FromCoordinator, Broadcast(conn, ToAll(m))
    PROVE  \E to : \E msgs \in [Participants -> Seq(ServerMsg)] :
              /\ toClient' = Sent(to, msgs)
              /\ \A p \in Participants : msgs[p] \in Seq(FromCoordinator)
<1>1. /\ ToAll(m) \in [Participants -> Seq(ServerMsg)]
      /\ \A p \in Participants : ToAll(m)[p] \in Seq(FromCoordinator)
    BY FewMessages DEF ToAll, FromCoordinator
<1>. QED BY <1>1 DEF Broadcast

LEMMA PlainFacts ==
    /\ \A t \in {"Challenge", "LoginOk", "SignReadyRound1", "SessionAborted", "Error"} :
          [type |-> t] \in Plain /\ [type |-> t] \in FromCoordinator
    /\ \A s \in Sessions, t \in {"SignSessionCreated", "NewSignSession"} :
          /\ [type |-> t, session |-> s] \in FromCoordinator
          /\ [type |-> t, session |-> s] \in ServerMsg
    /\ \A S \in SUBSET Sessions : [type |-> "PendingSigningSessions", sessions |-> S] \in Plain
    /\ \A pkg \in SigningPackage :
          [type |-> "SignSigningPackage", pkg |-> pkg] \in FromCoordinator
BY DEF Plain, FromCoordinator, ServerMsg

\* What the other handlers send says nothing of a signature.
LEMMA QuietSends ==
    ASSUME NEW c \in Conns,
           \/ HandleRequestChallengeSign(c) \/ HandleLoginSign(c) \/ HandleAnnounceSign(c)
           \/ HandleJoinSign(c) \/ HandleListPendingSign(c) \/ HandleSignDisconnect(c)
           \/ Refuse(c)
    PROVE  \/ UNCHANGED toClient
           \/ \E conn : \E msgs \in [Participants -> Seq(ServerMsg)] :
                 /\ toClient' = Sent(conn, msgs)
                 /\ \A p \in Participants : msgs[p] \in Seq(FromCoordinator)
<1>1. CASE \/ HandleRequestChallengeSign(c) \/ HandleLoginSign(c) \/ HandleListPendingSign(c)
           \/ Refuse(c)
    <2>1. \E m \in Plain : Reply(c, m)
        BY <1>1, PlainFacts
           DEF HandleRequestChallengeSign, HandleRequestChallenge, HandleLoginSign, HandleLogin,
               HandleListPendingSign, Refuse
    <2>. QED BY <2>1, ReplyPlain
<1>2. CASE HandleJoinSign(c)
    BY <1>2, PlainFacts, BroadcastTrue DEF HandleJoinSign, StartSignRound1
<1>3. CASE HandleAnnounceSign(c)
    <2>1. PICK s \in Sessions :
            Broadcast(AnnouncedTo(c), [p \in Participants |->
                <<[type |-> IF Conn(p) = c THEN "SignSessionCreated" ELSE "NewSignSession",
                   session |-> s]>>])
        BY <1>3 DEF HandleAnnounceSign
    <2>. DEFINE msgs == [p \in Participants |->
                <<[type |-> IF Conn(p) = c THEN "SignSessionCreated" ELSE "NewSignSession",
                   session |-> s]>>]
    <2>2. \A p \in Participants : msgs[p] \in Seq(ServerMsg) /\ msgs[p] \in Seq(FromCoordinator)
        BY PlainFacts, FewMessages
    <2>3. msgs \in [Participants -> Seq(ServerMsg)]
        BY <2>2
    <2>4. toClient' = Sent(AnnouncedTo(c), msgs)
        BY <2>1 DEF Broadcast
    <2>. HIDE DEF msgs
    <2>. QED BY <2>2, <2>3, <2>4
<1>4. CASE HandleSignDisconnect(c)
    <2>1. PICK n \in Nat :
            Broadcast(AllBut(c), [p \in Participants |->
                                     [i \in 1..n |-> [type |-> "SessionAborted"]]])
        <3>1. \A T \in SUBSET Sessions : Cardinality(T) \in Nat
            BY WebSessionsAssumption, FS_Subset, FS_CardinalityType
        <3>. QED BY <1>4, <3>1 DEF HandleSignDisconnect
    <2>. DEFINE msgs == [p \in Participants |-> [i \in 1..n |-> [type |-> "SessionAborted"]]]
    <2>2. \A S : [type |-> "SessionAborted"] \in S =>
            [i \in 1..n |-> [type |-> "SessionAborted"]] \in Seq(S)
        BY IsASeq
    <2>3. \A p \in Participants : msgs[p] \in Seq(ServerMsg) /\ msgs[p] \in Seq(FromCoordinator)
        BY <2>2, PlainFacts, ServerMsgFacts
    <2>4. toClient' = Sent(AllBut(c), msgs) /\ msgs \in [Participants -> Seq(ServerMsg)]
        BY <2>1, <2>3 DEF Broadcast
    <2>. HIDE DEF msgs
    <2>. QED BY <2>3, <2>4
<1>. QED BY <1>1, <1>2, <1>3, <1>4

LEMMA QuietHandlers ==
    ASSUME IInv, NEW c \in Conns, NEW type, Reads(c, type), UNCHANGED clientVars,
           \/ HandleRequestChallengeSign(c) \/ HandleLoginSign(c) \/ HandleAnnounceSign(c)
           \/ HandleJoinSign(c) \/ HandleListPendingSign(c) \/ HandleSignDisconnect(c)
           \/ Refuse(c)
    PROVE  MessagesTrue' /\ SharesTrue' /\ PackagesFull' /\ SignatureSignedByAll'
<1>1. UNCHANGED roundVars /\ UNCHANGED <<signed, finalSignature>>
    BY DEF HandleRequestChallengeSign, HandleLoginSign, HandleAnnounceSign, HandleJoinSign,
           HandleListPendingSign, HandleSignDisconnect, Refuse, serverVars, sessionVars,
           clientVars, history
<1>2. MessagesTrue'
    BY <1>1, QuietSends, ServerKeepsMessages
<1>3. NothingForgotten
    BY <1>1 DEF NothingForgotten
<1>. QED BY <1>1, <1>2, <1>3, TablesKept DEF roundVars

\* A package is made of everybody's commitments.
LEMMA FinishRound1 ==
    ASSUME IInv, NEW c \in Conns, HandleSignRound1Submit(c), ~Refuse(c), UNCHANGED clientVars
    PROVE  MessagesTrue' /\ SharesTrue' /\ PackagesFull' /\ SignatureSignedByAll'
<1>1. UNCHANGED <<signed, finalSignature>> /\ NothingForgotten
    BY DEF clientVars, history, NothingForgotten
<1>2. PICK s \in Sessions, g \in Nat :
        /\ Reads(c, "SignRound1Submit")
        /\ round1_commitments' = [round1_commitments EXCEPT ![s][c[1]] = g]
        /\ UNCHANGED <<round2_shares, completed>>
        /\ \/ UNCHANGED <<signing_package, toClient>>
           \/ /\ AllOf(Present(round1_commitments'[s]))
              /\ FinishSignRound1(s, round1_commitments'[s])
    <2>1. Reads(c, "SignRound1Submit")
        BY DEF HandleSignRound1Submit
    <2>2. Head(toServer[c]).session \in Sessions /\ Head(toServer[c]).gen \in Nat
        BY <2>1, SignQueues, WebReadsFacts, ClientMsgFacts DEF IInv
    <2>. QED BY <2>1, <2>2 DEF HandleSignRound1Submit
<1>3. CASE UNCHANGED <<signing_package, toClient>>
    BY <1>1, <1>2, <1>3, TablesKept, ServerKeepsMessages
<1>4. CASE AllOf(Present(round1_commitments'[s])) /\ FinishSignRound1(s, round1_commitments'[s])
    <2>. DEFINE pkgs == round1_commitments'[s]
    <2>1. pkgs \in Packages
        BY <1>2, SignPackagesFacts DEF Conns, IInv, TypeInv, TypeOK, ServerTypeOK
    <2>2. Present(pkgs) = Participants /\ pkgs \in SigningPackage
        BY <1>4, <2>1, SignPackagesFacts
    <2>3. /\ signing_package' = [signing_package EXCEPT ![s] = pkgs]
          /\ Broadcast(joined[s], ToAll([type |-> "SignSigningPackage", pkg |-> pkgs]))
        BY <1>4 DEF FinishSignRound1
    <2>. HIDE DEF pkgs
    <2>4. MessagesTrue'
        BY <1>1, <1>2, <2>2, <2>3, PlainFacts, BroadcastTrue, ServerKeepsMessages
    <2>5. PackagesFull'
        BY <2>2, <2>3 DEF IInv, PackagesFull, TypeInv, TypeOK, ServerTypeOK
    <2>6. SharesTrue' /\ SignatureSignedByAll'
        BY <1>1, <1>2, StillSigned DEF IInv, SharesTrue, SignatureSignedByAll
    <2>. QED BY <2>4, <2>5, <2>6
<1>. QED BY <1>2, <1>3, <1>4

\* A signature is aggregated from shares that all were computed on its package.
LEMMA FinishRound2 ==
    ASSUME IInv, NEW c \in Conns, HandleSignRound2Submit(c), ~Refuse(c), UNCHANGED clientVars
    PROVE  MessagesTrue' /\ SharesTrue' /\ PackagesFull' /\ SignatureSignedByAll'
<1>1. UNCHANGED <<signed, finalSignature>> /\ NothingForgotten
    BY DEF clientVars, history, NothingForgotten
<1>2. PICK s \in Sessions, share \in SigningPackage :
        /\ SignedBy(c[1], share) /\ c[1] \in Participants
        /\ Reads(c, "SignRound2Submit")
        /\ round2_shares' = [round2_shares EXCEPT ![s] = [round2_shares[s] EXCEPT ![c[1]] = share]]
        /\ UNCHANGED signing_package
        /\ \/ FinishSignRound2(s, [round2_shares[s] EXCEPT ![c[1]] = share])
           \/ UNCHANGED <<completed, toClient>>
    <2>1. Reads(c, "SignRound2Submit")
        BY DEF HandleSignRound2Submit
    <2>2. /\ Head(toServer[c]) \in ClientMsg /\ Head(toServer[c]).type = "SignRound2Submit"
          /\ Head(toServer[c]) \in FromPage(c[1])
        BY <2>1, SignQueues, WebReadsFacts DEF IInv, MessagesTrue
    <2>3. /\ Head(toServer[c]).session \in Sessions /\ Head(toServer[c]).share \in SigningPackage
          /\ SignedBy(c[1], Head(toServer[c]).share) /\ c[1] \in Participants
        BY <2>2, ClientMsgFacts DEF FromPage, Conns
    <2>. QED BY <2>1, <2>3 DEF HandleSignRound2Submit
<1>. DEFINE shares == [round2_shares[s] EXCEPT ![c[1]] = share]
            pkg == signing_package[s]
<1>3. \A p \in Participants : shares[p] # NoPackage => SignedBy(p, shares[p])
    BY <1>2 DEF IInv, SharesTrue, TypeInv, TypeOK, ServerTypeOK
<1>4. SharesTrue'
    <2>1. \A p \in Participants : \A other : SignedBy(p, other)' <=> SignedBy(p, other)
        BY <1>1 DEF SignedBy
    <2>2. \A t \in Sessions : round2_shares'[t] = IF t = s THEN shares ELSE round2_shares[t]
        BY <1>2 DEF IInv, TypeInv, TypeOK, ServerTypeOK
    <2>. HIDE DEF shares
    <2>. QED BY <1>3, <2>1, <2>2 DEF IInv, SharesTrue
<1>5. PackagesFull'
    BY <1>2 DEF IInv, PackagesFull
<1>6. \/ UNCHANGED <<completed, toClient>>
      \/ /\ Aggregates(s, shares)
         /\ completed' = [completed EXCEPT ![s] = pkg]
         /\ Broadcast(joined[s], ToAll([type |-> "SignatureReady", signature |-> pkg]))
      \/ UNCHANGED completed /\ Broadcast(joined[s], ToAll([type |-> "Error"]))
    BY <1>2 DEF FinishSignRound2
<1>7. CASE UNCHANGED <<completed, toClient>>
    BY <1>1, <1>2, <1>4, <1>5, <1>7, ServerKeepsMessages DEF IInv, SignatureSignedByAll
<1>8. CASE UNCHANGED completed /\ Broadcast(joined[s], ToAll([type |-> "Error"]))
    <2>1. MessagesTrue'
        BY <1>1, <1>2, <1>8, PlainFacts, BroadcastTrue, ServerKeepsMessages
    <2>. QED BY <1>1, <1>4, <1>5, <1>8, <2>1 DEF IInv, SignatureSignedByAll
<1>9. CASE /\ Aggregates(s, shares)
           /\ completed' = [completed EXCEPT ![s] = pkg]
           /\ Broadcast(joined[s], ToAll([type |-> "SignatureReady", signature |-> pkg]))
    <2>1. pkg # NoPackage /\ \A p \in Participants : shares[p] = pkg
        BY <1>9 DEF Aggregates, AggregateAccepts, IInv, PackagesFull
    <2>2. SignedByAll(pkg) /\ pkg \in SigningPackage
        BY <1>3, <2>1 DEF SignedByAll, SigningPackage, IInv, TypeInv, TypeOK, ServerTypeOK
    <2>3. [type |-> "SignatureReady", signature |-> pkg] \in FromCoordinator
        BY <2>2, ServerMsgFacts DEF FromCoordinator
    <2>4. MessagesTrue'
        BY <1>1, <1>2, <1>9, <2>3, BroadcastTrue, ServerKeepsMessages
    <2>5. SignatureSignedByAll'
        <3>1. \A t \in Sessions : completed'[t] \in {completed[t], pkg}
            BY <1>9 DEF IInv, TypeInv, TypeOK, ServerTypeOK
        <3>. HIDE DEF pkg
        <3>. QED BY <1>1, <2>2, <3>1 DEF IInv, SignatureSignedByAll, SignedByAll, SignedBy
    <2>. QED BY <1>4, <1>5, <2>4, <2>5
<1>. HIDE DEF shares, pkg
<1>. QED BY <1>6, <1>7, <1>8, <1>9

LEMMA ServerStepIInv ==
    ASSUME IInv, TypeInv', NEW c \in Conns, ServerStep(c)
    PROVE  IInv'
<1>1. PICK type : Reads(c, type)
    BY DEF ServerStep, HandleRequestChallengeSign, HandleRequestChallenge, HandleLoginSign,
           HandleLogin, HandleAnnounceSign, HandleJoinSign, HandleListPendingSign,
           HandleSignRound1Submit, HandleSignRound2Submit, HandleSignDisconnect
<1>2. MessagesTrue' /\ SharesTrue' /\ PackagesFull' /\ SignatureSignedByAll'
    <2>1. CASE HandleSignRound1Submit(c) /\ ~Refuse(c)
        BY <2>1, FinishRound1 DEF ServerStep
    <2>2. CASE HandleSignRound2Submit(c) /\ ~Refuse(c)
        BY <2>2, FinishRound2 DEF ServerStep
    <2>3. CASE Refuse(c) /\ (HandleSignRound1Submit(c) \/ HandleSignRound2Submit(c))
        BY <1>1, <2>3, QuietHandlers DEF ServerStep
    <2>4. CASE ~HandleSignRound1Submit(c) /\ ~HandleSignRound2Submit(c)
        BY <1>1, <2>4, QuietHandlers DEF ServerStep
    <2>. QED BY <2>1, <2>2, <2>3, <2>4
<1>. QED BY <1>2 DEF IInv

-----------------------------------------------------------------------------
(***************************************************************************)
(* The pages.                                                              *)
(***************************************************************************)

\* A page submits a share when it has signed, and nothing else that says so.
LEMMA PageSubmits ==
    ASSUME IInv, NEW p \in Participants, PageStep(p) \/ UserStep(p), ~Connect(p)
    PROVE  /\ NothingForgotten
           /\ \/ UNCHANGED toServer
              \/ \E m \in ClientMsg : m \in FromPage(p)' /\ Sends(p, m)
<1>1. CASE OnSignSigningPackage(p)
    <2>1. PICK pkg \in SigningPackage :
            \/ UNCHANGED <<signed, toServer>>
            \/ /\ signed' = [signed EXCEPT ![p] = signed[p] \cup {[nonces |-> nonces[p], pkg |-> pkg]}]
               /\ Sends(p, [type |-> "SignRound2Submit", session |-> sessionIdRef[p],
                            share |-> pkg])
        BY <1>1, RoundMessage, ServerMsgFacts DEF OnSignSigningPackage, RoundTypes, IInv
    <2>2. CASE UNCHANGED <<signed, toServer>>
        BY <2>2 DEF NothingForgotten
    <2>3. CASE ~UNCHANGED <<signed, toServer>>
        <3>. DEFINE m == [type |-> "SignRound2Submit", session |-> sessionIdRef[p], share |-> pkg]
                    a == [nonces |-> nonces[p], pkg |-> pkg]
        <3>1. signed \in [Participants -> SUBSET [nonces : Generation, pkg : SigningPackage]]
            BY DEF IInv, TypeInv, TypeOK, ClientTypeOK
        <3>2. NothingForgotten /\ a \in signed'[p] /\ a.pkg = pkg
            BY <2>1, <2>3, <3>1 DEF NothingForgotten
        <3>3. SignedBy(p, pkg)'
            BY <3>2 DEF SignedBy
        <3>4. m \in ClientMsg /\ m.share = pkg
            BY <1>1, RoundMessage, ClientMsgFacts DEF OnSignSigningPackage, RoundTypes, IInv
        <3>5. m \in FromPage(p)'
            BY <3>3, <3>4 DEF FromPage
        <3>. QED BY <2>1, <2>3, <3>2, <3>4, <3>5
    <2>. QED BY <2>2, <2>3
<1>2. CASE ~OnSignSigningPackage(p)
    <2>1. UNCHANGED signed
        BY <1>2
           DEF PageStep, UserStep, OnChallenge, OnLoginOk, OnSignSessionCreated, OnPendingSessions,
               OnNewSession, OnSessionAborted, OnError, OnSignReadyRound1, OnSignatureReady,
               Announce, Join, Refresh, clientVars, history
    <2>2. \A m \in ClientMsg : m.type # "SignRound2Submit" => m \in FromPage(p)'
        BY DEF FromPage
    <2>3. CASE OnSignReadyRound1(p)
        <3>1. sessionIdRef[p] \in Sessions
            BY <2>3, RoundMessage DEF OnSignReadyRound1, RoundTypes, IInv
        <3>2. gen'[p] \in Nat /\ gen'[p] # 0
            BY <2>3 DEF OnSignReadyRound1, IInv, TypeInv, TypeOK, ClientTypeOK
        <3>. QED BY <2>1, <2>2, <2>3, <3>1, <3>2, ClientMsgFacts
                 DEF OnSignReadyRound1, NothingForgotten
    <2>4. CASE ~OnSignReadyRound1(p)
        <3>1. \/ UNCHANGED toServer
              \/ \E m \in ClientMsg : m.type # "SignRound2Submit" /\ Sends(p, m)
            BY <1>2, <2>4, ClientMsgFacts
               DEF PageStep, UserStep, OnChallenge, AnswersChallenge, OnLoginOk,
                   OnSignSessionCreated, OnPendingSessions, OnNewSession, OnSessionAborted, OnError,
                   OnSignatureReady, Announce, Join, Refresh, ListPending
        <3>. QED BY <2>1, <2>2, <3>1 DEF NothingForgotten
    <2>. QED BY <2>3, <2>4
<1>. QED BY <1>1, <1>2

\* A page shows a signature that the coordinator sent.
LEMMA PageShows ==
    ASSUME IInv, NEW p \in Participants,
           PageStep(p) \/ UserStep(p) \/ Disconnect(p) \/ Reload(p)
    PROVE  \A q \in Participants :
              \/ finalSignature'[q] \in {finalSignature[q], NoPackage}
              \/ SignedByAll(finalSignature'[q])
<1>1. CASE OnSignatureReady(p)
    <2>1. /\ Head(toClient[p]) \in FromCoordinator
          /\ Head(toClient[p]).type = "SignatureReady"
        BY <1>1, SignQueues, WebReceivesFacts DEF OnSignatureReady, IInv, MessagesTrue
    <2>2. SignedByAll(Head(toClient[p]).signature)
        BY <2>1 DEF FromCoordinator
    <2>. QED BY <1>1, <2>2 DEF OnSignatureReady, IInv, TypeInv, TypeOK, ClientTypeOK
<1>2. CASE ~OnSignatureReady(p)
    <2>1. UNCHANGED finalSignature \/ finalSignature' = [finalSignature EXCEPT ![p] = NoPackage]
        BY <1>2
           DEF PageStep, UserStep, OnChallenge, OnLoginOk, OnSignSessionCreated, OnPendingSessions,
               OnNewSession, OnSessionAborted, OnError, OnSignReadyRound1, OnSignSigningPackage,
               Connect, Announce, Join, Refresh, Disconnect, Reload, clientVars
    <2>. QED BY <2>1 DEF IInv, TypeInv, TypeOK, ClientTypeOK
<1>. QED BY <1>1, <1>2

LEMMA PageStepIInv ==
    ASSUME IInv, TypeInv', NEW p \in Participants, UNCHANGED sessionVars,
           PageStep(p) \/ UserStep(p) \/ Disconnect(p) \/ Reload(p)
    PROVE  IInv'
<1>1. NothingForgotten
    <2>1. CASE Connect(p) \/ Disconnect(p) \/ Reload(p)
        BY <2>1 DEF Connect, Disconnect, Reload, history, NothingForgotten
    <2>. QED BY <2>1, PageSubmits
<1>2. \A q \in Participants : \A S : toClient[q] \in Seq(S) => toClient'[q] \in Seq(S)
    <2>1. CASE PageStep(p)
        <3>1. PICK type : Receives(p, type)
            BY <2>1
               DEF PageStep, OnChallenge, AnswersChallenge, OnLoginOk, OnSignSessionCreated,
                   OnPendingSessions, OnNewSession, OnSessionAborted, OnError, OnSignReadyRound1,
                   OnSignSigningPackage, OnSignatureReady
        <3>. QED BY <3>1, SignQueues, WebReceivesFacts DEF IInv
    <2>2. CASE UserStep(p)
        BY <2>2 DEF UserStep, Connect, OpenSocket, Announce, Join, Refresh, Acts
    <2>3. CASE Disconnect(p) \/ Reload(p)
        <3>1. toClient' = [toClient EXCEPT ![p] = <<>>]
            BY <2>3 DEF Disconnect, Reload, CloseSocket
        <3>. QED BY <3>1, SignQueues, EmptySeq DEF IInv, Queues
    <2>. QED BY <2>1, <2>2, <2>3
<1>3. \A c \in Conns : \A S :
        toServer[c] \in Seq(S) /\ FromPage(c[1])' \subseteq S => toServer'[c] \in Seq(S)
    <2>1. \A c \in Conns : \A t \in {"RequestChallenge", "Close"} : [type |-> t] \in FromPage(c[1])'
        BY ClientMsgFacts DEF FromPage
    <2>2. CASE Connect(p)
        BY <2>1, <2>2, SignQueues, OpenFacts, ClientMsgFacts DEF Connect, IInv
    <2>3. CASE Disconnect(p) \/ Reload(p)
        BY <2>1, <2>3, SignQueues, CloseFacts, ClientMsgFacts DEF Disconnect, Reload, IInv
    <2>4. CASE \E m \in ClientMsg : m \in FromPage(p)' /\ Sends(p, m)
        <3>1. Conn(p)[1] = p
            BY DEF Conn
        <3>. QED BY <2>4, <3>1, SignQueues, WebSendsFacts DEF IInv
    <2>5. CASE UNCHANGED toServer
        BY <2>5
    <2>. QED BY <2>2, <2>3, <2>4, <2>5, PageSubmits
<1>4. MessagesTrue'
    BY <1>1, <1>2, <1>3, QueuesKept DEF IInv
<1>5. SharesTrue' /\ PackagesFull'
    BY <1>1, StillSigned DEF IInv, SharesTrue, PackagesFull, sessionVars, roundVars
<1>6. SignatureSignedByAll'
    <2>1. UNCHANGED completed
        BY DEF sessionVars, roundVars
    <2>2. \A q \in Participants :
            finalSignature'[q] # NoPackage => SignedByAll(finalSignature'[q])
        BY PageShows DEF IInv, SignatureSignedByAll, SignedByAll, SignedBy
    <2>3. \A s \in Sessions : completed'[s] # NoPackage => SignedByAll(completed'[s])
        BY <2>1 DEF IInv, SignatureSignedByAll, SignedByAll, SignedBy
    <2>. QED BY <1>1, <2>2, <2>3
             DEF NothingForgotten, SignatureSignedByAll, SignedByAll, SignedBy
<1>. QED BY <1>4, <1>5, <1>6 DEF IInv

-----------------------------------------------------------------------------
LEMMA InitIInv == Init => IInv
<1>. SUFFICES ASSUME Init PROVE IInv
    OBVIOUS
<1>1. TypeInv
    BY InitTypeInv
<1>2. MessagesTrue
    BY EmptySeq DEF Init, NetInit, MessagesTrue
<1>3. SharesTrue /\ PackagesFull /\ SignatureSignedByAll
    BY DEF Init, ServerInit, ClientInit, NoShares, SharesTrue, PackagesFull, SignatureSignedByAll
<1>. QED BY <1>1, <1>2, <1>3 DEF IInv

LEMMA NextIInv == IInv /\ [Next]_vars => IInv'
<1>. SUFFICES ASSUME IInv, [Next]_vars PROVE IInv'
    OBVIOUS
<1>1. TypeInv'
    BY NextTypeInv DEF IInv
<1>2. ASSUME NEW c \in Conns, ServerStep(c) PROVE IInv'
    BY <1>1, <1>2, ServerStepIInv
<1>3. ASSUME NEW p \in Participants, PageStep(p) \/ UserStep(p) PROVE IInv'
    BY <1>1, <1>3, PageStepIInv DEF PageStep, UserStep
<1>4. ASSUME NEW p \in Participants, Disconnect(p) \/ Reload(p), UNCHANGED sessionVars
      PROVE  IInv'
    BY <1>1, <1>4, PageStepIInv
<1>5. CASE UNCHANGED vars
    BY <1>1, <1>5 DEF vars, serverVars, sessionVars, roundVars, clientVars, history, IInv,
                      MessagesTrue, FromPage, FromCoordinator, SignedByAll, SignedBy, SharesTrue,
                      PackagesFull, SignatureSignedByAll
<1>. QED BY <1>2, <1>3, <1>4, <1>5 DEF Next

\* Every participant has signed the package of a signature, whichever attempt
\* its share is of.
THEOREM WebSignatureSigned == Spec => []SignatureSignedByAll
<1>1. IInv => SignatureSignedByAll
    BY DEF IInv
<1>. QED BY <1>1, InitIInv, NextIInv, PTL DEF Spec

-----------------------------------------------------------------------------
(***************************************************************************)
(* Nonces.  Participants who join once draw nonces once: a join is read at *)
(* most once per participant, and only after everybody's last join does    *)
(* anybody handle a SignReadyRound1 and draw.  So every commitment is of   *)
(* its owner's first nonces, and all packages that are sent are the same.  *)
(***************************************************************************)
AskJoin == {"JoinSignSession"}
Start1 == {"SignReadyRound1"}

Ones == [p \in Participants |-> 1]

\* p's join was sent and is read or lost.
JoinSpent(p) == joins[p] # 0 /\ Unsent(p, AskJoin)

JoinOnce ==
    \A p \in Participants :
        /\ Once(p, AskJoin)
        /\ joins[p] = 0 => Unsent(p, AskJoin)
        /\ ~JoinSpent(p) => \A s \in Sessions : joined[s][p] = 0

JoinsFirst ==
    (\E p \in Participants : ~JoinSpent(p)) =>
        \A p \in Participants : Free(toClient[p], Start1) /\ gen[p] = 0

DrawOnce ==
    \A p \in Participants :
        /\ Single(toClient[p], Start1)
        /\ ~Free(toClient[p], Start1) => gen[p] = 0
        /\ gen[p] <= 1

FirstDrawn == {m \in ClientMsg : m.type = "SignRound1Submit" => m.gen = 1}
FirstPackage == {m \in ServerMsg : m.type = "SignSigningPackage" => m.pkg = Ones}

ServerFirst ==
    /\ \A c \in Conns : toServer[c] \in Seq(FirstDrawn)
    /\ \A s \in Sessions, p \in Participants : round1_commitments[s][p] \in {0, 1}

PagesFirst ==
    \A p \in Participants :
        /\ toClient[p] \in Seq(FirstPackage)
        /\ nonces[p] \in {0, 1}
        /\ \A a \in signed[p] : a = [nonces |-> 1, pkg |-> Ones]

OnceInv == JoinOnce /\ JoinsFirst /\ DrawOnce /\ ServerFirst /\ PagesFirst

LEMMA JoinsKept ==
    ASSUME NoneSent(AskJoin), UNCHANGED joins
    PROVE  \A p \in Participants : JoinSpent(p) => JoinSpent(p)'
BY NoneSentKeeps DEF JoinSpent

LEMMA JoinOnceKept ==
    ASSUME JoinOnce, NoneSent(AskJoin), UNCHANGED joins,
           \A s \in Sessions, p \in Participants : joined'[s][p] \in {joined[s][p], 0}
    PROVE  JoinOnce'
BY JoinsKept, NoneSentKeeps DEF JoinOnce

LEMMA JoinsFirstKept ==
    ASSUME JoinsFirst, NoneSent(AskJoin), UNCHANGED joins, NoneCame(Start1), UNCHANGED gen
    PROVE  JoinsFirst'
BY JoinsKept DEF JoinsFirst, NoneCame, NoneNew

LEMMA DrawOnceKept ==
    ASSUME DrawOnce, NoneCame(Start1), UNCHANGED gen
    PROVE  DrawOnce'
BY DEF DrawOnce, NoneCame, NoneNew

LEMMA OnceTypes ==
    ASSUME TypeInv
    PROVE  /\ Queues(ClientMsg, ServerMsg) /\ SocketsTypeOK
           /\ joins \in [Participants -> Nat] /\ gen \in [Participants -> Nat]
           /\ joined \in [Sessions -> [Participants -> 0..MaxSockets]]
           /\ round1_commitments \in [Sessions -> Packages]
           /\ nonces \in [Participants -> Nat]
           /\ signed \in [Participants -> SUBSET [nonces : Generation, pkg : SigningPackage]]
BY QueuesTyped DEF TypeInv, TypeOK, ServerTypeOK, ClientTypeOK, Packages

LEMMA FirstFacts ==
    /\ \A m \in ClientMsg : m.type # "SignRound1Submit" => m \in FirstDrawn
    /\ \A m \in ServerMsg : m.type # "SignSigningPackage" => m \in FirstPackage
BY DEF FirstDrawn, FirstPackage

-----------------------------------------------------------------------------
(***************************************************************************)
(* The coordinator.                                                        *)
(***************************************************************************)
Still == {m \in ServerMsg : m.type \notin {"SignReadyRound1", "SignSigningPackage"}}

StillAnswer ==
    \/ UNCHANGED toClient
    \/ \E conn : \E msgs \in [Participants -> Seq(Still)] : toClient' = Sent(conn, msgs)

LEMMA StillFacts ==
    /\ \A t \in {"Challenge", "LoginOk", "SessionAborted", "Error"} : [type |-> t] \in Still
    /\ \A s \in Sessions, t \in {"SignSessionCreated", "NewSignSession"} :
          [type |-> t, session |-> s] \in Still
    /\ \A S \in SUBSET Sessions : [type |-> "PendingSigningSessions", sessions |-> S] \in Still
    /\ \A pkg \in SigningPackage : [type |-> "SignatureReady", signature |-> pkg] \in Still
    /\ Still \subseteq ServerMsg /\ Still \subseteq FirstPackage
BY ServerMsgFacts DEF Still, FirstPackage, ServerMsg

LEMMA StillReply ==
    ASSUME NEW c \in Conns, NEW m \in Still, Reply(c, m)
    PROVE  StillAnswer
<1>1. [p \in Participants |-> <<m>>] \in [Participants -> Seq(Still)]
    BY FewMessages
<1>. QED BY <1>1 DEF Reply, Broadcast, StillAnswer

LEMMA StillBroadcast ==
    ASSUME NEW conn, NEW m \in Still, Broadcast(conn, ToAll(m))
    PROVE  StillAnswer
<1>1. ToAll(m) \in [Participants -> Seq(Still)]
    BY FewMessages DEF ToAll
<1>. QED BY <1>1 DEF Broadcast, StillAnswer

LEMMA StillAnswerFacts ==
    ASSUME TypeInv, StillAnswer
    PROVE  /\ NoneCame(Start1)
           /\ \A p \in Participants :
                 toClient[p] \in Seq(FirstPackage) => toClient'[p] \in Seq(FirstPackage)
<1>1. ASSUME NEW q \in Seq(Still) PROVE Free(q, Start1)
    <2>1. \A i \in 1..Len(q) : q[i] \in Still
        BY ElementOfSeq
    <2>. QED BY <2>1 DEF Free, Start1, Still
<1>2. ASSUME NEW conn, NEW msgs \in [Participants -> Seq(Still)], toClient' = Sent(conn, msgs)
      PROVE  /\ NoneCame(Start1)
             /\ \A p \in Participants :
                   toClient[p] \in Seq(FirstPackage) => toClient'[p] \in Seq(FirstPackage)
    <2>1. \A p \in Participants : /\ Free(msgs[p], Start1)
                                  /\ msgs[p] \in Seq(FirstPackage) /\ msgs[p] \in Seq(ServerMsg)
        BY <1>1, StillFacts, SeqMonotone
    <2>2. msgs \in [Participants -> Seq(ServerMsg)]
        BY <2>1
    <2>. QED BY <1>2, <2>1, <2>2, OnceTypes, SentQueued, WebSentFacts
<1>. QED BY <1>2, SilentStep DEF StillAnswer

\* The handlers that neither enter a session nor take commitments.
StillHandler(c) ==
    /\ ServerStep(c)
    /\ ~HandleJoinSign(c)
    /\ HandleSignRound1Submit(c) => Refuse(c)

LEMMA StillHandlerFacts ==
    ASSUME TypeInv, NEW c \in Conns, StillHandler(c)
    PROVE  /\ StillAnswer
           /\ \E type : Reads(c, type)
           /\ UNCHANGED <<round1_commitments, clientVars>>
           /\ \A s \in Sessions, p \in Participants : joined'[s][p] \in {joined[s][p], 0}
<1>. USE StillFacts
<1>0. UNCHANGED clientVars
    BY DEF StillHandler, ServerStep
<1>1. CASE Refuse(c) /\ (HandleSignRound1Submit(c) \/ HandleSignRound2Submit(c))
    <2>1. StillAnswer
        BY <1>1, StillReply DEF Refuse
    <2>2. \E type : Reads(c, type)
        BY <1>1 DEF HandleSignRound1Submit, HandleSignRound2Submit
    <2>. QED BY <1>0, <1>1, <2>1, <2>2 DEF Refuse, serverVars, sessionVars, roundVars
<1>2. CASE HandleRequestChallengeSign(c) \/ HandleLoginSign(c) \/ HandleListPendingSign(c)
    <2>1. \E m \in Still : Reply(c, m)
        BY <1>2 DEF HandleRequestChallengeSign, HandleRequestChallenge, HandleLoginSign,
                    HandleLogin, HandleListPendingSign
    <2>2. StillAnswer
        BY <2>1, StillReply
    <2>. QED BY <1>0, <1>2, <2>2
             DEF HandleRequestChallengeSign, HandleRequestChallenge, HandleLoginSign, HandleLogin,
                 HandleListPendingSign, serverVars, sessionVars, roundVars
<1>3. CASE HandleAnnounceSign(c)
    <2>1. PICK s \in Sessions :
            Broadcast(AnnouncedTo(c), [p \in Participants |->
                <<[type |-> IF Conn(p) = c THEN "SignSessionCreated" ELSE "NewSignSession",
                   session |-> s]>>])
        BY <1>3 DEF HandleAnnounceSign
    <2>2. \A p \in Participants :
            <<[type |-> IF Conn(p) = c THEN "SignSessionCreated" ELSE "NewSignSession",
               session |-> s]>> \in Seq(Still)
        BY FewMessages
    <2>3. StillAnswer
        BY <2>1, <2>2 DEF Broadcast, StillAnswer
    <2>. QED BY <1>0, <1>3, <2>3 DEF HandleAnnounceSign, roundVars
<1>4. CASE HandleSignRound2Submit(c) /\ ~Refuse(c)
    <2>. DEFINE s == Head(toServer[c]).session
                shares == [round2_shares[s] EXCEPT ![c[1]] = Head(toServer[c]).share]
    <2>1. /\ Reads(c, "SignRound2Submit")
          /\ UNCHANGED toClient \/ FinishSignRound2(s, shares)
          /\ UNCHANGED <<joined, round1_commitments>>
        BY <1>4 DEF HandleSignRound2Submit
    <2>2. s \in Sessions
        BY <2>1, OnceTypes, WebReadsFacts, ClientMsgFacts
    <2>3. signing_package[s] # NoPackage => signing_package[s] \in SigningPackage
        BY <2>2 DEF TypeInv, TypeOK, ServerTypeOK, SigningPackage
    <2>. HIDE DEF s, shares
    <2>4. StillAnswer
        <3>1. CASE UNCHANGED toClient
            BY <3>1 DEF StillAnswer
        <3>2. CASE FinishSignRound2(s, shares)
            BY <2>3, <3>2, StillBroadcast DEF FinishSignRound2, Aggregates
        <3>. QED BY <2>1, <3>1, <3>2
    <2>. QED BY <1>0, <2>1, <2>4
<1>5. CASE HandleSignDisconnect(c)
    <2>. DEFINE left == {s \in Sessions : IsParticipant(c, s)}
                aborted == {s \in left : state[s] \in {"Round1", "Round2"}}
                msgs == [p \in Participants |->
                            [i \in 1..Cardinality(aborted) |-> [type |-> "SessionAborted"]]]
    <2>1. /\ joined' = [s \in Sessions |->
                         IF s \in left THEN [joined[s] EXCEPT ![c[1]] = 0] ELSE joined[s]]
          /\ toClient' = Sent(AllBut(c), msgs)
          /\ UNCHANGED round1_commitments
          /\ Reads(c, "Close") /\ c[1] \in Participants
        BY <1>5 DEF HandleSignDisconnect, Broadcast, Conns, roundVars
    <2>2. \A s \in Sessions, p \in Participants : joined'[s][p] \in {joined[s][p], 0}
        BY <2>1, OnceTypes
    <2>3. Cardinality(aborted) \in Nat
        BY WebSessionsAssumption, FS_Subset, FS_CardinalityType
    <2>4. \A n \in Nat : \A S : [type |-> "SessionAborted"] \in S =>
            [i \in 1..n |-> [type |-> "SessionAborted"]] \in Seq(S)
        BY IsASeq
    <2>5. [i \in 1..Cardinality(aborted) |-> [type |-> "SessionAborted"]] \in Seq(Still)
        BY <2>3, <2>4
    <2>6. StillAnswer
        BY <2>1, <2>5 DEF StillAnswer
    <2>. QED BY <1>0, <2>1, <2>2, <2>6
<1>. QED BY <1>1, <1>2, <1>3, <1>4, <1>5 DEF StillHandler, ServerStep

\* A message is read and nothing is sent.
LEMMA HandlerFrame ==
    ASSUME TypeInv, OnceInv, NEW c \in Conns, NEW type, Reads(c, type), UNCHANGED clientVars
    PROVE  /\ NoneSent(AskJoin)
           /\ UNCHANGED <<joins, gen>>
           /\ \A d \in Conns : toServer'[d] \in Seq(FirstDrawn)
           /\ (\A p \in Participants : toClient'[p] \in Seq(FirstPackage)) => PagesFirst'
<1>1. NoneSent(AskJoin)
    BY OnceTypes, ReadsQueued
<1>2. \A d \in Conns : toServer'[d] \in Seq(FirstDrawn)
    BY OnceTypes, WebReadsFacts DEF OnceInv, ServerFirst
<1>. QED BY <1>1, <1>2 DEF OnceInv, PagesFirst, clientVars, clickVars, history

LEMMA StillHandlerOnce ==
    ASSUME TypeInv, OnceInv, NEW c \in Conns, StillHandler(c)
    PROVE  OnceInv'
<1>1. /\ StillAnswer
      /\ \E type : Reads(c, type)
      /\ UNCHANGED <<round1_commitments, clientVars>>
      /\ \A s \in Sessions, p \in Participants : joined'[s][p] \in {joined[s][p], 0}
    BY StillHandlerFacts
<1>2. /\ NoneCame(Start1)
      /\ \A p \in Participants : toClient'[p] \in Seq(FirstPackage)
    BY <1>1, StillAnswerFacts DEF OnceInv, PagesFirst
<1>3. /\ NoneSent(AskJoin)
      /\ UNCHANGED <<joins, gen>>
      /\ \A d \in Conns : toServer'[d] \in Seq(FirstDrawn)
      /\ PagesFirst'
    BY <1>1, <1>2, HandlerFrame
<1>4. JoinOnce' /\ JoinsFirst' /\ DrawOnce'
    BY <1>1, <1>2, <1>3, JoinOnceKept, JoinsFirstKept, DrawOnceKept DEF OnceInv
<1>5. ServerFirst'
    BY <1>1, <1>3 DEF OnceInv, ServerFirst
<1>. QED BY <1>3, <1>4, <1>5 DEF OnceInv

\* A message is sent to the participants of a session.
LEMMA RoundMessages ==
    ASSUME TypeInv, NEW conn, NEW msgs \in [Participants -> Seq(ServerMsg)],
           toClient' = Sent(conn, msgs)
    PROVE  /\ (\A p \in Participants : Free(msgs[p], Start1)) => NoneCame(Start1)
           /\ \A p \in Participants :
                 Free(toClient[p], Start1) /\ Single(msgs[p], Start1) => Single(toClient'[p], Start1)
           /\ \A p \in Participants :
                 toClient[p] \in Seq(FirstPackage) /\ msgs[p] \in Seq(FirstPackage)
                    => toClient'[p] \in Seq(FirstPackage)
BY OnceTypes, SentQueued, WebSentFacts

\* The last join of all is followed by SignReadyRound1, the first one.
LEMMA JoinHandlerOnce ==
    ASSUME TypeInv, OnceInv, NEW c \in Conns, HandleJoinSign(c), UNCHANGED clientVars
    PROVE  OnceInv'
<1>. DEFINE s == Head(toServer[c]).session
            q == c[1]
            msgs == ToAll([type |-> "SignReadyRound1"])
<1>1. /\ Reads(c, "JoinSignSession") /\ q \in Participants
      /\ joined' = [joined EXCEPT ![s][q] = c[2]]
      /\ UNCHANGED round1_commitments
      /\ \/ UNCHANGED toClient
         \/ AllOf(Present(joined'[s])) /\ toClient' = Sent(joined'[s], msgs)
    BY DEF HandleJoinSign, StartSignRound1, Broadcast, Conns, roundVars
<1>2. s \in Sessions
    BY <1>1, OnceTypes, WebReadsFacts, ClientMsgFacts
<1>3. /\ NoneSent(AskJoin)
      /\ UNCHANGED <<joins, gen>>
      /\ \A d \in Conns : toServer'[d] \in Seq(FirstDrawn)
      /\ (\A p \in Participants : toClient'[p] \in Seq(FirstPackage)) => PagesFirst'
    BY <1>1, HandlerFrame
<1>4. /\ msgs \in [Participants -> Seq(ServerMsg)]
      /\ \A p \in Participants : Single(msgs[p], Start1) /\ msgs[p] \in Seq(FirstPackage)
    <2>. DEFINE m == [type |-> "SignReadyRound1"]
    <2>1. m \in ServerMsg /\ m \in FirstPackage
        BY ServerMsgFacts, FirstFacts
    <2>2. \A p \in Participants : msgs[p] = <<m>>
        BY DEF ToAll
    <2>3. \A p \in Participants :
            msgs[p] \in Seq(ServerMsg) /\ msgs[p] \in Seq(FirstPackage)
        BY <2>1, <2>2, FewMessages
    <2>4. Single(<<m>>, Start1)
        BY FewQueued
    <2>. QED BY <2>2, <2>3, <2>4 DEF ToAll
<1>. HIDE DEF msgs
<1>5. /\ \A p \in Participants : Free(toClient[p], Start1) => Single(toClient'[p], Start1)
      /\ \A p \in Participants : toClient'[p] \in Seq(FirstPackage)
    <2>1. CASE UNCHANGED toClient
        BY <2>1, FreeIsSingle DEF OnceInv, PagesFirst
    <2>2. CASE toClient' = Sent(joined'[s], msgs)
        BY <1>4, <2>2, RoundMessages DEF OnceInv, PagesFirst
    <2>. QED BY <1>1, <2>1, <2>2
<1>6. ~JoinSpent(q) /\ JoinSpent(q)'
    <2>1. ~Unsent(q, AskJoin) /\ Unsent(q, AskJoin)'
        BY <1>1, OnceTypes, ReadsQueued DEF OnceInv, JoinOnce, AskJoin
    <2>. QED BY <1>1, <1>3, <2>1 DEF JoinSpent, OnceInv, JoinOnce
<1>7. \A p \in Participants : Free(toClient[p], Start1) /\ gen[p] = 0
    BY <1>1, <1>6 DEF OnceInv, JoinsFirst
<1>. HIDE DEF s
<1>8. JoinOnce'
    <2>1. \A p \in Participants : ~JoinSpent(p)' => ~JoinSpent(p) /\ p # q
        BY <1>3, <1>6, JoinsKept
    <2>2. \A p \in Participants : p # q => \A t \in Sessions : joined'[t][p] = joined[t][p]
        BY <1>1, <1>2, OnceTypes
    <2>. QED BY <1>3, <2>1, <2>2, NoneSentKeeps DEF OnceInv, JoinOnce
<1>9. JoinsFirst'
    <2>1. CASE UNCHANGED toClient
        BY <1>3, <1>7, <2>1 DEF JoinsFirst
    <2>2. CASE AllOf(Present(joined'[s]))
        <3>1. Present(joined'[s]) = Participants
            BY <2>2, EverybodyThere DEF AllOf, Present
        <3>2. \A p \in Participants : joined'[s][p] # 0
            BY <3>1 DEF Present
        <3>. QED BY <1>2, <1>8, <3>2 DEF JoinOnce, JoinsFirst
    <2>. QED BY <1>1, <2>1, <2>2
<1>10. DrawOnce'
    BY <1>3, <1>5, <1>7 DEF DrawOnce
<1>11. ServerFirst' /\ PagesFirst'
    BY <1>1, <1>3, <1>5 DEF OnceInv, ServerFirst
<1>. QED BY <1>8, <1>9, <1>10, <1>11 DEF OnceInv

\* All packages are of everybody's first commitments.
LEMMA Round1HandlerOnce ==
    ASSUME TypeInv, OnceInv, NEW c \in Conns, HandleSignRound1Submit(c), ~Refuse(c),
           UNCHANGED clientVars
    PROVE  OnceInv'
<1>. DEFINE s == Head(toServer[c]).session
            g == Head(toServer[c]).gen
            q == c[1]
            m == [type |-> "SignSigningPackage", pkg |-> round1_commitments'[s]]
            msgs == ToAll(m)
<1>1. /\ Reads(c, "SignRound1Submit") /\ q \in Participants
      /\ round1_commitments' = [round1_commitments EXCEPT ![s][q] = g]
      /\ UNCHANGED joined
      /\ \/ UNCHANGED toClient
         \/ AllOf(Present(round1_commitments'[s])) /\ toClient' = Sent(joined[s], msgs)
    BY DEF HandleSignRound1Submit, FinishSignRound1, Broadcast, Conns
<1>2. s \in Sessions /\ g = 1
    <2>1. /\ Head(toServer[c]) \in ClientMsg /\ Head(toServer[c]).type = "SignRound1Submit"
          /\ Head(toServer[c]) \in FirstDrawn
        BY <1>1, OnceTypes, WebReadsFacts DEF OnceInv, ServerFirst
    <2>. QED BY <2>1, ClientMsgFacts DEF FirstDrawn
<1>3. /\ NoneSent(AskJoin)
      /\ UNCHANGED <<joins, gen>>
      /\ \A d \in Conns : toServer'[d] \in Seq(FirstDrawn)
      /\ (\A p \in Participants : toClient'[p] \in Seq(FirstPackage)) => PagesFirst'
    BY <1>1, HandlerFrame
<1>4. ServerFirst' /\ round1_commitments'[s] \in Packages
    <2>1. \A t \in Sessions, p \in Participants :
            round1_commitments'[t][p] = IF t = s /\ p = q THEN g ELSE round1_commitments[t][p]
        BY <1>1, <1>2, OnceTypes DEF Packages
    <2>2. round1_commitments'[s] \in Packages
        BY <1>1, <1>2, OnceTypes, SignPackagesFacts
    <2>. QED BY <1>2, <1>3, <2>1, <2>2 DEF OnceInv, ServerFirst
<1>5. AllOf(Present(round1_commitments'[s])) =>
        round1_commitments'[s] \in SigningPackage /\ round1_commitments'[s] = Ones
    <2>1. SUFFICES ASSUME AllOf(Present(round1_commitments'[s]))
                   PROVE  /\ round1_commitments'[s] \in SigningPackage
                          /\ round1_commitments'[s] = Ones
        OBVIOUS
    <2>2. /\ Present(round1_commitments'[s]) = Participants
          /\ round1_commitments'[s] \in SigningPackage
        BY <1>4, <2>1, SignPackagesFacts
    <2>3. \A p \in Participants : round1_commitments'[s][p] = 1
        BY <1>2, <1>4, <2>2 DEF Present, ServerFirst
    <2>. QED BY <1>4, <2>2, <2>3 DEF Packages, Ones
<1>6. AllOf(Present(round1_commitments'[s])) =>
        /\ msgs \in [Participants -> Seq(ServerMsg)]
        /\ \A p \in Participants : Free(msgs[p], Start1) /\ msgs[p] \in Seq(FirstPackage)
    <2>. SUFFICES ASSUME AllOf(Present(round1_commitments'[s]))
                  PROVE  /\ msgs \in [Participants -> Seq(ServerMsg)]
                         /\ \A p \in Participants :
                               Free(msgs[p], Start1) /\ msgs[p] \in Seq(FirstPackage)
        OBVIOUS
    <2>1. m \in ServerMsg /\ m.type = "SignSigningPackage" /\ m.pkg = Ones
        BY <1>5, ServerMsgFacts
    <2>2. \A p \in Participants : msgs[p] = <<m>>
        BY DEF ToAll
    <2>3. msgs = [p \in Participants |-> <<m>>]
        BY DEF ToAll
    <2>. HIDE DEF m, msgs
    <2>4. m \in FirstPackage
        BY <2>1 DEF FirstPackage
    <2>5. Free(<<m>>, Start1)
        BY <2>1, FewQueued DEF Start1
    <2>6. <<m>> \in Seq(ServerMsg) /\ <<m>> \in Seq(FirstPackage)
        BY <2>1, <2>4, FewMessages
    <2>. QED BY <2>2, <2>3, <2>5, <2>6
<1>. HIDE DEF msgs
<1>7. /\ NoneCame(Start1)
      /\ \A p \in Participants : toClient'[p] \in Seq(FirstPackage)
    <2>1. CASE UNCHANGED toClient
        BY <2>1, SilentStep DEF OnceInv, PagesFirst
    <2>2. CASE AllOf(Present(round1_commitments'[s])) /\ toClient' = Sent(joined[s], msgs)
        BY <1>6, <2>2, RoundMessages DEF OnceInv, PagesFirst
    <2>. QED BY <1>1, <2>1, <2>2
<1>8. JoinOnce' /\ JoinsFirst' /\ DrawOnce'
    BY <1>1, <1>3, <1>7, JoinOnceKept, JoinsFirstKept, DrawOnceKept DEF OnceInv
<1>. QED BY <1>3, <1>4, <1>7, <1>8 DEF OnceInv

LEMMA ServerStepOnce ==
    ASSUME TypeInv, OnceInv, NEW c \in Conns, ServerStep(c)
    PROVE  OnceInv'
BY StillHandlerOnce, JoinHandlerOnce, Round1HandlerOnce DEF StillHandler, ServerStep

-----------------------------------------------------------------------------
(***************************************************************************)
(* The pages.                                                              *)
(***************************************************************************)
APage(p) == PageStep(p) \/ UserStep(p) \/ Disconnect(p) \/ Reload(p)

\* What a page sends, but for its join and its commitments.
LEMMA PageAsks ==
    ASSUME TypeInv, NEW p \in Participants, APage(p),
           \A s \in Sessions : ~Join(p, s), ~OnSignReadyRound1(p)
    PROVE  \/ UNCHANGED toServer
           \/ OpenSocket(p)
           \/ CloseSocket(p)
           \/ \E m \in ClientMsg :
                 m.type \notin {"JoinSignSession", "SignRound1Submit"} /\ Sends(p, m)
<1>. USE ClientMsgFacts
<1>1. CASE OnSignSigningPackage(p)
    <2>1. /\ Head(toClient[p]) \in ServerMsg /\ Head(toClient[p]).type = "SignSigningPackage"
          /\ sessionIdRef[p] \in Sessions
        BY <1>1, OnceTypes, WebReceivesFacts, RoundMessage DEF OnSignSigningPackage, RoundTypes
    <2>2. Head(toClient[p]).pkg \in SigningPackage
        BY <2>1, ServerMsgFacts
    <2>. QED BY <1>1, <2>1, <2>2 DEF OnSignSigningPackage
<1>2. CASE PageStep(p) /\ ~OnSignSigningPackage(p)
    BY <1>2
       DEF PageStep, OnChallenge, AnswersChallenge, OnLoginOk, OnSignSessionCreated,
           OnPendingSessions, OnNewSession, OnSessionAborted, OnError, OnSignatureReady, ListPending
<1>3. CASE UserStep(p)
    BY <1>3 DEF UserStep, Connect, Announce, Refresh, ListPending
<1>4. CASE Disconnect(p) \/ Reload(p)
    BY <1>4 DEF Disconnect, Reload
<1>. QED BY <1>1, <1>2, <1>3, <1>4 DEF APage

LEMMA PageReads ==
    ASSUME NEW p \in Participants, APage(p)
    PROVE  \/ UNCHANGED toClient
           \/ CloseSocket(p)
           \/ \E type : Receives(p, type)
<1>1. CASE PageStep(p)
    BY <1>1
       DEF PageStep, OnChallenge, AnswersChallenge, OnLoginOk, OnSignSessionCreated,
           OnPendingSessions, OnNewSession, OnSessionAborted, OnError, OnSignReadyRound1,
           OnSignSigningPackage, OnSignatureReady
<1>2. CASE UserStep(p)
    BY <1>2 DEF UserStep, Connect, OpenSocket, Announce, Join, Refresh, Acts
<1>3. CASE Disconnect(p) \/ Reload(p)
    BY <1>3 DEF Disconnect, Reload
<1>. QED BY <1>1, <1>2, <1>3 DEF APage

\* No messages come.
LEMMA PageQueues ==
    ASSUME TypeInv, NEW p \in Participants, APage(p)
    PROVE  /\ NoneCame(Start1)
           /\ \A q \in Participants :
                 toClient[q] \in Seq(FirstPackage) => toClient'[q] \in Seq(FirstPackage)
<1>1. Queues(ClientMsg, ServerMsg) /\ SocketsTypeOK /\ Unopened
      /\ [type |-> "Close"] \in ClientMsg /\ "Close" \notin Start1
    BY OnceTypes, ClientMsgFacts DEF TypeInv, Start1
<1>2. CASE UNCHANGED toClient
    BY <1>2, SilentStep
<1>3. CASE CloseSocket(p)
    <2>1. NoneCame(Start1)
        BY <1>1, <1>3, CloseQueued
    <2>2. \A q \in Participants : toClient'[q] \in {toClient[q], <<>>}
        BY <1>1, <1>3, CloseFacts
    <2>. QED BY <2>1, <2>2, EmptySeq
<1>4. CASE \E type : Receives(p, type)
    <2>1. PICK type : Receives(p, type)
        BY <1>4
    <2>. QED BY <1>1, <2>1, ReceivesQueued, WebReceivesFacts
<1>. QED BY <1>2, <1>3, <1>4, PageReads

LEMMA PageSendsFirst ==
    ASSUME TypeInv, ServerFirst, NEW p \in Participants, UNCHANGED round1_commitments,
           \/ UNCHANGED toServer
           \/ OpenSocket(p)
           \/ CloseSocket(p)
           \/ \E m \in ClientMsg : m \in FirstDrawn /\ Sends(p, m)
    PROVE  ServerFirst'
<1>1. Queues(ClientMsg, ServerMsg) /\ SocketsTypeOK /\ Unopened
      /\ [type |-> "Close"] \in ClientMsg /\ [type |-> "RequestChallenge"] \in ClientMsg
      /\ [type |-> "Close"] \in FirstDrawn /\ [type |-> "RequestChallenge"] \in FirstDrawn
    BY OnceTypes, ClientMsgFacts, FirstFacts DEF TypeInv
<1>2. CASE UNCHANGED toServer
    BY <1>2 DEF ServerFirst
<1>3. CASE OpenSocket(p)
    BY <1>1, <1>3, OpenFacts DEF ServerFirst
<1>4. CASE CloseSocket(p)
    BY <1>1, <1>4, CloseFacts DEF ServerFirst
<1>5. ASSUME NEW m \in ClientMsg, m \in FirstDrawn, Sends(p, m) PROVE ServerFirst'
    BY <1>1, <1>5, WebSendsFacts DEF ServerFirst
<1>. QED BY <1>2, <1>3, <1>4, <1>5

LEMMA PageMemory ==
    ASSUME TypeInv, PagesFirst, NEW p \in Participants, APage(p),
           OnSignReadyRound1(p) => gen[p] = 0
    PROVE  PagesFirst'
<1>1. \A q \in Participants : toClient'[q] \in Seq(FirstPackage)
    BY PageQueues DEF PagesFirst
<1>2. /\ nonces \in [Participants -> Nat] /\ gen \in [Participants -> Nat]
      /\ signed \in [Participants -> SUBSET [nonces : Generation, pkg : SigningPackage]]
    BY OnceTypes
<1>3. \A q \in Participants :
        nonces'[q] \in {0, 1} /\ \A a \in signed'[q] : a = [nonces |-> 1, pkg |-> Ones]
    <2>1. CASE OnSignReadyRound1(p)
        BY <1>2, <2>1 DEF OnSignReadyRound1, PagesFirst
    <2>2. CASE OnSignSigningPackage(p)
        <3>1. Head(toClient[p]) \in FirstPackage /\ Head(toClient[p]).type = "SignSigningPackage"
            BY <2>2, OnceTypes, WebReceivesFacts DEF OnSignSigningPackage, PagesFirst
        <3>2. Head(toClient[p]).pkg = Ones
            BY <3>1 DEF FirstPackage
        <3>3. nonces[p] # 0 => nonces[p] = 1
            BY DEF PagesFirst
        <3> DEFINE one == [nonces |-> 1, pkg |-> Ones]
        <3>4. UNCHANGED nonces
            BY <2>2 DEF OnSignSigningPackage
        <3>5. \/ UNCHANGED signed
              \/ signed' = [signed EXCEPT ![p] = @ \cup {one}]
            BY <2>2, <3>2, <3>3 DEF OnSignSigningPackage
        <3> HIDE DEF one
        <3>6. \A q \in Participants : \A a \in signed[q] : a = one
            BY DEF PagesFirst, one
        <3>7. \A q \in Participants : \A a \in signed'[q] : a = one
            <4>1. CASE UNCHANGED signed
                BY <4>1, <3>6
            <4>2. CASE signed' = [signed EXCEPT ![p] = @ \cup {one}]
                BY <4>2, <3>6, <1>2
            <4>. QED BY <3>5, <4>1, <4>2
        <3>. QED BY <3>4, <3>7 DEF PagesFirst, one
    <2>3. CASE Reload(p)
        BY <1>2, <2>3 DEF Reload, PagesFirst, history
    <2>4. CASE UNCHANGED <<nonces, signed>>
        BY <2>4 DEF PagesFirst
    <2>5. \/ OnSignReadyRound1(p) \/ OnSignSigningPackage(p) \/ Reload(p)
          \/ UNCHANGED <<nonces, signed>>
        BY DEF APage, PageStep, UserStep, OnChallenge, OnLoginOk, OnSignSessionCreated,
               OnPendingSessions, OnNewSession, OnSessionAborted, OnError, OnSignatureReady,
               Connect, Announce, Join, Refresh, Disconnect, clientVars, history
    <2>. QED BY <2>1, <2>2, <2>3, <2>4, <2>5
<1>. QED BY <1>1, <1>3 DEF PagesFirst

LEMMA PlainPageOnce ==
    ASSUME TypeInv, OnceInv, NEW p \in Participants, APage(p), UNCHANGED sessionVars,
           \A s \in Sessions : ~Join(p, s), ~OnSignReadyRound1(p)
    PROVE  OnceInv'
<1>1. UNCHANGED <<joined, round1_commitments, joins, gen>>
    BY DEF sessionVars, roundVars, APage, PageStep, UserStep, OnChallenge, OnLoginOk,
           OnSignSessionCreated, OnPendingSessions, OnNewSession, OnSessionAborted, OnError,
           OnSignSigningPackage, OnSignatureReady, Connect, Announce, Refresh, Disconnect, Reload,
           clientVars, clickVars, history
<1>2. NoneCame(Start1) /\ PagesFirst'
    BY PageQueues, PageMemory DEF OnceInv
<1>3. \/ UNCHANGED toServer
      \/ OpenSocket(p)
      \/ CloseSocket(p)
      \/ \E m \in ClientMsg :
            m.type \notin {"JoinSignSession", "SignRound1Submit"} /\ Sends(p, m)
    BY PageAsks
<1>4. ServerFirst'
    BY <1>1, <1>3, PageSendsFirst, FirstFacts DEF OnceInv
<1>5. NoneSent(AskJoin)
    <2>1. /\ "Close" \notin AskJoin /\ "RequestChallenge" \notin AskJoin
          /\ Queues(ClientMsg, ServerMsg) /\ SocketsTypeOK /\ [type |-> "Close"] \in ClientMsg
        BY OnceTypes, ClientMsgFacts DEF AskJoin
    <2>2. CASE UNCHANGED toServer
        BY <2>2, SilentStep
    <2>3. CASE OpenSocket(p)
        BY <2>1, <2>3, OpenQueued
    <2>4. CASE CloseSocket(p)
        BY <2>1, <2>4, CloseQueued
    <2>5. ASSUME NEW m \in ClientMsg, Sends(p, m), m.type # "JoinSignSession"
          PROVE  NoneSent(AskJoin)
        <3>1. m.type \notin AskJoin
            BY <2>5 DEF AskJoin
        <3>. QED BY <2>1, <2>5, <3>1, SendsQueued
    <2>. QED BY <1>3, <2>2, <2>3, <2>4, <2>5
<1>6. JoinOnce' /\ JoinsFirst' /\ DrawOnce'
    BY <1>1, <1>2, <1>5, JoinOnceKept, JoinsFirstKept, DrawOnceKept DEF OnceInv
<1>. QED BY <1>2, <1>4, <1>6 DEF OnceInv

\* A first join: nobody has been told to draw yet.
LEMMA JoinOnceStep ==
    ASSUME TypeInv, OnceInv, NEW p \in Participants, NEW s \in Sessions, Join(p, s),
           UNCHANGED sessionVars, joins'[p] <= 1
    PROVE  OnceInv'
<1>. DEFINE m == [type |-> "JoinSignSession", session |-> s]
<1>1. /\ UNCHANGED <<joined, round1_commitments, gen, toClient>>
      /\ Sends(p, m) /\ APage(p)
      /\ joins' = [joins EXCEPT ![p] = joins[p] + 1]
    BY DEF Join, Acts, sessionVars, roundVars, history, APage, UserStep
<1>2. joins[p] = 0 /\ joins'[p] = 1 /\ \A q \in Participants : q # p => joins'[q] = joins[q]
    BY <1>1, OnceTypes
<1>3. m \in ClientMsg /\ m.type = "JoinSignSession"
    BY ClientMsgFacts
<1>4. ~OnSignReadyRound1(p)
    <2>1. OnSignReadyRound1(p) => gen'[p] = gen[p] + 1
        BY OnceTypes DEF OnSignReadyRound1
    <2>. QED BY <1>1, <2>1, OnceTypes
<1>. HIDE DEF m
<1>5. /\ \A q \in Participants : q # p =>
            (Unsent(q, AskJoin) => Unsent(q, AskJoin)') /\ (Once(q, AskJoin) => Once(q, AskJoin)')
      /\ Unsent(p, AskJoin) => Once(p, AskJoin)'
    BY <1>1, <1>3, OnceTypes, SendsQueued
<1>6. NoneCame(Start1) /\ PagesFirst' /\ ServerFirst'
    BY <1>1, <1>3, <1>4, PageQueues, PageMemory, PageSendsFirst, FirstFacts DEF OnceInv
<1>7. ~JoinSpent(p) /\ \A q \in Participants : q # p => (JoinSpent(q) => JoinSpent(q)')
    BY <1>2, <1>5 DEF JoinSpent
<1>8. JoinOnce'
    BY <1>1, <1>2, <1>5, <1>7 DEF OnceInv, JoinOnce
<1>9. JoinsFirst' /\ DrawOnce'
    BY <1>1, <1>6, <1>7, DrawOnceKept DEF OnceInv, JoinsFirst, NoneCame, NoneNew
<1>. QED BY <1>6, <1>8, <1>9 DEF OnceInv

\* A page draws its first nonces, when everybody has joined.
LEMMA DrawOnceStep ==
    ASSUME TypeInv, OnceInv, NEW p \in Participants, OnSignReadyRound1(p), UNCHANGED sessionVars,
           APage(p)
    PROVE  OnceInv'
<1>. DEFINE m == [type |-> "SignRound1Submit", session |-> sessionIdRef[p], gen |-> gen'[p]]
<1>1. /\ UNCHANGED <<joined, round1_commitments, joins>>
      /\ Sends(p, m) /\ Receives(p, "SignReadyRound1")
      /\ gen' = [gen EXCEPT ![p] = gen[p] + 1]
    BY DEF OnSignReadyRound1, sessionVars, roundVars, clickVars
<1>2. ~Free(toClient[p], Start1) /\ Free(toClient'[p], Start1)
    BY <1>1, OnceTypes, ReceivesQueued DEF Start1, OnceInv, DrawOnce
<1>3. gen[p] = 0 /\ gen'[p] = 1 /\ \A q \in Participants : q # p => gen'[q] = gen[q]
    BY <1>1, <1>2, OnceTypes DEF OnceInv, DrawOnce
<1>4. m \in ClientMsg /\ m.type = "SignRound1Submit" /\ m \in FirstDrawn
    <2>1. sessionIdRef[p] \in Sessions
        BY <1>1, RoundMessage DEF RoundTypes
    <2>2. gen'[p] \in Nat /\ gen'[p] # 0
        BY <1>3
    <2>3. m \in ClientMsg
        BY <2>1, <2>2, ClientMsgFacts
    <2>4. m.type = "SignRound1Submit" /\ m.gen = 1
        BY <1>3
    <2>. HIDE DEF m
    <2>. QED BY <2>3, <2>4 DEF FirstDrawn
<1>. HIDE DEF m
<1>5. NoneSent(AskJoin)
    BY <1>1, <1>4, OnceTypes, SendsQueued DEF AskJoin
<1>6. NoneCame(Start1) /\ PagesFirst' /\ ServerFirst'
    BY <1>1, <1>3, <1>4, PageQueues, PageMemory, PageSendsFirst DEF OnceInv
<1>7. JoinsFirst'
    <2>1. \A q \in Participants : JoinSpent(q)
        BY <1>2 DEF OnceInv, JoinsFirst
    <2>2. \A q \in Participants : JoinSpent(q)'
        BY <1>1, <1>5, <2>1, JoinsKept
    <2>. QED BY <2>2 DEF JoinsFirst
<1>8. DrawOnce'
    BY <1>2, <1>3, <1>6, FreeIsSingle DEF OnceInv, DrawOnce, NoneCame, NoneNew
<1>9. JoinOnce'
    BY <1>1, <1>5, JoinOnceKept DEF OnceInv
<1>. QED BY <1>6, <1>7, <1>8, <1>9 DEF OnceInv

-----------------------------------------------------------------------------
NoncesInv == TypeInv /\ (NobodyRejoined => OnceInv)

\* A join stays one.
LEMMA RejoinedStays ==
    ASSUME TypeInv, [Next]_vars, NobodyRejoined'
    PROVE  NobodyRejoined
<1>1. TypeInv'
    BY NextTypeInv
<1>2. joins' \in [Participants -> Nat] /\ joins \in [Participants -> Nat]
    BY <1>1, OnceTypes DEF TypeInv, TypeOK, ClientTypeOK
<1>3. CASE UNCHANGED joins
    BY <1>2, <1>3 DEF NobodyRejoined
<1>4. CASE \E p \in Participants, s \in Sessions : Join(p, s)
    <2>1. \A p \in Participants : joins[p] <= joins'[p]
        BY <1>2, <1>4 DEF Join
    <2>. QED BY <1>2, <2>1 DEF NobodyRejoined
<1>5. UNCHANGED joins \/ \E p \in Participants, s \in Sessions : Join(p, s)
    BY DEF Next, vars, ServerStep, PageStep, UserStep, OnChallenge, OnLoginOk,
           OnSignSessionCreated, OnPendingSessions, OnNewSession, OnSessionAborted, OnError,
           OnSignReadyRound1, OnSignSigningPackage, OnSignatureReady, Connect, Announce, Refresh,
           Disconnect, Reload, clientVars, clickVars
<1>. QED BY <1>3, <1>4, <1>5

LEMMA InitOnce == Init => NoncesInv
<1>. SUFFICES ASSUME Init PROVE NoncesInv
    OBVIOUS
<1>1. \A T : Free(<<>>, T) /\ Single(<<>>, T)
    BY EmptySeq DEF Free, Single
<1>2. \A T : \A p \in Participants :
        Unsent(p, T) /\ Once(p, T) /\ Free(toClient[p], T) /\ Single(toClient[p], T)
    BY <1>1 DEF Init, NetInit, Unsent, Once
<1>3. /\ \A s \in Sessions, p \in Participants :
            joined[s][p] = 0 /\ round1_commitments[s][p] = 0
      /\ \A p \in Participants : joins[p] = 0 /\ gen[p] = 0 /\ nonces[p] = 0 /\ signed[p] = {}
    BY DEF Init, ServerInit, ClientInit, NoPackages
<1>4. JoinOnce /\ JoinsFirst /\ DrawOnce
    BY <1>2, <1>3 DEF JoinOnce, JoinsFirst, DrawOnce
<1>5. ServerFirst /\ PagesFirst
    BY <1>3, EmptySeq DEF Init, NetInit, ServerFirst, PagesFirst
<1>. QED BY <1>4, <1>5, InitTypeInv DEF NoncesInv, OnceInv

LEMMA NextOnce == NoncesInv /\ [Next]_vars => NoncesInv'
<1>. SUFFICES ASSUME NoncesInv, [Next]_vars, NobodyRejoined' PROVE OnceInv'
    BY NextTypeInv DEF NoncesInv
<1>1. TypeInv /\ OnceInv
    BY RejoinedStays DEF NoncesInv
<1>2. CASE UNCHANGED vars
    <2>1. UNCHANGED <<toServer, toClient, joined, round1_commitments, joins, gen, nonces, signed>>
        BY <1>2 DEF vars, serverVars, sessionVars, roundVars, clientVars, clickVars, history
    <2>2. NoneSent(AskJoin) /\ NoneCame(Start1)
        BY <2>1, SilentStep
    <2>3. JoinOnce' /\ JoinsFirst' /\ DrawOnce'
        BY <1>1, <2>1, <2>2, JoinOnceKept, JoinsFirstKept, DrawOnceKept DEF OnceInv
    <2>. QED BY <1>1, <2>1, <2>3 DEF OnceInv, ServerFirst, PagesFirst
<1>3. ASSUME NEW c \in Conns, ServerStep(c) PROVE OnceInv'
    BY <1>1, <1>3, ServerStepOnce
<1>4. ASSUME NEW p \in Participants, APage(p), UNCHANGED sessionVars PROVE OnceInv'
    <2>1. ASSUME NEW s \in Sessions, Join(p, s) PROVE OnceInv'
        BY <1>1, <1>4, <2>1, JoinOnceStep DEF NobodyRejoined
    <2>2. CASE OnSignReadyRound1(p)
        BY <1>1, <1>4, <2>2, DrawOnceStep
    <2>. QED BY <1>1, <1>4, <2>1, <2>2, PlainPageOnce
<1>5. CASE Next
    <2>1. ASSUME NEW p \in Participants,
                 \/ PageStep(p) \/ UserStep(p)
                 \/ Disconnect(p) /\ UNCHANGED sessionVars
                 \/ Reload(p) /\ UNCHANGED sessionVars
          PROVE  OnceInv'
        <3>1. APage(p) /\ UNCHANGED sessionVars
            BY <2>1 DEF APage, PageStep, UserStep
        <3>. QED BY <1>4, <3>1
    <2>. QED BY <1>3, <1>5, <2>1 DEF Next
<1>. QED BY <1>2, <1>5

\* No page signs two packages with the same nonces, unless somebody joins a second
\* time: a page that keeps its nonces gets the same package again.
THEOREM WebNoncesSignOnce == Spec => []NoncesSignOnce
<1>1. NoncesInv => NoncesSignOnce
    BY DEF NoncesInv, OnceInv, PagesFirst, NoncesSignOnce
<1>. QED BY <1>1, InitOnce, NextOnce, PTL DEF Spec

-----------------------------------------------------------------------------
(***************************************************************************)
(* The signature.  While participants join once there is one package, of   *)
(* everybody's first nonces: whatever is aggregated later is the same.     *)
(***************************************************************************)
OnePackage ==
    \A s \in Sessions :
        signing_package[s] \in {NoPackage, Ones} /\ completed[s] \in {NoPackage, Ones}

SignatureInv == NoncesInv /\ (NobodyRejoined => OnePackage)

\* What a step does to the packages and signatures of the sessions.
PackageStep ==
    \A s \in Sessions :
        /\ \/ signing_package'[s] = signing_package[s]
           \/ /\ AllOf(Present(round1_commitments'[s]))
              /\ signing_package'[s] = round1_commitments'[s]
        /\ \/ completed'[s] = completed[s]
           \/ completed'[s] = signing_package[s] /\ signing_package[s] # NoPackage

LEMMA StepPackages ==
    ASSUME TypeOK, [Next]_vars
    PROVE  PackageStep
<1>1. /\ signing_package = [s \in Sessions |-> signing_package[s]]
      /\ completed = [s \in Sessions |-> completed[s]]
    BY DEF TypeOK, ServerTypeOK
<1>2. CASE UNCHANGED <<signing_package, completed>>
    BY <1>2 DEF PackageStep
<1>3. ASSUME NEW c \in Conns, HandleSignRound1Submit(c) PROVE PackageStep
    <2>. DEFINE s == Head(toServer[c]).session
    <2>1. /\ UNCHANGED completed
          /\ \/ UNCHANGED signing_package
             \/ /\ AllOf(Present(round1_commitments'[s]))
                /\ signing_package' = [signing_package EXCEPT ![s] = round1_commitments'[s]]
        BY <1>3 DEF HandleSignRound1Submit, Refuse, FinishSignRound1, serverVars, sessionVars,
                    roundVars
    <2>. HIDE DEF s
    <2>. QED BY <1>1, <2>1 DEF PackageStep
<1>4. ASSUME NEW c \in Conns, HandleSignRound2Submit(c) PROVE PackageStep
    <2>. DEFINE s == Head(toServer[c]).session
    <2>1. /\ UNCHANGED signing_package
          /\ \/ UNCHANGED completed
             \/ /\ signing_package[s] # NoPackage
                /\ completed' = [completed EXCEPT ![s] = signing_package[s]]
        BY <1>4 DEF HandleSignRound2Submit, Refuse, FinishSignRound2, Aggregates, serverVars,
                    sessionVars, roundVars
    <2>. HIDE DEF s
    <2>. QED BY <1>1, <2>1 DEF PackageStep
<1>5. \/ UNCHANGED <<signing_package, completed>>
      \/ \E c \in Conns : HandleSignRound1Submit(c) \/ HandleSignRound2Submit(c)
    BY DEF Next, vars, ServerStep, HandleRequestChallengeSign, HandleLoginSign, HandleAnnounceSign,
           HandleJoinSign, HandleListPendingSign, HandleSignDisconnect, PageStep, UserStep,
           serverVars, sessionVars, roundVars
<1>. QED BY <1>2, <1>3, <1>4, <1>5

\* All commitments are first ones, so a package of everybody is the one package.
LEMMA StepOnePackage ==
    ASSUME TypeInv, TypeInv', OnceInv', OnePackage, [Next]_vars
    PROVE  OnePackage'
<1>1. PackageStep
    BY StepPackages DEF TypeInv
<1>2. ASSUME NEW s \in Sessions, AllOf(Present(round1_commitments'[s]))
      PROVE  round1_commitments'[s] = Ones
    <2>1. round1_commitments'[s] \in Packages
        BY DEF TypeInv, TypeOK, ServerTypeOK
    <2>2. Present(round1_commitments'[s]) = Participants
        BY <1>2, <2>1, SignPackagesFacts
    <2>3. \A p \in Participants : round1_commitments'[s][p] = 1
        BY <2>2 DEF Present, OnceInv, ServerFirst
    <2>. QED BY <2>1, <2>3 DEF Packages, Ones
<1>3. \A s \in Sessions :
        signing_package'[s] \in {NoPackage, Ones} /\ completed'[s] \in {NoPackage, Ones}
    BY <1>1, <1>2 DEF PackageStep, OnePackage
<1>. QED BY <1>3 DEF OnePackage, Ones

LEMMA NextSignatureInv == SignatureInv /\ [Next]_vars => SignatureInv'
<1>. SUFFICES ASSUME SignatureInv, [Next]_vars, NobodyRejoined' PROVE OnePackage'
    BY NextOnce DEF SignatureInv
<1>1. TypeInv /\ NobodyRejoined /\ OnePackage
    BY RejoinedStays DEF SignatureInv, NoncesInv
<1>2. TypeInv' /\ OnceInv'
    BY NextOnce DEF SignatureInv, NoncesInv
<1>. QED BY <1>1, <1>2, StepOnePackage

\* A published signature is not replaced by another unless somebody joins a second
\* time: the session takes further commitments and shares, but all of the same package.
THEOREM WebSignatureStays == Spec => SignatureStays
<1>1. Init => SignatureInv
    BY InitOnce DEF Init, ServerInit, SignatureInv, OnePackage
<1>2. ASSUME SignatureInv, [Next]_vars, NobodyRejoined', NEW s \in Sessions,
             completed[s] # NoPackage
      PROVE  completed'[s] = completed[s]
    <2>1. TypeInv /\ OnePackage
        BY <1>2, RejoinedStays DEF SignatureInv, NoncesInv
    <2>2. PackageStep
        BY <1>2, <2>1, StepPackages DEF TypeInv
    <2>. QED BY <1>2, <2>1, <2>2 DEF OnePackage, PackageStep
<1>3. SignatureInv /\ [Next]_vars =>
        [NobodyRejoined' =>
           \A s \in Sessions : completed[s] # NoPackage => completed'[s] = completed[s]]_vars
    BY <1>2
<1>. QED BY <1>1, <1>3, NextSignatureInv, PTL DEF Spec, SignatureStays
=============================================================================
