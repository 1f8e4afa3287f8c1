---------------------------- MODULE WebDkgProofs ----------------------------
(***************************************************************************)
(* DKG sessions over the web, for any finite roster, any sessions, any     *)
(* number of sockets and joins, and whatever sockets are lost and pages    *)
(* reloaded:                                                               *)
(* I.   type correctness;                                                  *)
(* II.  the group key of a finalized session was derived by every          *)
(*      participant, and every session implements DkgOutcome;              *)
(* III. while nobody joins a second time the packages on their way to a    *)
(*      page are complete, and no two pages derive different keys;         *)
(* IV.  a page keeps its login while its socket is open, and its place in  *)
(*      a session while nobody joins a second time.                        *)
(***************************************************************************)
EXTENDS WebDkgCeremony, WebNetProofs
-----------------------------------------------------------------------------
(***************************************************************************)
(* I. A page sends what sessionIdRef holds, which is no session until it   *)
(* is set: that every message names a session is not a matter of types     *)
(* alone.  A page without session is in no session with its open socket,   *)
(* has not asked to be, and gets no messages of a round.                   *)
(***************************************************************************)
RoundTypes == {"ReadyRound1", "ReadyRound2", "Round2All"}
NotJoin == {m \in ClientMsg : m.type # "JoinDKGSession"}
NotRound == {m \in ServerMsg : m.type \notin RoundTypes}

JoinedOnOpened == \A s \in Sessions : \A p \in Participants : joined[s][p] <= socket[p]

NotInSession(p) == \A s \in Sessions : joined[s][p] # socket[p]

PageWithoutSession ==
    \A p \in Participants : sessionIdRef[p] = NoSession =>
        /\ sleeping[p] = <<>>
        /\ toClient[p] \in Seq(NotRound)
        /\ online[p] => toServer[Conn(p)] \in Seq(NotJoin) /\ NotInSession(p)

TypeInv ==
    /\ TypeOK
    /\ Unopened
    /\ JoinedOnOpened
    /\ PageWithoutSession

-----------------------------------------------------------------------------
(***************************************************************************)
(* The messages.                                                           *)
(***************************************************************************)

LEMMA WebPackagesFacts ==
    /\ NoPackages \in Packages
    /\ NoKey \in Packages
    /\ \A pkgs \in Packages, p \in Participants, g \in Nat : [pkgs EXCEPT ![p] = g] \in Packages
    /\ \A pkgs \in Packages, p \in Participants, g \in Nat :
          g # 0 => [pkgs EXCEPT ![p] = g] \in Key
BY DEF NoPackages, NoKey, Packages, Key

LEMMA ClientMsgFacts ==
    /\ \A t \in {"RequestChallenge", "Login", "AnnounceDKGSession", "ListPendingDKGSessions",
                 "Close"} : [type |-> t] \in ClientMsg /\ [type |-> t] \in NotJoin
    /\ \A s \in Sessions :
          /\ [type |-> "JoinDKGSession", session |-> s] \in ClientMsg
          /\ \A g \in Nat : g # 0 =>
                /\ [type |-> "Round1Submit", session |-> s, gen |-> g] \in ClientMsg
                /\ [type |-> "Round2Submit", session |-> s, gen |-> g] \in ClientMsg
          /\ \A vk \in Key : [type |-> "FinalizeSubmit", session |-> s, vk |-> vk] \in ClientMsg
    /\ \A m \in ClientMsg :
          /\ m.type \in {"JoinDKGSession", "Round1Submit", "Round2Submit", "FinalizeSubmit"}
                => m.session \in Sessions
          /\ m.type \in {"Round1Submit", "Round2Submit"} => m.gen \in Nat /\ m.gen # 0
          /\ m.type = "FinalizeSubmit" => m.vk \in Key
BY DEF ClientMsg, NotJoin, Generation

LEMMA ServerMsgFacts ==
    /\ \A t \in {"Challenge", "LoginOk", "ReadyRound1", "ReadyRound2", "Finalized",
                 "SessionAborted", "Error"} :
          /\ [type |-> t] \in ServerMsg
          /\ t \notin RoundTypes => [type |-> t] \in NotRound
    /\ \A s \in Sessions :
          \A t \in {"DKGSessionCreated", "NewDKGSession"} :
             /\ [type |-> t, session |-> s] \in ServerMsg
             /\ [type |-> t, session |-> s] \in NotRound
    /\ \A S \in SUBSET Sessions :
          /\ [type |-> "PendingDKGSessions", sessions |-> S] \in ServerMsg
          /\ [type |-> "PendingDKGSessions", sessions |-> S] \in NotRound
    /\ \A pkgs \in Packages : [type |-> "Round1All", pkgs |-> pkgs] \in ServerMsg
    /\ \A submits \in Seq(Submit) : [type |-> "Round2All", pkgs |-> submits] \in ServerMsg
    /\ \A m \in ServerMsg :
          /\ m.type \in {"DKGSessionCreated", "NewDKGSession"} => m.session \in Sessions
          /\ m.type = "PendingDKGSessions" => m.sessions \subseteq Sessions
          /\ m.type = "Round1All" => m.pkgs \in Packages
          /\ m.type \in RoundTypes => m \in Sleeper
BY DEF ServerMsg, NotRound, RoundTypes, Sleeper

LEMMA QueuesTyped == TypeOK => Queues(ClientMsg, ServerMsg) /\ SocketsTypeOK
BY DEF TypeOK, NetTypeOK, Queues

LEMMA UnchangedTypes ==
    /\ ServerTypeOK /\ UNCHANGED sessionVars => ServerTypeOK'
    /\ ClientTypeOK /\ UNCHANGED clientVars => ClientTypeOK'
BY DEF ServerTypeOK, sessionVars, ClientTypeOK, clientVars, pageVars, dkgState, clickVars, history

\* A participant's package is added to the lists of the others.
LEMMA DistributedFacts ==
    ASSUME NEW pkgs \in [Participants -> Seq(Submit)], NEW pkg \in Submit
    PROVE  Distributed(pkgs, pkg) \in [Participants -> Seq(Submit)]
BY QueueFacts DEF Distributed

-----------------------------------------------------------------------------
(***************************************************************************)
(* The coordinator.                                                        *)
(***************************************************************************)

\* A handler sends nothing, or well-typed messages that belong to a round only
\* where their page has a session.
LEMMA ServerSends ==
    ASSUME TypeInv, NEW c \in Conns, NEW type, Reads(c, type), SocketsTypeOK', JoinedOnOpened',
           UNCHANGED clientVars,
           \A p \in Participants : sessionIdRef[p] = NoSession /\ online[p] => NotInSession(p)',
           \/ UNCHANGED toClient
           \/ \E conn : \E msgs \in [Participants -> Seq(ServerMsg)] :
                 /\ toClient' = Sent(conn, msgs)
                 /\ \A p \in Participants :
                       sessionIdRef[p] = NoSession /\ online[p] /\ conn[p] = socket[p]
                          => msgs[p] \in Seq(NotRound)
    PROVE  NetTypeOK' /\ ClientTypeOK' /\ Unopened' /\ JoinedOnOpened' /\ PageWithoutSession'
<1>1. Queues(ClientMsg, ServerMsg) /\ SocketsTypeOK
    BY QueuesTyped DEF TypeInv
<1>2. toServer' \in [Conns -> Seq(ClientMsg)] /\ Unopened'
    BY <1>1, WebReadsFacts, ReadsOpened DEF TypeInv
<1>3. toClient' \in [Participants -> Seq(ServerMsg)]
    <2>1. CASE UNCHANGED toClient
        BY <1>1, <2>1 DEF Queues
    <2>2. ASSUME NEW conn, NEW msgs \in [Participants -> Seq(ServerMsg)], toClient' = Sent(conn, msgs)
          PROVE  toClient' \in [Participants -> Seq(ServerMsg)]
        BY <1>1, <2>2, WebSentFacts
    <2>. QED BY <2>1, <2>2
<1>4. ASSUME NEW p \in Participants, sessionIdRef'[p] = NoSession
      PROVE  /\ sleeping'[p] = <<>>
             /\ toClient'[p] \in Seq(NotRound)
             /\ online'[p] => toServer'[Conn(p)'] \in Seq(NotJoin) /\ NotInSession(p)'
    <2>1. /\ UNCHANGED <<socket, online, sleeping>> /\ sessionIdRef[p] = NoSession
          /\ Conn(p)' = Conn(p)
        BY <1>4 DEF Reads, clientVars, dkgState, Conn
    <2>2. sleeping[p] = <<>> /\ toClient[p] \in Seq(NotRound)
        BY <2>1 DEF TypeInv, PageWithoutSession
    <2>3. toClient'[p] \in Seq(NotRound)
        <3>1. CASE UNCHANGED toClient
            BY <2>2, <3>1
        <3>2. ASSUME NEW conn, NEW msgs \in [Participants -> Seq(ServerMsg)],
                     toClient' = Sent(conn, msgs),
                     online[p] /\ conn[p] = socket[p] => msgs[p] \in Seq(NotRound)
              PROVE  toClient'[p] \in Seq(NotRound)
            BY <1>1, <2>2, <3>2, WebSentFacts
        <3>. QED BY <2>1, <3>1, <3>2
    <2>4. online'[p] => toServer'[Conn(p)] \in Seq(NotJoin)
        BY <1>1, <2>1, ConnFacts, WebReadsFacts DEF TypeInv, PageWithoutSession
    <2>. QED BY <2>1, <2>2, <2>3, <2>4
<1>5. ClientTypeOK'
    BY UnchangedTypes DEF TypeInv, TypeOK
<1>. QED BY <1>2, <1>3, <1>4, <1>5 DEF NetTypeOK, PageWithoutSession

\* Of a handler that leaves the records of participants alone.
LEMMA JoinedUnchanged ==
    ASSUME TypeInv, NEW c \in Conns, NEW type, Reads(c, type), UNCHANGED joined
    PROVE  /\ JoinedOnOpened'
           /\ \A p \in Participants : sessionIdRef[p] = NoSession /\ online[p] => NotInSession(p)'
BY DEF Reads, TypeInv, JoinedOnOpened, PageWithoutSession, NotInSession

\* A reply is not a message of a round.
LEMMA ReplySends ==
    ASSUME NEW c \in Conns, NEW m \in ServerMsg, m \in NotRound, Reply(c, m)
    PROVE  \E conn : \E msgs \in [Participants -> Seq(ServerMsg)] :
              /\ toClient' = Sent(conn, msgs)
              /\ \A p \in Participants : msgs[p] \in Seq(NotRound)
<1>1. [p \in Participants |-> <<m>>] \in [Participants -> Seq(ServerMsg)]
    BY FewMessages
<1>2. <<m>> \in Seq(NotRound)
    BY FewMessages
<1>. QED BY <1>1, <1>2 DEF Reply, Broadcast

\* A message to the participants of a session reaches only pages with a session.
LEMMA MembersHaveSession ==
    ASSUME TypeInv, NEW s \in Sessions, NEW p \in Participants,
           sessionIdRef[p] = NoSession, online[p]
    PROVE  joined[s][p] # socket[p] /\ 0 # socket[p]
BY DEF TypeInv, PageWithoutSession, NotInSession, TypeOK, NetTypeOK, SocketsTypeOK

LEMMA RefuseStep ==
    ASSUME TypeInv, NEW c \in Conns, NEW type, Reads(c, type), Refuse(c), UNCHANGED clientVars
    PROVE  TypeInv'
<1>1. SocketsTypeOK' /\ UNCHANGED joined /\ ServerTypeOK'
    BY UnchangedTypes DEF Refuse, serverVars, sessionVars, Reads, SocketsTypeOK,
                          TypeInv, TypeOK, NetTypeOK
<1>2. \E conn : \E msgs \in [Participants -> Seq(ServerMsg)] :
          /\ toClient' = Sent(conn, msgs)
          /\ \A p \in Participants : msgs[p] \in Seq(NotRound)
    BY ReplySends, ServerMsgFacts DEF Refuse, RoundTypes
<1>3. NetTypeOK' /\ ClientTypeOK' /\ Unopened' /\ JoinedOnOpened' /\ PageWithoutSession'
    BY <1>1, <1>2, JoinedUnchanged, ServerSends
<1>. QED BY <1>1, <1>3 DEF TypeInv, TypeOK

LEMMA LoginSteps ==
    ASSUME TypeInv, NEW c \in Conns, HandleRequestChallengeDkg(c) \/ HandleLoginDkg(c),
           UNCHANGED clientVars
    PROVE  TypeInv'
<1>1. UNCHANGED joined /\ ServerTypeOK'
    BY UnchangedTypes DEF HandleRequestChallengeDkg, HandleLoginDkg, sessionVars, TypeInv, TypeOK
<1>2. PICK type : Reads(c, type)
    BY DEF HandleRequestChallengeDkg, HandleRequestChallenge, HandleLoginDkg, HandleLogin
<1>3. SocketsTypeOK'
    BY DEF HandleRequestChallengeDkg, HandleRequestChallenge, HandleLoginDkg, HandleLogin, Reads,
           TypeInv, TypeOK, NetTypeOK, SocketsTypeOK
<1>4. \E conn : \E msgs \in [Participants -> Seq(ServerMsg)] :
          /\ toClient' = Sent(conn, msgs)
          /\ \A p \in Participants : msgs[p] \in Seq(NotRound)
    BY ReplySends, ServerMsgFacts
       DEF HandleRequestChallengeDkg, HandleRequestChallenge, HandleLoginDkg, HandleLogin, RoundTypes
<1>5. NetTypeOK' /\ ClientTypeOK' /\ Unopened' /\ JoinedOnOpened' /\ PageWithoutSession'
    BY <1>1, <1>2, <1>3, <1>4, JoinedUnchanged, ServerSends
<1>. QED BY <1>1, <1>5 DEF TypeInv, TypeOK

\* The coordinator keeps its tables of sockets in every handler of a session.
LEMMA TablesUnchanged ==
    ASSUME TypeInv, NEW c \in Conns, NEW type, Reads(c, type), UNCHANGED <<challenged, logged_in>>
    PROVE  SocketsTypeOK'
BY DEF Reads, SocketsTypeOK, TypeInv, TypeOK, NetTypeOK

LEMMA AnnounceStep ==
    ASSUME TypeInv, NEW c \in Conns, HandleAnnounce(c), UNCHANGED clientVars
    PROVE  TypeInv'
<1>1. PICK s \in Sessions :
          /\ state' = [state EXCEPT ![s] = "Pending"]
          /\ Broadcast(AnnouncedTo(c), [p \in Participants |->
                <<[type |-> IF Conn(p) = c THEN "DKGSessionCreated" ELSE "NewDKGSession",
                   session |-> s]>>])
    BY DEF HandleAnnounce
<1>. DEFINE msgs == [p \in Participants |->
                <<[type |-> IF Conn(p) = c THEN "DKGSessionCreated" ELSE "NewDKGSession",
                   session |-> s]>>]
<1>2. \A p \in Participants : msgs[p] \in Seq(ServerMsg) /\ msgs[p] \in Seq(NotRound)
    BY ServerMsgFacts, FewMessages
<1>3. msgs \in [Participants -> Seq(ServerMsg)]
    BY <1>2
<1>4. SocketsTypeOK' /\ UNCHANGED joined /\ Reads(c, "AnnounceDKGSession")
    BY TablesUnchanged DEF HandleAnnounce
<1>5. ServerTypeOK'
    BY <1>1 DEF HandleAnnounce, ServerTypeOK, TypeInv, TypeOK
<1>6. toClient' = Sent(AnnouncedTo(c), msgs)
    BY <1>1 DEF Broadcast
<1>7. NetTypeOK' /\ ClientTypeOK' /\ Unopened' /\ JoinedOnOpened' /\ PageWithoutSession'
    <2>. HIDE DEF msgs
    <2>. QED BY <1>2, <1>3, <1>4, <1>6, JoinedUnchanged, ServerSends
<1>. QED BY <1>5, <1>7 DEF TypeInv, TypeOK

\* A join is what puts a page's open socket into a session; the page has asked
\* for it, so it has a session.
LEMMA JoinStep ==
    ASSUME TypeInv, NEW c \in Conns, HandleJoin(c), UNCHANGED clientVars
    PROVE  TypeInv'
<1>. DEFINE s == Head(toServer[c]).session
            msgs == ToAll([type |-> "ReadyRound1"])
<1>. USE DEF TypeInv, TypeOK
<1>1. Reads(c, "JoinDKGSession") /\ SocketsTypeOK' /\ UNCHANGED <<socket, online>>
    BY TablesUnchanged DEF HandleJoin, Reads
<1>2. /\ s \in Sessions
      /\ c[1] \in Participants /\ c[2] \in 1..MaxSockets /\ c[2] <= socket[c[1]]
      /\ \A S : toServer[c] \in Seq(S) => Head(toServer[c]) \in S
    BY <1>1, QueuesTyped, WebReadsFacts, ReadsOpened, ClientMsgFacts DEF Conns
<1>3. joined' = [joined EXCEPT ![s][c[1]] = c[2]]
    BY DEF HandleJoin
<1>4. ServerTypeOK'
    <2>1. joined' \in [Sessions -> [Participants -> 0..MaxSockets]]
        BY <1>2, <1>3, MaxSocketsAssumption DEF ServerTypeOK
    <2>2. /\ state' \in [Sessions -> {"none", "Pending", "Round1", "Round2", "Finalized", "Failed"}]
          /\ identified' \in [Sessions -> SUBSET Participants]
        <3>1. CASE StartDKGRound1(s, joined'[s])
            BY <1>2, <3>1 DEF StartDKGRound1, ServerTypeOK
        <3>2. CASE UNCHANGED state /\ identified' = [identified EXCEPT ![s] = identified[s] \ {c[1]}]
            BY <1>2, <3>2 DEF ServerTypeOK
        <3>. QED BY <3>1, <3>2 DEF HandleJoin
    <2>. QED BY <2>1, <2>2 DEF HandleJoin, ServerTypeOK
<1>5. JoinedOnOpened'
    BY <1>1, <1>2, <1>3 DEF JoinedOnOpened, ServerTypeOK
<1>6. ASSUME NEW p \in Participants, sessionIdRef[p] = NoSession, online[p]
      PROVE  NotInSession(p)'
    <2>1. NotInSession(p) /\ toServer[Conn(p)] \in Seq(NotJoin)
        BY <1>6 DEF PageWithoutSession
    <2>2. c # Conn(p)
        BY <1>1, <1>2, <2>1 DEF NotJoin, Reads
    <2>3. c[1] = p => c[2] # socket[p]
        BY <2>2 DEF Conn, Conns
    <2>. QED BY <1>1, <1>2, <1>3, <2>1, <2>3 DEF NotInSession, ServerTypeOK
<1>7. \/ UNCHANGED toClient
      \/ toClient' = Sent(joined'[s], msgs)
    BY <1>3 DEF HandleJoin, StartDKGRound1, Broadcast
<1>8. msgs \in [Participants -> Seq(ServerMsg)]
    BY ServerMsgFacts, FewMessages DEF ToAll
<1>9. \A p \in Participants :
        sessionIdRef[p] = NoSession /\ online[p] => joined'[s][p] # socket[p]
    BY <1>1, <1>2, <1>6 DEF NotInSession
<1>10. NetTypeOK' /\ ClientTypeOK' /\ Unopened' /\ JoinedOnOpened' /\ PageWithoutSession'
    <2>. HIDE DEF msgs, s
    <2>. QED BY <1>1, <1>5, <1>6, <1>7, <1>8, <1>9, ServerSends
<1>. QED BY <1>4, <1>10

LEMMA ListPendingStep ==
    ASSUME TypeInv, NEW c \in Conns, HandleListPending(c), UNCHANGED clientVars
    PROVE  TypeInv'
<1>. DEFINE m == [type |-> "PendingDKGSessions",
                  sessions |-> {s \in Sessions : state[s] \notin {"none", "Finalized", "Failed"}}]
<1>1. m \in ServerMsg /\ m \in NotRound
    BY ServerMsgFacts
<1>2. /\ Reads(c, "ListPendingDKGSessions") /\ SocketsTypeOK' /\ UNCHANGED joined
      /\ ServerTypeOK'
    BY TablesUnchanged, UnchangedTypes DEF HandleListPending, serverVars, sessionVars, TypeInv, TypeOK
<1>3. \E conn : \E msgs \in [Participants -> Seq(ServerMsg)] :
          /\ toClient' = Sent(conn, msgs)
          /\ \A p \in Participants : msgs[p] \in Seq(NotRound)
    <2>1. Reply(c, m)
        BY DEF HandleListPending
    <2>. HIDE DEF m
    <2>. QED BY <1>1, <2>1, ReplySends
<1>4. NetTypeOK' /\ ClientTypeOK' /\ Unopened' /\ JoinedOnOpened' /\ PageWithoutSession'
    BY <1>2, <1>3, JoinedUnchanged, ServerSends
<1>. QED BY <1>2, <1>4 DEF TypeInv, TypeOK

LEMMA Round1Step ==
    ASSUME TypeInv, NEW c \in Conns, HandleRound1Submit(c), UNCHANGED clientVars
    PROVE  TypeInv'
<1>. DEFINE s == Head(toServer[c]).session
            g == Head(toServer[c]).gen
            msgs == [p \in Participants |->
                        <<[type |-> "Round1All", pkgs |-> round1_packages'[s]],
                          [type |-> "ReadyRound2"]>>]
<1>1. Reads(c, "Round1Submit") /\ c[1] \in Participants
    BY DEF HandleRound1Submit, Conns
<1>2. CASE Refuse(c)
    BY <1>1, <1>2, RefuseStep
<1>3. CASE ~Refuse(c)
    <2>. USE DEF TypeInv, TypeOK
    <2>1. s \in Sessions /\ g \in Nat /\ g # 0
        BY <1>1, QueuesTyped, WebReadsFacts, ClientMsgFacts
    <2>2. /\ round1_packages' = [round1_packages EXCEPT ![s][c[1]] = g]
          /\ identified' = [identified EXCEPT ![s] = @ \cup {c[1]}]
          /\ UNCHANGED <<challenged, logged_in, joined, round2_packages, final_group_key,
                         finalized_uids, completed>>
          /\ UNCHANGED <<state, toClient>> \/ FinishDKGRound1(s, round1_packages'[s])
        BY <1>3 DEF HandleRound1Submit
    <2>3. round1_packages' \in [Sessions -> Packages]
        BY <1>1, <2>1, <2>2, WebPackagesFacts DEF ServerTypeOK
    <2>4. ServerTypeOK'
        BY <1>1, <2>1, <2>2, <2>3 DEF ServerTypeOK, FinishDKGRound1
    <2>5. SocketsTypeOK'
        BY <1>1, <2>2, TablesUnchanged
    <2>6. msgs \in [Participants -> Seq(ServerMsg)]
        <3>1. /\ [type |-> "Round1All", pkgs |-> round1_packages'[s]] \in ServerMsg
              /\ [type |-> "ReadyRound2"] \in ServerMsg
            BY <2>1, <2>3, ServerMsgFacts
        <3>. QED BY <3>1
    <2>7. UNCHANGED toClient \/ toClient' = Sent(joined[s], msgs)
        BY <2>2 DEF FinishDKGRound1, Broadcast
    <2>8. \A p \in Participants :
            sessionIdRef[p] = NoSession /\ online[p] => joined[s][p] # socket[p]
        BY <2>1, MembersHaveSession
    <2>9. NetTypeOK' /\ ClientTypeOK' /\ Unopened' /\ JoinedOnOpened' /\ PageWithoutSession'
        <3>. HIDE DEF msgs, s
        <3>. QED BY <1>1, <2>2, <2>5, <2>6, <2>7, <2>8, JoinedUnchanged, ServerSends
    <2>. QED BY <2>4, <2>9
<1>. QED BY <1>2, <1>3

LEMMA Round2Step ==
    ASSUME TypeInv, NEW c \in Conns, HandleRound2Submit(c), UNCHANGED clientVars
    PROVE  TypeInv'
<1>. DEFINE s == Head(toServer[c]).session
            pkg == [from |-> c[1], gen |-> Head(toServer[c]).gen]
            conn == [p \in Participants |-> IF p \in identified[s] THEN joined[s][p] ELSE 0]
            msgs == [p \in Participants |->
                        <<[type |-> "Round2All", pkgs |-> round2_packages'[s][p]]>>]
<1>1. Reads(c, "Round2Submit") /\ c[1] \in Participants
    BY DEF HandleRound2Submit, Conns
<1>2. CASE Refuse(c)
    BY <1>1, <1>2, RefuseStep
<1>3. CASE ~Refuse(c)
    <2>. USE DEF TypeInv, TypeOK
    <2>1. s \in Sessions /\ pkg \in Submit
        BY <1>1, QueuesTyped, WebReadsFacts, ClientMsgFacts DEF Submit, Generation
    <2>2. /\ round2_packages' = [round2_packages EXCEPT ![s] = Distributed(@, pkg)]
          /\ UNCHANGED <<challenged, logged_in, state, joined, identified, round1_packages,
                         final_group_key, finalized_uids, completed>>
          /\ UNCHANGED toClient \/ FinishDKGRound2(s, round2_packages'[s])
        BY <1>3 DEF HandleRound2Submit
    <2>3. round2_packages' \in [Sessions -> [Participants -> Seq(Submit)]]
        <3>1. Distributed(round2_packages[s], pkg) \in [Participants -> Seq(Submit)]
            BY <2>1, DistributedFacts DEF ServerTypeOK
        <3>. QED BY <2>1, <2>2, <3>1 DEF ServerTypeOK
    <2>4. ServerTypeOK'
        BY <2>2, <2>3 DEF ServerTypeOK
    <2>5. SocketsTypeOK'
        BY <1>1, <2>2, TablesUnchanged
    <2>6. msgs \in [Participants -> Seq(ServerMsg)]
        <3>1. \A p \in Participants :
                [type |-> "Round2All", pkgs |-> round2_packages'[s][p]] \in ServerMsg
            BY <2>1, <2>3, ServerMsgFacts
        <3>. QED BY <3>1
    <2>7. UNCHANGED toClient \/ toClient' = Sent(conn, msgs)
        BY <2>2 DEF FinishDKGRound2, Broadcast
    <2>8. \A p \in Participants :
            sessionIdRef[p] = NoSession /\ online[p] => conn[p] # socket[p]
        BY <2>1, MembersHaveSession
    <2>9. NetTypeOK' /\ ClientTypeOK' /\ Unopened' /\ JoinedOnOpened' /\ PageWithoutSession'
        <3>. HIDE DEF msgs, s, conn
        <3>. QED BY <1>1, <2>2, <2>5, <2>6, <2>7, <2>8, JoinedUnchanged, ServerSends
    <2>. QED BY <2>4, <2>9
<1>. QED BY <1>2, <1>3

LEMMA FinalizeStep ==
    ASSUME TypeInv, NEW c \in Conns, HandleFinalizeSubmit(c), UNCHANGED clientVars
    PROVE  TypeInv'
<1>. DEFINE s == Head(toServer[c]).session
            vk == Head(toServer[c]).vk
            m == [type |-> "Finalized"]
<1>1. Reads(c, "FinalizeSubmit") /\ c[1] \in Participants
    BY DEF HandleFinalizeSubmit, Conns
<1>2. CASE Refuse(c)
    BY <1>1, <1>2, RefuseStep
<1>3. CASE ~Refuse(c)
    <2>. USE DEF TypeInv, TypeOK
    <2>1. s \in Sessions /\ vk \in Packages
        BY <1>1, QueuesTyped, WebReadsFacts, ClientMsgFacts DEF Key
    <2>2. /\ final_group_key' = [final_group_key EXCEPT ![s] = vk]
          /\ finalized_uids' = [finalized_uids EXCEPT ![s] = @ \cup {c[1]}]
          /\ UNCHANGED <<challenged, logged_in, joined, identified, round1_packages,
                         round2_packages>>
          /\ \/ /\ state' = [state EXCEPT ![s] = "Finalized"]
                /\ completed' = [completed EXCEPT ![s] = vk]
                /\ Broadcast(joined[s], ToAll(m))
             \/ UNCHANGED <<state, completed>> /\ Reply(c, m)
        BY <1>3 DEF HandleFinalizeSubmit
    <2>3. ServerTypeOK'
        BY <1>1, <2>1, <2>2 DEF ServerTypeOK
    <2>4. SocketsTypeOK'
        BY <1>1, <2>2, TablesUnchanged
    <2>5. m \in ServerMsg /\ m \in NotRound
        BY ServerMsgFacts DEF RoundTypes
    <2>6. \E conn : \E msgs \in [Participants -> Seq(ServerMsg)] :
              /\ toClient' = Sent(conn, msgs)
              /\ \A p \in Participants : msgs[p] \in Seq(NotRound)
        <3>1. CASE Reply(c, m)
            BY <2>5, <3>1, ReplySends
        <3>2. CASE Broadcast(joined[s], ToAll(m))
            <4>1. ToAll(m) \in [Participants -> Seq(ServerMsg)]
                BY <2>5, FewMessages DEF ToAll
            <4>2. \A p \in Participants : ToAll(m)[p] \in Seq(NotRound)
                BY <2>5, FewMessages DEF ToAll
            <4>. QED BY <3>2, <4>1, <4>2 DEF Broadcast
        <3>. QED BY <2>2, <3>1, <3>2
    <2>7. NetTypeOK' /\ ClientTypeOK' /\ Unopened' /\ JoinedOnOpened' /\ PageWithoutSession'
        BY <1>1, <2>2, <2>4, <2>6, JoinedUnchanged, ServerSends
    <2>. QED BY <2>3, <2>7
<1>. QED BY <1>2, <1>3

LEMMA DisconnectStep ==
    ASSUME TypeInv, NEW c \in Conns, HandleDisconnect(c), UNCHANGED clientVars
    PROVE  TypeInv'
<1>. USE DEF TypeInv, TypeOK
<1>1. /\ Reads(c, "Close") /\ UNCHANGED <<socket, online>>
      /\ c[1] \in Participants
    BY DEF HandleDisconnect, Reads, Conns
<1>2. SocketsTypeOK'
    BY <1>1 DEF HandleDisconnect, Forget, SocketsTypeOK, NetTypeOK
<1>. DEFINE left == {s \in Sessions : IsParticipant(c, s)}
            aborted == {s \in left : state[s] \in {"Round1", "Round2"}}
            msgs == [p \in Participants |->
                        [i \in 1..Cardinality(aborted) |-> [type |-> "SessionAborted"]]]
<1>3. /\ joined' = [s \in Sessions |->
                      IF s \in left THEN [joined[s] EXCEPT ![c[1]] = 0] ELSE joined[s]]
      /\ identified' = [s \in Sessions |->
                          IF s \in left THEN identified[s] \ {c[1]} ELSE identified[s]]
      /\ state' = [s \in Sessions |-> IF s \in aborted THEN "Failed" ELSE state[s]]
      /\ toClient' = Sent(AllBut(c), msgs)
      /\ UNCHANGED <<round1_packages, round2_packages, final_group_key, finalized_uids, completed>>
    BY DEF HandleDisconnect, Broadcast
<1>4. ServerTypeOK'
    <2>1. joined' \in [Sessions -> [Participants -> 0..MaxSockets]]
        BY <1>1, <1>3, MaxSocketsAssumption DEF ServerTypeOK
    <2>2. identified' \in [Sessions -> SUBSET Participants]
        BY <1>3 DEF ServerTypeOK
    <2>3. state' \in [Sessions -> {"none", "Pending", "Round1", "Round2", "Finalized", "Failed"}]
        BY <1>3 DEF ServerTypeOK
    <2>. QED BY <1>3, <2>1, <2>2, <2>3 DEF ServerTypeOK
<1>5. \A s \in Sessions, p \in Participants : joined'[s][p] \in {joined[s][p], 0}
    BY <1>1, <1>3 DEF ServerTypeOK
<1>6. JoinedOnOpened'
    <2>1. \A p \in Participants : 0 <= socket[p]
        BY MaxSocketsAssumption DEF NetTypeOK, SocketsTypeOK
    <2>. QED BY <1>1, <1>5, <2>1 DEF JoinedOnOpened
<1>7. \A p \in Participants : sessionIdRef[p] = NoSession /\ online[p] => NotInSession(p)'
    BY <1>1, <1>5, MembersHaveSession DEF NotInSession
<1>8. /\ msgs \in [Participants -> Seq(ServerMsg)]
      /\ \A p \in Participants : msgs[p] \in Seq(NotRound)
    <2>1. [type |-> "SessionAborted"] \in ServerMsg /\ [type |-> "SessionAborted"] \in NotRound
        BY ServerMsgFacts DEF RoundTypes
    <2>2. Cardinality(aborted) \in Nat
        BY WebSessionsAssumption, FS_Subset, FS_CardinalityType
    <2>3. \A S : [type |-> "SessionAborted"] \in S =>
            [i \in 1..Cardinality(aborted) |-> [type |-> "SessionAborted"]] \in Seq(S)
        BY <2>2, IsASeq
    <2>. QED BY <2>1, <2>3
<1>9. NetTypeOK' /\ ClientTypeOK' /\ Unopened' /\ JoinedOnOpened' /\ PageWithoutSession'
    <2>. HIDE DEF msgs
    <2>. QED BY <1>1, <1>2, <1>3, <1>6, <1>7, <1>8, ServerSends
<1>. QED BY <1>4, <1>9

LEMMA ServerStepTypeInv ==
    ASSUME TypeInv, NEW c \in Conns, ServerStep(c)
    PROVE  TypeInv'
BY LoginSteps, AnnounceStep, JoinStep, ListPendingStep, Round1Step, Round2Step, FinalizeStep,
   DisconnectStep DEF ServerStep

-----------------------------------------------------------------------------
(***************************************************************************)
(* The pages.                                                              *)
(***************************************************************************)

\* A page takes a message or not, and sends one or not, a join only when it has
\* a session.
LEMMA PageSends ==
    ASSUME TypeInv, NEW p \in Participants,
           UNCHANGED <<socket, online, challenged, logged_in>>, UNCHANGED sessionVars,
           ClientTypeOK',
           UNCHANGED toClient \/ \E type : Receives(p, type),
           \/ UNCHANGED toServer
           \/ \E m \in ClientMsg :
                Sends(p, m) /\ (sessionIdRef'[p] = NoSession => m \in NotJoin),
           \A q \in Participants : sessionIdRef'[q] = NoSession =>
                sessionIdRef[q] = NoSession /\ sleeping'[q] = <<>>
    PROVE  TypeInv'
<1>. USE DEF TypeInv, TypeOK
<1>1. Queues(ClientMsg, ServerMsg) /\ SocketsTypeOK
    BY QueuesTyped
<1>2. SocketsTypeOK' /\ ServerTypeOK' /\ JoinedOnOpened'
    BY <1>1, UnchangedTypes DEF SocketsTypeOK, JoinedOnOpened, sessionVars
<1>3. /\ toClient' \in [Participants -> Seq(ServerMsg)]
      /\ \A q \in Participants : \A S : toClient[q] \in Seq(S) => toClient'[q] \in Seq(S)
    <2>1. CASE UNCHANGED toClient
        BY <1>1, <2>1 DEF Queues
    <2>2. CASE \E type : Receives(p, type)
        BY <1>1, <2>2, WebReceivesFacts
    <2>. QED BY <2>1, <2>2
<1>4. /\ toServer' \in [Conns -> Seq(ClientMsg)] /\ Unopened'
      /\ \A d \in Conns : \A S :
           /\ toServer[d] \in Seq(S)
           /\ online[p] /\ d = Conn(p) /\ sessionIdRef'[p] = NoSession => NotJoin \subseteq S
           /\ online[p] /\ d = Conn(p) /\ sessionIdRef'[p] # NoSession => ClientMsg \subseteq S
           => toServer'[d] \in Seq(S)
    <2>1. CASE UNCHANGED toServer
        BY <1>1, <2>1 DEF Queues, Unopened
    <2>2. CASE \E m \in ClientMsg :
                  Sends(p, m) /\ (sessionIdRef'[p] = NoSession => m \in NotJoin)
        BY <1>1, <2>2, WebSendsFacts, SendsOpened
    <2>. QED BY <2>1, <2>2
<1>5. ASSUME NEW q \in Participants, sessionIdRef'[q] = NoSession
      PROVE  /\ sleeping'[q] = <<>>
             /\ toClient'[q] \in Seq(NotRound)
             /\ online'[q] => toServer'[Conn(q)'] \in Seq(NotJoin) /\ NotInSession(q)'
    <2>1. /\ toClient[q] \in Seq(NotRound)
          /\ online[q] => toServer[Conn(q)] \in Seq(NotJoin) /\ NotInSession(q)
        BY <1>5 DEF PageWithoutSession
    <2>2. Conn(q)' = Conn(q) /\ NotInSession(q)' = NotInSession(q) /\ online'[q] = online[q]
        BY DEF Conn, NotInSession, sessionVars
    <2>3. online[q] => toServer'[Conn(q)] \in Seq(NotJoin)
        <3>1. online[q] => Conn(q) \in Conns /\ (Conn(q) = Conn(p) => q = p)
            BY <1>1, ConnFacts DEF Conn
        <3>. QED BY <1>4, <1>5, <2>1, <3>1
    <2>. QED BY <1>3, <1>5, <2>1, <2>2, <2>3
<1>. QED BY <1>2, <1>3, <1>4, <1>5 DEF NetTypeOK, PageWithoutSession

\* The clients' messages a page sends when it handles one from the coordinator.
LEMMA AnswerSteps ==
    ASSUME TypeInv, NEW p \in Participants, UNCHANGED sessionVars,
           \/ OnChallenge(p) \/ OnLoginOk(p) \/ OnSessionCreated(p) \/ OnPendingSessions(p)
           \/ OnNewSession(p) \/ OnSessionAborted(p) \/ OnFinalized(p) \/ OnError(p)
    PROVE  TypeInv'
<1>. USE DEF TypeInv, TypeOK
<1>1. PICK type : /\ Receives(p, type)
                  /\ type \in {"Challenge", "LoginOk", "DKGSessionCreated", "PendingDKGSessions",
                               "NewDKGSession", "SessionAborted", "Finalized", "Error"}
                  /\ type = "DKGSessionCreated" => OnSessionCreated(p)
                  /\ type = "PendingDKGSessions" => OnPendingSessions(p)
                  /\ type = "NewDKGSession" => OnNewSession(p)
    BY DEF OnChallenge, AnswersChallenge, OnLoginOk, OnSessionCreated, OnPendingSessions,
           OnNewSession, OnSessionAborted, OnFinalized, OnError
<1>2. Head(toClient[p]) \in ServerMsg /\ Head(toClient[p]).type = type
    BY <1>1, QueuesTyped, WebReceivesFacts
<1>3. \/ UNCHANGED toServer
      \/ \E m \in ClientMsg : m \in NotJoin /\ Sends(p, m)
    BY ClientMsgFacts
       DEF OnChallenge, AnswersChallenge, OnLoginOk, OnSessionCreated, OnPendingSessions,
           OnNewSession, OnSessionAborted, OnFinalized, OnError, RelistsUnlessCreator, ListPending
<1>4. /\ UNCHANGED <<socket, online, challenged, logged_in>>
      /\ UNCHANGED <<dkgState, finalKey, clickVars, history>>
    BY DEF OnChallenge, AnswersChallenge, OnLoginOk, OnSessionCreated, OnPendingSessions,
           OnNewSession, OnSessionAborted, OnFinalized, OnError, LeavesSession, Receives, clientVars
<1>5. /\ sessionIdRef' \in [Participants -> Sessions \cup {NoSession}]
      /\ \A q \in Participants : sessionIdRef'[q] = NoSession => sessionIdRef[q] = NoSession
    <2>1. CASE OnSessionCreated(p)
        BY <1>2, <2>1, ServerMsgFacts, WebSessionsAssumption
           DEF OnSessionCreated, Receives, ClientTypeOK
    <2>2. CASE ~OnSessionCreated(p)
        BY <2>2
           DEF OnChallenge, OnLoginOk, OnPendingSessions, OnNewSession, OnSessionAborted,
               OnFinalized, OnError, LeavesSession, clientVars, ClientTypeOK
    <2>. QED BY <2>1, <2>2
<1>6. /\ joining' \in [Participants -> Sessions \cup {NoSession}]
      /\ connected' \in [Participants -> BOOLEAN]
    BY DEF OnChallenge, OnLoginOk, OnSessionCreated, OnPendingSessions, OnNewSession,
           OnSessionAborted, OnFinalized, OnError, LeavesSession, clientVars, pageVars, ClientTypeOK
<1>7. listed' \in [Participants -> SUBSET Sessions]
    <2>1. CASE OnPendingSessions(p)
        BY <1>2, <2>1, ServerMsgFacts DEF OnPendingSessions, Receives, ClientTypeOK
    <2>2. CASE OnNewSession(p)
        BY <1>2, <2>2, ServerMsgFacts DEF OnNewSession, Receives, ClientTypeOK
    <2>3. CASE ~OnPendingSessions(p) /\ ~OnNewSession(p)
        BY <2>3
           DEF OnChallenge, OnLoginOk, OnSessionCreated, OnSessionAborted, OnFinalized, OnError,
               LeavesSession, clientVars, pageVars, ClientTypeOK
    <2>. QED BY <2>1, <2>2, <2>3
<1>8. ClientTypeOK'
    BY <1>4, <1>5, <1>6, <1>7 DEF ClientTypeOK, dkgState, clickVars, history
<1>9. \A q \in Participants : sessionIdRef'[q] = NoSession => sleeping'[q] = <<>>
    BY <1>4, <1>5 DEF PageWithoutSession, dkgState
<1>. QED BY <1>1, <1>3, <1>4, <1>5, <1>8, <1>9, PageSends

LEMMA OnRoundStep ==
    ASSUME TypeInv, NEW p \in Participants, OnRound(p), UNCHANGED sessionVars
    PROVE  TypeInv'
<1>. USE DEF TypeInv, TypeOK
<1>1. PICK type \in RoundTypes : Receives(p, type)
    BY DEF OnRound, RoundTypes
<1>2. /\ Head(toClient[p]) \in ServerMsg /\ Head(toClient[p]).type = type
      /\ \A S : toClient[p] \in Seq(S) => Head(toClient[p]) \in S
    BY <1>1, QueuesTyped, WebReceivesFacts
<1>3. sessionIdRef[p] # NoSession
    BY <1>2 DEF PageWithoutSession, NotRound
<1>4. Head(toClient[p]) \in Sleeper
    BY <1>2, ServerMsgFacts
<1>5. sleeping' = [sleeping EXCEPT ![p] = Append(sleeping[p], Head(toClient[p]))]
    BY DEF OnRound
<1>6. Append(sleeping[p], Head(toClient[p])) \in Seq(Sleeper)
    BY <1>4, QueueFacts DEF ClientTypeOK
<1>7. ClientTypeOK'
    BY <1>5, <1>6 DEF OnRound, ClientTypeOK, pageVars, clickVars, history
<1>8. \A q \in Participants : sessionIdRef'[q] = NoSession =>
        sessionIdRef[q] = NoSession /\ sleeping'[q] = <<>>
    BY <1>3, <1>5 DEF OnRound, PageWithoutSession, ClientTypeOK
<1>9. UNCHANGED <<socket, online, challenged, logged_in, toServer>>
    BY DEF OnRound, Receives
<1>. QED BY <1>1, <1>7, <1>8, <1>9, PageSends

LEMMA OnRound1AllStep ==
    ASSUME TypeInv, NEW p \in Participants, OnRound1All(p), UNCHANGED sessionVars
    PROVE  TypeInv'
<1>. USE DEF TypeInv, TypeOK
<1>1. Receives(p, "Round1All") /\ Head(toClient[p]).pkgs \in Packages
    BY QueuesTyped, WebReceivesFacts, ServerMsgFacts DEF OnRound1All
<1>2. ClientTypeOK'
    BY <1>1 DEF OnRound1All, ClientTypeOK, pageVars, clickVars, history
<1>3. \A q \in Participants : sessionIdRef'[q] = NoSession =>
        sessionIdRef[q] = NoSession /\ sleeping'[q] = <<>>
    BY DEF OnRound1All, PageWithoutSession
<1>4. UNCHANGED <<socket, online, challenged, logged_in, toServer>>
    BY DEF OnRound1All, Receives
<1>. QED BY <1>1, <1>2, <1>3, <1>4, PageSends

\* A page whose handlers sleep has a session, and one handler sleeps less.
LEMMA WakesFacts ==
    ASSUME TypeInv, NEW p \in Participants, NEW type, Wakes(p, type), UNCHANGED sessionIdRef
    PROVE  /\ sessionIdRef[p] \in Sessions
           /\ sleeping' \in [Participants -> Seq(Sleeper)]
           /\ \A q \in Participants : sessionIdRef'[q] = NoSession =>
                 sessionIdRef[q] = NoSession /\ sleeping'[q] = <<>>
           /\ UNCHANGED <<socket, online, challenged, logged_in, toClient>>
<1>. USE DEF TypeInv, TypeOK
<1>1. sessionIdRef[p] # NoSession
    BY DEF Wakes, PageWithoutSession
<1>2. sleeping[p] \in Seq(Sleeper) /\ sleeping[p] # <<>>
    BY DEF Wakes, ClientTypeOK
<1>3. Tail(sleeping[p]) \in Seq(Sleeper)
    BY <1>2, HeadTailProperties
<1>. QED BY <1>1, <1>3 DEF Wakes, Acts, ClientTypeOK, PageWithoutSession

LEMMA WakeUpSteps ==
    ASSUME TypeInv, NEW p \in Participants, WakeUp(p)
    PROVE  TypeInv'
<1>. USE DEF TypeInv, TypeOK
<1>1. UNCHANGED sessionVars /\ UNCHANGED sessionIdRef
    BY DEF WakeUp, Round1, Round2, Finalize
<1>2. PICK type : Wakes(p, type)
    BY DEF WakeUp, Round1, Round2, Finalize
<1>3. /\ sessionIdRef[p] \in Sessions
      /\ sleeping' \in [Participants -> Seq(Sleeper)]
      /\ \A q \in Participants : sessionIdRef'[q] = NoSession =>
            sessionIdRef[q] = NoSession /\ sleeping'[q] = <<>>
      /\ UNCHANGED <<socket, online, challenged, logged_in, toClient>>
      /\ sessionIdRef'[p] # NoSession
    BY <1>1, <1>2, WakesFacts, WebSessionsAssumption
<1>4. CASE Round1(p)
    <2>1. gen' = [gen EXCEPT ![p] = gen[p] + 1] /\ gen'[p] \in Nat /\ gen'[p] # 0
        BY <1>4 DEF Round1, ClientTypeOK
    <2>2. r1_secret' \in Packages
        BY <1>4, <2>1, WebPackagesFacts DEF Round1, ClientTypeOK
    <2>3. ClientTypeOK'
        BY <1>3, <1>4, <2>1, <2>2 DEF Round1, ClientTypeOK, pageVars, clickVars
    <2>4. \E m \in ClientMsg : Sends(p, m)
        BY <1>3, <1>4, <2>1, ClientMsgFacts DEF Round1
    <2>. QED BY <1>1, <1>3, <2>3, <2>4, PageSends
<1>5. CASE Round2(p)
    <2>1. r1_secret[p] \in Nat
        BY DEF ClientTypeOK, Packages
    <2>2. r2_secret' \in Packages
        <3>1. UNCHANGED r2_secret \/ r2_secret' = [r2_secret EXCEPT ![p] = r1_secret[p]]
            BY <1>5 DEF Round2
        <3>. QED BY <2>1, <3>1, WebPackagesFacts DEF ClientTypeOK
    <2>3. ClientTypeOK'
        BY <1>3, <1>5, <2>2 DEF Round2, ClientTypeOK, pageVars, clickVars, history
    <2>4. UNCHANGED toServer \/ \E m \in ClientMsg : Sends(p, m)
        BY <1>3, <1>5, <2>1, ClientMsgFacts DEF Round2
    <2>. QED BY <1>1, <1>3, <2>3, <2>4, PageSends
<1>6. CASE Finalize(p)
    <2>. DEFINE vk == Part3Key(p, r2_secret[p], all_r1_packages[p])
    <2>1. r2_secret[p] # 0 => vk \in Key
        BY WebPackagesFacts DEF Part3Key, ClientTypeOK, Packages
    <2>2. \/ UNCHANGED <<finalKey, derived, toServer>>
          \/ /\ vk \in Key
             /\ finalKey' = [finalKey EXCEPT ![p] = vk]
             /\ derived' = [derived EXCEPT ![p] = @ \cup {vk}]
             /\ Sends(p, [type |-> "FinalizeSubmit", session |-> sessionIdRef[p], vk |-> vk])
        BY <1>6, <2>1 DEF Finalize
    <2>3. /\ finalKey' \in [Participants -> Packages]
          /\ derived' \in [Participants -> SUBSET Key]
        <3>. HIDE DEF vk
        <3>1. CASE UNCHANGED <<finalKey, derived>>
            BY <3>1 DEF ClientTypeOK
        <3>2. CASE vk \in Key /\ finalKey' = [finalKey EXCEPT ![p] = vk]
                              /\ derived' = [derived EXCEPT ![p] = derived[p] \cup {vk}]
            <4>1. finalKey' \in [Participants -> Packages]
                BY <3>2 DEF ClientTypeOK, Key
            <4>2. derived' \in [Participants -> SUBSET Key]
                BY <3>2 DEF ClientTypeOK
            <4>. QED BY <4>1, <4>2
        <3>. QED BY <2>2, <3>1, <3>2
    <2>4. ClientTypeOK'
        BY <1>3, <1>6, <2>3 DEF Finalize, ClientTypeOK, pageVars, clickVars
    <2>5. UNCHANGED toServer \/ \E m \in ClientMsg : Sends(p, m)
        BY <1>3, <2>2, ClientMsgFacts
    <2>. QED BY <1>1, <1>3, <2>4, <2>5, PageSends
<1>. QED BY <1>4, <1>5, <1>6 DEF WakeUp

LEMMA PageStepTypeInv ==
    ASSUME TypeInv, NEW p \in Participants, PageStep(p)
    PROVE  TypeInv'
BY AnswerSteps, OnRoundStep, OnRound1AllStep DEF PageStep

-----------------------------------------------------------------------------
(***************************************************************************)
(* The user and the sockets.                                               *)
(***************************************************************************)

LEMMA ClickSteps ==
    ASSUME TypeInv, NEW p \in Participants, UNCHANGED sessionVars,
           Announce(p) \/ (\E s \in Sessions : Join(p, s)) \/ Refresh(p)
    PROVE  TypeInv'
<1>. USE DEF TypeInv, TypeOK
<1>1. UNCHANGED <<socket, online, toClient, challenged, logged_in>>
    BY DEF Announce, Join, Refresh, Acts
<1>2. CASE Announce(p)
    <2>1. announced' \in 0..Cardinality(Sessions)
        BY <1>2, WebSessionsAssumption, FS_CardinalityType DEF Announce, ClientTypeOK
    <2>2. ClientTypeOK'
        BY <1>2, <2>1, WebPackagesFacts DEF Announce, ClientTypeOK, pageVars, dkgState, history
    <2>3. \A q \in Participants : sessionIdRef'[q] = NoSession =>
            sessionIdRef[q] = NoSession /\ sleeping'[q] = <<>>
        BY <1>2 DEF Announce, PageWithoutSession, dkgState
    <2>4. \E m \in ClientMsg : m \in NotJoin /\ Sends(p, m)
        BY <1>2, ClientMsgFacts DEF Announce
    <2>. QED BY <1>1, <2>2, <2>3, <2>4, PageSends
<1>3. ASSUME NEW s \in Sessions, Join(p, s)
      PROVE  TypeInv'
    <2>1. /\ joins' \in [Participants -> Nat]
          /\ \A q \in Participants : joins'[q] <= MaxJoins[q]
        <3>1. /\ joins' = [joins EXCEPT ![p] = joins[p] + 1] /\ joins[p] < MaxJoins[p]
              /\ joins \in [Participants -> Nat]
              /\ \A q \in Participants : joins[q] <= MaxJoins[q]
            BY <1>3 DEF Join, ClientTypeOK
        <3>2. /\ joins[p] \in Nat /\ MaxJoins[p] \in Nat
              /\ \A q \in Participants : joins'[q] = IF q = p THEN joins[p] + 1 ELSE joins[q]
            BY <3>1, MaxJoinsAssumption
        <3>3. joins[p] + 1 \in Nat /\ joins[p] + 1 <= MaxJoins[p]
            BY <3>1, <3>2
        <3>4. joins' \in [Participants -> Nat]
            BY <3>1, <3>3
        <3>. QED BY <3>1, <3>2, <3>3, <3>4
    <2>2. ClientTypeOK'
        BY <1>3, <2>1, WebPackagesFacts DEF Join, ClientTypeOK, dkgState, history
    <2>3. sessionIdRef' = [sessionIdRef EXCEPT ![p] = s] /\ UNCHANGED sleeping
        BY <1>3 DEF Join, dkgState
    <2>4. \A q \in Participants : sessionIdRef'[q] = NoSession =>
            sessionIdRef[q] = NoSession /\ sleeping'[q] = <<>>
        BY <2>3, WebSessionsAssumption DEF PageWithoutSession, ClientTypeOK
    <2>5. sessionIdRef'[p] # NoSession
        BY <2>3, WebSessionsAssumption DEF ClientTypeOK
    <2>6. \E m \in ClientMsg : Sends(p, m)
        BY <1>3, ClientMsgFacts DEF Join
    <2>. QED BY <1>1, <2>2, <2>4, <2>5, <2>6, PageSends
<1>4. CASE Refresh(p)
    <2>1. ClientTypeOK' /\ UNCHANGED clientVars
        BY <1>4, UnchangedTypes DEF Refresh
    <2>2. \A q \in Participants : sessionIdRef'[q] = NoSession =>
            sessionIdRef[q] = NoSession /\ sleeping'[q] = <<>>
        BY <2>1 DEF clientVars, PageWithoutSession, dkgState
    <2>3. \E m \in ClientMsg : m \in NotJoin /\ Sends(p, m)
        BY <1>4, ClientMsgFacts DEF Refresh, ListPending
    <2>. QED BY <1>1, <2>1, <2>2, <2>3, PageSends
<1>. QED BY <1>2, <1>3, <1>4

\* A new socket is in no session yet.
LEMMA ConnectStep ==
    ASSUME TypeInv, NEW p \in Participants, Connect(p), UNCHANGED sessionVars
    PROVE  TypeInv'
<1>. USE DEF TypeInv, TypeOK
<1>1. Queues(ClientMsg, ServerMsg) /\ SocketsTypeOK /\ OpenSocket(p)
    BY QueuesTyped DEF Connect
<1>2. [type |-> "RequestChallenge"] \in ClientMsg /\ [type |-> "RequestChallenge"] \in NotJoin
    BY ClientMsgFacts
<1>3. /\ Queues(ClientMsg, ServerMsg)' /\ SocketsTypeOK' /\ Unopened'
      /\ socket'[p] = socket[p] + 1
      /\ \A q \in Participants : q # p => socket'[q] = socket[q] /\ online'[q] = online[q]
      /\ \A d \in Conns : \A S :
            toServer[d] \in Seq(S) /\ [type |-> "RequestChallenge"] \in S => toServer'[d] \in Seq(S)
    BY <1>1, <1>2, OpenFacts
<1>4. ServerTypeOK' /\ ClientTypeOK' /\ UNCHANGED <<joined, sessionIdRef, sleeping, toClient>>
    BY UnchangedTypes DEF Connect, sessionVars, clientVars, dkgState, OpenSocket
<1>5. \A q \in Participants : socket[q] \in 0..MaxSockets
    BY <1>1 DEF SocketsTypeOK
<1>6. JoinedOnOpened'
    <2>1. SUFFICES ASSUME NEW s \in Sessions, NEW q \in Participants
                   PROVE  joined[s][q] <= socket'[q]
        BY <1>4 DEF JoinedOnOpened
    <2>2. joined[s][q] \in 0..MaxSockets /\ joined[s][q] <= socket[q]
        BY DEF JoinedOnOpened, ServerTypeOK
    <2>3. socket'[q] = socket[q] \/ socket'[q] = socket[q] + 1
        BY <1>3
    <2>. QED BY <1>5, <2>2, <2>3, MaxSocketsAssumption
<1>7. \A s \in Sessions : joined[s][p] < socket'[p]
    BY <1>3, <1>5, MaxSocketsAssumption DEF JoinedOnOpened, ServerTypeOK
<1>8. ASSUME NEW q \in Participants, sessionIdRef'[q] = NoSession
      PROVE  /\ sleeping'[q] = <<>>
             /\ toClient'[q] \in Seq(NotRound)
             /\ online'[q] => toServer'[Conn(q)'] \in Seq(NotJoin) /\ NotInSession(q)'
    <2>1. sleeping'[q] = <<>> /\ toClient'[q] \in Seq(NotRound)
        BY <1>4, <1>8 DEF PageWithoutSession
    <2>2. CASE q = p
        <3>1. NotInSession(p)'
            BY <1>4, <1>5, <1>7, <1>3, MaxSocketsAssumption DEF NotInSession, ServerTypeOK
        <3>2. Conn(p)' = <<p, socket[p] + 1>> /\ Conn(p)' \in Conns
            BY <1>1, <1>3, <1>5, MaxSocketsAssumption DEF Conn, Conns, OpenSocket
        <3>3. toServer'[Conn(p)'] = <<[type |-> "RequestChallenge"]>>
            BY <1>1, <3>2 DEF OpenSocket, Queues
        <3>4. toServer'[Conn(p)'] \in Seq(NotJoin)
            BY <1>2, <3>3, FewMessages
        <3>. QED BY <2>1, <2>2, <3>1, <3>4
    <2>3. CASE q # p
        <3>1. Conn(q)' = Conn(q) /\ online'[q] = online[q] /\ NotInSession(q)' = NotInSession(q)
            BY <1>3, <1>4, <2>3 DEF Conn, NotInSession
        <3>2. online[q] => Conn(q) \in Conns /\ toServer[Conn(q)] \in Seq(NotJoin) /\ NotInSession(q)
            BY <1>1, <1>4, <1>8, ConnFacts DEF PageWithoutSession
        <3>. QED BY <1>2, <1>3, <2>1, <3>1, <3>2
    <2>. QED BY <2>2, <2>3
<1>. QED BY <1>3, <1>4, <1>6, <1>8 DEF PageWithoutSession, NetTypeOK, Queues

\* A page that lost its socket, or all its memory, gets nothing.
LEMMA CloseSteps ==
    ASSUME TypeInv, NEW p \in Participants, Disconnect(p) \/ Reload(p), UNCHANGED sessionVars
    PROVE  TypeInv'
<1>. USE DEF TypeInv, TypeOK
<1>1. Queues(ClientMsg, ServerMsg) /\ SocketsTypeOK /\ CloseSocket(p)
    BY QueuesTyped DEF Disconnect, Reload
<1>2. [type |-> "Close"] \in ClientMsg /\ [type |-> "Close"] \in NotJoin
    BY ClientMsgFacts
<1>3. /\ Queues(ClientMsg, ServerMsg)' /\ SocketsTypeOK' /\ Unopened'
      /\ ~online'[p] /\ toClient'[p] = <<>>
      /\ \A q \in Participants : q # p => online'[q] = online[q] /\ toClient'[q] = toClient[q]
      /\ \A d \in Conns : \A S :
            toServer[d] \in Seq(S) /\ [type |-> "Close"] \in S => toServer'[d] \in Seq(S)
    BY <1>1, <1>2, CloseFacts
<1>4. UNCHANGED <<socket, joined>> /\ ServerTypeOK' /\ JoinedOnOpened'
    BY <1>1, UnchangedTypes DEF CloseSocket, sessionVars, JoinedOnOpened
<1>5. ClientTypeOK'
    <2>1. CASE Disconnect(p)
        BY <2>1 DEF Disconnect, ClientTypeOK, dkgState, clickVars, history
    <2>2. CASE Reload(p)
        BY <2>2, WebPackagesFacts, EmptySeq DEF Reload, ClientTypeOK, clickVars, history
    <2>. QED BY <2>1, <2>2
<1>6. /\ \A q \in Participants : q # p => sessionIdRef'[q] = sessionIdRef[q] /\ sleeping'[q] = sleeping[q]
      /\ sessionIdRef'[p] = NoSession => sleeping'[p] = <<>>
    BY DEF Disconnect, Reload, dkgState, ClientTypeOK, PageWithoutSession
<1>7. ASSUME NEW q \in Participants, sessionIdRef'[q] = NoSession
      PROVE  /\ sleeping'[q] = <<>>
             /\ toClient'[q] \in Seq(NotRound)
             /\ online'[q] => toServer'[Conn(q)'] \in Seq(NotJoin) /\ NotInSession(q)'
    <2>1. CASE q = p
        BY <1>3, <1>6, <1>7, <2>1, EmptySeq
    <2>2. CASE q # p
        <3>1. Conn(q)' = Conn(q) /\ online'[q] = online[q] /\ NotInSession(q)' = NotInSession(q)
            BY <1>3, <1>4, <2>2 DEF Conn, NotInSession
        <3>2. /\ sleeping[q] = <<>> /\ toClient[q] \in Seq(NotRound)
              /\ online[q] => Conn(q) \in Conns /\ toServer[Conn(q)] \in Seq(NotJoin) /\ NotInSession(q)
            BY <1>1, <1>6, <1>7, <2>2, ConnFacts DEF PageWithoutSession
        <3>. QED BY <1>2, <1>3, <1>6, <2>2, <3>1, <3>2
    <2>. QED BY <2>1, <2>2
<1>. QED BY <1>3, <1>4, <1>5, <1>7 DEF PageWithoutSession, NetTypeOK, Queues

LEMMA InitTypeInv == Init => TypeInv
<1>. SUFFICES ASSUME Init PROVE TypeInv
    OBVIOUS
<1>1. Queues(ClientMsg, ServerMsg) /\ SocketsTypeOK /\ Unopened
    BY InitSockets DEF Init
<1>2. ServerTypeOK
    BY WebPackagesFacts, EmptySeq, MaxSocketsAssumption DEF Init, ServerInit, ServerTypeOK
<1>3. ClientTypeOK
    BY WebPackagesFacts, EmptySeq, WebSessionsAssumption, FS_CardinalityType, MaxJoinsAssumption
       DEF Init, ClientInit, ClientTypeOK
<1>4. JoinedOnOpened
    BY DEF Init, NetInit, ServerInit, JoinedOnOpened
<1>5. PageWithoutSession
    BY EmptySeq DEF Init, NetInit, ClientInit, PageWithoutSession
<1>. QED BY <1>1, <1>2, <1>3, <1>4, <1>5 DEF TypeInv, TypeOK, NetTypeOK, Queues

LEMMA NextTypeInv == TypeInv /\ [Next]_vars => TypeInv'
<1>. SUFFICES ASSUME TypeInv, [Next]_vars PROVE TypeInv'
    OBVIOUS
<1>1. ASSUME NEW c \in Conns, ServerStep(c) PROVE TypeInv'
    BY <1>1, ServerStepTypeInv
<1>2. ASSUME NEW p \in Participants, PageStep(p) \/ WakeUp(p) PROVE TypeInv'
    BY <1>2, PageStepTypeInv, WakeUpSteps
<1>3. ASSUME NEW p \in Participants, UserStep(p) PROVE TypeInv'
    BY <1>3, ConnectStep, ClickSteps DEF UserStep
<1>4. ASSUME NEW p \in Participants, (Disconnect(p) \/ Reload(p)) /\ UNCHANGED sessionVars
      PROVE  TypeInv'
    BY <1>4, CloseSteps
<1>5. CASE UNCHANGED vars
    <2>1. TypeOK'
        BY <1>5, UnchangedTypes
           DEF vars, serverVars, TypeInv, TypeOK, NetTypeOK, SocketsTypeOK
    <2>. QED BY <1>5, <2>1
            DEF vars, serverVars, sessionVars, clientVars, dkgState, TypeInv, Unopened,
                JoinedOnOpened, PageWithoutSession, NotInSession, Conn
<1>. QED BY <1>1, <1>2, <1>3, <1>4, <1>5 DEF Next

\* Every variable keeps its type, and every message of a round names a session.
THEOREM WebDkgTypeCorrect == Spec => []TypeOK
<1>1. TypeInv => TypeOK
    BY DEF TypeInv
<1>. QED BY <1>1, InitTypeInv, NextTypeInv, PTL DEF Spec

-----------------------------------------------------------------------------
(***************************************************************************)
(* II. The coordinator knows of a key only what FinalizeSubmit says, so    *)
(* the invariant follows a key from the page that derived it, through the  *)
(* socket, to the participants counted in finalized_uids.                  *)
(***************************************************************************)
FromPage(p) == {m \in ClientMsg : m.type = "FinalizeSubmit" => m.vk \in derived[p]}

SubmitsDerived == \A c \in Conns : toServer[c] \in Seq(FromPage(c[1]))

\* Whoever is counted has derived the expected key.
CountedDerived ==
    \A s \in Sessions : \A p \in finalized_uids[s] : final_group_key[s] \in derived[p]

CompletedAsExpected ==
    \A s \in Sessions : completed[s] # NoKey =>
        completed[s] = final_group_key[s] /\ finalized_uids[s] = Participants

IInv ==
    /\ TypeInv
    /\ SubmitsDerived
    /\ CountedDerived
    /\ CompletedAsExpected

LEMMA DerivedTyped ==
    TypeInv => /\ derived \in [Participants -> SUBSET Key]
               /\ NoKey \notin Key
               /\ Queues(ClientMsg, ServerMsg) /\ SocketsTypeOK /\ Unopened
BY QueuesTyped DEF TypeInv, TypeOK, ClientTypeOK, Key

\* What arrives in a queue is a submission of a key its page has derived, or no
\* submission of a key.
LEMMA SubmitsKept ==
    ASSUME SubmitsDerived,
           \A p \in Participants : derived[p] \subseteq derived'[p],
           \A c \in Conns : \A S :
              toServer[c] \in Seq(S) /\ FromPage(c[1])' \subseteq S => toServer'[c] \in Seq(S)
    PROVE  SubmitsDerived'
<1>. SUFFICES ASSUME NEW c \in Conns PROVE toServer'[c] \in Seq(FromPage(c[1])')
    BY DEF SubmitsDerived
<1>1. FromPage(c[1]) \subseteq FromPage(c[1])'
    BY DEF FromPage, Conns
<1>2. toServer[c] \in Seq(FromPage(c[1])')
    BY <1>1, SeqMonotone DEF SubmitsDerived
<1>. QED BY <1>2

LEMMA ServerKeepsSubmits ==
    ASSUME IInv, NEW c \in Conns, NEW type, Reads(c, type), UNCHANGED derived
    PROVE  SubmitsDerived'
BY DerivedTyped, WebReadsFacts, SubmitsKept DEF IInv

LEMMA PageKeepsSubmits ==
    ASSUME IInv, NEW p \in Participants,
           \A q \in Participants : derived[q] \subseteq derived'[q],
           \/ UNCHANGED toServer
           \/ \E m \in ClientMsg : m \in FromPage(p)' /\ Sends(p, m)
    PROVE  SubmitsDerived'
<1>1. CASE UNCHANGED toServer
    BY <1>1, SubmitsKept DEF IInv
<1>2. CASE \E m \in ClientMsg : m \in FromPage(p)' /\ Sends(p, m)
    <2>1. PICK m \in ClientMsg : m \in FromPage(p)' /\ Sends(p, m)
        BY <1>2
    <2>2. \A c \in Conns : \A S :
            toServer[c] \in Seq(S) /\ FromPage(c[1])' \subseteq S => toServer'[c] \in Seq(S)
        <3>1. Conn(p)[1] = p
            BY DEF Conn
        <3>. QED BY <2>1, <3>1, DerivedTyped, WebSendsFacts DEF IInv
    <2>. QED BY <2>2, SubmitsKept DEF IInv
<1>. QED BY <1>1, <1>2

\* Who is counted and what is finalized do not change, and no key is forgotten.
LEMMA CountsKept ==
    ASSUME IInv, UNCHANGED <<final_group_key, finalized_uids, completed>>,
           \A p \in Participants : derived[p] \subseteq derived'[p]
    PROVE  CountedDerived' /\ CompletedAsExpected'
<1>1. \A s \in Sessions : finalized_uids[s] \subseteq Participants
    BY DEF IInv, TypeInv, TypeOK, ServerTypeOK
<1>. QED BY <1>1 DEF IInv, CountedDerived, CompletedAsExpected

-----------------------------------------------------------------------------
(***************************************************************************)
(* The coordinator.                                                        *)
(***************************************************************************)

\* What a submission that is not refused changes.
LEMMA SubmissionFacts ==
    ASSUME IInv, NEW c \in Conns, HandleFinalizeSubmit(c), UNCHANGED derived,
           NEW s, s = Head(toServer[c]).session, NEW vk, vk = Head(toServer[c]).vk,
           ~Refuse(c)
    PROVE  /\ s \in Sessions /\ vk \in Key /\ vk \in derived[c[1]] /\ c[1] \in Participants
           /\ final_group_key[s] \in {NoKey, vk}
           /\ final_group_key' = [final_group_key EXCEPT ![s] = vk]
           /\ finalized_uids' = [finalized_uids EXCEPT ![s] = finalized_uids[s] \cup {c[1]}]
           /\ \/ UNCHANGED completed
              \/ /\ completed' = [completed EXCEPT ![s] = vk]
                 /\ finalized_uids'[s] = Participants
<1>1. Reads(c, "FinalizeSubmit")
    BY DEF HandleFinalizeSubmit
<1>2. /\ Head(toServer[c]) \in ClientMsg
      /\ Head(toServer[c]).type = "FinalizeSubmit"
      /\ Head(toServer[c]) \in FromPage(c[1])
    BY <1>1, DerivedTyped, WebReadsFacts DEF IInv, SubmitsDerived
<1>3. s \in Sessions /\ vk \in Key /\ vk \in derived[c[1]] /\ c[1] \in Participants
    BY <1>2, ClientMsgFacts DEF FromPage, Conns
<1>4. /\ final_group_key[s] \in {NoKey, vk}
      /\ final_group_key' = [final_group_key EXCEPT ![s] = vk]
      /\ finalized_uids' = [finalized_uids EXCEPT ![s] = finalized_uids[s] \cup {c[1]}]
      /\ \/ UNCHANGED completed
         \/ completed' = [completed EXCEPT ![s] = vk] /\ AllOf(finalized_uids'[s])
    BY DEF HandleFinalizeSubmit, Mismatch
<1>5. finalized_uids'[s] \in SUBSET Participants
    BY <1>3, <1>4 DEF IInv, TypeInv, TypeOK, ServerTypeOK
<1>6. AllOf(finalized_uids'[s]) => finalized_uids'[s] = Participants
    BY <1>5, EverybodyThere DEF AllOf
<1>. QED BY <1>3, <1>4, <1>6

LEMMA FinalizeCounts ==
    ASSUME IInv, NEW c \in Conns, HandleFinalizeSubmit(c), UNCHANGED derived
    PROVE  CountedDerived' /\ CompletedAsExpected'
<1>. DEFINE s == Head(toServer[c]).session
            vk == Head(toServer[c]).vk
<1>1. CASE Refuse(c)
    BY <1>1, CountsKept DEF Refuse, serverVars, sessionVars
<1>2. CASE ~Refuse(c)
    <2>1. /\ s \in Sessions /\ vk \in Key /\ vk \in derived[c[1]] /\ c[1] \in Participants
          /\ final_group_key[s] \in {NoKey, vk}
          /\ final_group_key' = [final_group_key EXCEPT ![s] = vk]
          /\ finalized_uids' = [finalized_uids EXCEPT ![s] = finalized_uids[s] \cup {c[1]}]
          /\ \/ UNCHANGED completed
             \/ /\ completed' = [completed EXCEPT ![s] = vk]
                /\ finalized_uids'[s] = Participants
        BY <1>2, SubmissionFacts
    <2>. HIDE DEF s, vk
    <2>2. /\ final_group_key \in [Sessions -> Packages]
          /\ finalized_uids \in [Sessions -> SUBSET Participants]
          /\ completed \in [Sessions -> Packages]
        BY DEF IInv, TypeInv, TypeOK, ServerTypeOK
    <2>3. \A t \in Sessions : t # s =>
            /\ final_group_key'[t] = final_group_key[t]
            /\ finalized_uids'[t] = finalized_uids[t]
            /\ completed'[t] = completed[t]
        BY <2>1, <2>2
    <2>4. final_group_key'[s] = vk /\ finalized_uids'[s] = finalized_uids[s] \cup {c[1]}
        BY <2>1, <2>2
    <2>5. \A p \in finalized_uids[s] : vk \in derived[p]
        <3>1. \A p \in finalized_uids[s] : final_group_key[s] \in derived[p] /\ p \in Participants
            BY <2>1, <2>2 DEF IInv, CountedDerived
        <3>. QED BY <2>1, <3>1, DerivedTyped DEF IInv
    <2>6. CountedDerived'
        BY <2>1, <2>3, <2>4, <2>5 DEF IInv, CountedDerived
    <2>7. completed'[s] # NoKey => completed'[s] = vk /\ finalized_uids'[s] = Participants
        <3>1. CASE UNCHANGED completed
            BY <2>1, <2>2, <2>4, <3>1 DEF IInv, CompletedAsExpected
        <3>2. CASE completed' = [completed EXCEPT ![s] = vk] /\ finalized_uids'[s] = Participants
            BY <2>1, <2>2, <3>2
        <3>. QED BY <2>1, <3>1, <3>2
    <2>8. CompletedAsExpected'
        BY <2>3, <2>4, <2>7 DEF IInv, CompletedAsExpected
    <2>. QED BY <2>6, <2>8
<1>. QED BY <1>1, <1>2

\* The other handlers finalize nothing.
LEMMA OtherHandlers ==
    ASSUME NEW c \in Conns, ServerStep(c), ~HandleFinalizeSubmit(c)
    PROVE  UNCHANGED <<final_group_key, finalized_uids, completed>>
BY DEF ServerStep, HandleRequestChallengeDkg, HandleLoginDkg, HandleAnnounce, HandleJoin,
       HandleListPending, HandleRound1Submit, HandleRound2Submit, HandleDisconnect, Refuse,
       serverVars, sessionVars

LEMMA ServerStepIInv ==
    ASSUME IInv, TypeInv', NEW c \in Conns, ServerStep(c)
    PROVE  IInv'
<1>1. UNCHANGED derived
    BY DEF ServerStep, clientVars, history
<1>2. PICK type : Reads(c, type)
    BY DEF ServerStep, HandleRequestChallengeDkg, HandleRequestChallenge, HandleLoginDkg,
           HandleLogin, HandleAnnounce, HandleJoin, HandleListPending, HandleRound1Submit,
           HandleRound2Submit, HandleFinalizeSubmit, HandleDisconnect
<1>3. SubmitsDerived'
    BY <1>1, <1>2, ServerKeepsSubmits
<1>4. CountedDerived' /\ CompletedAsExpected'
    BY <1>1, FinalizeCounts, OtherHandlers, CountsKept
<1>. QED BY <1>3, <1>4 DEF IInv

-----------------------------------------------------------------------------
(***************************************************************************)
(* The pages.                                                              *)
(***************************************************************************)

\* Part 3 derives a key and submits it, or does neither.
LEMMA Part3Derives ==
    ASSUME IInv, NEW p \in Participants, Finalize(p)
    PROVE  \/ UNCHANGED <<derived, toServer>>
           \/ \E vk \in Key :
                 /\ derived' = [derived EXCEPT ![p] = derived[p] \cup {vk}]
                 /\ Sends(p, [type |-> "FinalizeSubmit", session |-> sessionIdRef[p], vk |-> vk])
<1>. DEFINE vk == Part3Key(p, r2_secret[p], all_r1_packages[p])
<1>1. r2_secret[p] # 0 => vk \in Key
    BY WebPackagesFacts DEF Part3Key, IInv, TypeInv, TypeOK, ClientTypeOK, Packages
<1>. QED BY <1>1 DEF Finalize

LEMMA OthersDeriveNothing ==
    ASSUME NEW p \in Participants, ~Finalize(p),
           PageStep(p) \/ WakeUp(p) \/ UserStep(p) \/ Disconnect(p) \/ Reload(p)
    PROVE  UNCHANGED derived
BY DEF PageStep, WakeUp, UserStep, OnChallenge, OnLoginOk, OnSessionCreated, OnPendingSessions,
       OnNewSession, OnSessionAborted, OnFinalized, OnError, LeavesSession, OnRound,
       OnRound1All, Round1, Round2, Connect, Announce, Join, Refresh, Disconnect, Reload,
       clientVars, history

\* A page submits a key only when it has derived one.
LEMMA PageSubmits ==
    ASSUME IInv, NEW p \in Participants,
           \/ PageStep(p)
           \/ WakeUp(p) /\ ~Finalize(p)
           \/ UserStep(p) /\ ~Connect(p)
    PROVE  \/ UNCHANGED toServer
           \/ \E m \in ClientMsg : m.type # "FinalizeSubmit" /\ Sends(p, m)
<1>. USE ClientMsgFacts
<1>1. CASE PageStep(p)
    BY <1>1
       DEF PageStep, OnChallenge, AnswersChallenge, OnLoginOk, OnSessionCreated, OnPendingSessions,
           OnNewSession, OnSessionAborted, OnFinalized, OnError, RelistsUnlessCreator, OnRound,
           OnRound1All, ListPending
<1>2. CASE Round1(p)
    <2>1. sessionIdRef[p] \in Sessions
        BY <1>2, WakesFacts DEF Round1, IInv
    <2>2. gen'[p] \in Nat /\ gen'[p] # 0
        BY <1>2 DEF Round1, IInv, TypeInv, TypeOK, ClientTypeOK
    <2>. QED BY <1>2, <2>1, <2>2 DEF Round1
<1>3. CASE Round2(p)
    <2>1. sessionIdRef[p] \in Sessions /\ r1_secret[p] \in Nat
        BY <1>3, WakesFacts DEF Round2, IInv, TypeInv, TypeOK, ClientTypeOK, Packages
    <2>. QED BY <1>3, <2>1 DEF Round2
<1>4. CASE UserStep(p) /\ ~Connect(p)
    BY <1>4 DEF UserStep, Announce, Join, Refresh, ListPending
<1>. QED BY <1>1, <1>2, <1>3, <1>4 DEF WakeUp

LEMMA PageStepIInv ==
    ASSUME IInv, TypeInv', NEW p \in Participants, UNCHANGED sessionVars,
           PageStep(p) \/ WakeUp(p) \/ UserStep(p) \/ Disconnect(p) \/ Reload(p)
    PROVE  IInv'
<1>1. \A q \in Participants : derived[q] \subseteq derived'[q]
    BY Part3Derives, OthersDeriveNothing, DerivedTyped DEF IInv
<1>2. UNCHANGED <<final_group_key, finalized_uids, completed>>
    BY DEF sessionVars
<1>3. SubmitsDerived'
    <2>1. CASE Connect(p)
        <3>1. \A q \in Participants : [type |-> "RequestChallenge"] \in FromPage(q)'
            BY ClientMsgFacts DEF FromPage
        <3>. QED BY <1>1, <2>1, <3>1, OpenFacts, DerivedTyped, SubmitsKept, ClientMsgFacts
                 DEF Connect, IInv, Conns
    <2>2. CASE Disconnect(p) \/ Reload(p)
        <3>1. \A q \in Participants : [type |-> "Close"] \in FromPage(q)'
            BY ClientMsgFacts DEF FromPage
        <3>. QED BY <1>1, <2>2, <3>1, CloseFacts, DerivedTyped, SubmitsKept, ClientMsgFacts
                 DEF Disconnect, Reload, IInv, Conns
    <2>3. CASE Finalize(p) /\ UNCHANGED <<derived, toServer>>
        BY <1>1, <2>3, PageKeepsSubmits
    <2>4. CASE Finalize(p) /\ ~UNCHANGED <<derived, toServer>>
        <3>1. PICK vk \in Key :
                /\ derived' = [derived EXCEPT ![p] = derived[p] \cup {vk}]
                /\ Sends(p, [type |-> "FinalizeSubmit", session |-> sessionIdRef[p], vk |-> vk])
            BY <2>4, Part3Derives
        <3>2. sessionIdRef[p] \in Sessions
            BY <2>4, WakesFacts DEF Finalize, IInv
        <3>. DEFINE m == [type |-> "FinalizeSubmit", session |-> sessionIdRef[p], vk |-> vk]
        <3>3. m \in ClientMsg /\ vk \in derived'[p]
            BY <3>1, <3>2, ClientMsgFacts, DerivedTyped DEF IInv
        <3>4. m \in FromPage(p)'
            BY <3>3 DEF FromPage
        <3>. QED BY <1>1, <3>1, <3>3, <3>4, PageKeepsSubmits
    <2>5. CASE ~Finalize(p) /\ ~Connect(p) /\ ~Disconnect(p) /\ ~Reload(p)
        <3>1. \/ UNCHANGED toServer
              \/ \E m \in ClientMsg : m.type # "FinalizeSubmit" /\ Sends(p, m)
            BY <2>5, PageSubmits
        <3>2. \A m \in ClientMsg : m.type # "FinalizeSubmit" => m \in FromPage(p)'
            BY DEF FromPage
        <3>. QED BY <1>1, <3>1, <3>2, PageKeepsSubmits
    <2>. QED BY <2>1, <2>2, <2>3, <2>4, <2>5
<1>4. CountedDerived' /\ CompletedAsExpected'
    BY <1>1, <1>2, CountsKept
<1>. QED BY <1>3, <1>4 DEF IInv

LEMMA InitIInv == Init => IInv
<1>. SUFFICES ASSUME Init PROVE IInv
    OBVIOUS
<1>1. TypeInv
    BY InitTypeInv
<1>2. SubmitsDerived
    BY EmptySeq DEF Init, NetInit, SubmitsDerived
<1>3. CountedDerived /\ CompletedAsExpected
    BY DEF Init, ServerInit, CountedDerived, CompletedAsExpected
<1>. QED BY <1>1, <1>2, <1>3 DEF IInv

LEMMA NextIInv == IInv /\ [Next]_vars => IInv'
<1>. SUFFICES ASSUME IInv, [Next]_vars PROVE IInv'
    OBVIOUS
<1>1. TypeInv'
    BY NextTypeInv DEF IInv
<1>2. ASSUME NEW c \in Conns, ServerStep(c) PROVE IInv'
    BY <1>1, <1>2, ServerStepIInv
<1>3. ASSUME NEW p \in Participants,
             \/ PageStep(p) \/ WakeUp(p) \/ UserStep(p)
             \/ (Disconnect(p) \/ Reload(p)) /\ UNCHANGED sessionVars
      PROVE  IInv'
    BY <1>1, <1>3, PageStepIInv DEF PageStep, WakeUp, UserStep
<1>4. CASE UNCHANGED vars
    BY <1>1, <1>4 DEF vars, serverVars, sessionVars, clientVars, history, IInv, SubmitsDerived,
                      FromPage, CountedDerived, CompletedAsExpected
<1>. QED BY <1>2, <1>3, <1>4 DEF Next

LEMMA IInvAlways == Spec => []IInv
BY InitIInv, NextIInv, PTL DEF Spec

\* The group key of a finalized session was derived by every participant's page.
THEOREM WebDkgFinalizedDerived == Spec => []FinalizedKeyDerivedByAll
<1>1. IInv => FinalizedKeyDerivedByAll
    BY DEF IInv, CountedDerived, CompletedAsExpected, FinalizedKeyDerivedByAll
<1>. QED BY <1>1, IInvAlways, PTL

-----------------------------------------------------------------------------
(***************************************************************************)
(* Every session implements DkgOutcome.                                    *)
(***************************************************************************)
OutcomeSteps == \A s \in Sessions : [Outcome(s)!Next]_(Outcome(s)!vars)

LEMMA OutcomeStutters ==
    ASSUME UNCHANGED <<derived, completed>>
    PROVE  OutcomeSteps
BY DEF OutcomeSteps, Outcome!vars, Status, NothingNamed

LEMMA InitOutcome == Init => \A s \in Sessions : Outcome(s)!Init
BY DEF Init, ServerInit, ClientInit, Outcome!Init, Status, NothingNamed

\* The last submission decides its session; in a session that is decided already
\* a submission names the same key and changes nothing.
LEMMA FinalizeOutcome ==
    ASSUME IInv, NEW c \in Conns, HandleFinalizeSubmit(c), UNCHANGED derived,
           CountedDerived', TypeInv'
    PROVE  OutcomeSteps
<1>1. CASE UNCHANGED completed
    BY <1>1, OutcomeStutters
<1>2. CASE ~UNCHANGED completed
    <2>1. ~Refuse(c)
        BY <1>2 DEF Refuse, serverVars, sessionVars
    <2>2. PICK s \in Sessions, vk \in Key :
          /\ final_group_key[s] \in {NoKey, vk}
          /\ final_group_key' = [final_group_key EXCEPT ![s] = vk]
          /\ completed' = [completed EXCEPT ![s] = vk]
          /\ finalized_uids'[s] = Participants
        BY <1>2, <2>1, SubmissionFacts
    <2>3. /\ final_group_key \in [Sessions -> Packages]
          /\ completed \in [Sessions -> Packages]
        BY DEF IInv, TypeInv, TypeOK, ServerTypeOK
    <2>4. completed[s] = NoKey
        <3>1. SUFFICES ASSUME completed[s] # NoKey PROVE FALSE
            OBVIOUS
        <3>2. completed[s] = vk
            BY <2>2, <3>1 DEF IInv, CompletedAsExpected
        <3>. QED BY <1>2, <2>2, <2>3, <3>2
    <2>5. completed'[s] = vk /\ final_group_key'[s] = vk /\ vk # NoKey
        BY <2>2, <2>3 DEF Key
    <2>6. \A p \in Participants : completed'[s] \in derived[p]
        BY <2>2, <2>5 DEF CountedDerived
    <2>7. Outcome(s)!Decide
        BY <2>4, <2>5, <2>6 DEF Outcome!Decide, Status, NothingNamed
    <2>8. ASSUME NEW t \in Sessions, t # s PROVE UNCHANGED Outcome(t)!vars
        BY <2>2, <2>3, <2>8 DEF Outcome!vars, Status, NothingNamed
    <2>. QED BY <2>7, <2>8 DEF OutcomeSteps, Outcome!Next
<1>. QED BY <1>1, <1>2

\* Part 3 is the abstract specification's Derive, in every session at once.
LEMMA Part3Outcome ==
    ASSUME IInv, NEW p \in Participants, Finalize(p), UNCHANGED completed
    PROVE  OutcomeSteps
<1>1. CASE UNCHANGED derived
    BY <1>1, OutcomeStutters
<1>2. CASE ~UNCHANGED derived
    <2>1. PICK vk \in Key : derived' = [derived EXCEPT ![p] = derived[p] \cup {vk}]
        BY <1>2, Part3Derives
    <2>2. vk \in derived'[p] /\ vk # NoKey
        BY <2>1, DerivedTyped DEF IInv
    <2>3. \A s \in Sessions : Outcome(s)!Derive(p)
        BY <2>1, <2>2 DEF Outcome!Derive, Status, NothingNamed
    <2>. QED BY <2>3 DEF OutcomeSteps, Outcome!Next
<1>. QED BY <1>1, <1>2

LEMMA NextOutcome ==
    IInv /\ IInv' /\ [Next]_vars =>
        [\A s \in Sessions : [Outcome(s)!Next]_(Outcome(s)!vars)]_vars
<1>. SUFFICES ASSUME IInv, IInv', [Next]_vars PROVE OutcomeSteps \/ UNCHANGED vars
    BY DEF OutcomeSteps
<1>1. ASSUME NEW c \in Conns, ServerStep(c) PROVE OutcomeSteps
    <2>1. UNCHANGED derived
        BY <1>1 DEF ServerStep, clientVars, history
    <2>. QED BY <1>1, <2>1, FinalizeOutcome, OtherHandlers, OutcomeStutters DEF IInv
<1>2. ASSUME NEW p \in Participants,
             \/ PageStep(p) \/ WakeUp(p) \/ UserStep(p)
             \/ (Disconnect(p) \/ Reload(p)) /\ UNCHANGED sessionVars
      PROVE  OutcomeSteps
    <2>1. UNCHANGED completed
        BY <1>2 DEF PageStep, WakeUp, UserStep, sessionVars
    <2>. QED BY <1>2, <2>1, Part3Outcome, OthersDeriveNothing, OutcomeStutters
<1>. QED BY <1>1, <1>2 DEF Next

\* Every session is decided at most once, for a key every participant derived.
THEOREM WebDkgImplementsOutcome == Spec => ImplementsOutcome
<1>1. Init => \A s \in Sessions : Outcome(s)!Init
    BY InitOutcome
<1>. QED BY <1>1, IInvAlways, NextOutcome, PTL DEF Spec, ImplementsOutcome

-----------------------------------------------------------------------------
(***************************************************************************)
(* III. Participants who join once go through the rounds once.  Under that *)
(* condition each step below happens at most once per participant and only *)
(* after everybody has taken the one before:                               *)
(*   a join is read; ReadyRound1 is handled and a generation drawn; a      *)
(*   Round1Submit is read; ReadyRound2 is handled; a Round2Submit is read. *)
(***************************************************************************)
AskJoin == {"JoinDKGSession"}
AskRound1 == {"Round1Submit"}
AskRound2 == {"Round2Submit"}
Start1 == {"ReadyRound1"}
Start2 == {"ReadyRound2"}

\* No message of these types is waiting for p's page or its handler; at most one.
Unready(p, T) == Free(toClient[p], T) /\ Free(sleeping[p], T)
ReadyOnce(p, T) ==
    /\ Single(toClient[p], T) /\ Single(sleeping[p], T)
    /\ Free(toClient[p], T) \/ Free(sleeping[p], T)

\* p's join, or its round-1 package, was sent and is read or lost.
JoinSpent(p) == joins[p] # 0 /\ Unsent(p, AskJoin)
Round1Spent(p) == gen[p] # 0 /\ Unsent(p, AskRound1)

NotDealt(p) ==
    \A s \in Sessions, r \in Participants :
        \A i \in 1..Len(round2_packages[s][r]) : round2_packages[s][r][i].from # p

JoinOnce ==
    \A p \in Participants :
        /\ Once(p, AskJoin)
        /\ joins[p] = 0 => Unsent(p, AskJoin)
        /\ ~JoinSpent(p) => \A s \in Sessions : joined[s][p] = 0

JoinsFirst ==
    (\E p \in Participants : ~JoinSpent(p)) =>
        \A p \in Participants : Unready(p, Start1) /\ gen[p] = 0

DrawOnce ==
    \A p \in Participants :
        /\ ReadyOnce(p, Start1)
        /\ ~Unready(p, Start1) => gen[p] = 0
        /\ gen[p] <= 1

Round1Once ==
    \A p \in Participants :
        /\ Once(p, AskRound1)
        /\ gen[p] = 0 => Unsent(p, AskRound1)
        /\ ~Round1Spent(p) => \A s \in Sessions : round1_packages[s][p] = 0

Round1First ==
    (\E p \in Participants : ~Round1Spent(p)) =>
        \A p \in Participants : Unready(p, Start2) /\ Unsent(p, AskRound2) /\ NotDealt(p)

DealOnce ==
    \A p \in Participants :
        /\ ReadyOnce(p, Start2)
        /\ ~Unready(p, Start2) => Unsent(p, AskRound2) /\ NotDealt(p)
        /\ Once(p, AskRound2)
        /\ ~Unsent(p, AskRound2) => NotDealt(p)

\* Nobody is in a list twice, or in its own.
DistinctSenders ==
    \A s \in Sessions, r \in Participants :
        /\ \A i \in 1..Len(round2_packages[s][r]) : round2_packages[s][r][i].from # r
        /\ \A i, j \in 1..Len(round2_packages[s][r]) :
              round2_packages[s][r][i].from = round2_packages[s][r][j].from => i = j

RoundsOnce ==
    /\ JoinOnce /\ JoinsFirst
    /\ DrawOnce /\ Round1Once /\ Round1First
    /\ DealOnce /\ DistinctSenders

\* The pages are not told to start a round.
NoneReady(T) ==
    \A p \in Participants :
        /\ Unready(p, T) => Unready(p, T)'
        /\ ReadyOnce(p, T) => ReadyOnce(p, T)'

LEMMA NoneReadyFacts ==
    ASSUME NEW T, NoneCame(T), \A p \in Participants : NoneNew(sleeping[p], sleeping'[p], T)
    PROVE  NoneReady(T)
BY DEF NoneReady, NoneCame, NoneNew, Unready, ReadyOnce

LEMMA JoinsKept ==
    ASSUME NoneSent(AskJoin), UNCHANGED joins
    PROVE  \A p \in Participants : JoinSpent(p) => JoinSpent(p)'
BY NoneSentKeeps DEF JoinSpent

LEMMA Round1Kept ==
    ASSUME NoneSent(AskRound1), UNCHANGED gen
    PROVE  \A p \in Participants : Round1Spent(p) => Round1Spent(p)'
BY NoneSentKeeps DEF Round1Spent

LEMMA JoinOnceKept ==
    ASSUME JoinOnce, NoneSent(AskJoin), UNCHANGED joins,
           \A s \in Sessions, p \in Participants : joined'[s][p] \in {joined[s][p], 0}
    PROVE  JoinOnce'
BY JoinsKept, NoneSentKeeps DEF JoinOnce

LEMMA JoinsFirstKept ==
    ASSUME JoinsFirst, NoneSent(AskJoin), UNCHANGED joins, NoneReady(Start1), UNCHANGED gen
    PROVE  JoinsFirst'
BY JoinsKept DEF JoinsFirst, NoneReady

LEMMA DrawOnceKept ==
    ASSUME DrawOnce, NoneReady(Start1), UNCHANGED gen
    PROVE  DrawOnce'
BY DEF DrawOnce, NoneReady

LEMMA Round1OnceKept ==
    ASSUME Round1Once, NoneSent(AskRound1), UNCHANGED <<gen, round1_packages>>
    PROVE  Round1Once'
BY Round1Kept, NoneSentKeeps DEF Round1Once

LEMMA NotDealtKept ==
    ASSUME UNCHANGED round2_packages
    PROVE  /\ \A p \in Participants : NotDealt(p)' = NotDealt(p)
           /\ DistinctSenders => DistinctSenders'
BY DEF NotDealt, DistinctSenders

LEMMA Round1FirstKept ==
    ASSUME Round1First, NoneSent(AskRound1), UNCHANGED gen, NoneReady(Start2),
           NoneSent(AskRound2), UNCHANGED round2_packages
    PROVE  Round1First'
BY Round1Kept, NotDealtKept, NoneSentKeeps DEF Round1First, NoneReady

LEMMA DealOnceKept ==
    ASSUME DealOnce, NoneReady(Start2), NoneSent(AskRound2), UNCHANGED round2_packages
    PROVE  DealOnce'
BY NotDealtKept, NoneSentKeeps DEF DealOnce, NoneReady

\* A step that is none of a round.
LEMMA RoundsOnceKept ==
    ASSUME RoundsOnce, NoneSent(AskJoin), NoneSent(AskRound1), NoneSent(AskRound2),
           NoneReady(Start1), NoneReady(Start2),
           UNCHANGED <<joins, gen, round1_packages, round2_packages>>,
           \A s \in Sessions, p \in Participants : joined'[s][p] \in {joined[s][p], 0}
    PROVE  RoundsOnce'
BY JoinOnceKept, JoinsFirstKept, DrawOnceKept, Round1OnceKept, Round1FirstKept, DealOnceKept,
   NotDealtKept DEF RoundsOnce

LEMMA SlotCount ==
    LET N == Cardinality(Participants)
        pairs == {x \in Participants \X Participants : x[1] # x[2]}
    IN  IsFiniteSet(pairs) /\ Cardinality(pairs) = N * (N - 1)
<1>. DEFINE N == Cardinality(Participants)
            square == Participants \X Participants
            diagonal == {x \in square : x[1] = x[2]}
            pairs == {x \in square : x[1] # x[2]}
            twin == [p \in Participants |-> <<p, p>>]
<1>1. N \in Nat /\ IsFiniteSet(Participants)
    BY WebParticipantsAssumption, FS_CardinalityType
<1>2. IsFiniteSet(square) /\ Cardinality(square) = N * N
    BY <1>1, FS_Product
<1>3. Cardinality(diagonal) = N
    <2>1. twin \in Bijection(Participants, diagonal)
        BY DEF Bijection, Injection, Surjection, IsInjective
    <2>2. ExistsBijection(Participants, diagonal)
        BY <2>1 DEF ExistsBijection
    <2>. HIDE DEF diagonal
    <2>. QED BY <1>1, <2>2, FS_Bijection
<1>4. pairs = square \ diagonal /\ square \cap diagonal = diagonal
    OBVIOUS
<1>5. IsFiniteSet(pairs) /\ Cardinality(pairs) = N * N - N
    <2>. HIDE DEF square, diagonal, pairs
    <2>. QED BY <1>2, <1>3, <1>4, FS_Difference
<1>. HIDE DEF N
<1>6. N * N - N = N * (N - 1)
    BY <1>1
<1>. QED BY <1>5, <1>6 DEF N

\* As many packages as there are pairs of participants: with every sender at most
\* once in a list and never in its own, each list is complete.
LEMMA CountTells ==
    ASSUME NEW pkgs \in [Participants -> Seq(Submit)],
           \A r \in Participants :
              /\ \A i \in 1..Len(pkgs[r]) : pkgs[r][i].from # r
              /\ \A i, j \in 1..Len(pkgs[r]) : pkgs[r][i].from = pkgs[r][j].from => i = j,
           AllPackagesCame(pkgs), NEW p \in Participants
    PROVE  {pkgs[p][i].from : i \in 1..Len(pkgs[p])} = Participants \ {p}
<1>. DEFINE pairs == {x \in Participants \X Participants : x[1] # x[2]}
            slot == [x \in Slots(pkgs) |-> <<x[1], pkgs[x[1]][x[2]].from>>]
<1>1. \A r \in Participants : /\ DOMAIN pkgs[r] = 1..Len(pkgs[r])
                              /\ \A i \in 1..Len(pkgs[r]) : pkgs[r][i].from \in Participants
    <2>1. TAKE r \in Participants
    <2>2. pkgs[r] \in Seq(Submit)
        OBVIOUS
    <2>3. DOMAIN pkgs[r] = 1..Len(pkgs[r]) /\ \A i \in 1..Len(pkgs[r]) : pkgs[r][i] \in Submit
        BY <2>2, LenProperties, ElementOfSeq
    <2>. QED BY <2>3 DEF Submit
<1>2. \A x : x \in Slots(pkgs) <=>
              \E r \in Participants : \E i \in 1..Len(pkgs[r]) : x = <<r, i>>
    BY <1>1 DEF Slots
<1>3. slot \in Injection(Slots(pkgs), pairs)
    <2>1. slot \in [Slots(pkgs) -> pairs]
        BY <1>1, <1>2
    <2>2. ASSUME NEW x \in Slots(pkgs), NEW y \in Slots(pkgs), slot[x] = slot[y] PROVE x = y
        <3>1. PICK r \in Participants : \E i \in 1..Len(pkgs[r]) : x = <<r, i>>
            BY <1>2
        <3>a. PICK i \in 1..Len(pkgs[r]) : x = <<r, i>>
            BY <3>1
        <3>2. PICK t \in Participants : \E j \in 1..Len(pkgs[t]) : y = <<t, j>>
            BY <1>2
        <3>b. PICK j \in 1..Len(pkgs[t]) : y = <<t, j>>
            BY <3>2
        <3>3. r = t /\ pkgs[r][i].from = pkgs[r][j].from
            BY <2>2, <3>a, <3>b
        <3>. QED BY <3>a, <3>b, <3>3
    <2>. QED BY <2>1, <2>2 DEF Injection, IsInjective
<1>4. IsFiniteSet(pairs) /\ Cardinality(Slots(pkgs)) = Cardinality(pairs)
    BY SlotCount DEF AllPackagesCame, Total
<1>5. slot \in Surjection(Slots(pkgs), pairs)
    <2>. HIDE DEF slot, pairs
    <2>. QED BY <1>3, <1>4, FS_Injection
<1>6. ASSUME NEW q \in Participants \ {p}
      PROVE  q \in {pkgs[p][i].from : i \in 1..Len(pkgs[p])}
    <2>1. PICK x \in Slots(pkgs) : slot[x] = <<p, q>>
        BY <1>5 DEF Surjection
    <2>2. PICK r \in Participants : \E i \in 1..Len(pkgs[r]) : x = <<r, i>>
        BY <1>2
    <2>. QED BY <2>1, <2>2
<1>. QED BY <1>1, <1>6

-----------------------------------------------------------------------------
(***************************************************************************)
(* Everything drawn is drawn first: what pages and coordinator hold is of  *)
(* everyone's first generation, and what is announced is complete.         *)
(***************************************************************************)
Ones == [p \in Participants |-> 1]

FirstDrawn == {m \in ClientMsg : m.type = "Round1Submit" => m.gen = 1}
Whole(p) ==
    {m \in ServerMsg :
        /\ m.type = "Round1All" => m.pkgs = Ones
        /\ m.type = "Round2All" =>
              {m.pkgs[j].from : j \in 1..Len(m.pkgs)} = Participants \ {p}}

ServerFirst ==
    /\ \A c \in Conns : toServer[c] \in Seq(FirstDrawn)
    /\ \A s \in Sessions, p \in Participants : round1_packages[s][p] \in {0, 1}

PagesFirst ==
    /\ \A p \in Participants : toClient[p] \in Seq(Whole(p))
    /\ \A p \in Participants :
          /\ r1_secret[p] \in {0, 1} /\ r2_secret[p] \in {0, 1}
          /\ all_r1_packages[p] \in {NoPackages, Ones}
          /\ derived[p] \subseteq {Ones}

OnceInv == RoundsOnce /\ ServerFirst /\ PagesFirst

\* Messages that neither start a round nor carry packages.
Quiet == {m \in ServerMsg : m.type \notin {"ReadyRound1", "ReadyRound2", "Round1All", "Round2All"}}

LEMMA QuietFacts ==
    /\ \A t \in {"Challenge", "LoginOk", "Finalized", "SessionAborted", "Error"} :
          [type |-> t] \in Quiet
    /\ \A s \in Sessions, t \in {"DKGSessionCreated", "NewDKGSession"} :
          [type |-> t, session |-> s] \in Quiet
    /\ \A S \in SUBSET Sessions : [type |-> "PendingDKGSessions", sessions |-> S] \in Quiet
    /\ \A p \in Participants : Quiet \subseteq Whole(p)
    /\ Quiet \subseteq ServerMsg
BY ServerMsgFacts DEF Quiet, Whole

LEMMA QuietIsFree ==
    ASSUME NEW q \in Seq(Quiet)
    PROVE  Free(q, Start1) /\ Free(q, Start2)
<1>1. \A i \in 1..Len(q) : q[i] \in Quiet
    BY ElementOfSeq
<1>. QED BY <1>1 DEF Free, Start1, Start2, Quiet

\* A handler that none of the messages above starts sends none of them.
QuietAnswer ==
    \/ UNCHANGED toClient
    \/ \E conn : \E msgs \in [Participants -> Seq(Quiet)] : toClient' = Sent(conn, msgs)

LEMMA QuietReply ==
    ASSUME NEW c \in Conns, NEW m \in Quiet, Reply(c, m)
    PROVE  QuietAnswer
<1>1. [p \in Participants |-> <<m>>] \in [Participants -> Seq(Quiet)]
    BY FewMessages
<1>. QED BY <1>1 DEF Reply, Broadcast, QuietAnswer

LEMMA QuietAnswerFacts ==
    ASSUME TypeInv, QuietAnswer
    PROVE  /\ NoneCame(Start1) /\ NoneCame(Start2)
           /\ \A p \in Participants :
                 toClient[p] \in Seq(Whole(p)) => toClient'[p] \in Seq(Whole(p))
<1>1. Queues(ClientMsg, ServerMsg)
    BY QueuesTyped DEF TypeInv
<1>2. ASSUME NEW conn, NEW msgs \in [Participants -> Seq(Quiet)], toClient' = Sent(conn, msgs)
      PROVE  /\ NoneCame(Start1) /\ NoneCame(Start2)
             /\ \A p \in Participants :
                   toClient[p] \in Seq(Whole(p)) => toClient'[p] \in Seq(Whole(p))
    <2>1. \A p \in Participants : /\ Free(msgs[p], Start1) /\ Free(msgs[p], Start2)
                                  /\ msgs[p] \in Seq(Whole(p)) /\ msgs[p] \in Seq(ServerMsg)
        BY QuietIsFree, QuietFacts, SeqMonotone
    <2>2. msgs \in [Participants -> Seq(ServerMsg)]
        BY <2>1
    <2>. QED BY <1>1, <1>2, <2>1, <2>2, SentQueued, WebSentFacts
<1>. QED BY <1>2, SilentStep DEF QuietAnswer

LEMMA AbortNotices ==
    ASSUME NEW n \in Nat
    PROVE  [i \in 1..n |-> [type |-> "SessionAborted"]] \in Seq(Quiet)
<1>1. \A S : [type |-> "SessionAborted"] \in S =>
        [i \in 1..n |-> [type |-> "SessionAborted"]] \in Seq(S)
    BY IsASeq
<1>. QED BY <1>1, QuietFacts

\* The handlers that neither enter a session nor take a package.
QuietHandler(c) ==
    /\ ServerStep(c)
    /\ ~HandleJoin(c)
    /\ HandleRound1Submit(c) \/ HandleRound2Submit(c) => Refuse(c)

LEMMA QuietHandlerFacts ==
    ASSUME TypeInv, NEW c \in Conns, QuietHandler(c)
    PROVE  /\ QuietAnswer
           /\ \E type : Reads(c, type)
           /\ UNCHANGED <<round1_packages, round2_packages, clientVars>>
           /\ \A s \in Sessions, p \in Participants : joined'[s][p] \in {joined[s][p], 0}
<1>. USE QuietFacts
<1>0. UNCHANGED clientVars
    BY DEF QuietHandler, ServerStep
<1>1. CASE Refuse(c) /\ (HandleRound1Submit(c) \/ HandleRound2Submit(c))
    <2>1. QuietAnswer
        BY <1>1, QuietReply DEF Refuse
    <2>. QED BY <1>0, <1>1, <2>1
             DEF Refuse, serverVars, sessionVars, HandleRound1Submit, HandleRound2Submit
<1>2. CASE HandleRequestChallengeDkg(c) \/ HandleLoginDkg(c) \/ HandleListPending(c)
    <2>1. QuietAnswer
        <3>1. \E m \in Quiet : Reply(c, m)
            BY <1>2 DEF HandleRequestChallengeDkg, HandleRequestChallenge, HandleLoginDkg,
                        HandleLogin, HandleListPending
        <3>. QED BY <3>1, QuietReply
    <2>. QED BY <1>0, <1>2, <2>1 DEF HandleRequestChallengeDkg, HandleRequestChallenge, HandleLoginDkg,
                        HandleLogin, HandleListPending, serverVars, sessionVars
<1>3. CASE HandleAnnounce(c)
    <2>1. PICK s \in Sessions :
              Broadcast(AnnouncedTo(c), [p \in Participants |->
                <<[type |-> IF Conn(p) = c THEN "DKGSessionCreated" ELSE "NewDKGSession",
                   session |-> s]>>])
        BY <1>3 DEF HandleAnnounce
    <2>2. \A p \in Participants :
            <<[type |-> IF Conn(p) = c THEN "DKGSessionCreated" ELSE "NewDKGSession",
               session |-> s]>> \in Seq(Quiet)
        BY FewMessages
    <2>3. QuietAnswer
        BY <2>1, <2>2 DEF Broadcast, QuietAnswer
    <2>. QED BY <1>0, <1>3, <2>3 DEF HandleAnnounce
<1>4. CASE HandleFinalizeSubmit(c)
    <2>. DEFINE m == [type |-> "Finalized"]
    <2>1. QuietAnswer
        <3>1. (\E n \in Quiet : Reply(c, n)) \/ (\E s : Broadcast(joined[s], ToAll(m)))
            BY <1>4 DEF HandleFinalizeSubmit, Refuse
        <3>2. ToAll(m) \in [Participants -> Seq(Quiet)]
            BY FewMessages DEF ToAll
        <3>. QED BY <3>1, <3>2, QuietReply DEF Broadcast, QuietAnswer
    <2>2. UNCHANGED <<joined, round1_packages, round2_packages>>
        BY <1>4 DEF HandleFinalizeSubmit, Refuse, serverVars, sessionVars
    <2>. QED BY <1>0, <1>4, <2>1, <2>2 DEF HandleFinalizeSubmit
<1>5. CASE HandleDisconnect(c)
    <2>. DEFINE left == {s \in Sessions : IsParticipant(c, s)}
                aborted == {s \in left : state[s] \in {"Round1", "Round2"}}
                msgs == [p \in Participants |->
                            [i \in 1..Cardinality(aborted) |-> [type |-> "SessionAborted"]]]
    <2>1. /\ joined' = [s \in Sessions |->
                         IF s \in left THEN [joined[s] EXCEPT ![c[1]] = 0] ELSE joined[s]]
          /\ toClient' = Sent(AllBut(c), msgs)
          /\ UNCHANGED <<round1_packages, round2_packages>>
          /\ Reads(c, "Close") /\ c[1] \in Participants
        BY <1>5 DEF HandleDisconnect, Broadcast, Conns
    <2>2. \A s \in Sessions, p \in Participants : joined'[s][p] \in {joined[s][p], 0}
        BY <2>1 DEF TypeInv, TypeOK, ServerTypeOK
    <2>3. [i \in 1..Cardinality(aborted) |-> [type |-> "SessionAborted"]] \in Seq(Quiet)
        <3>1. Cardinality(aborted) \in Nat
            BY WebSessionsAssumption, FS_Subset, FS_CardinalityType
        <3>. QED BY <3>1, AbortNotices
    <2>4. QuietAnswer
        BY <2>1, <2>3 DEF QuietAnswer
    <2>. QED BY <1>0, <2>1, <2>2, <2>4
<1>. QED BY <1>1, <1>2, <1>3, <1>4, <1>5 DEF QuietHandler, ServerStep

LEMMA OnceTypes ==
    ASSUME TypeInv
    PROVE  /\ Queues(ClientMsg, ServerMsg) /\ SocketsTypeOK
           /\ sleeping \in [Participants -> Seq(Sleeper)]
           /\ joins \in [Participants -> Nat] /\ gen \in [Participants -> Nat]
           /\ joined \in [Sessions -> [Participants -> 0..MaxSockets]]
           /\ round1_packages \in [Sessions -> Packages]
           /\ round2_packages \in [Sessions -> [Participants -> Seq(Submit)]]
           /\ \A p \in Participants : r1_secret[p] \in Nat /\ r2_secret[p] \in Nat
BY QueuesTyped DEF TypeInv, TypeOK, ServerTypeOK, ClientTypeOK, Packages

\* A message is read and nothing is sent.
LEMMA HandlerFrame ==
    ASSUME TypeInv, NEW c \in Conns, NEW type, Reads(c, type), UNCHANGED clientVars
    PROVE  /\ NoneSent(AskJoin) /\ NoneSent(AskRound1) /\ NoneSent(AskRound2)
           /\ \A T : NoneCame(T) => NoneReady(T)
           /\ UNCHANGED <<joins, gen, sleeping>>
           /\ ServerFirst => \A d \in Conns : toServer'[d] \in Seq(FirstDrawn)
           /\ PagesFirst /\ (\A p \in Participants : toClient'[p] \in Seq(Whole(p))) => PagesFirst'
<1>1. NoneSent(AskJoin) /\ NoneSent(AskRound1) /\ NoneSent(AskRound2)
    BY OnceTypes, ReadsQueued
<1>2. UNCHANGED <<joins, gen, sleeping>>
    BY DEF clientVars, clickVars, history, dkgState
<1>3. \A T : NoneCame(T) => NoneReady(T)
    BY <1>2, NoneReadyFacts DEF NoneNew
<1>4. ServerFirst => \A d \in Conns : toServer'[d] \in Seq(FirstDrawn)
    BY OnceTypes, WebReadsFacts DEF ServerFirst
<1>5. PagesFirst /\ (\A p \in Participants : toClient'[p] \in Seq(Whole(p))) => PagesFirst'
    BY DEF PagesFirst, clientVars, dkgState, history
<1>. QED BY <1>1, <1>2, <1>3, <1>4, <1>5

LEMMA QuietHandlerOnce ==
    ASSUME TypeInv, OnceInv, NEW c \in Conns, QuietHandler(c)
    PROVE  OnceInv'
<1>1. /\ QuietAnswer
      /\ \E type : Reads(c, type)
      /\ UNCHANGED <<round1_packages, round2_packages, clientVars>>
      /\ \A s \in Sessions, p \in Participants : joined'[s][p] \in {joined[s][p], 0}
    BY QuietHandlerFacts
<1>2. /\ NoneCame(Start1) /\ NoneCame(Start2)
      /\ \A p \in Participants : toClient'[p] \in Seq(Whole(p))
    BY <1>1, QuietAnswerFacts DEF OnceInv, PagesFirst
<1>3. /\ NoneSent(AskJoin) /\ NoneSent(AskRound1) /\ NoneSent(AskRound2)
      /\ NoneReady(Start1) /\ NoneReady(Start2)
      /\ UNCHANGED <<joins, gen>>
      /\ \A d \in Conns : toServer'[d] \in Seq(FirstDrawn)
      /\ PagesFirst'
    BY <1>1, <1>2, HandlerFrame DEF OnceInv
<1>4. RoundsOnce'
    BY <1>1, <1>3, RoundsOnceKept DEF OnceInv
<1>5. ServerFirst'
    BY <1>1, <1>3 DEF OnceInv, ServerFirst
<1>. QED BY <1>3, <1>4, <1>5 DEF OnceInv

\* A message is sent to the participants of a session.
LEMMA RoundMessages ==
    ASSUME TypeInv, NEW conn, NEW msgs \in [Participants -> Seq(ServerMsg)],
           UNCHANGED toClient \/ toClient' = Sent(conn, msgs)
    PROVE  /\ \A T : (\A p \in Participants : Free(msgs[p], T)) => NoneCame(T)
           /\ \A T : \A p \in Participants :
                 Free(toClient[p], T) /\ Single(msgs[p], T) => Single(toClient'[p], T)
           /\ \A p \in Participants :
                 toClient[p] \in Seq(Whole(p)) /\ msgs[p] \in Seq(Whole(p))
                    => toClient'[p] \in Seq(Whole(p))
<1>1. CASE UNCHANGED toClient
    BY <1>1, SilentStep, FreeIsSingle
<1>2. CASE toClient' = Sent(conn, msgs)
    BY <1>2, OnceTypes, SentQueued, WebSentFacts
<1>. QED BY <1>1, <1>2

\* The last join of all is followed by ReadyRound1, the first one.
LEMMA JoinHandlerOnce ==
    ASSUME TypeInv, OnceInv, NEW c \in Conns, HandleJoin(c), UNCHANGED clientVars
    PROVE  OnceInv'
<1>. DEFINE s == Head(toServer[c]).session
            q == c[1]
            msgs == ToAll([type |-> "ReadyRound1"])
<1>1. /\ Reads(c, "JoinDKGSession") /\ q \in Participants
      /\ joined' = [joined EXCEPT ![s][q] = c[2]]
      /\ UNCHANGED <<round1_packages, round2_packages>>
      /\ \/ UNCHANGED toClient
         \/ AllOf(Present(joined'[s])) /\ toClient' = Sent(joined'[s], msgs)
    BY DEF HandleJoin, StartDKGRound1, Broadcast, Conns
<1>2. s \in Sessions
    BY <1>1, OnceTypes, WebReadsFacts, ClientMsgFacts
<1>3. /\ NoneSent(AskJoin) /\ NoneSent(AskRound1) /\ NoneSent(AskRound2)
      /\ \A T : NoneCame(T) => NoneReady(T)
      /\ UNCHANGED <<joins, gen, sleeping>>
      /\ \A d \in Conns : toServer'[d] \in Seq(FirstDrawn)
    BY <1>1, HandlerFrame DEF OnceInv
<1>4. /\ msgs \in [Participants -> Seq(ServerMsg)]
      /\ \A p \in Participants : /\ Free(msgs[p], Start2) /\ Single(msgs[p], Start1)
                                 /\ msgs[p] \in Seq(Whole(p))
    <2>1. [type |-> "ReadyRound1"] \in ServerMsg
        BY ServerMsgFacts
    <2>2. \A p \in Participants : [type |-> "ReadyRound1"] \in Whole(p)
        BY <2>1 DEF Whole
    <2>3. \A p \in Participants : msgs[p] = <<[type |-> "ReadyRound1"]>>
        BY DEF ToAll
    <2>4. \A p \in Participants : msgs[p] \in Seq(ServerMsg) /\ msgs[p] \in Seq(Whole(p))
        BY <2>1, <2>2, <2>3, FewMessages
    <2>5. Free(<<[type |-> "ReadyRound1"]>>, Start2) /\ Single(<<[type |-> "ReadyRound1"]>>, Start1)
        BY FewQueued DEF Start2
    <2>. QED BY <2>3, <2>4, <2>5 DEF ToAll
<1>. HIDE DEF msgs
<1>5. /\ NoneCame(Start2)
      /\ \A p \in Participants : Free(toClient[p], Start1) => Single(toClient'[p], Start1)
      /\ \A p \in Participants : toClient'[p] \in Seq(Whole(p))
    BY <1>1, <1>4, RoundMessages DEF OnceInv, PagesFirst
<1>6. NoneReady(Start2) /\ PagesFirst'
    BY <1>1, <1>3, <1>5, HandlerFrame DEF OnceInv
<1>7. ~JoinSpent(q) /\ JoinSpent(q)'
    <2>1. ~Unsent(q, AskJoin) /\ Unsent(q, AskJoin)'
        BY <1>1, OnceTypes, ReadsQueued DEF OnceInv, RoundsOnce, JoinOnce, AskJoin
    <2>. QED BY <1>1, <1>3, <2>1 DEF JoinSpent, OnceInv, RoundsOnce, JoinOnce
<1>8. \A p \in Participants : Unready(p, Start1) /\ gen[p] = 0
    BY <1>1, <1>7 DEF OnceInv, RoundsOnce, JoinsFirst
<1>. HIDE DEF s
<1>9. JoinOnce'
    <2>1. \A p \in Participants : ~JoinSpent(p)' => ~JoinSpent(p) /\ p # q
        BY <1>3, <1>7, JoinsKept
    <2>2. \A p \in Participants : p # q => \A t \in Sessions : joined'[t][p] = joined[t][p]
        BY <1>1, <1>2, OnceTypes
    <2>. QED BY <1>3, <2>1, <2>2, NoneSentKeeps DEF OnceInv, RoundsOnce, JoinOnce
<1>10. JoinsFirst'
    <2>1. CASE UNCHANGED toClient
        BY <1>3, <1>8, <2>1 DEF JoinsFirst, Unready
    <2>2. CASE AllOf(Present(joined'[s]))
        <3>1. Present(joined'[s]) = Participants
            BY <2>2, EverybodyThere DEF AllOf, Present
        <3>2. \A p \in Participants : joined'[s][p] # 0
            BY <3>1 DEF Present
        <3>. QED BY <1>2, <1>9, <3>2 DEF JoinOnce, JoinsFirst
    <2>. QED BY <1>1, <2>1, <2>2
<1>11. DrawOnce'
    BY <1>3, <1>5, <1>8, FreeIsSingle DEF Unready, ReadyOnce, DrawOnce
<1>12. Round1Once' /\ Round1First' /\ DealOnce' /\ DistinctSenders'
    BY <1>1, <1>3, <1>6, Round1OnceKept, Round1FirstKept, DealOnceKept, NotDealtKept
       DEF OnceInv, RoundsOnce
<1>13. ServerFirst'
    BY <1>1, <1>3 DEF OnceInv, ServerFirst
<1>. QED BY <1>6, <1>9, <1>10, <1>11, <1>12, <1>13 DEF OnceInv, RoundsOnce

\* The last Round1Submit of all is followed by ReadyRound2, the first one, and all
\* packages before it are of the first generation.
LEMMA Round1HandlerOnce ==
    ASSUME TypeInv, OnceInv, NEW c \in Conns, HandleRound1Submit(c), ~Refuse(c),
           UNCHANGED clientVars
    PROVE  OnceInv'
<1>. DEFINE s == Head(toServer[c]).session
            g == Head(toServer[c]).gen
            q == c[1]
            msgs == [p \in Participants |->
                        <<[type |-> "Round1All", pkgs |-> round1_packages'[s]],
                          [type |-> "ReadyRound2"]>>]
<1>1. /\ Reads(c, "Round1Submit") /\ q \in Participants
      /\ round1_packages' = [round1_packages EXCEPT ![s][q] = g]
      /\ UNCHANGED <<joined, round2_packages>>
      /\ \/ UNCHANGED toClient
         \/ AllOf(Present(round1_packages'[s])) /\ toClient' = Sent(joined[s], msgs)
    BY DEF HandleRound1Submit, FinishDKGRound1, Broadcast, Conns
<1>2. s \in Sessions /\ g = 1
    <2>1. /\ Head(toServer[c]) \in ClientMsg /\ Head(toServer[c]).type = "Round1Submit"
          /\ Head(toServer[c]) \in FirstDrawn
        BY <1>1, OnceTypes, WebReadsFacts DEF OnceInv, ServerFirst
    <2>. QED BY <2>1, ClientMsgFacts DEF FirstDrawn
<1>3. /\ NoneSent(AskJoin) /\ NoneSent(AskRound1) /\ NoneSent(AskRound2)
      /\ \A T : NoneCame(T) => NoneReady(T)
      /\ UNCHANGED <<joins, gen, sleeping>>
      /\ \A d \in Conns : toServer'[d] \in Seq(FirstDrawn)
    BY <1>1, HandlerFrame DEF OnceInv
<1>4. ~Round1Spent(q) /\ Round1Spent(q)'
    <2>1. ~Unsent(q, AskRound1) /\ Unsent(q, AskRound1)'
        BY <1>1, OnceTypes, ReadsQueued DEF OnceInv, RoundsOnce, Round1Once, AskRound1
    <2>. QED BY <1>1, <1>3, <2>1 DEF Round1Spent, OnceInv, RoundsOnce, Round1Once
<1>5. \A p \in Participants : Unready(p, Start2) /\ Unsent(p, AskRound2) /\ NotDealt(p)
    BY <1>1, <1>4 DEF OnceInv, RoundsOnce, Round1First
<1>6. ServerFirst' /\ round1_packages'[s] \in Packages
    <2>1. \A t \in Sessions, p \in Participants :
            round1_packages'[t][p] = IF t = s /\ p = q THEN g ELSE round1_packages[t][p]
        BY <1>1, <1>2, OnceTypes DEF Packages
    <2>2. round1_packages'[s] \in Packages
        BY <1>1, <1>2, OnceTypes, WebPackagesFacts
    <2>. QED BY <1>2, <1>3, <2>1, <2>2 DEF OnceInv, ServerFirst
<1>7. AllOf(Present(round1_packages'[s])) =>
        Present(round1_packages'[s]) = Participants /\ round1_packages'[s] = Ones
    <2>1. SUFFICES ASSUME AllOf(Present(round1_packages'[s]))
                   PROVE  Present(round1_packages'[s]) = Participants /\ round1_packages'[s] = Ones
        OBVIOUS
    <2>2. Present(round1_packages'[s]) = Participants
        BY <2>1, EverybodyThere DEF AllOf, Present
    <2>3. \A p \in Participants : round1_packages'[s][p] = 1
        BY <1>2, <1>6, <2>2 DEF Present, ServerFirst
    <2>. QED BY <1>6, <2>2, <2>3 DEF Packages, Ones
<1>8. /\ AllOf(Present(round1_packages'[s])) => \A p \in Participants : msgs[p] \in Seq(Whole(p))
      /\ msgs \in [Participants -> Seq(ServerMsg)]
      /\ \A p \in Participants : Free(msgs[p], Start1) /\ Single(msgs[p], Start2)
    <2>. DEFINE m == [type |-> "Round1All", pkgs |-> round1_packages'[s]]
                n == [type |-> "ReadyRound2"]
    <2>1. m \in ServerMsg /\ n \in ServerMsg /\ m.type = "Round1All" /\ n.type = "ReadyRound2"
          /\ m.pkgs = round1_packages'[s]
        BY <1>6, ServerMsgFacts
    <2>2. \A p \in Participants : msgs[p] = <<m, n>>
        OBVIOUS
    <2>3. Free(<<m, n>>, Start1) /\ Single(<<m, n>>, Start2)
        BY <2>1, FewQueued DEF Start1, Start2
    <2>4. AllOf(Present(round1_packages'[s])) =>
            \A p \in Participants : m \in Whole(p) /\ n \in Whole(p)
        <3>. HIDE DEF m, n
        <3>. QED BY <1>7, <2>1 DEF Whole
    <2>5. msgs = [p \in Participants |-> <<m, n>>]
        OBVIOUS
    <2>. HIDE DEF m, n, msgs
    <2>6. <<m, n>> \in Seq(ServerMsg)
        BY <2>1
    <2>. QED BY <2>2, <2>3, <2>4, <2>5, <2>6
<1>. HIDE DEF msgs
<1>9. /\ NoneCame(Start1)
      /\ \A p \in Participants : Free(toClient[p], Start2) => Single(toClient'[p], Start2)
      /\ \A p \in Participants : toClient'[p] \in Seq(Whole(p))
    <2>1. CASE UNCHANGED toClient
        BY <2>1, SilentStep, FreeIsSingle DEF OnceInv, PagesFirst
    <2>2. CASE ~UNCHANGED toClient
        BY <1>1, <1>8, <2>2, RoundMessages DEF OnceInv, PagesFirst
    <2>. QED BY <2>1, <2>2
<1>10. NoneReady(Start1) /\ PagesFirst'
    BY <1>1, <1>3, <1>9, HandlerFrame DEF OnceInv
<1>. HIDE DEF s, g
<1>11. Round1Once'
    <2>1. \A p \in Participants : ~Round1Spent(p)' => ~Round1Spent(p) /\ p # q
        BY <1>3, <1>4, Round1Kept
    <2>2. \A p \in Participants : p # q =>
            \A t \in Sessions : round1_packages'[t][p] = round1_packages[t][p]
        BY <1>1, <1>2, OnceTypes DEF Packages
    <2>. QED BY <1>3, <2>1, <2>2, NoneSentKeeps DEF OnceInv, RoundsOnce, Round1Once
<1>12. Round1First'
    <2>1. CASE UNCHANGED toClient
        BY <1>1, <1>3, <1>5, <2>1, NoneSentKeeps, NotDealtKept DEF Round1First, Unready
    <2>2. CASE AllOf(Present(round1_packages'[s]))
        <3>1. \A p \in Participants : round1_packages'[s][p] # 0
            BY <1>7, <2>2 DEF Present
        <3>. QED BY <1>2, <1>11, <3>1 DEF Round1Once, Round1First
    <2>. QED BY <1>1, <2>1, <2>2
<1>13. DealOnce'
    BY <1>1, <1>3, <1>5, <1>9, FreeIsSingle, NoneSentKeeps, NotDealtKept, UnsentIsOnce
       DEF Unready, ReadyOnce, DealOnce, OnceInv, RoundsOnce
<1>14. JoinOnce' /\ JoinsFirst' /\ DrawOnce' /\ DistinctSenders'
    BY <1>1, <1>3, <1>10, JoinOnceKept, JoinsFirstKept, DrawOnceKept, NotDealtKept
       DEF OnceInv, RoundsOnce
<1>. QED BY <1>6, <1>10, <1>11, <1>12, <1>13, <1>14 DEF OnceInv, RoundsOnce

\* The lists after a submission.
LEMMA DistributedOnce ==
    ASSUME NEW pkgs \in [Participants -> Seq(Submit)], NEW pkg \in Submit
    PROVE  \A r \in Participants : \A i \in 1..Len(Distributed(pkgs, pkg)[r]) :
              \/ /\ i \in 1..Len(pkgs[r])
                 /\ Distributed(pkgs, pkg)[r][i] = pkgs[r][i]
              \/ /\ i = Len(pkgs[r]) + 1 /\ r # pkg.from
                 /\ Distributed(pkgs, pkg)[r][i] = pkg
<1>. TAKE r \in Participants
<1>1. Distributed(pkgs, pkg)[r] = IF r = pkg.from THEN pkgs[r] ELSE Append(pkgs[r], pkg)
    BY DEF Distributed
<1>2. pkgs[r] \in Seq(Submit) /\ Len(pkgs[r]) \in Nat
    BY LenProperties
<1>. QED BY <1>1, <1>2, AppendProperties

\* A participant's packages go into lists it is not in, and complete lists go out.
LEMMA Round2HandlerOnce ==
    ASSUME TypeInv, OnceInv, NEW c \in Conns, HandleRound2Submit(c), ~Refuse(c),
           UNCHANGED clientVars
    PROVE  OnceInv'
<1>. DEFINE s == Head(toServer[c]).session
            q == c[1]
            pkg == [from |-> q, gen |-> Head(toServer[c]).gen]
            conn == [p \in Participants |-> IF p \in identified[s] THEN joined[s][p] ELSE 0]
            msgs == [p \in Participants |->
                        <<[type |-> "Round2All", pkgs |-> round2_packages'[s][p]]>>]
<1>1. /\ Reads(c, "Round2Submit") /\ q \in Participants
      /\ round2_packages' = [round2_packages EXCEPT ![s] = Distributed(round2_packages[s], pkg)]
      /\ UNCHANGED <<joined, round1_packages>>
      /\ \/ UNCHANGED toClient
         \/ AllPackagesCame(round2_packages'[s]) /\ toClient' = Sent(conn, msgs)
    BY DEF HandleRound2Submit, FinishDKGRound2, Broadcast, Conns
<1>2. s \in Sessions /\ pkg \in Submit
    BY <1>1, OnceTypes, WebReadsFacts, ClientMsgFacts DEF Submit, Generation
<1>3. /\ NoneSent(AskJoin) /\ NoneSent(AskRound1) /\ NoneSent(AskRound2)
      /\ \A T : NoneCame(T) => NoneReady(T)
      /\ UNCHANGED <<joins, gen, sleeping>>
      /\ \A d \in Conns : toServer'[d] \in Seq(FirstDrawn)
    BY <1>1, HandlerFrame DEF OnceInv
<1>4. ~Unsent(q, AskRound2) /\ Unsent(q, AskRound2)' /\ NotDealt(q) /\ Unready(q, Start2)
    <2>1. ~Unsent(q, AskRound2) /\ Unsent(q, AskRound2)'
        BY <1>1, OnceTypes, ReadsQueued DEF OnceInv, RoundsOnce, DealOnce, AskRound2
    <2>. QED BY <1>1, <2>1 DEF OnceInv, RoundsOnce, DealOnce
<1>5. /\ round2_packages'[s] = Distributed(round2_packages[s], pkg)
      /\ \A t \in Sessions : t # s => round2_packages'[t] = round2_packages[t]
      /\ round2_packages[s] \in [Participants -> Seq(Submit)]
      /\ round2_packages'[s] \in [Participants -> Seq(Submit)]
    BY <1>1, <1>2, OnceTypes, DistributedFacts
<1>6. \A r \in Participants : \A i \in 1..Len(round2_packages'[s][r]) :
          \/ /\ i \in 1..Len(round2_packages[s][r])
             /\ round2_packages'[s][r][i] = round2_packages[s][r][i]
          \/ /\ i = Len(round2_packages[s][r]) + 1 /\ r # q
             /\ round2_packages'[s][r][i].from = q
    <2>1. pkg.from = q
        OBVIOUS
    <2>. HIDE DEF pkg, s, q
    <2>2. TAKE r \in Participants
    <2>3. \A i \in 1..Len(Distributed(round2_packages[s], pkg)[r]) :
              \/ /\ i \in 1..Len(round2_packages[s][r])
                 /\ Distributed(round2_packages[s], pkg)[r][i] = round2_packages[s][r][i]
              \/ /\ i = Len(round2_packages[s][r]) + 1 /\ r # pkg.from
                 /\ Distributed(round2_packages[s], pkg)[r][i] = pkg
        <3>1. round2_packages[s] \in [Participants -> Seq(Submit)] /\ pkg \in Submit
            BY <1>2, <1>5
        <3>. QED BY <3>1, DistributedOnce
    <2>. QED BY <1>5, <2>1, <2>3
<1>7. DistinctSenders'
    <2>. HIDE DEF s, q, pkg
    <2>1. ASSUME NEW r \in Participants
          PROVE  /\ \A i \in 1..Len(round2_packages'[s][r]) : round2_packages'[s][r][i].from # r
                 /\ \A i, j \in 1..Len(round2_packages'[s][r]) :
                       round2_packages'[s][r][i].from = round2_packages'[s][r][j].from => i = j
        <3>1. /\ \A i \in 1..Len(round2_packages[s][r]) :
                    round2_packages[s][r][i].from # r /\ round2_packages[s][r][i].from # q
              /\ \A i, j \in 1..Len(round2_packages[s][r]) :
                    round2_packages[s][r][i].from = round2_packages[s][r][j].from => i = j
            BY <1>2, <1>4 DEF OnceInv, RoundsOnce, DistinctSenders, NotDealt
        <3>2. \A i \in 1..Len(round2_packages'[s][r]) : round2_packages'[s][r][i].from # r
            BY <1>6, <3>1
        <3>3. ASSUME NEW i \in 1..Len(round2_packages'[s][r]),
                     NEW j \in 1..Len(round2_packages'[s][r]),
                     round2_packages'[s][r][i].from = round2_packages'[s][r][j].from
              PROVE  i = j
            <4>1. \A k \in 1..Len(round2_packages'[s][r]) :
                    \/ /\ k \in 1..Len(round2_packages[s][r])
                       /\ round2_packages'[s][r][k].from = round2_packages[s][r][k].from
                    \/ /\ k = Len(round2_packages[s][r]) + 1
                       /\ round2_packages'[s][r][k].from = q
                BY <1>6
            <4>. QED BY <3>1, <3>3, <4>1
        <3>. QED BY <3>2, <3>3
    <2>2. ASSUME NEW t \in Sessions, NEW r \in Participants
          PROVE  /\ \A i \in 1..Len(round2_packages'[t][r]) : round2_packages'[t][r][i].from # r
                 /\ \A i, j \in 1..Len(round2_packages'[t][r]) :
                       round2_packages'[t][r][i].from = round2_packages'[t][r][j].from => i = j
        <3>1. CASE t = s
            BY <2>1, <3>1
        <3>2. CASE t # s
            BY <1>5, <3>2 DEF OnceInv, RoundsOnce, DistinctSenders
        <3>. QED BY <3>1, <3>2
    <2>. QED BY <2>2 DEF DistinctSenders
<1>8. /\ msgs \in [Participants -> Seq(ServerMsg)]
      /\ \A p \in Participants : Free(msgs[p], Start1) /\ Free(msgs[p], Start2)
      /\ AllPackagesCame(round2_packages'[s]) => \A p \in Participants : msgs[p] \in Seq(Whole(p))
    <2>1. ASSUME NEW p \in Participants
          PROVE  /\ msgs[p] \in Seq(ServerMsg)
                 /\ Free(msgs[p], Start1) /\ Free(msgs[p], Start2)
                 /\ AllPackagesCame(round2_packages'[s]) => msgs[p] \in Seq(Whole(p))
        <3>. DEFINE m == [type |-> "Round2All", pkgs |-> round2_packages'[s][p]]
        <3>1. m \in ServerMsg /\ m.type = "Round2All" /\ m.pkgs = round2_packages'[s][p]
            BY <1>5, ServerMsgFacts
        <3>2. msgs[p] = <<m>>
            OBVIOUS
        <3>3. AllPackagesCame(round2_packages'[s]) =>
                {round2_packages'[s][p][i].from : i \in 1..Len(round2_packages'[s][p])}
                    = Participants \ {p}
            <4>. HIDE DEF s
            <4>. QED BY <1>2, <1>5, <1>7, CountTells DEF DistinctSenders
        <3>. HIDE DEF m, msgs
        <3>4. AllPackagesCame(round2_packages'[s]) => m \in Whole(p)
            BY <3>1, <3>3 DEF Whole
        <3>5. Free(<<m>>, Start1) /\ Free(<<m>>, Start2)
            BY <3>1, FewQueued DEF Start1, Start2
        <3>. QED BY <3>1, <3>2, <3>4, <3>5, FewMessages
    <2>. QED BY <2>1
<1>. HIDE DEF msgs, conn
<1>9. /\ NoneCame(Start1) /\ NoneCame(Start2)
      /\ \A p \in Participants : toClient'[p] \in Seq(Whole(p))
    <2>1. CASE UNCHANGED toClient
        BY <2>1, SilentStep DEF OnceInv, PagesFirst
    <2>2. CASE ~UNCHANGED toClient
        BY <1>1, <1>8, <2>2, RoundMessages DEF OnceInv, PagesFirst
    <2>. QED BY <2>1, <2>2
<1>10. NoneReady(Start1) /\ NoneReady(Start2) /\ PagesFirst'
    BY <1>1, <1>3, <1>9, HandlerFrame DEF OnceInv
<1>. HIDE DEF s, pkg
<1>11. \A p \in Participants : p # q => (NotDealt(p) => NotDealt(p)')
    <2>1. ASSUME NEW p \in Participants, p # q, NotDealt(p),
                 NEW t \in Sessions, NEW r \in Participants, NEW i \in 1..Len(round2_packages'[t][r])
          PROVE  round2_packages'[t][r][i].from # p
        <3>1. CASE t = s
            BY <1>2, <1>6, <2>1, <3>1 DEF NotDealt
        <3>2. CASE t # s
            BY <1>5, <2>1, <3>2 DEF NotDealt
        <3>. QED BY <3>1, <3>2
    <2>. QED BY <2>1 DEF NotDealt
<1>12. Round1First'
    <2>1. \A p \in Participants : Round1Spent(p)
        BY <1>1, <1>4 DEF OnceInv, RoundsOnce, Round1First
    <2>. QED BY <1>3, <2>1, Round1Kept DEF Round1First
<1>13. DealOnce'
    BY <1>3, <1>4, <1>10, <1>11, NoneSentKeeps DEF OnceInv, RoundsOnce, DealOnce, NoneReady
<1>14. JoinOnce' /\ JoinsFirst' /\ DrawOnce' /\ Round1Once'
    BY <1>1, <1>3, <1>10, JoinOnceKept, JoinsFirstKept, DrawOnceKept, Round1OnceKept
       DEF OnceInv, RoundsOnce
<1>15. ServerFirst'
    BY <1>1, <1>3 DEF OnceInv, ServerFirst
<1>. QED BY <1>7, <1>10, <1>12, <1>13, <1>14, <1>15 DEF OnceInv, RoundsOnce

LEMMA ServerStepOnce ==
    ASSUME TypeInv, OnceInv, NEW c \in Conns, ServerStep(c)
    PROVE  OnceInv'
BY QuietHandlerOnce, JoinHandlerOnce, Round1HandlerOnce, Round2HandlerOnce
   DEF QuietHandler, ServerStep

-----------------------------------------------------------------------------
(***************************************************************************)
(* The pages.                                                              *)
(***************************************************************************)
APage(p) == PageStep(p) \/ WakeUp(p) \/ UserStep(p) \/ Disconnect(p) \/ Reload(p)

LEMMA FirstDrawnFacts ==
    \A m \in ClientMsg : m.type # "Round1Submit" => m \in FirstDrawn
BY DEF FirstDrawn

\* What a page sends, but for its join and its packages.
LEMMA PageAsks ==
    ASSUME TypeInv, IInv, NEW p \in Participants, APage(p),
           \A s \in Sessions : ~Join(p, s), ~Round1(p), ~Round2(p)
    PROVE  \/ UNCHANGED toServer
           \/ OpenSocket(p)
           \/ CloseSocket(p)
           \/ \E m \in ClientMsg :
                 /\ m.type \notin {"JoinDKGSession", "Round1Submit", "Round2Submit", "Close"}
                 /\ Sends(p, m)
<1>. USE ClientMsgFacts
<1>1. CASE PageStep(p)
    BY <1>1
       DEF PageStep, OnChallenge, AnswersChallenge, OnLoginOk, OnSessionCreated, OnPendingSessions,
           OnNewSession, OnSessionAborted, OnFinalized, OnError, RelistsUnlessCreator, OnRound,
           OnRound1All, ListPending
<1>2. CASE Finalize(p)
    <2>1. sessionIdRef[p] \in Sessions
        BY <1>2, WakesFacts DEF Finalize
    <2>2. CASE UNCHANGED toServer
        BY <2>2
    <2>3. CASE \E vk \in Key :
                 Sends(p, [type |-> "FinalizeSubmit", session |-> sessionIdRef[p], vk |-> vk])
        BY <2>1, <2>3
    <2>. QED BY <1>2, <2>2, <2>3, Part3Derives
<1>3. CASE UserStep(p)
    BY <1>3 DEF UserStep, Connect, Announce, Refresh, ListPending
<1>4. CASE Disconnect(p) \/ Reload(p)
    BY <1>4 DEF Disconnect, Reload
<1>. QED BY <1>1, <1>2, <1>3, <1>4 DEF WakeUp, APage

\* The messages a page has not read yet: none come.
LEMMA PageReads ==
    ASSUME TypeInv, NEW p \in Participants, APage(p)
    PROVE  \/ UNCHANGED toClient
           \/ CloseSocket(p)
           \/ \E type : Receives(p, type)
<1>1. CASE PageStep(p)
    BY <1>1
       DEF PageStep, OnChallenge, AnswersChallenge, OnLoginOk, OnSessionCreated, OnPendingSessions,
           OnNewSession, OnSessionAborted, OnFinalized, OnError, OnRound, OnRound1All
<1>2. CASE WakeUp(p)
    BY <1>2 DEF WakeUp, Round1, Round2, Finalize, Wakes, Acts
<1>3. CASE UserStep(p)
    BY <1>3 DEF UserStep, Connect, OpenSocket, Announce, Join, Refresh, Acts
<1>4. CASE Disconnect(p) \/ Reload(p)
    BY <1>4 DEF Disconnect, Reload
<1>. QED BY <1>1, <1>2, <1>3, <1>4 DEF APage

LEMMA PageQueues ==
    ASSUME TypeInv, NEW p \in Participants, APage(p)
    PROVE  /\ \A T : "Close" \notin T => NoneCame(T)
           /\ \A q \in Participants : \A S : toClient[q] \in Seq(S) => toClient'[q] \in Seq(S)
<1>1. Queues(ClientMsg, ServerMsg) /\ SocketsTypeOK /\ Unopened
      /\ [type |-> "Close"] \in ClientMsg
    BY OnceTypes, ClientMsgFacts DEF TypeInv
<1>2. CASE UNCHANGED toClient
    BY <1>2, SilentStep
<1>3. CASE CloseSocket(p)
    <2>1. \A T : "Close" \notin T => NoneCame(T)
        BY <1>1, <1>3, CloseQueued
    <2>2. \A q \in Participants : toClient'[q] \in {toClient[q], <<>>}
        BY <1>1, <1>3, CloseFacts
    <2>. QED BY <2>1, <2>2, EmptySeq
<1>4. ASSUME NEW type, Receives(p, type)
      PROVE  /\ \A T : NoneCame(T)
             /\ \A q \in Participants : \A S : toClient[q] \in Seq(S) => toClient'[q] \in Seq(S)
    BY <1>1, <1>4, ReceivesQueued, WebReceivesFacts
<1>5. CASE \E type : Receives(p, type)
    <2>1. PICK type : Receives(p, type)
        BY <1>5
    <2>. QED BY <1>4, <2>1
<1>6. UNCHANGED toClient \/ CloseSocket(p) \/ \E type : Receives(p, type)
    BY PageReads
<1>. QED BY <1>2, <1>3, <1>5, <1>6

LEMMA PageSendsFirst ==
    ASSUME TypeInv, ServerFirst, NEW p \in Participants, UNCHANGED round1_packages,
           \/ UNCHANGED toServer
           \/ OpenSocket(p)
           \/ CloseSocket(p)
           \/ \E m \in ClientMsg : m \in FirstDrawn /\ Sends(p, m)
    PROVE  ServerFirst'
<1>1. Queues(ClientMsg, ServerMsg) /\ SocketsTypeOK /\ Unopened
      /\ [type |-> "Close"] \in ClientMsg /\ [type |-> "RequestChallenge"] \in ClientMsg
      /\ [type |-> "Close"] \in FirstDrawn /\ [type |-> "RequestChallenge"] \in FirstDrawn
    BY OnceTypes, ClientMsgFacts, FirstDrawnFacts DEF TypeInv
<1>2. CASE UNCHANGED toServer
    BY <1>2 DEF ServerFirst
<1>3. CASE OpenSocket(p)
    BY <1>1, <1>3, OpenFacts DEF ServerFirst
<1>4. CASE CloseSocket(p)
    BY <1>1, <1>4, CloseFacts DEF ServerFirst
<1>5. ASSUME NEW m \in ClientMsg, m \in FirstDrawn, Sends(p, m) PROVE ServerFirst'
    BY <1>1, <1>5, WebSendsFacts DEF ServerFirst
<1>. QED BY <1>2, <1>3, <1>4, <1>5

\* A page puts its handler to sleep for a message it takes off its queue.
LEMMA OnRoundReady ==
    ASSUME TypeInv, NEW p \in Participants, OnRound(p), NEW T
    PROVE  NoneReady(T)
<1>1. PICK type : Receives(p, type)
    BY DEF OnRound
<1>. DEFINE m == Head(toClient[p])
<1>2. m.type = type /\ m \in ServerMsg /\ m \in Sleeper
    <2>1. m.type = type /\ m \in ServerMsg
        BY <1>1, OnceTypes, WebReceivesFacts
    <2>2. m.type \in RoundTypes
        BY DEF OnRound, Receives, RoundTypes
    <2>. QED BY <2>1, <2>2, ServerMsgFacts
<1>3. \A q \in Participants :
        sleeping'[q] = IF q = p THEN Append(sleeping[q], m) ELSE sleeping[q]
    BY OnceTypes DEF OnRound
<1>4. sleeping[p] \in Seq(Sleeper)
    BY OnceTypes
<1>. HIDE DEF m
<1>5. /\ NoneCame(T)
      /\ type \in T => ~Free(toClient[p], T)
      /\ type \in T /\ Single(toClient[p], T) => Free(toClient'[p], T)
    BY <1>1, OnceTypes, ReceivesQueued
<1>6. /\ type \notin T => NoneNew(sleeping[p], sleeping'[p], T)
      /\ Free(sleeping[p], T) => Single(sleeping'[p], T)
    BY <1>2, <1>3, <1>4, AppendQueued
<1>7. CASE type \notin T
    <2>1. \A q \in Participants : NoneNew(sleeping[q], sleeping'[q], T)
        BY <1>3, <1>6, <1>7 DEF NoneNew
    <2>. QED BY <1>5, <2>1, NoneReadyFacts
<1>8. CASE type \in T
    <2>1. ~Unready(p, T)
        BY <1>5, <1>8 DEF Unready
    <2>2. ReadyOnce(p, T) => ReadyOnce(p, T)'
        BY <1>5, <1>6, <1>8, FreeIsSingle DEF ReadyOnce
    <2>3. \A q \in Participants : q # p => sleeping'[q] = sleeping[q]
        BY <1>3
    <2>. QED BY <1>5, <2>1, <2>2, <2>3 DEF NoneReady, NoneCame, NoneNew, Unready, ReadyOnce
<1>. QED BY <1>7, <1>8

\* Whatever a page does, it is told to start a round at most as often as before.
LEMMA PageReady ==
    ASSUME TypeInv, NEW p \in Participants, APage(p), NEW T, "Close" \notin T
    PROVE  NoneReady(T)
<1>1. NoneCame(T)
    BY PageQueues
<1>2. CASE OnRound(p)
    BY <1>2, OnRoundReady
<1>3. CASE UNCHANGED sleeping
    BY <1>1, <1>3, NoneReadyFacts DEF NoneNew
<1>4. ASSUME NEW type, Wakes(p, type) PROVE NoneReady(T)
    <2>1. NoneNew(sleeping[p], Tail(sleeping[p]), T)
        BY <1>4, OnceTypes, HeadQueued DEF Wakes
    <2>2. \A q \in Participants : sleeping'[q] = IF q = p THEN Tail(sleeping[q]) ELSE sleeping[q]
        BY <1>4, OnceTypes DEF Wakes
    <2>3. \A q \in Participants : NoneNew(sleeping[q], sleeping'[q], T)
        BY <2>1, <2>2 DEF NoneNew
    <2>. QED BY <1>1, <2>3, NoneReadyFacts
<1>5. CASE Reload(p)
    <2>1. \A q \in Participants : sleeping'[q] \in {sleeping[q], <<>>}
        BY <1>5, OnceTypes DEF Reload
    <2>2. \A q \in Participants : NoneNew(sleeping[q], sleeping'[q], T)
        BY <2>1, FewQueued, FreeIsSingle DEF NoneNew
    <2>. QED BY <1>1, <2>2, NoneReadyFacts
<1>6. \/ OnRound(p) \/ UNCHANGED sleeping \/ (\E type : Wakes(p, type)) \/ Reload(p)
    BY DEF APage, PageStep, WakeUp, UserStep, OnChallenge, OnLoginOk, OnSessionCreated,
           OnPendingSessions, OnNewSession, OnSessionAborted, OnFinalized, OnError, LeavesSession,
           OnRound1All, Round1, Round2, Finalize, Connect, Announce, Join, Refresh, Disconnect,
           clientVars, dkgState
<1>. QED BY <1>2, <1>3, <1>4, <1>5, <1>6

\* The page a ReadyRound1 or ReadyRound2 handler wakes up on is not told again.
LEMMA WakesReady ==
    ASSUME TypeInv, NEW p \in Participants, NEW type, Wakes(p, type), NEW T, type \in T
    PROVE  /\ ~Unready(p, T)
           /\ ReadyOnce(p, T) => Unready(p, T)'
<1>1. /\ sleeping[p] \in Seq(Sleeper) /\ sleeping[p] # <<>> /\ Head(sleeping[p]).type = type
      /\ sleeping'[p] = Tail(sleeping[p]) /\ UNCHANGED toClient
    BY OnceTypes DEF Wakes, Acts
<1>2. /\ ~Free(sleeping[p], T)
      /\ Single(sleeping[p], T) => Free(sleeping'[p], T)
    BY <1>1, HeadQueued
<1>. QED BY <1>1, <1>2 DEF Unready, ReadyOnce

\* Part 3 accepts the round-1 packages only when they are everyone's.
LEMMA FinalizeFirst ==
    ASSUME TypeInv, PagesFirst, NEW p \in Participants, Finalize(p)
    PROVE  \A q \in Participants : derived'[q] \subseteq {Ones}
<1>1. /\ derived \in [Participants -> SUBSET Key]
      /\ r2_secret[p] \in {0, 1} /\ all_r1_packages[p] \in {NoPackages, Ones}
    BY DEF TypeInv, TypeOK, ClientTypeOK, PagesFirst
<1>2. CASE UNCHANGED derived
    BY <1>2 DEF PagesFirst
<1>3. CASE ~UNCHANGED derived
    <2>. DEFINE vk == Part3Key(p, r2_secret[p], all_r1_packages[p])
    <2>1. /\ r2_secret[p] # 0 /\ derived' = [derived EXCEPT ![p] = derived[p] \cup {vk}]
          /\ \A q \in Participants \ {p} : all_r1_packages[p][q] # 0
        BY <1>3 DEF Finalize, Part3Accepts
    <2>2. \A q \in Participants : vk[q] = 1
        BY <1>1, <2>1 DEF Part3Key, NoPackages, Ones
    <2>3. vk = Ones
        BY <1>1, <2>2 DEF Part3Key, NoPackages, Ones
    <2>. HIDE DEF vk
    <2>. QED BY <1>1, <2>1, <2>3 DEF PagesFirst
<1>. QED BY <1>2, <1>3

LEMMA PageMemory ==
    ASSUME TypeInv, PagesFirst, NEW p \in Participants, APage(p), Round1(p) => gen[p] = 0
    PROVE  PagesFirst'
<1>1. \A q \in Participants : toClient'[q] \in Seq(Whole(q))
    BY PageQueues DEF PagesFirst
<1>2. /\ r1_secret \in [Participants -> Nat] /\ r2_secret \in [Participants -> Nat]
      /\ all_r1_packages \in [Participants -> Packages]
      /\ gen \in [Participants -> Nat]
    BY DEF TypeInv, TypeOK, ClientTypeOK, Packages
<1>3. \A q \in Participants : derived'[q] \subseteq {Ones}
    <2>1. CASE Finalize(p)
        BY <2>1, FinalizeFirst
    <2>2. CASE ~Finalize(p)
        BY <2>2, OthersDeriveNothing DEF PagesFirst, APage
    <2>. QED BY <2>1, <2>2
<1>4. \A q \in Participants :
        /\ r1_secret'[q] \in {0, 1} /\ r2_secret'[q] \in {0, 1}
        /\ all_r1_packages'[q] \in {NoPackages, Ones}
    <2>1. CASE Round1(p)
        BY <1>2, <2>1 DEF Round1, PagesFirst
    <2>2. CASE Round2(p)
        BY <1>2, <2>2 DEF Round2, PagesFirst
    <2>3. CASE OnRound1All(p)
        <3>1. Head(toClient[p]) \in Whole(p) /\ Head(toClient[p]).type = "Round1All"
            BY <2>3, OnceTypes, WebReceivesFacts DEF OnRound1All, PagesFirst
        <3>2. Head(toClient[p]).pkgs = Ones
            BY <3>1 DEF Whole
        <3>. QED BY <1>2, <2>3, <3>2 DEF OnRound1All, PagesFirst
    <2>4. CASE Reload(p)
        BY <1>2, <2>4 DEF Reload, PagesFirst
    <2>5. CASE UNCHANGED <<r1_secret, all_r1_packages, r2_secret>>
        BY <2>5 DEF PagesFirst
    <2>6. \/ Round1(p) \/ Round2(p) \/ OnRound1All(p) \/ Reload(p)
          \/ UNCHANGED <<r1_secret, all_r1_packages, r2_secret>>
        BY DEF APage, PageStep, WakeUp, UserStep, OnChallenge, OnLoginOk, OnSessionCreated,
               OnPendingSessions, OnNewSession, OnSessionAborted, OnFinalized, OnError,
               LeavesSession, OnRound, Finalize, Connect, Announce, Join, Refresh, Disconnect,
               clientVars, dkgState
    <2>. QED BY <2>1, <2>2, <2>3, <2>4, <2>5, <2>6
<1>. QED BY <1>1, <1>3, <1>4 DEF PagesFirst

\* A step of a page that is none of a round.
LEMMA PlainPageOnce ==
    ASSUME IInv, OnceInv, NEW p \in Participants, APage(p), UNCHANGED sessionVars,
           \A s \in Sessions : ~Join(p, s), ~Round1(p), ~Round2(p)
    PROVE  OnceInv'
<1>1. TypeInv
    BY DEF IInv
<1>2. /\ UNCHANGED <<joined, round1_packages, round2_packages>>
      /\ UNCHANGED <<joins, gen>>
    BY DEF sessionVars, APage, PageStep, WakeUp, UserStep, OnChallenge, OnLoginOk,
           OnSessionCreated, OnPendingSessions, OnNewSession, OnSessionAborted, OnFinalized,
           OnError, LeavesSession, OnRound, OnRound1All, Finalize, Connect, Announce, Refresh,
           Disconnect, Reload, clientVars, clickVars, history
<1>3. NoneReady(Start1) /\ NoneReady(Start2)
    BY <1>1, PageReady DEF Start1, Start2
<1>4. PagesFirst'
    BY <1>1, PageMemory DEF OnceInv
<1>5. \/ UNCHANGED toServer
      \/ OpenSocket(p)
      \/ CloseSocket(p)
      \/ \E m \in ClientMsg :
            /\ m.type \notin {"JoinDKGSession", "Round1Submit", "Round2Submit"}
            /\ Sends(p, m)
    BY <1>1, PageAsks
<1>6. ServerFirst'
    BY <1>1, <1>2, <1>5, PageSendsFirst, FirstDrawnFacts DEF OnceInv
<1>7. Queues(ClientMsg, ServerMsg) /\ SocketsTypeOK /\ [type |-> "Close"] \in ClientMsg
    BY <1>1, OnceTypes, ClientMsgFacts
<1>8. ASSUME NEW T, T \in {AskJoin, AskRound1, AskRound2} PROVE NoneSent(T)
    <2>1. /\ "Close" \notin T /\ "RequestChallenge" \notin T
          /\ T \subseteq {"JoinDKGSession", "Round1Submit", "Round2Submit"}
        BY <1>8 DEF AskJoin, AskRound1, AskRound2
    <2>2. CASE UNCHANGED toServer
        BY <2>2, SilentStep
    <2>3. CASE OpenSocket(p)
        BY <1>7, <2>1, <2>3, OpenQueued
    <2>4. CASE CloseSocket(p)
        BY <1>7, <2>1, <2>4, CloseQueued
    <2>5. ASSUME NEW m \in ClientMsg, Sends(p, m),
                 m.type \notin {"JoinDKGSession", "Round1Submit", "Round2Submit"}
          PROVE  NoneSent(T)
        <3>1. m.type \notin T
            BY <2>1, <2>5
        <3>. QED BY <1>7, <2>5, <3>1, SendsQueued
    <2>. QED BY <1>5, <2>2, <2>3, <2>4, <2>5
<1>9. RoundsOnce'
    <2>1. NoneSent(AskJoin) /\ NoneSent(AskRound1) /\ NoneSent(AskRound2)
        BY <1>8
    <2>. QED BY <1>2, <1>3, <2>1, RoundsOnceKept DEF OnceInv
<1>. QED BY <1>4, <1>6, <1>9 DEF OnceInv

\* A first join: nobody has been told to start yet.
LEMMA JoinOnceStep ==
    ASSUME TypeInv, OnceInv, NEW p \in Participants, NEW s \in Sessions, Join(p, s),
           UNCHANGED sessionVars, joins'[p] <= 1
    PROVE  OnceInv'
<1>. DEFINE m == [type |-> "JoinDKGSession", session |-> s]
<1>1. /\ UNCHANGED <<joined, round1_packages, round2_packages, gen, sleeping, toClient>>
      /\ Sends(p, m) /\ APage(p) /\ ~Round1(p)
      /\ joins' = [joins EXCEPT ![p] = joins[p] + 1]
    <2>1. APage(p)
        BY DEF APage, UserStep
    <2>2. UNCHANGED gen
        BY DEF Join, history
    <2>3. gen[p] \in Nat
        BY OnceTypes
    <2>4. ~Round1(p)
        <3>1. Round1(p) => gen'[p] = gen[p] + 1
            BY OnceTypes DEF Round1
        <3>. QED BY <2>2, <2>3, <3>1
    <2>. QED BY <2>1, <2>4 DEF Join, Acts, sessionVars, dkgState, history
<1>2. joins[p] = 0 /\ joins'[p] = 1 /\ \A q \in Participants : q # p => joins'[q] = joins[q]
    BY <1>1, OnceTypes
<1>3. m \in ClientMsg /\ m.type = "JoinDKGSession"
    BY ClientMsgFacts
<1>. HIDE DEF m
<1>4. /\ NoneSent(AskRound1) /\ NoneSent(AskRound2)
      /\ \A q \in Participants : q # p =>
            (Unsent(q, AskJoin) => Unsent(q, AskJoin)') /\ (Once(q, AskJoin) => Once(q, AskJoin)')
      /\ Unsent(p, AskJoin) => Once(p, AskJoin)'
    BY <1>1, <1>3, OnceTypes, SendsQueued DEF AskRound1, AskRound2
<1>5. NoneReady(Start1) /\ NoneReady(Start2)
    BY <1>1, PageReady DEF Start1, Start2
<1>6. PagesFirst' /\ ServerFirst'
    BY <1>1, <1>3, PageMemory, PageSendsFirst, FirstDrawnFacts DEF OnceInv
<1>7. ~JoinSpent(p) /\ \A q \in Participants : q # p => (JoinSpent(q) => JoinSpent(q)')
    BY <1>2, <1>4 DEF JoinSpent
<1>8. JoinOnce'
    BY <1>1, <1>2, <1>4, <1>7 DEF OnceInv, RoundsOnce, JoinOnce
<1>9. JoinsFirst'
    BY <1>1, <1>5, <1>7 DEF OnceInv, RoundsOnce, JoinsFirst, NoneReady
<1>10. /\ DrawOnce' /\ Round1Once' /\ Round1First' /\ DealOnce' /\ DistinctSenders'
    BY <1>1, <1>4, <1>5, DrawOnceKept, Round1OnceKept, Round1FirstKept, DealOnceKept, NotDealtKept
       DEF OnceInv, RoundsOnce
<1>. QED BY <1>6, <1>8, <1>9, <1>10 DEF OnceInv, RoundsOnce

\* A page draws its first generation, when everybody has joined and nobody has it.
LEMMA Round1OnceStep ==
    ASSUME TypeInv, OnceInv, NEW p \in Participants, Round1(p), UNCHANGED sessionVars
    PROVE  OnceInv'
<1>. DEFINE m == [type |-> "Round1Submit", session |-> sessionIdRef[p], gen |-> gen'[p]]
<1>1. /\ UNCHANGED <<joined, round1_packages, round2_packages, joins, toClient>>
      /\ Sends(p, m) /\ APage(p) /\ Wakes(p, "ReadyRound1")
      /\ gen' = [gen EXCEPT ![p] = gen[p] + 1]
    BY DEF Round1, Wakes, Acts, sessionVars, clickVars, history, APage, WakeUp
<1>2. ~Unready(p, Start1) /\ Unready(p, Start1)'
    BY <1>1, WakesReady DEF Start1, OnceInv, RoundsOnce, DrawOnce
<1>3. gen[p] = 0 /\ gen'[p] = 1 /\ \A q \in Participants : q # p => gen'[q] = gen[q]
    BY <1>1, <1>2, OnceTypes DEF OnceInv, RoundsOnce, DrawOnce
<1>4. m \in ClientMsg /\ m.type = "Round1Submit" /\ m \in FirstDrawn
    <2>1. sessionIdRef[p] \in Sessions
        BY <1>1, WakesFacts DEF Round1
    <2>2. m \in ClientMsg
        <3>1. gen'[p] \in Nat /\ gen'[p] # 0
            BY <1>3
        <3>. QED BY <2>1, <3>1, ClientMsgFacts
    <2>3. m.type = "Round1Submit" /\ m.gen = 1
        BY <1>3
    <2>. HIDE DEF m
    <2>. QED BY <2>2, <2>3 DEF FirstDrawn
<1>. HIDE DEF m
<1>5. /\ NoneSent(AskJoin) /\ NoneSent(AskRound2)
      /\ \A q \in Participants : q # p =>
            /\ Unsent(q, AskRound1) => Unsent(q, AskRound1)'
            /\ Once(q, AskRound1) => Once(q, AskRound1)'
      /\ Unsent(p, AskRound1) => Once(p, AskRound1)'
    BY <1>1, <1>4, OnceTypes, SendsQueued DEF AskJoin, AskRound2
<1>6. NoneReady(Start1) /\ NoneReady(Start2)
    BY <1>1, PageReady DEF Start1, Start2
<1>7. PagesFirst' /\ ServerFirst'
    BY <1>1, <1>3, <1>4, PageMemory, PageSendsFirst DEF OnceInv
<1>8. ~Round1Spent(p) /\ \A q \in Participants : q # p => (Round1Spent(q) => Round1Spent(q)')
    BY <1>3, <1>5 DEF Round1Spent
<1>9. JoinsFirst'
    <2>1. \A q \in Participants : JoinSpent(q)
        BY <1>2 DEF OnceInv, RoundsOnce, JoinsFirst
    <2>2. \A q \in Participants : JoinSpent(q)'
        BY <1>1, <1>5, <2>1, JoinsKept
    <2>. QED BY <2>2 DEF JoinsFirst
<1>10. DrawOnce'
    <2>1. ReadyOnce(p, Start1)'
        BY <1>2, FreeIsSingle DEF Unready, ReadyOnce
    <2>2. \A q \in Participants : q # p =>
            /\ ReadyOnce(q, Start1)'
            /\ ~Unready(q, Start1)' => gen'[q] = 0
            /\ gen'[q] <= 1
        BY <1>3, <1>6 DEF OnceInv, RoundsOnce, DrawOnce, NoneReady
    <2>. QED BY <1>2, <1>3, <2>1, <2>2 DEF DrawOnce
<1>11. Round1Once'
    BY <1>1, <1>3, <1>5, <1>8 DEF OnceInv, RoundsOnce, Round1Once
<1>12. Round1First'
    BY <1>1, <1>5, <1>6, <1>8, NoneSentKeeps, NotDealtKept
       DEF OnceInv, RoundsOnce, Round1First, NoneReady
<1>13. JoinOnce' /\ DealOnce' /\ DistinctSenders'
    BY <1>1, <1>5, <1>6, JoinOnceKept, DealOnceKept, NotDealtKept DEF OnceInv, RoundsOnce
<1>. QED BY <1>7, <1>9, <1>10, <1>11, <1>12, <1>13 DEF OnceInv, RoundsOnce

\* A page deals its packages, or fails to, when everybody's round 1 is over.
LEMMA Round2OnceStep ==
    ASSUME TypeInv, OnceInv, NEW p \in Participants, Round2(p), UNCHANGED sessionVars
    PROVE  OnceInv'
<1>. DEFINE m == [type |-> "Round2Submit", session |-> sessionIdRef[p], gen |-> r1_secret[p]]
<1>1. /\ UNCHANGED <<joined, round1_packages, round2_packages, joins, gen, toClient>>
      /\ APage(p) /\ ~Round1(p) /\ Wakes(p, "ReadyRound2")
      /\ UNCHANGED toServer \/ (r1_secret[p] # 0 /\ Sends(p, m))
    BY DEF Round2, Round1, Wakes, Acts, sessionVars, clickVars, history, APage, WakeUp
<1>2. ~Unready(p, Start2) /\ Unready(p, Start2)'
    BY <1>1, WakesReady DEF Start2, OnceInv, RoundsOnce, DealOnce
<1>3. Unsent(p, AskRound2) /\ NotDealt(p) /\ \A q \in Participants : Round1Spent(q)
    BY <1>2 DEF OnceInv, RoundsOnce, DealOnce, Round1First
<1>4. r1_secret[p] # 0 => m \in ClientMsg /\ m.type = "Round2Submit"
    <2>1. sessionIdRef[p] \in Sessions /\ r1_secret[p] \in Nat
        BY <1>1, WakesFacts, OnceTypes DEF Round2
    <2>. QED BY <2>1, ClientMsgFacts
<1>. HIDE DEF m
<1>5. /\ NoneSent(AskJoin) /\ NoneSent(AskRound1)
      /\ \A q \in Participants : q # p =>
            /\ Unsent(q, AskRound2) => Unsent(q, AskRound2)'
            /\ Once(q, AskRound2) => Once(q, AskRound2)'
      /\ Once(p, AskRound2)'
    <2>1. CASE UNCHANGED toServer
        BY <1>3, <2>1, SilentStep, NoneSentKeeps, UnsentIsOnce
    <2>2. CASE r1_secret[p] # 0 /\ Sends(p, m)
        BY <1>3, <1>4, <2>2, OnceTypes, SendsQueued DEF AskJoin, AskRound1
    <2>. QED BY <1>1, <2>1, <2>2
<1>6. NoneReady(Start1) /\ NoneReady(Start2)
    BY <1>1, PageReady DEF Start1, Start2
<1>7. PagesFirst' /\ ServerFirst'
    BY <1>1, <1>4, PageMemory, PageSendsFirst, FirstDrawnFacts DEF OnceInv
<1>8. Round1First'
    BY <1>1, <1>3, <1>5, Round1Kept DEF Round1First
<1>9. DealOnce'
    BY <1>1, <1>2, <1>3, <1>5, <1>6, NotDealtKept DEF OnceInv, RoundsOnce, DealOnce, NoneReady
<1>10. JoinOnce' /\ JoinsFirst' /\ DrawOnce' /\ Round1Once' /\ DistinctSenders'
    BY <1>1, <1>5, <1>6, JoinOnceKept, JoinsFirstKept, DrawOnceKept, Round1OnceKept, NotDealtKept
       DEF OnceInv, RoundsOnce
<1>. QED BY <1>7, <1>8, <1>9, <1>10 DEF OnceInv, RoundsOnce

-----------------------------------------------------------------------------
(***************************************************************************)
(* Round1All holds everyone's package, whoever joins how often.            *)
(***************************************************************************)
Full == {m \in ServerMsg : m.type = "Round1All" => Present(m.pkgs) = Participants}

FullRound1 == \A p \in Participants : toClient[p] \in Seq(Full)

LEMMA QuietIsFull == Quiet \subseteq Full
BY DEF Quiet, Full

LEMMA FullKept ==
    ASSUME TypeInv, FullRound1, NEW conn, NEW msgs,
           \A p \in Participants : msgs[p] \in Seq(Full),
           toClient' = Sent(conn, msgs)
    PROVE  FullRound1'
<1>1. \A p \in Participants : msgs[p] \in Seq(ServerMsg)
    BY SeqMonotone DEF Full
<1>. QED BY <1>1, OnceTypes, WebSentFacts DEF FullRound1

LEMMA HandlerFull ==
    ASSUME TypeInv, FullRound1, NEW c \in Conns, ServerStep(c)
    PROVE  FullRound1'
<1>1. CASE UNCHANGED toClient
    BY <1>1 DEF FullRound1
<1>2. CASE QuietHandler(c)
    <2>1. ASSUME NEW conn, NEW msgs \in [Participants -> Seq(Quiet)], toClient' = Sent(conn, msgs)
          PROVE  FullRound1'
        <3>1. \A p \in Participants : msgs[p] \in Seq(Full)
            BY QuietIsFull, SeqMonotone
        <3>. QED BY <2>1, <3>1, FullKept
    <2>. QED BY <1>1, <1>2, <2>1, QuietHandlerFacts DEF QuietAnswer
<1>3. CASE HandleJoin(c) /\ ~UNCHANGED toClient
    <2>. DEFINE m == [type |-> "ReadyRound1"]
    <2>1. PICK conn : toClient' = Sent(conn, ToAll(m))
        BY <1>3 DEF HandleJoin, StartDKGRound1, Broadcast
    <2>2. m \in Full
        BY ServerMsgFacts DEF Full
    <2>3. \A p \in Participants : ToAll(m)[p] \in Seq(Full)
        BY <2>2, FewMessages DEF ToAll
    <2>. QED BY <2>1, <2>3, FullKept
<1>4. CASE HandleRound1Submit(c) /\ ~Refuse(c) /\ ~UNCHANGED toClient
    <2>. DEFINE s == Head(toServer[c]).session
                m == [type |-> "Round1All", pkgs |-> round1_packages'[s]]
                n == [type |-> "ReadyRound2"]
                msgs == [p \in Participants |-> <<m, n>>]
    <2>1. /\ Reads(c, "Round1Submit") /\ c[1] \in Participants
          /\ round1_packages' = [round1_packages EXCEPT ![s][c[1]] = Head(toServer[c]).gen]
          /\ AllOf(Present(round1_packages'[s])) /\ toClient' = Sent(joined[s], msgs)
        BY <1>4 DEF HandleRound1Submit, FinishDKGRound1, Broadcast, Conns
    <2>2. s \in Sessions /\ Head(toServer[c]).gen \in Nat
        BY <2>1, OnceTypes, WebReadsFacts, ClientMsgFacts
    <2>3. round1_packages'[s] \in Packages
        BY <2>1, <2>2, OnceTypes, WebPackagesFacts
    <2>4. Present(round1_packages'[s]) = Participants
        BY <2>1, EverybodyThere DEF AllOf, Present
    <2>5. m \in Full /\ n \in Full
        <3>1. m \in ServerMsg /\ n \in ServerMsg /\ m.pkgs = round1_packages'[s]
              /\ n.type = "ReadyRound2"
            BY <2>3, ServerMsgFacts
        <3>. HIDE DEF m, n
        <3>. QED BY <2>4, <3>1 DEF Full
    <2>6. \A p \in Participants : msgs[p] \in Seq(Full)
        <3>. HIDE DEF m, n
        <3>. QED BY <2>5
    <2>. HIDE DEF msgs
    <2>. QED BY <2>1, <2>6, FullKept
<1>5. CASE HandleRound2Submit(c) /\ ~Refuse(c) /\ ~UNCHANGED toClient
    <2>. DEFINE s == Head(toServer[c]).session
                pkg == [from |-> c[1], gen |-> Head(toServer[c]).gen]
                m(p) == [type |-> "Round2All", pkgs |-> round2_packages'[s][p]]
                msgs == [p \in Participants |-> <<m(p)>>]
    <2>1. /\ Reads(c, "Round2Submit") /\ c[1] \in Participants
          /\ round2_packages' = [round2_packages EXCEPT ![s] = Distributed(round2_packages[s], pkg)]
          /\ \E conn : toClient' = Sent(conn, msgs)
        BY <1>5 DEF HandleRound2Submit, FinishDKGRound2, Broadcast, Conns
    <2>2. s \in Sessions /\ pkg \in Submit
        BY <2>1, OnceTypes, WebReadsFacts, ClientMsgFacts DEF Submit, Generation
    <2>3. \A p \in Participants : round2_packages'[s][p] \in Seq(Submit)
        <3>1. round2_packages'[s] = Distributed(round2_packages[s], pkg)
              /\ round2_packages[s] \in [Participants -> Seq(Submit)]
            BY <2>1, <2>2, OnceTypes
        <3>. HIDE DEF s, pkg
        <3>. QED BY <2>2, <3>1, DistributedFacts
    <2>4. \A p \in Participants : m(p) \in Full
        BY <2>3, ServerMsgFacts DEF Full
    <2>5. \A p \in Participants : msgs[p] \in Seq(Full)
        <3>. HIDE DEF m
        <3>. QED BY <2>4
    <2>. HIDE DEF msgs
    <2>. QED BY <2>1, <2>5, FullKept
<1>. QED BY <1>1, <1>2, <1>3, <1>4, <1>5 DEF QuietHandler

LEMMA PageFull ==
    ASSUME TypeInv, FullRound1, NEW p \in Participants, APage(p)
    PROVE  FullRound1'
BY PageQueues DEF FullRound1

-----------------------------------------------------------------------------
(***************************************************************************)
(* The invariant and the theorems.                                         *)
(***************************************************************************)
RoundsInv ==
    /\ IInv
    /\ FullRound1
    /\ NobodyRejoined => OnceInv

\* A join stays one.
LEMMA RejoinedStays ==
    ASSUME TypeInv, [Next]_vars, NobodyRejoined'
    PROVE  NobodyRejoined
<1>1. \A p \in Participants : joins'[p] \in Nat /\ joins[p] \in Nat /\ joins[p] <= joins'[p]
    <2>1. TypeInv'
        BY NextTypeInv
    <2>2. joins' \in [Participants -> Nat] /\ joins \in [Participants -> Nat]
        BY <2>1, OnceTypes DEF TypeInv, TypeOK, ClientTypeOK
    <2>3. CASE UNCHANGED joins
        BY <2>2, <2>3
    <2>4. CASE \E p \in Participants, s \in Sessions : Join(p, s)
        BY <2>2, <2>4 DEF Join
    <2>5. UNCHANGED joins \/ \E p \in Participants, s \in Sessions : Join(p, s)
        BY DEF Next, vars, ServerStep, PageStep, WakeUp, UserStep, OnChallenge, OnLoginOk,
               OnSessionCreated, OnPendingSessions, OnNewSession, OnSessionAborted, OnFinalized,
               OnError, LeavesSession, OnRound, OnRound1All, Round1, Round2, Finalize, Connect,
               Announce, Refresh, Disconnect, Reload, clientVars, clickVars
    <2>. QED BY <2>3, <2>4, <2>5
<1>. QED BY <1>1 DEF NobodyRejoined

LEMMA InitOnce == Init => RoundsInv
<1>. SUFFICES ASSUME Init PROVE RoundsInv
    OBVIOUS
<1>1. IInv
    BY InitIInv
<1>2. FullRound1
    BY EmptySeq DEF Init, NetInit, FullRound1
<1>3. \A T : Free(<<>>, T) /\ Single(<<>>, T)
    BY EmptySeq DEF Free, Single
<1>4. \A T : \A p \in Participants :
        Unsent(p, T) /\ Once(p, T) /\ Unready(p, T) /\ ReadyOnce(p, T)
    BY <1>3 DEF Init, NetInit, ClientInit, Unsent, Once, Unready, ReadyOnce
<1>5. /\ \A s \in Sessions, p \in Participants :
            /\ joined[s][p] = 0 /\ round1_packages[s][p] = 0
            /\ Len(round2_packages[s][p]) = 0
      /\ \A p \in Participants :
            /\ joins[p] = 0 /\ gen[p] = 0 /\ r1_secret[p] = 0 /\ r2_secret[p] = 0
            /\ all_r1_packages[p] = NoPackages /\ derived[p] = {}
    BY DEF Init, ServerInit, ClientInit, NoPackages
<1>6. RoundsOnce
    <2>1. DistinctSenders /\ \A p \in Participants : NotDealt(p)
        BY <1>5 DEF DistinctSenders, NotDealt
    <2>2. JoinOnce /\ JoinsFirst
        BY <1>4, <1>5 DEF JoinOnce, JoinsFirst
    <2>3. DrawOnce /\ DealOnce
        BY <1>4, <1>5, <2>1 DEF DrawOnce, DealOnce
    <2>4. Round1Once /\ Round1First
        BY <1>4, <1>5, <2>1 DEF Round1Once, Round1First
    <2>. QED BY <2>1, <2>2, <2>3, <2>4 DEF RoundsOnce
<1>7. ServerFirst /\ PagesFirst
    BY <1>5, EmptySeq DEF Init, NetInit, ServerFirst, PagesFirst
<1>. QED BY <1>1, <1>2, <1>6, <1>7 DEF RoundsInv, OnceInv

LEMMA NextOnce == RoundsInv /\ [Next]_vars => RoundsInv'
<1>. SUFFICES ASSUME RoundsInv, [Next]_vars PROVE RoundsInv'
    OBVIOUS
<1>1. IInv' /\ TypeInv /\ TypeInv'
    BY NextIInv DEF RoundsInv, IInv
<1>2. CASE UNCHANGED vars
    <2>1. FullRound1'
        BY <1>2 DEF vars, RoundsInv, FullRound1
    <2>2. UNCHANGED <<toServer, toClient, joined, round1_packages, round2_packages, joins, gen,
                      sleeping, r1_secret, r2_secret, all_r1_packages, derived>>
        BY <1>2 DEF vars, serverVars, sessionVars, clientVars, dkgState, clickVars, history
    <2>3. OnceInv => OnceInv'
        <3>1. \A T : NoneSent(T) /\ NoneReady(T)
            BY <2>2, SilentStep, NoneReadyFacts DEF NoneNew
        <3>2. OnceInv => RoundsOnce'
            BY <2>2, <3>1, RoundsOnceKept DEF OnceInv
        <3>. QED BY <2>2, <3>2 DEF OnceInv, ServerFirst, PagesFirst
    <2>4. NobodyRejoined' => NobodyRejoined
        BY <2>2 DEF NobodyRejoined
    <2>. QED BY <1>1, <2>1, <2>3, <2>4 DEF RoundsInv
<1>3. ASSUME NEW c \in Conns, ServerStep(c) PROVE RoundsInv'
    <2>1. NobodyRejoined' => OnceInv'
        BY <1>1, <1>3, RejoinedStays, ServerStepOnce DEF RoundsInv
    <2>. QED BY <1>1, <1>3, <2>1, HandlerFull DEF RoundsInv
<1>4. ASSUME NEW p \in Participants, APage(p), UNCHANGED sessionVars PROVE RoundsInv'
    <2>1. FullRound1'
        BY <1>1, <1>4, PageFull DEF RoundsInv
    <2>2. ASSUME NobodyRejoined' PROVE OnceInv'
        <3>1. OnceInv
            BY <1>1, <2>2, RejoinedStays DEF RoundsInv
        <3>2. ASSUME NEW s \in Sessions, Join(p, s) PROVE OnceInv'
            BY <1>1, <1>4, <2>2, <3>1, <3>2, JoinOnceStep DEF NobodyRejoined
        <3>3. CASE Round1(p)
            BY <1>1, <1>4, <3>1, <3>3, Round1OnceStep
        <3>4. CASE Round2(p)
            BY <1>1, <1>4, <3>1, <3>4, Round2OnceStep
        <3>. QED BY <1>4, <3>1, <3>2, <3>3, <3>4, PlainPageOnce DEF RoundsInv
    <2>. QED BY <1>1, <2>1, <2>2 DEF RoundsInv
<1>5. CASE Next
    <2>1. ASSUME NEW p \in Participants,
                 \/ PageStep(p) \/ WakeUp(p) \/ UserStep(p)
                 \/ Disconnect(p) /\ UNCHANGED sessionVars
                 \/ Reload(p) /\ UNCHANGED sessionVars
          PROVE  RoundsInv'
        <3>1. APage(p) /\ UNCHANGED sessionVars
            BY <2>1 DEF APage, PageStep, WakeUp, UserStep
        <3>. QED BY <1>4, <3>1
    <2>. QED BY <1>3, <1>5, <2>1 DEF Next
<1>. QED BY <1>2, <1>5

LEMMA RoundsInvAlways == Spec => []RoundsInv
BY InitOnce, NextOnce, PTL DEF Spec

\* The packages on their way to a page are complete: Round1All always, and
\* Round2All while nobody has joined a second time.
THEOREM WebDkgRoundsComplete == Spec => []RoundsComplete
<1>1. RoundsInv => RoundsComplete
    <2>. SUFFICES ASSUME RoundsInv, NEW p \in Participants, NEW i \in 1..Len(toClient[p])
                  PROVE  LET m == toClient[p][i] IN
                         /\ m.type = "Round1All" => Present(m.pkgs) = Participants
                         /\ NobodyRejoined /\ m.type = "Round2All" =>
                               {m.pkgs[j].from : j \in 1..Len(m.pkgs)} = Participants \ {p}
        BY DEF RoundsComplete
    <2>1. toClient[p][i] \in Full
        BY ElementOfSeq DEF RoundsInv, FullRound1
    <2>2. NobodyRejoined => toClient[p][i] \in Whole(p)
        BY ElementOfSeq DEF RoundsInv, OnceInv, PagesFirst
    <2>. QED BY <2>1, <2>2 DEF Full, Whole
<1>. QED BY <1>1, RoundsInvAlways, PTL

\* Pages that join once do not derive different keys: all keys are that of
\* everyone's first generation.
THEOREM WebDkgKeysAgree == Spec => []DerivedKeysAgree
<1>1. RoundsInv => DerivedKeysAgree
    BY DEF RoundsInv, OnceInv, PagesFirst, DerivedKeysAgree
<1>. QED BY <1>1, RoundsInvAlways, PTL

-----------------------------------------------------------------------------
(***************************************************************************)
(* IV. The coordinator takes a login and a place in a session for a        *)
(* socket: what it still reads on an earlier one does not touch them.      *)
(***************************************************************************)
KeepInv == RoundsInv /\ OpenSpeaks

\* The pages do not send the end of a socket: it is closed.
LEMMA PageSpeaks ==
    ASSUME IInv, NEW p \in Participants, APage(p)
    PROVE  \/ OpenSocket(p)
           \/ CloseSocket(p)
           \/ NoneSent(SocketEnd) /\ UNCHANGED <<socket, online>>
<1>1. TypeInv /\ Queues(ClientMsg, ServerMsg) /\ SocketsTypeOK
    BY OnceTypes DEF IInv
<1>2. \/ OpenSocket(p)
      \/ CloseSocket(p)
      \/ UNCHANGED <<socket, online>>
    BY DEF APage, PageStep, OnChallenge, AnswersChallenge, OnLoginOk, OnSessionCreated,
           OnPendingSessions, OnNewSession, OnSessionAborted, OnFinalized, OnError, OnRound,
           OnRound1All, Receives, WakeUp, Round1, Round2, Finalize, Wakes, Acts, UserStep,
           Connect, Announce, Join, Refresh, Disconnect, Reload
<1>3. UNCHANGED toServer => NoneSent(SocketEnd)
    BY SilentStep
<1>4. ASSUME NEW m \in ClientMsg, m.type # "Close", Sends(p, m) PROVE NoneSent(SocketEnd)
    BY <1>1, <1>4, SendsQueued DEF SocketEnd
<1>5. ASSUME NEW s \in Sessions, Join(p, s) PROVE NoneSent(SocketEnd)
    <2>1. [type |-> "JoinDKGSession", session |-> s] \in ClientMsg
        BY ClientMsgFacts
    <2>. QED BY <1>4, <1>5, <2>1 DEF Join
<1>6. ASSUME Round1(p) PROVE NoneSent(SocketEnd)
    <2>1. sessionIdRef[p] \in Sessions /\ gen'[p] \in Nat /\ gen'[p] # 0
        BY <1>1, <1>6, WakesFacts, OnceTypes DEF Round1
    <2>2. [type |-> "Round1Submit", session |-> sessionIdRef[p], gen |-> gen'[p]] \in ClientMsg
        BY <2>1, ClientMsgFacts
    <2>. QED BY <1>4, <1>6, <2>2 DEF Round1
<1>7. ASSUME Round2(p) PROVE NoneSent(SocketEnd)
    <2>1. CASE UNCHANGED toServer
        BY <1>3, <2>1
    <2>2. CASE ~UNCHANGED toServer
        <3>1. sessionIdRef[p] \in Sessions /\ r1_secret[p] \in Nat /\ r1_secret[p] # 0
            BY <1>1, <1>7, <2>2, WakesFacts, OnceTypes DEF Round2
        <3>2. [type |-> "Round2Submit", session |-> sessionIdRef[p], gen |-> r1_secret[p]]
                 \in ClientMsg
            BY <3>1, ClientMsgFacts
        <3>. QED BY <1>4, <1>7, <2>2, <3>2 DEF Round2
    <2>. QED BY <2>1, <2>2
<1>8. ASSUME \A s \in Sessions : ~Join(p, s), ~Round1(p), ~Round2(p)
      PROVE  OpenSocket(p) \/ CloseSocket(p) \/ NoneSent(SocketEnd)
    <2>1. \/ UNCHANGED toServer
          \/ OpenSocket(p)
          \/ CloseSocket(p)
          \/ \E m \in ClientMsg :
                /\ m.type \notin {"JoinDKGSession", "Round1Submit", "Round2Submit", "Close"}
                /\ Sends(p, m)
        BY <1>1, <1>8, PageAsks
    <2>. QED BY <1>3, <1>4, <2>1
<1>. QED BY <1>2, <1>5, <1>6, <1>7, <1>8

LEMMA ServerReads ==
    ASSUME NEW c \in Conns, ServerStep(c)
    PROVE  \E type : Reads(c, type)
BY DEF ServerStep, HandleRequestChallengeDkg, HandleRequestChallenge, HandleLoginDkg,
       HandleLogin, HandleAnnounce, HandleJoin, HandleListPending, HandleRound1Submit,
       HandleRound2Submit, HandleFinalizeSubmit, HandleDisconnect

LEMMA NextSpeaks == RoundsInv /\ OpenSpeaks /\ [Next]_vars => OpenSpeaks'
<1>. SUFFICES ASSUME RoundsInv, OpenSpeaks, [Next]_vars PROVE OpenSpeaks'
    OBVIOUS
<1>1. IInv /\ Queues(ClientMsg, ServerMsg) /\ SocketsTypeOK
    BY OnceTypes DEF RoundsInv, IInv
<1>2. CASE UNCHANGED vars
    <2>1. UNCHANGED <<toServer, socket, online>>
        BY <1>2 DEF vars
    <2>. QED BY <1>1, <2>1, SilentStep, SpeaksKept
<1>3. ASSUME NEW c \in Conns, ServerStep(c) PROVE OpenSpeaks'
    <2>1. PICK type : Reads(c, type)
        BY <1>3, ServerReads
    <2>2. NoneSent(SocketEnd) /\ UNCHANGED <<socket, online>>
        BY <1>1, <2>1, ReadsQueued DEF Reads
    <2>. QED BY <1>1, <2>2, SpeaksKept
<1>4. ASSUME NEW p \in Participants, APage(p) PROVE OpenSpeaks'
    BY <1>1, <1>4, PageSpeaks, SpeaksKept, OpenSpeaksNext, CloseSpeaks
<1>. QED BY <1>2, <1>3, <1>4 DEF Next, APage

\* The coordinator forgets a login only when it reads the end of its socket.
LEMMA LoginsStay ==
    ASSUME KeepInv, NEW c \in Conns, ServerStep(c), NEW p \in Participants, online[p],
           Conn(p) \in logged_in
    PROVE  Conn(p) \in logged_in'
<1>1. Queues(ClientMsg, ServerMsg) /\ OpenSpeaks
    BY OnceTypes DEF KeepInv, RoundsInv, IInv
<1>2. CASE HandleDisconnect(c)
    <2>1. Reads(c, "Close") /\ logged_in' = logged_in \ {c}
        BY <1>2 DEF HandleDisconnect, Forget
    <2>. QED BY <1>1, <2>1, EndReadLate
<1>3. CASE ~HandleDisconnect(c)
    BY <1>3 DEF ServerStep, HandleRequestChallengeDkg, HandleRequestChallenge, HandleLoginDkg,
           HandleLogin, HandleAnnounce, HandleJoin, HandleListPending, HandleRound1Submit,
           HandleRound2Submit, HandleFinalizeSubmit, Refuse, serverVars
<1>. QED BY <1>2, <1>3

\* A place is taken by the join of another socket, which is under way only while its
\* participant has none, and given up with its socket.
LEMMA PlacesStay ==
    ASSUME KeepInv, OnceInv, NEW c \in Conns, ServerStep(c), NEW p \in Participants, online[p],
           NEW s \in Sessions, joined[s][p] = socket[p]
    PROVE  joined'[s][p] = socket[p]
<1>1. /\ Queues(ClientMsg, ServerMsg) /\ OpenSpeaks /\ SocketsTypeOK
      /\ joined \in [Sessions -> [Participants -> 0..MaxSockets]]
      /\ c[1] \in Participants
    BY OnceTypes DEF KeepInv, RoundsInv, IInv, Conns
<1>2. joined[s][p] # 0
    BY <1>1 DEF SocketsTypeOK
<1>3. CASE HandleJoin(c)
    <2>1. Reads(c, "JoinDKGSession")
        BY <1>3 DEF HandleJoin
    <2>2. ~Unsent(c[1], AskJoin)
        BY <1>1, <2>1, ReadsQueued DEF AskJoin
    <2>3. c[1] # p
        BY <1>1, <1>2, <2>2 DEF OnceInv, RoundsOnce, JoinOnce, JoinSpent
    <2>4. \E t \in Sessions : joined' = [joined EXCEPT ![t][c[1]] = c[2]]
        <3>1. Head(toServer[c]).session \in Sessions
            BY <1>1, <2>1, WebReadsFacts, ClientMsgFacts
        <3>. QED BY <1>3, <3>1 DEF HandleJoin
    <2>. QED BY <1>1, <2>3, <2>4
<1>4. CASE HandleDisconnect(c)
    <2>1. Reads(c, "Close")
        BY <1>4 DEF HandleDisconnect
    <2>2. c # Conn(p)
        BY <1>1, <2>1, EndReadLate
    <2>3. IsParticipant(c, s) => c[1] # p
        BY <2>2 DEF IsParticipant, Conn, Conns
    <2>4. joined'[s] = IF IsParticipant(c, s) THEN [joined[s] EXCEPT ![c[1]] = 0] ELSE joined[s]
        BY <1>4 DEF HandleDisconnect
    <2>. QED BY <1>1, <2>3, <2>4
<1>5. CASE ~HandleJoin(c) /\ ~HandleDisconnect(c)
    BY <1>5 DEF ServerStep, HandleRequestChallengeDkg, HandleLoginDkg, HandleAnnounce,
           HandleListPending, HandleRound1Submit, HandleRound2Submit, HandleFinalizeSubmit,
           Refuse, serverVars, sessionVars
<1>. QED BY <1>3, <1>4, <1>5

Keeps(p) ==
    /\ Conn(p) \in logged_in => Conn(p) \in logged_in'
    /\ NobodyRejoined' => \A s \in Sessions :
          joined[s][p] = socket[p] => joined'[s][p] = socket[p]

LEMMA NextKeeps ==
    KeepInv /\ [Next]_vars =>
        [\A p \in Participants : online[p] /\ online'[p] => Keeps(p)]_vars
<1>. SUFFICES ASSUME KeepInv, Next, NEW p \in Participants, online[p] PROVE Keeps(p)
    OBVIOUS
<1>1. ASSUME NEW c \in Conns, ServerStep(c) PROVE Keeps(p)
    <2>1. NobodyRejoined' => OnceInv
        BY RejoinedStays DEF KeepInv, RoundsInv, IInv
    <2>. QED BY <1>1, <2>1, LoginsStay, PlacesStay DEF Keeps
<1>2. ASSUME NEW q \in Participants, APage(q), UNCHANGED sessionVars PROVE Keeps(p)
    <2>1. UNCHANGED joined
        BY <1>2 DEF sessionVars
    <2>2. UNCHANGED logged_in
        BY <1>2 DEF APage, PageStep, OnChallenge, AnswersChallenge, OnLoginOk, OnSessionCreated,
               OnPendingSessions, OnNewSession, OnSessionAborted, OnFinalized, OnError, OnRound,
               OnRound1All, Receives, WakeUp, Round1, Round2, Finalize, Wakes, Acts, UserStep,
               Connect, OpenSocket, Announce, Join, Refresh, Disconnect, Reload, CloseSocket
    <2>. QED BY <2>1, <2>2 DEF Keeps
<1>. QED BY <1>1, <1>2 DEF Next, APage, PageStep, WakeUp, UserStep

\* While a page's socket is open the coordinator keeps its login and, while nobody has
\* joined a second time, its place in a session.
THEOREM WebDkgOpenSocketKept == Spec => OpenSocketKept
<1>1. Init => KeepInv
    BY InitOnce, InitSpeaks DEF Init, KeepInv
<1>2. KeepInv /\ [Next]_vars => KeepInv'
    BY NextOnce, NextSpeaks DEF KeepInv
<1>3. KeepInv /\ [Next]_vars =>
        [\A p \in Participants : online[p] /\ online'[p] =>
            /\ Conn(p) \in logged_in => Conn(p) \in logged_in'
            /\ NobodyRejoined' => \A s \in Sessions :
                  joined[s][p] = socket[p] => joined'[s][p] = socket[p]]_vars
    BY NextKeeps DEF Keeps
<1>. QED BY <1>1, <1>2, <1>3, PTL DEF Spec, OpenSocketKept
=============================================================================
