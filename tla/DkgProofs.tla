------------------------------ MODULE DkgProofs ------------------------------
(***************************************************************************)
(* Type correctness of DkgCeremony, its safety properties and that it      *)
(* implements DkgOutcome, for any finite set of participants, any number   *)
(* of restarts and any set of faulty participants.                         *)
(*                                                                         *)
(* The coordinator sees only messages, which were sent earlier, possibly   *)
(* by a process that has died since.  The invariant IInv therefore says    *)
(* that every message under way, and everything the coordinator keeps, was *)
(* true when it was sent and has stayed true.                              *)
(*                                                                         *)
(* The second part (from NobodyRestarted on) is about runs in which no     *)
(* client is started twice, where each message is sent once: what is       *)
(* written is then everybody's, and no client aborts.                      *)
(***************************************************************************)
EXTENDS DkgCeremony, SessionProofs

-----------------------------------------------------------------------------
(***************************************************************************)
(* The queues: what SessionProofs says of them, for the DKG messages.      *)
(***************************************************************************)

LEMMA NetQueues == NetTypeOK <=> Queues(ClientMsg, ServerMsg) /\ ProcessesTypeOK
BY DEF NetTypeOK, Queues, ProcessesTypeOK

LEMMA ReadsFacts ==
    ASSUME NetTypeOK, NEW c \in Conns, NEW type, Reads(c, type)
    PROVE  /\ Head(toServer[c]) \in ClientMsg
           /\ Head(toServer[c]).type = type
           /\ toServer' \in [Conns -> Seq(ClientMsg)]
           /\ \A S : toServer[c] \in Seq(S) => Head(toServer[c]) \in S
           /\ \A d \in Conns : \A S : toServer[d] \in Seq(S) => toServer'[d] \in Seq(S)
BY NetQueues, SessionReads

LEMMA SentFacts ==
    ASSUME NetTypeOK, NEW conn, NEW msgs \in [Participants -> Seq(ServerMsg)],
           toClient' = Sent(conn, msgs)
    PROVE  /\ toClient' \in [Participants -> Seq(ServerMsg)]
           /\ \A p \in Participants : \A S :
                toClient[p] \in Seq(S) /\ msgs[p] \in Seq(S) => toClient'[p] \in Seq(S)
BY NetQueues, SessionSent

LEMMA ReceivesFacts ==
    ASSUME NetTypeOK, NEW p \in Participants, NEW type, Receives(p, type)
    PROVE  /\ Head(toClient[p]) \in ServerMsg
           /\ Head(toClient[p]).type = type
           /\ \A S : toClient[p] \in Seq(S) =>
                Head(toClient[p]) \in S /\ Tail(toClient[p]) \in Seq(S)
           /\ Conn(p) \in Conns
           /\ started[p] \in 1..MaxStarts
<1>1. phase[p] = "running"
    BY DEF Receives
<1>. QED BY <1>1, NetQueues, SessionReceives, RunningConn

LEMMA SendsFacts ==
    ASSUME NetTypeOK, NEW p \in Participants, NEW type, Receives(p, type),
           NEW msgs \in Seq(ClientMsg), Sends(p, msgs)
    PROVE  /\ NetTypeOK'
           /\ \A q \in Participants : \A S : toClient[q] \in Seq(S) => toClient'[q] \in Seq(S)
           /\ \A d \in Conns : \A S :
                toServer[d] \in Seq(S) /\ (d = Conn(p) => msgs \in Seq(S)) => toServer'[d] \in Seq(S)
<1>1. Queues(ClientMsg, ServerMsg) /\ ProcessesTypeOK
    BY NetQueues
<1>2. NetTypeOK' <=> Queues(ClientMsg, ServerMsg)' /\ ProcessesTypeOK'
    BY DEF NetTypeOK, Queues, ProcessesTypeOK
<1>. QED BY <1>1, <1>2, SessionSends

\* A client's memory is gone when it ends.
LEMMA ExitsFacts ==
    ASSUME NetTypeOK, NEW p \in Participants, phase[p] = "running",
           NEW how \in Phase \ {"running"}, NEW msgs \in Seq(ClientMsg), Exits(p, how, msgs)
    PROVE  /\ NetTypeOK'
           /\ \A q \in Participants : \A S : toClient[q] \in Seq(S) => toClient'[q] \in Seq(S)
           /\ \A d \in Conns : \A S :
                /\ toServer[d] \in Seq(S)
                /\ d = Conn(p) => msgs \in Seq(S)
                /\ [type |-> "Close"] \in S
                => toServer'[d] \in Seq(S)
<1>1. Queues(ClientMsg, ServerMsg) /\ ProcessesTypeOK
    BY NetQueues
<1>2. NetTypeOK' <=> Queues(ClientMsg, ServerMsg)' /\ ProcessesTypeOK'
    BY DEF NetTypeOK, Queues, ProcessesTypeOK
<1>3. [type |-> "Close"] \in ClientMsg /\ Ends(p, how, msgs)
    BY DEF ClientMsg, Exits
<1>. QED BY <1>1, <1>2, <1>3, SessionEnds

-----------------------------------------------------------------------------
(***************************************************************************)
(* The messages.                                                           *)
(***************************************************************************)

LEMMA PackagesFacts ==
    /\ NoPackages \in Packages
    /\ NoKey \in Packages
    /\ NoShare \in Share
    /\ \A pkgs \in Packages, p \in Participants, g \in Nat : [pkgs EXCEPT ![p] = g] \in Packages
    /\ \A pkgs \in Packages, p \in Participants, g \in Nat :
          g # 0 => [pkgs EXCEPT ![p] = g] \in Key
    /\ \A pkgs \in Packages : Present(pkgs) \subseteq Participants
BY DEF NoPackages, NoKey, Packages, Key, Present, NoShare, Share

LEMMA ClientMsgFacts ==
    /\ \A t \in {"Login", "AnnounceDKGSession", "JoinDKGSession", "Logout", "Close"} :
          [type |-> t] \in ClientMsg
    /\ \A g \in Nat : g # 0 => /\ [type |-> "Round1Submit", gen |-> g] \in ClientMsg
                             /\ [type |-> "Round2Submit", gen |-> g] \in ClientMsg
    /\ \A vk \in Key : [type |-> "FinalizeSubmit", vk |-> vk] \in ClientMsg
    /\ \A m \in ClientMsg :
          /\ m.type \in {"Round1Submit", "Round2Submit"} => m.gen \in Nat /\ m.gen # 0
          /\ m.type = "FinalizeSubmit" => m.vk \in Key
BY DEF ClientMsg, Generation

LEMMA ServerMsgFacts ==
    /\ \A t \in {"LoginOk", "DKGSessionCreated", "ReadyRound1", "ReadyRound2", "Close"} :
          [type |-> t] \in ServerMsg
    /\ \A pkgs \in Packages : /\ [type |-> "Round1All", pkgs |-> pkgs] \in ServerMsg
                              /\ [type |-> "Round2All", pkgs |-> pkgs] \in ServerMsg
    /\ \A vk \in Key : [type |-> "Finalized", vk |-> vk] \in ServerMsg
    /\ \A m \in ServerMsg :
          /\ m.type \in {"Round1All", "Round2All"} => m.pkgs \in Packages
          /\ m.type = "Finalized" => m.vk \in Key
BY DEF ServerMsg

-----------------------------------------------------------------------------
(***************************************************************************)
(* Type correctness.                                                       *)
(***************************************************************************)

LEMMA InitTypeOK == Init => TypeOK
<1>. SUFFICES ASSUME Init PROVE TypeOK
    OBVIOUS
<1>1. NetTypeOK
    BY EmptySeq, MaxStartsAssumption DEF Init, NetInit, RegistryInit, NetTypeOK, Phase
<1>2. ServerTypeOK
    BY PackagesFacts, MaxStartsAssumption DEF Init, ServerInit, RegistryInit, ServerTypeOK
<1>3. ClientTypeOK
    BY PackagesFacts DEF Init, ClientInit, ClientTypeOK
<1>. QED BY <1>1, <1>2, <1>3 DEF TypeOK

\* ServerTypeOK and ClientTypeOK speak of their own component's variables only.
LEMMA UnchangedTypeOK ==
    /\ ServerTypeOK /\ UNCHANGED serverVars => ServerTypeOK'
    /\ ClientTypeOK /\ UNCHANGED clientVars => ClientTypeOK'
    /\ NetTypeOK /\ UNCHANGED netVars => NetTypeOK'
BY DEF ServerTypeOK, serverVars, sessionVars, ClientTypeOK, clientVars, memoryVars,
       NetTypeOK, netVars

\* A handler that sends well-typed messages, or none, keeps the network well typed.
LEMMA HandlerNetTypeOK ==
    ASSUME NetTypeOK, NEW c \in Conns, NEW type, Reads(c, type),
           \/ UNCHANGED toClient
           \/ \E conn : \E msgs \in [Participants -> Seq(ServerMsg)] :
                  toClient' = Sent(conn, msgs)
    PROVE  NetTypeOK'
<1>1. toServer' \in [Conns -> Seq(ClientMsg)]
    BY ReadsFacts
<1>2. toClient' \in [Participants -> Seq(ServerMsg)]
    BY SentFacts DEF NetTypeOK
<1>. QED BY <1>1, <1>2 DEF NetTypeOK, Reads

LEMMA ReplyIsSent ==
    ASSUME NEW c \in Conns, NEW m \in ServerMsg, Reply(c, m)
    PROVE  \E conn : \E msgs \in [Participants -> Seq(ServerMsg)] : toClient' = Sent(conn, msgs)
BY QueueFacts, EmptySeq DEF Reply

LEMMA BroadcastIsSent ==
    ASSUME NEW msgs \in [Participants -> Seq(ServerMsg)], Broadcast(msgs)
    PROVE  \E conn : \E ms \in [Participants -> Seq(ServerMsg)] : toClient' = Sent(conn, ms)
BY DEF Broadcast

LEMMA ToAllFacts ==
    ASSUME NEW msgs \in Seq(ServerMsg)
    PROVE  ToAll(msgs) \in [Participants -> Seq(ServerMsg)]
BY DEF ToAll

LEMMA ServerStepTypeOK ==
    ASSUME TypeOK, NEW c \in Conns, ServerStep(c)
    PROVE  TypeOK'
<1>. USE DEF TypeOK
<1>. c[1] \in Participants /\ c[2] \in 0..MaxStarts
    BY MaxStartsAssumption DEF Conns
<1>1. CASE HandleLogin(c) /\ UNCHANGED clientVars
    <2>1. NetTypeOK'
        BY <1>1, HandlerNetTypeOK, ReplyIsSent, ServerMsgFacts DEF HandleLogin, Register
    <2>2. ServerTypeOK'
        BY <1>1 DEF HandleLogin, Register, ServerTypeOK, sessionVars
    <2>. QED BY <1>1, <2>1, <2>2, UnchangedTypeOK
<1>2. CASE HandleAnnounce(c) /\ UNCHANGED clientVars
    <2>1. NetTypeOK'
        BY <1>2, HandlerNetTypeOK, ReplyIsSent, ServerMsgFacts DEF HandleAnnounce
    <2>2. ServerTypeOK'
        BY <1>2 DEF HandleAnnounce, ServerTypeOK, sessionVars
    <2>. QED BY <1>2, <2>1, <2>2, UnchangedTypeOK
<1>3. CASE HandleJoin(c) /\ UNCHANGED clientVars
    <2>1. ToAll(<<[type |-> "ReadyRound1"]>>) \in [Participants -> Seq(ServerMsg)]
        BY ToAllFacts, ServerMsgFacts, QueueFacts, EmptySeq
    <2>2. NetTypeOK'
        BY <1>3, <2>1, HandlerNetTypeOK, BroadcastIsSent DEF HandleJoin
    <2>3. ServerTypeOK'
        BY <1>3 DEF HandleJoin, ServerTypeOK
    <2>. QED BY <1>3, <2>2, <2>3, UnchangedTypeOK
<1>4. CASE HandleRound1Submit(c) /\ UNCHANGED clientVars
    <2>1. Head(toServer[c]).gen \in Nat
        BY <1>4, ReadsFacts, ClientMsgFacts DEF HandleRound1Submit
    <2>2. r1_pkgs' \in Packages
        BY <1>4, <2>1, PackagesFacts DEF HandleRound1Submit, ServerTypeOK
    <2>3. /\ [type |-> "Round1All", pkgs |-> r1_pkgs'] \in ServerMsg
          /\ [type |-> "ReadyRound2"] \in ServerMsg
        BY <2>2, ServerMsgFacts
    <2>4. ToAll(<<[type |-> "Round1All", pkgs |-> r1_pkgs'], [type |-> "ReadyRound2"]>>)
            \in [Participants -> Seq(ServerMsg)]
        BY <2>3, ToAllFacts, FewMessages
    <2>5. NetTypeOK'
        BY <1>4, <2>4, HandlerNetTypeOK, BroadcastIsSent DEF HandleRound1Submit
    <2>6. ServerTypeOK'
        BY <1>4, <2>2 DEF HandleRound1Submit, ServerTypeOK
    <2>. QED BY <1>4, <2>5, <2>6, UnchangedTypeOK
<1>5. CASE HandleRound2Submit(c) /\ UNCHANGED clientVars
    <2>1. Head(toServer[c]).gen \in Nat
        BY <1>5, ReadsFacts, ClientMsgFacts DEF HandleRound2Submit
    <2>2. r2_inbox' \in [Participants -> Packages]
        BY <1>5, <2>1, PackagesFacts DEF HandleRound2Submit, ServerTypeOK
    <2>3. \A q \in Participants : <<[type |-> "Round2All", pkgs |-> r2_inbox'[q]]>> \in Seq(ServerMsg)
        BY <2>2, ServerMsgFacts, FewMessages
    <2>4. [q \in Participants |-> <<[type |-> "Round2All", pkgs |-> r2_inbox'[q]]>>]
            \in [Participants -> Seq(ServerMsg)]
        BY <2>3
    <2>5. NetTypeOK'
        BY <1>5, <2>4, HandlerNetTypeOK, BroadcastIsSent DEF HandleRound2Submit
    <2>6. ServerTypeOK'
        BY <1>5, <2>2 DEF HandleRound2Submit, ServerTypeOK
    <2>. QED BY <1>5, <2>5, <2>6, UnchangedTypeOK
<1>6. CASE HandleFinalizeSubmit(c) /\ UNCHANGED clientVars
    <2>. DEFINE vk == Head(toServer[c]).vk
    <2>1. vk \in Key
        BY <1>6, ReadsFacts, ClientMsgFacts DEF HandleFinalizeSubmit
    <2>2. Agreed(vk) \in Key
        BY <2>1 DEF Agreed, ServerTypeOK, Key
    <2>3. ToAll(<<[type |-> "Finalized", vk |-> Agreed(vk)]>>) \in [Participants -> Seq(ServerMsg)]
        BY <2>2, ToAllFacts, ServerMsgFacts, FewMessages
    <2>4. NetTypeOK'
        BY <1>6, <2>3, HandlerNetTypeOK, BroadcastIsSent DEF HandleFinalizeSubmit
    <2>5. ServerTypeOK'
        BY <1>6, <2>2, PackagesFacts
           DEF HandleFinalizeSubmit, ServerTypeOK, RemoveSession, Key
    <2>. QED BY <1>6, <2>4, <2>5, UnchangedTypeOK
<1>7. CASE Refuse(c) /\ UNCHANGED clientVars
    <2>1. NetTypeOK'
        BY <1>7, HandlerNetTypeOK DEF Refuse
    <2>. QED BY <1>7, <2>1, UnchangedTypeOK DEF Refuse
<1>8. CASE HandleLogout(c) /\ UNCHANGED clientVars
    <2>1. NetTypeOK'
        BY <1>8, HandlerNetTypeOK DEF HandleLogout, Unregister
    <2>2. ServerTypeOK'
        BY <1>8, MaxStartsAssumption DEF HandleLogout, Unregister, ServerTypeOK, sessionVars
    <2>. QED BY <1>8, <2>1, <2>2, UnchangedTypeOK
<1>9. CASE HandleDisconnect(c) /\ UNCHANGED clientVars
    <2>1. NetTypeOK'
        BY <1>9, HandlerNetTypeOK DEF HandleDisconnect, Unregister
    <2>2. ServerTypeOK'
        BY <1>9, MaxStartsAssumption DEF HandleDisconnect, Unregister, ServerTypeOK
    <2>. QED BY <1>9, <2>1, <2>2, UnchangedTypeOK
<1>. QED
    BY <1>1, <1>2, <1>3, <1>4, <1>5, <1>6, <1>7, <1>8, <1>9 DEF ServerStep

\* What p had not delivered when it ended is well typed.
LEMMA UnreadFacts ==
    ASSUME NetTypeOK, NEW p \in Participants, phase[p] = "running"
    PROVE  /\ Conn(p) \in Conns
           /\ \A S : toServer[Conn(p)] \in Seq(S) =>
                /\ Unread(p) \in Seq(S)
                /\ \A n \in 0..Len(Unread(p)) : SubSeq(Unread(p), 1, n) \in Seq(S)
                /\ [type |-> "Logout"] \in S => Append(Unread(p), [type |-> "Logout"]) \in Seq(S)
<1>1. Conn(p) \in Conns
    BY MaxStartsAssumption DEF Conn, Conns, NetTypeOK
<1>2. ASSUME NEW S, toServer[Conn(p)] \in Seq(S)
      PROVE  /\ Unread(p) \in Seq(S)
             /\ \A n \in 0..Len(Unread(p)) : SubSeq(Unread(p), 1, n) \in Seq(S)
             /\ [type |-> "Logout"] \in S => Append(Unread(p), [type |-> "Logout"]) \in Seq(S)
    BY <1>2, UnreadMessages, AppendProperties
<1>. QED BY <1>1, <1>2

\* The end of a process leaves the client well typed, whatever it wrote.
LEMMA ExitsTypeOK ==
    ASSUME NetTypeOK, ClientTypeOK, NEW p \in Participants, phase[p] = "running",
           NEW how \in Phase \ {"running"}, NEW msgs \in Seq(ClientMsg), Exits(p, how, msgs),
           UNCHANGED <<session_file, gen, dealt, derived>>,
           share' \in [Participants -> Share]
    PROVE  NetTypeOK' /\ ClientTypeOK'
<1>1. NetTypeOK'
    BY ExitsFacts
<1>2. ClientTypeOK'
    BY PackagesFacts DEF Exits, Ends, ClientTypeOK
<1>. QED BY <1>1, <1>2

LEMMA ClientStepTypeOK ==
    ASSUME TypeOK, NEW p \in Participants, ClientStep(p)
    PROVE  TypeOK'
<1>. USE DEF TypeOK
<1>1. CASE OnLoginOk(p) /\ UNCHANGED serverVars
    <2>1. <<[type |-> IF session_file THEN "JoinDKGSession" ELSE "AnnounceDKGSession"]>>
            \in Seq(ClientMsg)
        BY ClientMsgFacts, FewMessages
    <2>2. NetTypeOK'
        BY <1>1, <2>1, SendsFacts DEF OnLoginOk
    <2>. QED BY <1>1, <2>2, UnchangedTypeOK DEF OnLoginOk
<1>2. CASE OnSessionCreated(p) /\ UNCHANGED serverVars
    <2>1. <<[type |-> "JoinDKGSession"]>> \in Seq(ClientMsg)
        BY ClientMsgFacts, FewMessages
    <2>2. NetTypeOK'
        BY <1>2, <2>1, SendsFacts DEF OnSessionCreated
    <2>3. ClientTypeOK'
        BY <1>2 DEF OnSessionCreated, ClientTypeOK, memoryVars
    <2>. QED BY <1>2, <2>2, <2>3, UnchangedTypeOK
<1>3. CASE OnReadyRound1(p) /\ UNCHANGED serverVars
    <2>1. gen[p] + 1 \in Nat /\ gen[p] + 1 # 0
        BY DEF ClientTypeOK
    <2>2. <<[type |-> "Round1Submit", gen |-> gen[p] + 1]>> \in Seq(ClientMsg)
        BY <2>1, ClientMsgFacts, FewMessages
    <2>3. NetTypeOK'
        BY <1>3, <2>2, SendsFacts DEF OnReadyRound1
    <2>4. ClientTypeOK'
        BY <1>3, <2>1 DEF OnReadyRound1, ClientTypeOK
    <2>. QED BY <1>3, <2>3, <2>4, UnchangedTypeOK
<1>4. CASE OnRound1All(p) /\ UNCHANGED serverVars
    <2>1. Head(toClient[p]).pkgs \in Packages
        BY <1>4, ReceivesFacts, ServerMsgFacts DEF OnRound1All
    <2>2. NetTypeOK'
        BY <1>4, EmptySeq, SendsFacts DEF OnRound1All
    <2>3. ClientTypeOK'
        BY <1>4, <2>1 DEF OnRound1All, ClientTypeOK
    <2>. QED BY <1>4, <2>2, <2>3, UnchangedTypeOK
<1>5. CASE OnReadyRound2(p) /\ UNCHANGED serverVars
    <2>1. r1_secret[p] \in Generation
        BY <1>5 DEF OnReadyRound2, Round2Possible, ClientTypeOK, Generation
    <2>2. <<[type |-> "Round2Submit", gen |-> r1_secret[p]]>> \in Seq(ClientMsg)
        BY <2>1, ClientMsgFacts, FewMessages DEF Generation
    <2>3. NetTypeOK'
        BY <1>5, <2>2, SendsFacts DEF OnReadyRound2
    <2>4. ClientTypeOK'
        BY <1>5, <2>1 DEF OnReadyRound2, ClientTypeOK
    <2>. QED BY <1>5, <2>3, <2>4, UnchangedTypeOK
<1>6. CASE OnRound2All(p) /\ UNCHANGED serverVars
    <2>. DEFINE vk == Part3Key(p, r2_secret[p], r1_cache[p])
    <2>1. vk \in Key
        BY <1>6, PackagesFacts DEF OnRound2All, Round3Possible, Part3Key, ClientTypeOK
    <2>2. <<[type |-> "FinalizeSubmit", vk |-> vk]>> \in Seq(ClientMsg)
        BY <2>1, ClientMsgFacts, FewMessages
    <2>3. NetTypeOK'
        BY <1>6, <2>2, SendsFacts DEF OnRound2All
    <2>4. ClientTypeOK'
        BY <1>6, <2>1 DEF OnRound2All, ClientTypeOK, Key
    <2>. QED BY <1>6, <2>3, <2>4, UnchangedTypeOK
<1>7. CASE OnFinalized(p) /\ UNCHANGED serverVars
    <2>1. Head(toClient[p]).vk \in Packages
        BY <1>7, ReceivesFacts, ServerMsgFacts DEF OnFinalized, Key
    <2>2. share' \in [Participants -> Share]
        BY <1>7, <2>1 DEF OnFinalized, Artifacts, Share, ClientTypeOK
    <2>3. Append(Unread(p), [type |-> "Logout"]) \in Seq(ClientMsg)
        BY <1>7, UnreadFacts, ClientMsgFacts DEF OnFinalized, Receives, NetTypeOK
    <2>4. NetTypeOK' /\ ClientTypeOK'
        BY <1>7, <2>2, <2>3, ExitsTypeOK DEF OnFinalized, Receives, Phase
    <2>. QED BY <1>7, <2>4, UnchangedTypeOK
<1>8. CASE Abort(p) /\ UNCHANGED serverVars
    <2>1. phase[p] = "running"
        BY <1>8 DEF Abort, Receives
    <2>2. Unread(p) \in Seq(ClientMsg)
        BY <2>1, UnreadFacts DEF NetTypeOK
    <2>3. NetTypeOK' /\ ClientTypeOK'
        BY <1>8, <2>1, <2>2, ExitsTypeOK DEF Abort, Phase, ClientTypeOK
    <2>. QED BY <1>8, <2>3, UnchangedTypeOK
<1>9. CASE OnClose(p) /\ UNCHANGED serverVars
    <2>1. phase[p] = "running"
        BY <1>9 DEF OnClose, Receives
    <2>2. Unread(p) \in Seq(ClientMsg)
        BY <2>1, UnreadFacts DEF NetTypeOK
    <2>3. NetTypeOK' /\ ClientTypeOK'
        BY <1>9, <2>1, <2>2, ExitsTypeOK DEF OnClose, Phase, ClientTypeOK
    <2>. QED BY <1>9, <2>3, UnchangedTypeOK
<1>. QED
    BY <1>1, <1>2, <1>3, <1>4, <1>5, <1>6, <1>7, <1>8, <1>9 DEF ClientStep

LEMMA StepTypeOK == TypeOK /\ [Next]_vars => TypeOK'
<1>. SUFFICES ASSUME TypeOK, [Next]_vars PROVE TypeOK'
    OBVIOUS
<1>. USE DEF TypeOK
<1>1. CASE Expire /\ UNCHANGED clientVars
    <2>1. ToAll(<<[type |-> "Close"]>>) \in [Participants -> Seq(ServerMsg)]
        BY ToAllFacts, ServerMsgFacts, FewMessages
    <2>2. toClient' \in [Participants -> Seq(ServerMsg)]
        BY <1>1, <2>1, SentFacts DEF Expire, Broadcast
    <2>3. NetTypeOK'
        BY <1>1, <2>2 DEF Expire, NetTypeOK
    <2>4. ServerTypeOK'
        BY <1>1, PackagesFacts DEF Expire, RemoveSession, ServerTypeOK
    <2>. QED BY <1>1, <2>3, <2>4, UnchangedTypeOK
<1>2. ASSUME NEW p \in Participants, Start(p), UNCHANGED serverVars
      PROVE  TypeOK'
    <2>1. started[p] + 1 \in 1..MaxStarts
        BY <1>2, MaxStartsAssumption DEF Start, Starts, NetTypeOK
    <2>2. toServer' \in [Conns -> Seq(ClientMsg)]
        BY <1>2, <2>1, ClientMsgFacts, FewMessages DEF Start, Starts, NetTypeOK, Conns
    <2>3. NetTypeOK'
        BY <1>2, <2>1, <2>2 DEF Start, Starts, NetTypeOK, Phase
    <2>. QED BY <1>2, <2>3, UnchangedTypeOK DEF Start, Starts
<1>3. ASSUME NEW p \in Participants, Crash(p), UNCHANGED serverVars
      PROVE  TypeOK'
    <2>1. PICK n \in 0..Len(Unread(p)) : Exits(p, "crashed", SubSeq(Unread(p), 1, n))
        BY <1>3 DEF Crash
    <2>2. SubSeq(Unread(p), 1, n) \in Seq(ClientMsg)
        BY <1>3, UnreadFacts DEF Crash, NetTypeOK
    <2>3. NetTypeOK' /\ ClientTypeOK'
        BY <1>3, <2>1, <2>2, ExitsTypeOK DEF Crash, Phase, ClientTypeOK
    <2>. QED BY <1>3, <2>3, UnchangedTypeOK
<1>4. CASE UNCHANGED vars
    BY <1>4, UnchangedTypeOK DEF vars
<1>. QED BY <1>1, <1>2, <1>3, <1>4, ServerStepTypeOK, ClientStepTypeOK DEF Next

\* Every variable keeps its type, and a running client has been started.
THEOREM TypeCorrect == Spec => []TypeOK
BY InitTypeOK, StepTypeOK, PTL DEF Spec

-----------------------------------------------------------------------------
\* What a client says on connection c is true.
FromClient(c) ==
    {m \in ClientMsg :
        /\ m.type = "Round2Submit" => m.gen \in dealt[c[1]]
        /\ m.type = "FinalizeSubmit" => m.vk \in derived[c[1]]}

Dealt(pkgs) == \A q \in Participants : pkgs[q] # 0 => pkgs[q] \in dealt[q]

\* What the coordinator says to p is true.
FromCoordinator(p) ==
    {m \in ServerMsg :
        /\ m.type = "Round1All" => Present(m.pkgs) = Participants
        /\ m.type = "Round2All" => Present(m.pkgs) = Participants \ {p} /\ Dealt(m.pkgs)
        /\ m.type = "Finalized" => session = "completed" /\ m.vk = completed_vk}

MessagesTrue ==
    /\ \A c \in Conns : toServer[c] \in Seq(FromClient(c))
    /\ \A p \in Participants : toClient[p] \in Seq(FromCoordinator(p))

InboxesDealt == \A p \in Participants : r2_inbox[p][p] = 0 /\ Dealt(r2_inbox[p])

AgreedKeyDerived ==
    \A p \in finalized_uids : agreed_vk # NoKey /\ agreed_vk \in derived[p]

CompletedKey == session = "completed" => completed_vk # NoKey

SecretsDealt == \A p \in Participants : r2_secret[p] # 0 => r2_secret[p] \in dealt[p]

\* A share is the last thing a participant's client does.
ShareEndsClient ==
    \A p \in Participants :
        /\ HasShare(p) => phase[p] = "finished"
        /\ phase[p] = "finished" => started[p] # 0

IInv ==
    /\ TypeOK
    /\ MessagesTrue
    /\ InboxesDealt
    /\ AgreedKeyDerived
    /\ CompletedKey
    /\ CompletedKeyDerivedByAll
    /\ SecretsDealt
    /\ DerivedKeysFullyDealt
    /\ ArtifactsNameCompletedKey
    /\ ShareEndsClient

-----------------------------------------------------------------------------
\* Counting: a roster's worth of participants is the roster.
LEMMA AllOfFacts ==
    ASSUME NEW S \in SUBSET Participants
    PROVE  /\ AllOf(S) => S = Participants
           /\ \A p \in Participants :
                 p \notin S /\ Cardinality(S) = Cardinality(Participants) - 1
                     => S = Participants \ {p}
<1>1. AllOf(S) => S = Participants
    BY ParticipantsAssumption, FS_Subset DEF AllOf
<1>2. ASSUME NEW p \in Participants, p \notin S,
             Cardinality(S) = Cardinality(Participants) - 1
      PROVE  S = Participants \ {p}
    <2>1. /\ IsFiniteSet(Participants \ {p})
          /\ Cardinality(Participants \ {p}) = Cardinality(Participants) - 1
        BY ParticipantsAssumption, FS_RemoveElement
    <2>2. S \in SUBSET (Participants \ {p})
        BY <1>2
    <2>. QED BY <1>2, <2>1, <2>2, FS_Subset
<1>. QED BY <1>1, <1>2

-----------------------------------------------------------------------------
(***************************************************************************)
(* What was true stays true.                                               *)
(***************************************************************************)
Stable ==
    /\ \A p \in Participants : dealt[p] \subseteq dealt'[p] /\ derived[p] \subseteq derived'[p]
    /\ session = "completed" => session' = "completed" /\ completed_vk' = completed_vk

LEMMA StableMessages ==
    ASSUME Stable
    PROVE  /\ \A c \in Conns : \A s \in Seq(FromClient(c)) : s \in Seq(FromClient(c)')
           /\ \A p \in Participants : \A s \in Seq(FromCoordinator(p)) : s \in Seq(FromCoordinator(p)')
<1>1. \A c \in Conns : FromClient(c) \subseteq FromClient(c)'
    BY DEF Stable, FromClient, Conns
<1>2. \A p \in Participants : FromCoordinator(p) \subseteq FromCoordinator(p)'
    BY DEF Stable, FromCoordinator, Dealt
<1>. QED BY <1>1, <1>2, SeqMonotonic

\* A handler keeps the messages true if what it sends is true.
LEMMA HandlerMessages ==
    ASSUME IInv, Stable, NEW c \in Conns, NEW type, Reads(c, type),
           \/ UNCHANGED toClient
           \/ \E conn : \E msgs \in [Participants -> Seq(ServerMsg)] :
                 /\ \A p \in Participants : msgs[p] \in Seq(FromCoordinator(p)')
                 /\ toClient' = Sent(conn, msgs)
    PROVE  MessagesTrue'
<1>1. \A d \in Conns : toServer'[d] \in Seq(FromClient(d)')
    BY ReadsFacts, StableMessages DEF IInv, TypeOK, MessagesTrue
<1>2. \A p \in Participants : toClient[p] \in Seq(FromCoordinator(p)')
    BY StableMessages DEF IInv, MessagesTrue
<1>3. \A p \in Participants : toClient'[p] \in Seq(FromCoordinator(p)')
    BY <1>2, SentFacts DEF IInv, TypeOK
<1>. QED BY <1>1, <1>3 DEF MessagesTrue

\* A client's answer keeps them true if it is true.
LEMMA SendsMessages ==
    ASSUME IInv, Stable, NEW p \in Participants, NEW type, Receives(p, type),
           NEW msgs \in Seq(ClientMsg), Sends(p, msgs),
           NEW c \in Conns, c = Conn(p), msgs \in Seq(FromClient(c)')
    PROVE  MessagesTrue'
<1>1. /\ \A d \in Conns : toServer[d] \in Seq(FromClient(d)')
      /\ \A q \in Participants : toClient[q] \in Seq(FromCoordinator(q)')
    BY StableMessages DEF IInv, MessagesTrue
<1>2. ASSUME NEW d \in Conns PROVE toServer'[d] \in Seq(FromClient(d)')
    <2>1. toServer[d] \in Seq(FromClient(d)') /\ (d = Conn(p) => msgs \in Seq(FromClient(d)'))
        BY <1>1
    <2>. QED BY <2>1, SendsFacts DEF IInv, TypeOK
<1>3. \A q \in Participants : toClient'[q] \in Seq(FromCoordinator(q)')
    BY <1>1, SendsFacts DEF IInv, TypeOK
<1>. QED BY <1>2, <1>3 DEF MessagesTrue

\* Neither does the end of a client make one untrue.
LEMMA ExitsMessages ==
    ASSUME IInv, Stable, NEW p \in Participants, phase[p] = "running",
           NEW how \in Phase \ {"running"}, NEW msgs \in Seq(ClientMsg), Exits(p, how, msgs),
           NEW c \in Conns, c = Conn(p), msgs \in Seq(FromClient(c))
    PROVE  MessagesTrue'
<1>1. /\ \A d \in Conns : toServer[d] \in Seq(FromClient(d)')
      /\ \A q \in Participants : toClient[q] \in Seq(FromCoordinator(q)')
      /\ msgs \in Seq(FromClient(c)')
    BY StableMessages DEF IInv, MessagesTrue
<1>2. \A d \in Conns : [type |-> "Close"] \in FromClient(d)'
    BY ClientMsgFacts DEF FromClient
<1>3. ASSUME NEW d \in Conns PROVE toServer'[d] \in Seq(FromClient(d)')
    <2>1. /\ toServer[d] \in Seq(FromClient(d)')
          /\ d = Conn(p) => msgs \in Seq(FromClient(d)')
          /\ [type |-> "Close"] \in FromClient(d)'
        BY <1>1, <1>2
    <2>. QED BY <2>1, ExitsFacts DEF IInv, TypeOK
<1>4. \A q \in Participants : toClient'[q] \in Seq(FromCoordinator(q)')
    BY <1>1, ExitsFacts DEF IInv, TypeOK
<1>. QED BY <1>3, <1>4 DEF MessagesTrue

-----------------------------------------------------------------------------
(***************************************************************************)
(* Initial states and steps.                                               *)
(***************************************************************************)

LEMMA InitIInv == Init => IInv
<1>. SUFFICES ASSUME Init PROVE IInv
    OBVIOUS
<1>1. TypeOK
    BY InitTypeOK
<1>2. MessagesTrue
    BY EmptySeq DEF Init, NetInit, RegistryInit, MessagesTrue
<1>3. InboxesDealt /\ AgreedKeyDerived /\ CompletedKey /\ CompletedKeyDerivedByAll
    BY DEF Init, ServerInit, RegistryInit, InboxesDealt, AgreedKeyDerived, CompletedKey,
           CompletedKeyDerivedByAll, Dealt, NoPackages
<1>4. SecretsDealt /\ DerivedKeysFullyDealt /\ ArtifactsNameCompletedKey /\ ShareEndsClient
    BY DEF Init, NetInit, RegistryInit, ClientInit, SecretsDealt, DerivedKeysFullyDealt,
           ArtifactsNameCompletedKey, ShareEndsClient, HasShare
<1>. QED BY <1>1, <1>2, <1>3, <1>4 DEF IInv

\* A step that leaves the clients' own variables alone keeps what they know.
LEMMA ClientsUnchanged ==
    ASSUME IInv, UNCHANGED clientVars, UNCHANGED <<started, phase>>
    PROVE  SecretsDealt' /\ DerivedKeysFullyDealt' /\ ShareEndsClient'
BY DEF IInv, clientVars, memoryVars, SecretsDealt, DerivedKeysFullyDealt, ShareEndsClient,
       HasShare

\* A handler that leaves the rounds and the outcome alone.
LEMMA OutcomeUnchanged ==
    ASSUME IInv, TypeOK', NEW c \in Conns, NEW type, Reads(c, type), UNCHANGED clientVars,
           UNCHANGED <<session, completed_vk, r2_inbox, finalized_uids, agreed_vk>>,
           MessagesTrue'
    PROVE  IInv'
<1>1. UNCHANGED <<started, phase, dealt, derived, share>>
    BY DEF Reads, clientVars
<1>2. InboxesDealt' /\ AgreedKeyDerived' /\ CompletedKey' /\ CompletedKeyDerivedByAll'
    BY <1>1 DEF IInv, InboxesDealt, Dealt, AgreedKeyDerived, CompletedKey,
                CompletedKeyDerivedByAll
<1>3. ArtifactsNameCompletedKey'
    BY <1>1 DEF IInv, ArtifactsNameCompletedKey, HasShare
<1>. QED BY <1>1, <1>2, <1>3, ClientsUnchanged DEF IInv

\* The messages every participant may be sent at any time.
LEMMA PlainMessages ==
    ASSUME NEW t \in {"LoginOk", "DKGSessionCreated", "ReadyRound1", "ReadyRound2", "Close"},
           NEW p \in Participants
    PROVE  [type |-> t] \in FromCoordinator(p)'
BY ServerMsgFacts DEF FromCoordinator

LEMMA ReplyMessages ==
    ASSUME NEW t \in {"LoginOk", "DKGSessionCreated"}, NEW c \in Conns, Reply(c, [type |-> t])
    PROVE  \E conn : \E msgs \in [Participants -> Seq(ServerMsg)] :
              /\ \A p \in Participants : msgs[p] \in Seq(FromCoordinator(p)')
              /\ toClient' = Sent(conn, msgs)
<1>. DEFINE msgs == [p \in Participants |-> <<[type |-> t]>>]
<1>1. \A p \in Participants : msgs[p] \in Seq(FromCoordinator(p)')
    BY PlainMessages, FewMessages
<1>2. msgs \in [Participants -> Seq(ServerMsg)]
    BY ServerMsgFacts, FewMessages
<1>. QED BY <1>1, <1>2 DEF Reply

\* Round1All goes out with everyone's package.
LEMMA Round1Step ==
    ASSUME IInv, TypeOK', NEW c \in Conns, HandleRound1Submit(c), UNCHANGED clientVars
    PROVE  IInv'
<1>. DEFINE msgs == ToAll(<<[type |-> "Round1All", pkgs |-> r1_pkgs'], [type |-> "ReadyRound2"]>>)
<1>1. Stable
    BY DEF HandleRound1Submit, Stable, clientVars
<1>2. ASSUME AllOf(Present(r1_pkgs'))
      PROVE  /\ msgs \in [Participants -> Seq(ServerMsg)]
             /\ \A p \in Participants : msgs[p] \in Seq(FromCoordinator(p)')
    <2>1. r1_pkgs' \in Packages /\ Present(r1_pkgs') = Participants
        BY <1>2, PackagesFacts, AllOfFacts DEF TypeOK, ServerTypeOK
    <2>2. [type |-> "Round1All", pkgs |-> r1_pkgs'] \in ServerMsg
        BY <2>1, ServerMsgFacts
    <2>3. \A p \in Participants : [type |-> "Round1All", pkgs |-> r1_pkgs'] \in FromCoordinator(p)'
        BY <2>1, <2>2 DEF FromCoordinator, Present
    <2>4. \A p \in Participants :
            <<[type |-> "Round1All", pkgs |-> r1_pkgs'], [type |-> "ReadyRound2"]>>
              \in Seq(FromCoordinator(p)')
        BY <2>3, PlainMessages, FewMessages
    <2>5. <<[type |-> "Round1All", pkgs |-> r1_pkgs'], [type |-> "ReadyRound2"]>> \in Seq(ServerMsg)
        BY <2>2, ServerMsgFacts, FewMessages
    <2>. QED BY <2>4, <2>5 DEF ToAll
<1>3. MessagesTrue'
    BY <1>1, <1>2, HandlerMessages DEF HandleRound1Submit, Broadcast
<1>. QED BY <1>3, OutcomeUnchanged DEF HandleRound1Submit

\* Round2All goes out with a dealt package from everybody else.
LEMMA Round2Step ==
    ASSUME IInv, TypeOK', NEW c \in Conns, HandleRound2Submit(c), UNCHANGED clientVars
    PROVE  IInv'
<1>. DEFINE msgs == [q \in Participants |-> <<[type |-> "Round2All", pkgs |-> r2_inbox'[q]]>>]
<1>1. Stable /\ UNCHANGED <<started, phase, dealt, derived, share>>
    BY DEF HandleRound2Submit, Reads, Stable, clientVars
<1>2. c[1] \in Participants
    BY DEF Conns
<1>3. Head(toServer[c]).gen \in dealt[c[1]]
    BY ReadsFacts DEF HandleRound2Submit, IInv, TypeOK, MessagesTrue, FromClient
<1>4. InboxesDealt'
    BY <1>1, <1>2, <1>3 DEF HandleRound2Submit, IInv, TypeOK, ServerTypeOK, Packages,
                            InboxesDealt, Dealt
<1>5. ASSUME InboxesFull(r2_inbox')
      PROVE  /\ msgs \in [Participants -> Seq(ServerMsg)]
             /\ \A p \in Participants : msgs[p] \in Seq(FromCoordinator(p)')
    <2>1. SUFFICES ASSUME NEW p \in Participants
                   PROVE  /\ msgs[p] \in Seq(ServerMsg)
                          /\ msgs[p] \in Seq(FromCoordinator(p)')
        OBVIOUS
    <2>2. r2_inbox'[p] \in Packages
        BY DEF TypeOK, ServerTypeOK
    <2>3. Present(r2_inbox'[p]) = Participants \ {p}
        <3>1. p \notin Present(r2_inbox'[p])
            BY <1>4 DEF InboxesDealt, Present
        <3>2. Cardinality(Present(r2_inbox'[p])) = Cardinality(Participants) - 1
            BY <1>5 DEF InboxesFull
        <3>. QED BY <2>2, <3>1, <3>2, PackagesFacts, AllOfFacts
    <2>4. [type |-> "Round2All", pkgs |-> r2_inbox'[p]] \in ServerMsg
        BY <2>2, ServerMsgFacts
    <2>5. Dealt(r2_inbox[p])'
        BY <1>4 DEF InboxesDealt
    <2>6. [type |-> "Round2All", pkgs |-> r2_inbox'[p]] \in FromCoordinator(p)'
        BY <2>3, <2>4, <2>5 DEF FromCoordinator, Present, Dealt
    <2>. QED BY <2>4, <2>6, FewMessages
<1>6. MessagesTrue'
    BY <1>1, <1>5, HandlerMessages DEF HandleRound2Submit, Broadcast
<1>7. AgreedKeyDerived' /\ CompletedKey' /\ CompletedKeyDerivedByAll' /\ ArtifactsNameCompletedKey'
    BY <1>1 DEF HandleRound2Submit, IInv, AgreedKeyDerived, CompletedKey,
                CompletedKeyDerivedByAll, ArtifactsNameCompletedKey, HasShare
<1>. QED BY <1>1, <1>4, <1>6, <1>7, ClientsUnchanged DEF IInv

\* A submitted key joins the agreement only if it is the agreed one.
LEMMA AgreedIsSubmitted ==
    ASSUME NEW vk, ~VkMismatch(vk)
    PROVE  Agreed(vk) = vk
BY DEF VkMismatch, Agreed

\* The last FinalizeSubmit completes the session for a key that everyone derived.
LEMMA FinalizeStep ==
    ASSUME IInv, TypeOK', NEW c \in Conns, HandleFinalizeSubmit(c), UNCHANGED clientVars
    PROVE  IInv'
<1>. DEFINE vk == Head(toServer[c]).vk
            msgs == ToAll(<<[type |-> "Finalized", vk |-> vk]>>)
<1>1. UNCHANGED <<started, phase, dealt, derived, share>>
    BY DEF HandleFinalizeSubmit, Reads, clientVars
<1>2. c[1] \in Participants
    BY DEF Conns
<1>3. vk \in Key /\ vk \in derived[c[1]] /\ Agreed(vk) = vk
    <2>1. Head(toServer[c]) \in FromClient(c) /\ Head(toServer[c]).type = "FinalizeSubmit"
        BY ReadsFacts DEF HandleFinalizeSubmit, IInv, TypeOK, MessagesTrue
    <2>. QED BY <2>1, ClientMsgFacts, AgreedIsSubmitted DEF FromClient, HandleFinalizeSubmit
<1>4. vk # NoKey
    BY <1>3 DEF Key
<1>5. session = "open"
    BY DEF HandleFinalizeSubmit, Admitted
<1>6. \A p \in finalized_uids \cup {c[1]} : vk \in derived[p]
    BY <1>3 DEF HandleFinalizeSubmit, VkMismatch, IInv, AgreedKeyDerived
<1>7. Stable
    BY <1>1, <1>5 DEF Stable
<1>8. ArtifactsNameCompletedKey'
    BY <1>1, <1>5 DEF IInv, ArtifactsNameCompletedKey, HasShare
<1>9. CASE AllOf(finalized_uids \cup {c[1]})
    <2>1. /\ session' = "completed"
          /\ completed_vk' = vk
          /\ r2_inbox' = [p \in Participants |-> NoPackages]
          /\ finalized_uids' = {}
          /\ toClient' = Sent(conns, msgs)
        BY <1>3, <1>9 DEF HandleFinalizeSubmit, RemoveSession, Broadcast
    <2>2. finalized_uids \cup {c[1]} = Participants
        BY <1>2, <1>9, AllOfFacts DEF IInv, TypeOK, ServerTypeOK
    <2>3. CompletedKey' /\ CompletedKeyDerivedByAll'
        BY <1>1, <1>4, <1>6, <2>1, <2>2 DEF CompletedKey, CompletedKeyDerivedByAll
    <2>4. InboxesDealt' /\ AgreedKeyDerived'
        BY <2>1 DEF InboxesDealt, Dealt, AgreedKeyDerived, NoPackages
    <2>5. [type |-> "Finalized", vk |-> vk] \in ServerMsg
        BY <1>3, ServerMsgFacts
    <2>6. \A p \in Participants : [type |-> "Finalized", vk |-> vk] \in FromCoordinator(p)'
        BY <2>1, <2>5 DEF FromCoordinator
    <2>7. /\ msgs \in [Participants -> Seq(ServerMsg)]
          /\ \A p \in Participants : msgs[p] \in Seq(FromCoordinator(p)')
        BY <2>5, <2>6, FewMessages DEF ToAll
    <2>8. MessagesTrue'
        BY <1>7, <2>1, <2>7, HandlerMessages DEF HandleFinalizeSubmit
    <2>. QED BY <1>1, <1>8, <2>3, <2>4, <2>8, ClientsUnchanged DEF IInv
<1>10. CASE ~AllOf(finalized_uids \cup {c[1]})
    <2>1. /\ agreed_vk' = vk
          /\ finalized_uids' = finalized_uids \cup {c[1]}
          /\ UNCHANGED <<session, completed_vk, r2_inbox, toClient>>
        BY <1>3, <1>10 DEF HandleFinalizeSubmit
    <2>2. AgreedKeyDerived'
        BY <1>1, <1>4, <1>6, <2>1 DEF AgreedKeyDerived
    <2>3. InboxesDealt' /\ CompletedKey' /\ CompletedKeyDerivedByAll'
        BY <1>1, <1>5, <2>1 DEF IInv, InboxesDealt, Dealt, CompletedKey, CompletedKeyDerivedByAll
    <2>4. MessagesTrue'
        BY <1>7, <2>1, HandlerMessages DEF HandleFinalizeSubmit
    <2>. QED BY <1>1, <1>8, <2>2, <2>3, <2>4, ClientsUnchanged DEF IInv
<1>. QED BY <1>9, <1>10

LEMMA ServerStepIInv ==
    ASSUME IInv, TypeOK', NEW c \in Conns, ServerStep(c)
    PROVE  IInv'
<1>1. CASE HandleLogin(c) /\ UNCHANGED clientVars
    <2>1. Stable
        BY <1>1 DEF HandleLogin, Register, Stable, clientVars
    <2>2. MessagesTrue'
        BY <1>1, <2>1, HandlerMessages, ReplyMessages DEF HandleLogin, Register
    <2>. QED BY <1>1, <2>2, OutcomeUnchanged DEF HandleLogin, Register, sessionVars
<1>2. CASE HandleAnnounce(c) /\ UNCHANGED clientVars
    <2>1. UNCHANGED <<started, phase, dealt, derived, share, completed_vk, r2_inbox,
                      finalized_uids, agreed_vk>>
        BY <1>2 DEF HandleAnnounce, Reads, clientVars, sessionVars
    <2>2. session = "none" /\ session' = "open"
        BY <1>2 DEF HandleAnnounce
    <2>3. Stable
        BY <2>1, <2>2 DEF Stable
    <2>4. MessagesTrue'
        BY <1>2, <2>3, HandlerMessages, ReplyMessages DEF HandleAnnounce
    <2>5. InboxesDealt' /\ AgreedKeyDerived' /\ CompletedKey' /\ CompletedKeyDerivedByAll'
        BY <2>1, <2>2 DEF IInv, InboxesDealt, Dealt, AgreedKeyDerived, CompletedKey,
                          CompletedKeyDerivedByAll
    <2>6. ArtifactsNameCompletedKey'
        BY <2>1, <2>2 DEF IInv, ArtifactsNameCompletedKey, HasShare
    <2>. QED BY <1>2, <2>1, <2>4, <2>5, <2>6, ClientsUnchanged DEF IInv
<1>3. CASE HandleJoin(c) /\ UNCHANGED clientVars
    <2>1. Stable
        BY <1>3 DEF HandleJoin, Stable, clientVars
    <2>. DEFINE msgs == ToAll(<<[type |-> "ReadyRound1"]>>)
    <2>2. /\ msgs \in [Participants -> Seq(ServerMsg)]
          /\ \A p \in Participants : msgs[p] \in Seq(FromCoordinator(p)')
        BY PlainMessages, ServerMsgFacts, FewMessages DEF ToAll
    <2>3. MessagesTrue'
        BY <1>3, <2>1, <2>2, HandlerMessages DEF HandleJoin, Broadcast
    <2>. QED BY <1>3, <2>3, OutcomeUnchanged DEF HandleJoin
<1>4. CASE HandleRound1Submit(c) /\ UNCHANGED clientVars
    BY <1>4, Round1Step
<1>5. CASE HandleRound2Submit(c) /\ UNCHANGED clientVars
    BY <1>5, Round2Step
<1>6. CASE HandleFinalizeSubmit(c) /\ UNCHANGED clientVars
    BY <1>6, FinalizeStep
<1>7. CASE Refuse(c) /\ UNCHANGED clientVars
    <2>1. PICK type : Reads(c, type)
        BY <1>7 DEF Refuse
    <2>2. Stable
        BY <1>7 DEF Refuse, Stable, clientVars, serverVars
    <2>3. MessagesTrue'
        BY <1>7, <2>1, <2>2, HandlerMessages DEF Refuse
    <2>. QED BY <1>7, <2>1, <2>3, OutcomeUnchanged DEF Refuse, serverVars, sessionVars
<1>8. CASE HandleLogout(c) /\ UNCHANGED clientVars
    <2>1. Stable
        BY <1>8 DEF HandleLogout, Unregister, Stable, clientVars
    <2>2. MessagesTrue'
        BY <1>8, <2>1, HandlerMessages DEF HandleLogout, Unregister
    <2>. QED BY <1>8, <2>2, OutcomeUnchanged DEF HandleLogout, Unregister, sessionVars
<1>9. CASE HandleDisconnect(c) /\ UNCHANGED clientVars
    <2>1. Stable
        BY <1>9 DEF HandleDisconnect, Unregister, Stable, clientVars
    <2>2. MessagesTrue'
        BY <1>9, <2>1, HandlerMessages DEF HandleDisconnect, Unregister
    <2>. QED BY <1>9, <2>2, OutcomeUnchanged DEF HandleDisconnect, Unregister
<1>. QED
    BY <1>1, <1>2, <1>3, <1>4, <1>5, <1>6, <1>7, <1>8, <1>9 DEF ServerStep

\* A session that expires is removed with everything the rounds had gathered.
LEMMA ExpireStep ==
    ASSUME IInv, TypeOK', Expire, UNCHANGED clientVars
    PROVE  IInv'
<1>. DEFINE msgs == ToAll(<<[type |-> "Close"]>>)
<1>1. UNCHANGED <<started, phase, toServer, dealt, derived, share, completed_vk>>
    BY DEF Expire, clientVars
<1>2. session = "open" /\ session' = "expired"
    BY DEF Expire
<1>3. Stable
    BY <1>1, <1>2 DEF Stable
<1>4. MessagesTrue'
    <2>1. /\ msgs \in [Participants -> Seq(ServerMsg)]
          /\ \A p \in Participants : msgs[p] \in Seq(FromCoordinator(p)')
        BY PlainMessages, ServerMsgFacts, FewMessages DEF ToAll
    <2>2. /\ \A d \in Conns : toServer[d] \in Seq(FromClient(d)')
          /\ \A p \in Participants : toClient[p] \in Seq(FromCoordinator(p)')
        BY <1>3, StableMessages DEF IInv, MessagesTrue
    <2>3. \A p \in Participants : toClient'[p] \in Seq(FromCoordinator(p)')
        BY <2>1, <2>2, SentFacts DEF Expire, Broadcast, IInv, TypeOK
    <2>. QED BY <1>1, <2>2, <2>3 DEF MessagesTrue
<1>5. InboxesDealt' /\ AgreedKeyDerived'
    BY DEF Expire, RemoveSession, InboxesDealt, Dealt, AgreedKeyDerived, NoPackages
<1>6. CompletedKey' /\ CompletedKeyDerivedByAll' /\ ArtifactsNameCompletedKey'
    BY <1>1, <1>2 DEF IInv, CompletedKey, CompletedKeyDerivedByAll, ArtifactsNameCompletedKey,
                      HasShare
<1>. QED BY <1>1, <1>4, <1>5, <1>6, ClientsUnchanged DEF IInv

\* A step of a client that only adds to what was dealt and derived leaves what
\* the coordinator holds true.
LEMMA CoordinatorUnchanged ==
    ASSUME IInv, UNCHANGED serverVars,
           \A p \in Participants : dealt[p] \subseteq dealt'[p] /\ derived[p] \subseteq derived'[p]
    PROVE  Stable /\ InboxesDealt' /\ AgreedKeyDerived' /\ CompletedKey' /\ CompletedKeyDerivedByAll'
<1>1. UNCHANGED <<session, completed_vk, r2_inbox, finalized_uids, agreed_vk>>
    BY DEF serverVars, sessionVars
<1>2. Stable /\ CompletedKey' /\ CompletedKeyDerivedByAll'
    BY <1>1 DEF IInv, Stable, CompletedKey, CompletedKeyDerivedByAll
<1>3. InboxesDealt'
    BY <1>1 DEF IInv, InboxesDealt, Dealt
<1>4. finalized_uids \subseteq Participants
    BY DEF IInv, TypeOK, ServerTypeOK
<1>5. AgreedKeyDerived'
    BY <1>1, <1>4 DEF IInv, AgreedKeyDerived
<1>. QED BY <1>2, <1>3, <1>5

\* A client that keeps running has not written its artifacts in this step.
LEMMA RunningSharesUnchanged ==
    ASSUME IInv, UNCHANGED serverVars, UNCHANGED <<started, phase, share>>
    PROVE  ArtifactsNameCompletedKey' /\ ShareEndsClient'
BY DEF IInv, serverVars, ArtifactsNameCompletedKey, ShareEndsClient, HasShare

\* A step that deals and derives nothing.
LEMMA SecretsUnchanged ==
    ASSUME IInv, UNCHANGED <<dealt, derived>>,
           \A p \in Participants : r2_secret'[p] = r2_secret[p] \/ r2_secret'[p] = 0
    PROVE  SecretsDealt' /\ DerivedKeysFullyDealt'
BY DEF IInv, SecretsDealt, DerivedKeysFullyDealt

\* Answering without dealing or deriving.
LEMMA AnswerStep ==
    ASSUME IInv, TypeOK', UNCHANGED serverVars, NEW p \in Participants, NEW type,
           Receives(p, type), UNCHANGED <<dealt, derived, r2_secret, share>>,
           NEW msgs \in Seq(ClientMsg), Sends(p, msgs), msgs \in Seq(FromClient(Conn(p)))
    PROVE  IInv'
<1>1. UNCHANGED <<started, phase>>
    BY DEF Sends
<1>2. Conn(p) \in Conns
    BY ReceivesFacts DEF IInv, TypeOK
<1>3. Stable /\ InboxesDealt' /\ AgreedKeyDerived' /\ CompletedKey' /\ CompletedKeyDerivedByAll'
    BY CoordinatorUnchanged
<1>4. MessagesTrue'
    <2>1. PICK c \in Conns : c = Conn(p)
        BY <1>2
    <2>2. msgs \in Seq(FromClient(c)')
        BY <1>3, <2>1, StableMessages
    <2>. QED BY <1>3, <2>1, <2>2, SendsMessages
<1>. QED BY <1>1, <1>3, <1>4, RunningSharesUnchanged, SecretsUnchanged DEF IInv

\* Round 2: the secret whose values go out is dealt from now on.
LEMMA DealStep ==
    ASSUME IInv, TypeOK', UNCHANGED serverVars, NEW p \in Participants, OnReadyRound2(p)
    PROVE  IInv'
<1>1. UNCHANGED <<started, phase, derived, share>>
    BY DEF OnReadyRound2, Sends
<1>2. r1_secret[p] \in Nat /\ r1_secret[p] # 0
    BY DEF OnReadyRound2, Round2Possible, IInv, TypeOK, ClientTypeOK
<1>3. /\ dealt' = [dealt EXCEPT ![p] = dealt[p] \cup {r1_secret[p]}]
      /\ r2_secret' = [r2_secret EXCEPT ![p] = r1_secret[p]]
      /\ Sends(p, <<[type |-> "Round2Submit", gen |-> r1_secret[p]]>>)
      /\ Receives(p, "ReadyRound2")
    BY DEF OnReadyRound2
<1>4. \A q \in Participants :
        /\ dealt'[q] = IF q = p THEN dealt[p] \cup {r1_secret[p]} ELSE dealt[q]
        /\ r2_secret'[q] = IF q = p THEN r1_secret[p] ELSE r2_secret[q]
    BY <1>3 DEF IInv, TypeOK, ClientTypeOK
<1>5. Stable /\ InboxesDealt' /\ AgreedKeyDerived' /\ CompletedKey' /\ CompletedKeyDerivedByAll'
    BY <1>1, <1>4, CoordinatorUnchanged
<1>6. SecretsDealt' /\ DerivedKeysFullyDealt'
    BY <1>1, <1>4 DEF IInv, SecretsDealt, DerivedKeysFullyDealt
<1>7. MessagesTrue'
    <2>. DEFINE m == [type |-> "Round2Submit", gen |-> r1_secret[p]]
    <2>1. PICK c \in Conns : c = Conn(p)
        BY <1>3, ReceivesFacts DEF IInv, TypeOK
    <2>2. m \in ClientMsg
        BY <1>2, ClientMsgFacts
    <2>3. c[1] = p
        BY <2>1 DEF Conn
    <2>4. m \in FromClient(c)'
        BY <1>4, <2>2, <2>3 DEF FromClient
    <2>5. <<m>> \in Seq(ClientMsg) /\ <<m>> \in Seq(FromClient(c)')
        BY <2>2, <2>4, FewMessages
    <2>. QED BY <1>3, <1>5, <2>1, <2>5, SendsMessages
<1>. QED BY <1>1, <1>5, <1>6, <1>7, RunningSharesUnchanged DEF IInv

\* Round 3: the key is derived from commitments whose polynomials were dealt.
LEMMA DeriveStep ==
    ASSUME IInv, TypeOK', UNCHANGED serverVars, NEW p \in Participants, OnRound2All(p)
    PROVE  IInv'
<1>. DEFINE vk == Part3Key(p, r2_secret[p], r1_cache[p])
            pkgs == Head(toClient[p]).pkgs
<1>1. UNCHANGED <<started, phase, dealt, share>>
    BY DEF OnRound2All, Sends
<1>2. /\ derived' = [derived EXCEPT ![p] = derived[p] \cup {vk}]
      /\ r2_secret' = [r2_secret EXCEPT ![p] = 0]
      /\ Sends(p, <<[type |-> "FinalizeSubmit", vk |-> vk]>>)
      /\ Receives(p, "Round2All")
      /\ r2_secret[p] # 0
      /\ Part3Accepts(p, r1_cache[p], pkgs)
    BY DEF OnRound2All, Round3Possible
<1>3. \A q \in Participants :
        /\ derived'[q] = IF q = p THEN derived[p] \cup {vk} ELSE derived[q]
        /\ r2_secret'[q] = IF q = p THEN 0 ELSE r2_secret[q]
    BY <1>2 DEF IInv, TypeOK, ClientTypeOK
<1>4. vk \in Key
    BY <1>2, PackagesFacts DEF Part3Key, IInv, TypeOK, ClientTypeOK
<1>5. \A q \in Participants : vk[q] \in dealt[q]
    <2>1. Head(toClient[p]) \in FromCoordinator(p) /\ Head(toClient[p]).type = "Round2All"
        BY <1>2, ReceivesFacts DEF IInv, TypeOK, MessagesTrue
    <2>2. Dealt(pkgs)
        BY <2>1 DEF FromCoordinator
    <2>3. \A q \in Participants \ {p} : r1_cache[p][q] \in dealt[q]
        BY <1>2, <2>2 DEF Part3Accepts, Dealt
    <2>4. r2_secret[p] \in dealt[p]
        BY <1>2 DEF IInv, SecretsDealt
    <2>. QED BY <2>3, <2>4 DEF Part3Key, IInv, TypeOK, ClientTypeOK, Packages
<1>6. Stable /\ InboxesDealt' /\ AgreedKeyDerived' /\ CompletedKey' /\ CompletedKeyDerivedByAll'
    BY <1>1, <1>3, CoordinatorUnchanged
<1>7. SecretsDealt' /\ DerivedKeysFullyDealt'
    BY <1>1, <1>3, <1>5 DEF IInv, SecretsDealt, DerivedKeysFullyDealt
<1>8. MessagesTrue'
    <2>. DEFINE m == [type |-> "FinalizeSubmit", vk |-> vk]
    <2>1. PICK c \in Conns : c = Conn(p)
        BY <1>2, ReceivesFacts DEF IInv, TypeOK
    <2>2. m \in ClientMsg
        BY <1>4, ClientMsgFacts
    <2>3. c[1] = p
        BY <2>1 DEF Conn
    <2>4. m \in FromClient(c)'
        BY <1>3, <2>2, <2>3 DEF FromClient
    <2>5. <<m>> \in Seq(ClientMsg) /\ <<m>> \in Seq(FromClient(c)')
        BY <2>2, <2>4, FewMessages
    <2>. QED BY <1>2, <1>6, <2>1, <2>5, SendsMessages
<1>. QED BY <1>1, <1>6, <1>7, <1>8, RunningSharesUnchanged DEF IInv

\* The end of a client, for whatever reason, with or without artifacts.
LEMMA EndStep ==
    ASSUME IInv, TypeOK', UNCHANGED serverVars, NEW p \in Participants, phase[p] = "running",
           NEW how \in Phase \ {"running"}, NEW msgs \in Seq(ClientMsg), Exits(p, how, msgs),
           msgs \in Seq(FromClient(Conn(p))), UNCHANGED <<dealt, derived>>,
           \/ UNCHANGED share /\ how # "finished"
           \/ /\ how = "finished"
              /\ session = "completed"
              /\ \E s \in Share : s.group_vk = completed_vk /\ share' = [share EXCEPT ![p] = s]
    PROVE  IInv'
<1>1. Stable /\ InboxesDealt' /\ AgreedKeyDerived' /\ CompletedKey' /\ CompletedKeyDerivedByAll'
    BY CoordinatorUnchanged
<1>2. MessagesTrue'
    BY <1>1, UnreadFacts, ExitsMessages DEF IInv, TypeOK
<1>3. SecretsDealt' /\ DerivedKeysFullyDealt'
    BY SecretsUnchanged DEF Exits, Ends, IInv, TypeOK, ClientTypeOK
<1>4. UNCHANGED <<session, completed_vk, started>> /\ phase' = [phase EXCEPT ![p] = how]
    BY DEF serverVars, Exits, Ends
<1>5. started[p] # 0
    BY DEF IInv, TypeOK, NetTypeOK
<1>6. ~HasShare(p)
    BY DEF IInv, ShareEndsClient
<1>7. ArtifactsNameCompletedKey' /\ ShareEndsClient'
    BY <1>4, <1>5, <1>6 DEF IInv, TypeOK, NetTypeOK, ClientTypeOK, ArtifactsNameCompletedKey,
                            ShareEndsClient, HasShare
<1>. QED BY <1>1, <1>2, <1>3, <1>7 DEF IInv

LEMMA ClientStepIInv ==
    ASSUME IInv, TypeOK', NEW p \in Participants, ClientStep(p)
    PROVE  IInv'
<1>1. CASE OnLoginOk(p) /\ UNCHANGED serverVars
    <2>1. PICK t \in {"JoinDKGSession", "AnnounceDKGSession"} : Sends(p, <<[type |-> t]>>)
        BY <1>1 DEF OnLoginOk
    <2>2. [type |-> t] \in ClientMsg /\ [type |-> t] \in FromClient(Conn(p))
        BY ClientMsgFacts DEF FromClient
    <2>. QED BY <1>1, <2>1, <2>2, FewMessages, AnswerStep DEF OnLoginOk, clientVars, memoryVars
<1>2. CASE OnSessionCreated(p) /\ UNCHANGED serverVars
    <2>1. [type |-> "JoinDKGSession"] \in ClientMsg
          /\ [type |-> "JoinDKGSession"] \in FromClient(Conn(p))
        BY ClientMsgFacts DEF FromClient
    <2>. QED BY <1>2, <2>1, FewMessages, AnswerStep DEF OnSessionCreated, memoryVars
<1>3. CASE OnReadyRound1(p) /\ UNCHANGED serverVars
    <2>. DEFINE m == [type |-> "Round1Submit", gen |-> gen[p] + 1]
    <2>1. gen[p] + 1 \in Nat /\ gen[p] + 1 # 0
        BY DEF IInv, TypeOK, ClientTypeOK
    <2>2. m \in ClientMsg /\ m \in FromClient(Conn(p))
        BY <2>1, ClientMsgFacts DEF FromClient
    <2>. QED BY <1>3, <2>2, FewMessages, AnswerStep DEF OnReadyRound1
<1>4. CASE OnRound1All(p) /\ UNCHANGED serverVars
    BY <1>4, EmptySeq, AnswerStep DEF OnRound1All
<1>5. CASE OnReadyRound2(p) /\ UNCHANGED serverVars
    BY <1>5, DealStep
<1>6. CASE OnRound2All(p) /\ UNCHANGED serverVars
    BY <1>6, DeriveStep
<1>7. CASE OnFinalized(p) /\ UNCHANGED serverVars
    <2>1. phase[p] = "running"
        BY <1>7 DEF OnFinalized, Receives
    <2>2. Conn(p) \in Conns
        BY <2>1, UnreadFacts DEF IInv, TypeOK
    <2>3. [type |-> "Logout"] \in ClientMsg /\ [type |-> "Logout"] \in FromClient(Conn(p))
        BY ClientMsgFacts DEF FromClient
    <2>4. /\ Append(Unread(p), [type |-> "Logout"]) \in Seq(ClientMsg)
          /\ Append(Unread(p), [type |-> "Logout"]) \in Seq(FromClient(Conn(p)))
        BY <2>1, <2>2, <2>3, UnreadFacts DEF IInv, TypeOK, NetTypeOK, MessagesTrue
    <2>5. Head(toClient[p]) \in FromCoordinator(p) /\ Head(toClient[p]).type = "Finalized"
        BY <1>7, ReceivesFacts DEF OnFinalized, IInv, TypeOK, MessagesTrue
    <2>6. session = "completed" /\ Head(toClient[p]).vk = completed_vk
        BY <2>5 DEF FromCoordinator
    <2>7. Artifacts(p, Head(toClient[p]).vk) \in Share
        BY <2>6 DEF Artifacts, Share, IInv, TypeOK, ServerTypeOK, ClientTypeOK
    <2>8. Artifacts(p, Head(toClient[p]).vk).group_vk = completed_vk
        BY <2>6 DEF Artifacts
    <2>. QED BY <1>7, <2>1, <2>4, <2>6, <2>7, <2>8, EndStep DEF OnFinalized, Phase
<1>8. CASE Abort(p) /\ UNCHANGED serverVars
    <2>1. phase[p] = "running"
        BY <1>8 DEF Abort, Receives
    <2>2. Unread(p) \in Seq(ClientMsg) /\ Unread(p) \in Seq(FromClient(Conn(p)))
        BY <2>1, UnreadFacts DEF IInv, TypeOK, NetTypeOK, MessagesTrue
    <2>. QED BY <1>8, <2>1, <2>2, EndStep DEF Abort, Phase
<1>9. CASE OnClose(p) /\ UNCHANGED serverVars
    <2>1. phase[p] = "running"
        BY <1>9 DEF OnClose, Receives
    <2>2. Unread(p) \in Seq(ClientMsg) /\ Unread(p) \in Seq(FromClient(Conn(p)))
        BY <2>1, UnreadFacts DEF IInv, TypeOK, NetTypeOK, MessagesTrue
    <2>. QED BY <1>9, <2>1, <2>2, EndStep DEF OnClose, Phase
<1>. QED
    BY <1>1, <1>2, <1>3, <1>4, <1>5, <1>6, <1>7, <1>8, <1>9 DEF ClientStep

LEMMA StepIInv == IInv /\ [Next]_vars => IInv'
<1>. SUFFICES ASSUME IInv, [Next]_vars PROVE IInv'
    OBVIOUS
<1>1. TypeOK'
    BY StepTypeOK DEF IInv
<1>2. ASSUME NEW p \in Participants, Start(p), UNCHANGED serverVars
      PROVE  IInv'
    <2>1. UNCHANGED <<toClient, dealt, derived, share, r2_secret>>
        BY <1>2 DEF Start, Starts, clientVars, memoryVars
    <2>2. Stable /\ InboxesDealt' /\ AgreedKeyDerived' /\ CompletedKey' /\ CompletedKeyDerivedByAll'
        BY <1>2, <2>1, CoordinatorUnchanged
    <2>3. SecretsDealt' /\ DerivedKeysFullyDealt'
        BY <2>1, SecretsUnchanged
    <2>4. /\ ~HasShare(p)
          /\ started' = [started EXCEPT ![p] = started[p] + 1]
          /\ phase' = [phase EXCEPT ![p] = "running"]
          /\ started[p] \in Nat
        BY <1>2, MaxStartsAssumption DEF Start, Starts, IInv, TypeOK, NetTypeOK, ShareEndsClient
    <2>5. ArtifactsNameCompletedKey' /\ ShareEndsClient'
        BY <1>2, <2>1, <2>4 DEF IInv, TypeOK, NetTypeOK, ArtifactsNameCompletedKey,
                                ShareEndsClient, HasShare, serverVars
    <2>6. MessagesTrue'
        <3>1. \A d \in Conns : <<[type |-> "Login"]>> \in Seq(FromClient(d)')
            BY ClientMsgFacts, FewMessages DEF FromClient
        <3>2. /\ \A d \in Conns : toServer[d] \in Seq(FromClient(d)')
              /\ \A q \in Participants : toClient[q] \in Seq(FromCoordinator(q)')
            BY <2>2, StableMessages DEF IInv, MessagesTrue
        <3>3. \A d \in Conns : toServer'[d] = <<[type |-> "Login"]>> \/ toServer'[d] = toServer[d]
            BY <1>2 DEF Start, Starts, IInv, TypeOK, NetTypeOK
        <3>4. \A d \in Conns : toServer'[d] \in Seq(FromClient(d)')
            BY <3>1, <3>2, <3>3
        <3>. QED BY <2>1, <3>2, <3>4 DEF MessagesTrue
    <2>. QED BY <1>1, <2>2, <2>3, <2>5, <2>6 DEF IInv
<1>3. ASSUME NEW p \in Participants, Crash(p), UNCHANGED serverVars
      PROVE  IInv'
    <2>1. PICK n \in 0..Len(Unread(p)) : Exits(p, "crashed", SubSeq(Unread(p), 1, n))
        BY <1>3 DEF Crash
    <2>2. /\ SubSeq(Unread(p), 1, n) \in Seq(ClientMsg)
          /\ SubSeq(Unread(p), 1, n) \in Seq(FromClient(Conn(p)))
        BY <1>3, UnreadFacts DEF Crash, IInv, TypeOK, NetTypeOK, MessagesTrue
    <2>. QED BY <1>1, <1>3, <2>1, <2>2, EndStep DEF Crash, Phase
<1>4. CASE UNCHANGED vars
    <2>1. UNCHANGED <<netVars, serverVars, clientVars>>
        BY <1>4 DEF vars
    <2>2. Stable /\ InboxesDealt' /\ AgreedKeyDerived' /\ CompletedKey' /\ CompletedKeyDerivedByAll'
        BY <2>1, CoordinatorUnchanged DEF clientVars
    <2>3. SecretsDealt' /\ DerivedKeysFullyDealt' /\ ArtifactsNameCompletedKey' /\ ShareEndsClient'
        BY <2>1, SecretsUnchanged, RunningSharesUnchanged DEF netVars, clientVars, memoryVars
    <2>4. MessagesTrue'
        BY <2>1, <2>2, StableMessages DEF IInv, MessagesTrue, netVars
    <2>. QED BY <1>1, <2>2, <2>3, <2>4 DEF IInv
<1>5. CASE Expire /\ UNCHANGED clientVars
    BY <1>1, <1>5, ExpireStep
<1>6. ASSUME NEW c \in Conns, ServerStep(c) PROVE IInv'
    BY <1>1, <1>6, ServerStepIInv
<1>7. ASSUME NEW p \in Participants, ClientStep(p) PROVE IInv'
    BY <1>1, <1>7, ClientStepIInv
<1>. QED BY <1>2, <1>3, <1>4, <1>5, <1>6, <1>7 DEF Next

THEOREM Invariance == Spec => []IInv
BY InitIInv, StepIInv, PTL DEF Spec

-----------------------------------------------------------------------------
\* Whatever clients are restarted and whatever the coordinator then repeats, a
\* session completes only for a group key that every participant's client derived.
THEOREM CompletedKeyIsDerived == Spec => []CompletedKeyDerivedByAll
<1>1. IInv => CompletedKeyDerivedByAll
    BY DEF IInv
<1>. QED BY <1>1, Invariance, PTL

\* Artifacts exist only for a completed session, and name its group key.
THEOREM ArtifactsNameIt == Spec => []ArtifactsNameCompletedKey
<1>1. IInv => ArtifactsNameCompletedKey
    BY DEF IInv
<1>. QED BY <1>1, Invariance, PTL

\* A generation that its owner never dealt in round 2 is in nobody's group key.
THEOREM KeysAreDealt == Spec => []DerivedKeysFullyDealt
<1>1. IInv => DerivedKeysFullyDealt
    BY DEF IInv
<1>. QED BY <1>1, Invariance, PTL

\* The coordinator never announces a round for which packages are missing.
THEOREM RoundsAreComplete == Spec => []RoundsComplete
<1>1. IInv => RoundsComplete
    <2>1. SUFFICES ASSUME IInv, NEW p \in Participants, NEW i \in 1..Len(toClient[p])
                   PROVE  /\ toClient[p][i].type = "Round1All" =>
                                Present(toClient[p][i].pkgs) = Participants
                          /\ toClient[p][i].type = "Round2All" =>
                                Present(toClient[p][i].pkgs) = Participants \ {p}
        BY DEF RoundsComplete
    <2>2. toClient[p] \in Seq(FromCoordinator(p))
        BY <2>1 DEF IInv, MessagesTrue
    <2>3. toClient[p][i] \in FromCoordinator(p)
        BY <2>1, <2>2, ElementOfSeq
    <2>. QED BY <2>3 DEF FromCoordinator
<1>. QED BY <1>1, Invariance, PTL

-----------------------------------------------------------------------------
(***************************************************************************)
(* A DKG session implements DkgOutcome: under the refinement mapping of    *)
(* DkgCeremony every step is a step of the abstract specification or       *)
(* leaves the outcome alone.                                               *)
(***************************************************************************)

LEMMA StatusFacts ==
    /\ session = "completed" => status = "decided"
    /\ session = "expired" => status = "expired"
    /\ session \in {"none", "open"} => status = "undecided"
BY DEF status

\* Nothing the outcome is made of changes.
LEMMA OutcomeStutters ==
    ASSUME UNCHANGED <<derived, share, completed_vk>>,
           \/ UNCHANGED session
           \/ session = "none" /\ session' = "open"
    PROVE  UNCHANGED Outcome!vars
<1>1. status' = status
    BY DEF status
<1>2. named' = named
    BY DEF named
<1>. QED BY <1>1, <1>2 DEF Outcome!vars

LEMMA InitOutcome == Init => Outcome!Init
<1>. SUFFICES ASSUME Init PROVE Outcome!Init
    OBVIOUS
<1>1. derived = [p \in Participants |-> {}] /\ session = "none" /\ completed_vk = NoKey
    BY DEF Init, ServerInit, RegistryInit, ClientInit
<1>2. named = [p \in Participants |-> NoKey]
    BY DEF Init, ClientInit, NoShare, named
<1>. QED BY <1>1, <1>2, StatusFacts DEF Outcome!Init

\* The last FinalizeSubmit decides; an earlier one changes nothing of the outcome.
LEMMA FinalizeOutcome ==
    ASSUME IInv, IInv', NEW c \in Conns, HandleFinalizeSubmit(c), UNCHANGED clientVars
    PROVE  Outcome!Decide \/ UNCHANGED Outcome!vars
<1>1. UNCHANGED <<derived, share>> /\ named' = named
    BY DEF clientVars, named
<1>2. session = "open"
    BY DEF HandleFinalizeSubmit, Admitted
<1>3. CASE session' = "completed"
    <2>1. status = "undecided" /\ status' = "decided"
        BY <1>2, <1>3 DEF status
    <2>2. completed_vk' # NoKey /\ \A p \in Participants : completed_vk' \in derived[p]
        BY <1>1, <1>3 DEF IInv, CompletedKey, CompletedKeyDerivedByAll
    <2>. QED BY <1>1, <2>1, <2>2 DEF Outcome!Decide
<1>4. CASE session' # "completed"
    <2>1. UNCHANGED <<session, completed_vk>>
        BY <1>4 DEF HandleFinalizeSubmit
    <2>. QED BY <1>1, <2>1, OutcomeStutters
<1>. QED BY <1>3, <1>4

LEMMA ServerStepOutcome ==
    ASSUME IInv, IInv', NEW c \in Conns, ServerStep(c)
    PROVE  Outcome!Decide \/ UNCHANGED Outcome!vars
<1>1. CASE HandleFinalizeSubmit(c) /\ UNCHANGED clientVars
    BY <1>1, FinalizeOutcome
<1>2. CASE HandleAnnounce(c) /\ UNCHANGED clientVars
    BY <1>2, OutcomeStutters DEF HandleAnnounce, clientVars
<1>3. CASE \/ HandleLogin(c) /\ UNCHANGED clientVars
           \/ HandleJoin(c) /\ UNCHANGED clientVars
           \/ HandleRound1Submit(c) /\ UNCHANGED clientVars
           \/ HandleRound2Submit(c) /\ UNCHANGED clientVars
           \/ Refuse(c) /\ UNCHANGED clientVars
           \/ HandleLogout(c) /\ UNCHANGED clientVars
           \/ HandleDisconnect(c) /\ UNCHANGED clientVars
    <2>1. UNCHANGED <<session, completed_vk>> /\ UNCHANGED clientVars
        BY <1>3 DEF HandleLogin, Register, HandleJoin, HandleRound1Submit, HandleRound2Submit, Refuse,
                    HandleLogout, HandleDisconnect, serverVars
    <2>. QED BY <2>1, OutcomeStutters DEF clientVars
<1>. QED BY <1>1, <1>2, <1>3 DEF ServerStep

LEMMA ExpireOutcome ==
    ASSUME Expire, UNCHANGED clientVars
    PROVE  Outcome!Expire
<1>1. status = "undecided" /\ status' = "expired"
    BY DEF Expire, status
<1>2. UNCHANGED <<derived, completed_vk>> /\ named' = named
    BY DEF Expire, clientVars, named
<1>. QED BY <1>1, <1>2 DEF Outcome!Expire

\* part3 derives a key.
LEMMA DeriveOutcome ==
    ASSUME IInv, NEW p \in Participants, OnRound2All(p), UNCHANGED serverVars
    PROVE  Outcome!Derive(p)
<1>. DEFINE vk == Part3Key(p, r2_secret[p], r1_cache[p])
<1>1. vk # NoKey
    BY PackagesFacts DEF OnRound2All, Round3Possible, Part3Key, IInv, TypeOK, ClientTypeOK, Key
<1>2. derived' = [derived EXCEPT ![p] = derived[p] \cup {vk}]
    BY DEF OnRound2All
<1>3. vk \in derived'[p]
    BY <1>2 DEF IInv, TypeOK, ClientTypeOK
<1>4. status' = status /\ named' = named /\ UNCHANGED completed_vk
    BY DEF OnRound2All, serverVars, status, named
<1>. QED BY <1>1, <1>2, <1>3, <1>4 DEF Outcome!Derive

\* Finalized makes a client write its artifacts, once.
LEMMA WriteOutcome ==
    ASSUME IInv, NEW p \in Participants, OnFinalized(p), UNCHANGED serverVars
    PROVE  Outcome!Write(p)
<1>1. Head(toClient[p]) \in FromCoordinator(p) /\ Head(toClient[p]).type = "Finalized"
    BY ReceivesFacts DEF OnFinalized, IInv, TypeOK, MessagesTrue
<1>2. session = "completed" /\ Head(toClient[p]).vk = completed_vk
    BY <1>1 DEF FromCoordinator
<1>3. named[p] = NoKey
    <2>1. share[p] = NoShare
        BY DEF OnFinalized, Receives, IInv, ShareEndsClient, HasShare
    <2>. QED BY <2>1 DEF named, NoShare
<1>4. named' = [named EXCEPT ![p] = completed_vk]
    <2>1. share' = [share EXCEPT ![p] = Artifacts(p, completed_vk)]
        BY <1>2 DEF OnFinalized
    <2>2. \A q \in Participants :
            share'[q].group_vk = IF q = p THEN completed_vk ELSE share[q].group_vk
        BY <2>1 DEF Artifacts, IInv, TypeOK, ClientTypeOK
    <2>. QED BY <2>2 DEF named
<1>5. status = "decided" /\ status' = status /\ UNCHANGED <<derived, completed_vk>>
    BY <1>2 DEF OnFinalized, serverVars, status
<1>. QED BY <1>3, <1>4, <1>5 DEF Outcome!Write

LEMMA StepOutcome == IInv /\ IInv' /\ [Next]_vars => [Outcome!Next]_(Outcome!vars)
<1>. SUFFICES ASSUME IInv, IInv', [Next]_vars PROVE [Outcome!Next]_(Outcome!vars)
    OBVIOUS
<1>1. ASSUME NEW p \in Participants, ClientStep(p)
      PROVE  Outcome!Derive(p) \/ Outcome!Write(p) \/ UNCHANGED Outcome!vars
    <2>1. CASE OnRound2All(p) /\ UNCHANGED serverVars
        BY <2>1, DeriveOutcome
    <2>2. CASE OnFinalized(p) /\ UNCHANGED serverVars
        BY <2>2, WriteOutcome
    <2>3. CASE \/ OnLoginOk(p) /\ UNCHANGED serverVars
               \/ OnSessionCreated(p) /\ UNCHANGED serverVars
               \/ OnReadyRound1(p) /\ UNCHANGED serverVars
               \/ OnRound1All(p) /\ UNCHANGED serverVars
               \/ OnReadyRound2(p) /\ UNCHANGED serverVars
               \/ Abort(p) /\ UNCHANGED serverVars
               \/ OnClose(p) /\ UNCHANGED serverVars
        <3>1. UNCHANGED <<derived, share>> /\ UNCHANGED serverVars
            BY <2>3 DEF OnLoginOk, OnSessionCreated, OnReadyRound1, OnRound1All, OnReadyRound2,
                        Abort, OnClose, clientVars
        <3>. QED BY <3>1, OutcomeStutters DEF serverVars
    <2>. QED BY <1>1, <2>1, <2>2, <2>3 DEF ClientStep
<1>2. ASSUME NEW p \in Participants, (Start(p) \/ Crash(p)) /\ UNCHANGED serverVars
      PROVE  UNCHANGED Outcome!vars
    BY <1>2, OutcomeStutters DEF Start, Starts, Crash, clientVars, serverVars
<1>3. CASE UNCHANGED vars
    BY <1>3, OutcomeStutters DEF vars, serverVars, clientVars
<1>4. CASE Expire /\ UNCHANGED clientVars
    BY <1>4, ExpireOutcome DEF Outcome!Next
<1>5. ASSUME NEW c \in Conns, ServerStep(c)
      PROVE  [Outcome!Next]_(Outcome!vars)
    BY <1>5, ServerStepOutcome DEF Outcome!Next
<1>6. ASSUME NEW p \in Participants, ClientStep(p)
      PROVE  [Outcome!Next]_(Outcome!vars)
    BY <1>1, <1>6 DEF Outcome!Next
<1>. QED BY <1>2, <1>3, <1>4, <1>5, <1>6 DEF Next

\* The session is decided at most once, for a key all participants derived, or
\* expires undecided, and each participant's artifacts name the decided key.
THEOREM SessionImplementsOutcome == Spec => ImplementsOutcome
BY InitOutcome, StepOutcome, Invariance, PTL DEF Spec, ImplementsOutcome, Outcome!Spec

-----------------------------------------------------------------------------
(***************************************************************************)
(* While no client is started twice.  Then everything is sent and answered *)
(* once, and each round starts after everybody's part of the one before:   *)
(* a participant enters (Login, Announce, Join) once, draws one            *)
(* polynomial, deals it once and derives one key, and all are everybody's  *)
(* first.  So the files belong together and no client meets a message it   *)
(* cannot act on.                                                          *)
(***************************************************************************)
NobodyRestarted == \A p \in Participants : started[p] <= 1

Ones == [p \in Participants |-> 1]

AskIn == {"Login", "AnnounceDKGSession", "JoinDKGSession"}
TellIn == {"LoginOk", "DKGSessionCreated"}
Ready1 == {"ReadyRound1"}
Submit1 == {"Round1Submit"}
Told2 == {"Round1All", "ReadyRound2"}
Ready2 == {"ReadyRound2"}
Submit2 == {"Round2Submit"}
All2 == {"Round2All"}

\* p's part before round 1, of round 1, of round 2 was sent, and is read or lost.
Entered(p) == started[p] # 0 /\ Unsent(p, AskIn) /\ Free(toClient[p], TellIn)
Submitted1(p) == gen[p] # 0 /\ Unsent(p, Submit1)
Submitted2(p) == dealt[p] # {} /\ Unsent(p, Submit2)

EntersOnce ==
    \A p \in Participants :
        /\ Once(p, AskIn) /\ Single(toClient[p], TellIn)
        /\ Unsent(p, AskIn) \/ Free(toClient[p], TellIn)
        /\ started[p] = 0 => Unsent(p, AskIn) /\ Free(toClient[p], TellIn)
        /\ p \in joined => Entered(p)

DrawsOnce ==
    /\ (\E p \in Participants : ~Entered(p)) =>
          \A p \in Participants : Free(toClient[p], Ready1) /\ gen[p] = 0
    /\ \A p \in Participants :
          /\ Single(toClient[p], Ready1)
          /\ ~Free(toClient[p], Ready1) => gen[p] = 0
          /\ Once(p, Submit1)
          /\ gen[p] = 0 => Unsent(p, Submit1)
          /\ r1_pkgs[p] # 0 => Submitted1(p)

DealsOnce ==
    /\ (\E p \in Participants : ~Submitted1(p)) =>
          \A p \in Participants : Free(toClient[p], Told2) /\ dealt[p] = {}
    /\ \A p \in Participants :
          /\ Single(toClient[p], Ready2)
          /\ ~Free(toClient[p], Ready2) => dealt[p] = {}
          /\ Once(p, Submit2)
          /\ dealt[p] = {} => Unsent(p, Submit2)
          /\ \A q \in Participants : r2_inbox[q][p] # 0 => Submitted2(p)

DerivesOnce ==
    /\ (\E p \in Participants : ~Submitted2(p)) =>
          \A p \in Participants : Free(toClient[p], All2) /\ derived[p] = {}
    /\ \A p \in Participants :
          /\ Single(toClient[p], All2)
          /\ ~Free(toClient[p], All2) => derived[p] = {}

LEMMA EntersKept ==
    ASSUME EntersOnce, NoneSent(AskIn), NoneCame(TellIn), UNCHANGED started, joined' \subseteq joined
    PROVE  EntersOnce' /\ \A p \in Participants : Entered(p) => Entered(p)'
BY NoneSentKeeps DEF EntersOnce, Entered, NoneCame, NoneNew

LEMMA DrawsKept ==
    ASSUME DrawsOnce, \A p \in Participants : Entered(p) => Entered(p)',
           NoneSent(Submit1), NoneCame(Ready1), UNCHANGED gen,
           \A p \in Participants : r1_pkgs'[p] \in {r1_pkgs[p], 0}
    PROVE  DrawsOnce' /\ \A p \in Participants : Submitted1(p) => Submitted1(p)'
<1>1. \A p \in Participants : Submitted1(p) => Submitted1(p)'
    BY NoneSentKeeps DEF Submitted1
<1>2. (\E p \in Participants : ~Entered(p)') =>
          \A p \in Participants : Free(toClient'[p], Ready1) /\ gen'[p] = 0
    BY DEF DrawsOnce, NoneCame, NoneNew
<1>3. \A p \in Participants :
          /\ Single(toClient'[p], Ready1)
          /\ ~Free(toClient'[p], Ready1) => gen'[p] = 0
          /\ Once(p, Submit1)'
          /\ gen'[p] = 0 => Unsent(p, Submit1)'
          /\ r1_pkgs'[p] # 0 => Submitted1(p)'
    BY <1>1, NoneSentKeeps DEF DrawsOnce, NoneCame, NoneNew
<1>. QED BY <1>1, <1>2, <1>3 DEF DrawsOnce

LEMMA DealsKept ==
    ASSUME DealsOnce, \A p \in Participants : Submitted1(p) => Submitted1(p)',
           NoneSent(Submit2), NoneCame(Told2), NoneCame(Ready2), UNCHANGED dealt,
           \A p, q \in Participants : r2_inbox'[q][p] \in {r2_inbox[q][p], 0}
    PROVE  DealsOnce' /\ \A p \in Participants : Submitted2(p) => Submitted2(p)'
<1>1. \A p \in Participants : Submitted2(p) => Submitted2(p)'
    BY NoneSentKeeps DEF Submitted2
<1>2. (\E p \in Participants : ~Submitted1(p)') =>
          \A p \in Participants : Free(toClient'[p], Told2) /\ dealt'[p] = {}
    BY DEF DealsOnce, NoneCame, NoneNew
<1>3. \A p \in Participants :
          /\ Single(toClient'[p], Ready2)
          /\ ~Free(toClient'[p], Ready2) => dealt'[p] = {}
          /\ Once(p, Submit2)'
          /\ dealt'[p] = {} => Unsent(p, Submit2)'
          /\ \A q \in Participants : r2_inbox'[q][p] # 0 => Submitted2(p)'
    BY <1>1, NoneSentKeeps DEF DealsOnce, NoneCame, NoneNew
<1>. QED BY <1>1, <1>2, <1>3 DEF DealsOnce

LEMMA DerivesKept ==
    ASSUME DerivesOnce, \A p \in Participants : Submitted2(p) => Submitted2(p)',
           NoneCame(All2), UNCHANGED derived
    PROVE  DerivesOnce'
BY DEF DerivesOnce, NoneCame, NoneNew

-----------------------------------------------------------------------------
\* ReadyRound2 comes right after a Round1All, which is in r1_cache when the
\* client reads it.
Follows(q) ==
    \A i \in 1..Len(q) : q[i].type = "ReadyRound2" => i = 1 \/ q[i - 1].type = "Round1All"

AtHead(q, type) == q # <<>> /\ Head(q).type = type

LEMMA FewFollow ==
    ASSUME NEW m, NEW n, m.type = "Round1All"
    PROVE  /\ \A q : Free(q, Ready2) => Follows(q)
           /\ Follows(<<m, n>>)
BY DEF Follows, Free, Ready2

LEMMA TailFollows ==
    ASSUME NEW S, NEW q \in Seq(S), q # <<>>, Follows(q)
    PROVE  Follows(Tail(q)) /\ (AtHead(Tail(q), "ReadyRound2") => Head(q).type = "Round1All")
<1>1. /\ Len(q) \in Nat /\ Len(q) # 0 /\ Head(q) = q[1]
      /\ Tail(q) \in Seq(S) /\ Len(Tail(q)) = Len(q) - 1
      /\ \A i \in 1..Len(Tail(q)) : Tail(q)[i] = q[i + 1]
    BY HeadTailProperties, LenProperties, EmptySeq
<1>2. \A i \in 1..Len(Tail(q)) : i + 1 \in 1..Len(q) /\ i + 1 # 1 /\ i + 1 - 1 = i
    BY <1>1
<1>3. \A i \in 1..Len(Tail(q)) : Tail(q)[i].type = "ReadyRound2" => q[i].type = "Round1All"
    BY <1>1, <1>2 DEF Follows
<1>4. \A i \in 1..Len(Tail(q)) : i # 1 => i - 1 \in 1..Len(Tail(q)) /\ Tail(q)[i - 1] = q[i]
    BY <1>1
<1>5. Follows(Tail(q))
    BY <1>3, <1>4 DEF Follows
<1>6. ASSUME AtHead(Tail(q), "ReadyRound2") PROVE Head(q).type = "Round1All"
    <2>1. Tail(q) # <<>> /\ Head(Tail(q)) = Tail(q)[1] /\ 1 \in 1..Len(Tail(q))
        BY <1>1, <1>6, HeadTailProperties, EmptySeq DEF AtHead
    <2>. QED BY <1>1, <1>3, <1>6, <2>1 DEF AtHead
<1>. QED BY <1>5, <1>6

LEMMA ConcatFollows ==
    ASSUME NEW S, NEW q \in Seq(S), NEW r \in Seq(S), Follows(q), Follows(r),
           ~AtHead(r, "ReadyRound2")
    PROVE  Follows(q \o r) /\ (AtHead(q \o r, "ReadyRound2") => AtHead(q, "ReadyRound2"))
<1>. DEFINE n == Len(q)
<1>1. /\ n \in Nat /\ Len(r) \in Nat /\ q \o r \in Seq(S) /\ Len(q \o r) = n + Len(r)
      /\ \A i \in 1..n + Len(r) : (q \o r)[i] = IF i <= n THEN q[i] ELSE r[i - n]
    BY ConcatProperties, LenProperties
<1>2. /\ q # <<>> => n # 0 /\ Head(q) = q[1]
      /\ r # <<>> => Len(r) # 0 /\ Head(r) = r[1]
      /\ q \o r # <<>> => Len(q \o r) # 0 /\ Head(q \o r) = (q \o r)[1]
    BY <1>1, HeadTailProperties, EmptySeq
<1>3. /\ n # 0 => q # <<>>
      /\ Len(r) # 0 => r # <<>>
    BY EmptySeq
<1>. HIDE DEF n
<1>4. Len(r) # 0 => r[1].type # "ReadyRound2"
    BY <1>2, <1>3 DEF AtHead
<1>5. ASSUME NEW i \in 1..n + Len(r), (q \o r)[i].type = "ReadyRound2", i # 1
      PROVE  (q \o r)[i - 1].type = "Round1All"
    <2>1. CASE i <= n
        <3>1. i \in 1..n /\ i - 1 \in 1..n + Len(r) /\ i - 1 <= n /\ q[i].type = "ReadyRound2"
            BY <1>1, <1>5, <2>1
        <3>2. q[i - 1].type = "Round1All"
            BY <1>5, <3>1 DEF Follows, n
        <3>. QED BY <1>1, <3>1, <3>2
    <2>2. CASE ~(i <= n)
        <3>1. i - n \in 1..Len(r) /\ r[i - n].type = "ReadyRound2" /\ i - 1 \in 1..n + Len(r)
            BY <1>1, <1>5, <2>2
        <3>2. i - n # 1
            BY <1>1, <1>4, <3>1
        <3>3. r[i - n - 1].type = "Round1All"
            BY <3>1, <3>2 DEF Follows
        <3>4. ~(i - 1 <= n) /\ i - 1 - n = i - n - 1
            BY <1>1, <3>1, <3>2
        <3>. QED BY <1>1, <3>1, <3>3, <3>4
    <2>. QED BY <2>1, <2>2
<1>6. Follows(q \o r)
    BY <1>1, <1>5 DEF Follows
<1>7. ASSUME AtHead(q \o r, "ReadyRound2") PROVE AtHead(q, "ReadyRound2")
    <2>1. 1 \in 1..n + Len(r) /\ (q \o r)[1].type = "ReadyRound2"
        BY <1>1, <1>2, <1>7 DEF AtHead
    <2>2. CASE n = 0
        <3>1. (q \o r)[1] = r[1] /\ Len(r) # 0
            BY <1>1, <2>1, <2>2
        <3>. QED BY <1>4, <2>1, <3>1
    <2>3. CASE n # 0
        <3>1. (q \o r)[1] = q[1]
            BY <1>1, <2>1, <2>3
        <3>. QED BY <1>2, <1>3, <2>1, <2>3, <3>1 DEF AtHead
    <2>. QED BY <2>2, <2>3
<1>. QED BY <1>6, <1>7

-----------------------------------------------------------------------------
(***************************************************************************)
(* What is kept and sent is of everybody's first polynomial.               *)
(***************************************************************************)
Bits == [Participants -> {0, 1}]
FirstSubmit ==
    {m \in ClientMsg : m.type \in {"Round1Submit", "Round2Submit"} => m.gen = 1}
FirstRound ==
    {m \in ServerMsg : m.type \in {"Round1All", "Round2All"} => m.pkgs \in Bits}

ServerFirst ==
    /\ \A c \in Conns : toServer[c] \in Seq(FirstSubmit)
    /\ r1_pkgs \in Bits
    /\ \A q \in Participants : r2_inbox[q] \in Bits

ToldFirst ==
    \A p \in Participants :
        /\ toClient[p] \in Seq(FirstRound)
        /\ Follows(toClient[p])
        /\ AtHead(toClient[p], "ReadyRound2") => r1_cache[p] = Ones

\* What a running client holds follows from what it has done.
Memory(p) ==
    /\ gen[p] \in {0, 1} /\ dealt[p] \subseteq {1} /\ derived[p] \subseteq {Ones}
    /\ r1_secret[p] \in {0, 1} /\ r2_secret[p] \in {0, 1}
    /\ r1_cache[p] \in {NoPackages, Ones} /\ final_kp[p] \in {NoKey, Ones}
    /\ r2_secret[p] # 0 \/ final_kp[p] # NoKey => r1_cache[p] = Ones
    /\ phase[p] = "running" =>
          /\ gen[p] # 0 => my_id[p]
          /\ gen[p] # 0 /\ dealt[p] = {} => r1_secret[p] # 0
          /\ dealt[p] # {} /\ derived[p] = {} => r2_secret[p] # 0
          /\ derived[p] # {} => final_kp[p] # NoKey
    /\ phase[p] # "aborted"
    /\ share[p] \in {NoShare, [key |-> Ones, group_vk |-> Ones, commitment |-> Ones]}

MemoryFirst == \A p \in Participants : Memory(p)

OnceInv ==
    /\ EntersOnce
    /\ DrawsOnce
    /\ DealsOnce
    /\ DerivesOnce
    /\ ServerFirst
    /\ ToldFirst
    /\ MemoryFirst

-----------------------------------------------------------------------------
LEMMA OnceTypes ==
    ASSUME TypeOK
    PROVE  /\ Queues(ClientMsg, ServerMsg) /\ ProcessesTypeOK
           /\ r1_pkgs \in Packages /\ r2_inbox \in [Participants -> Packages]
           /\ gen \in [Participants -> Nat]
           /\ dealt \in [Participants -> SUBSET Generation]
           /\ derived \in [Participants -> SUBSET Key]
BY NetQueues DEF TypeOK, ServerTypeOK, ClientTypeOK

LEMMA FirstFacts ==
    /\ \A m \in ClientMsg :
          m.type \notin {"Round1Submit", "Round2Submit"} => m \in FirstSubmit
    /\ \A m \in ServerMsg :
          m.type \notin {"Round1All", "Round2All"} => m \in FirstRound
    /\ FirstSubmit \subseteq ClientMsg /\ FirstRound \subseteq ServerMsg
    /\ NoPackages \in Bits
BY DEF FirstSubmit, FirstRound, NoPackages, Bits

LEMMA SeqFree ==
    ASSUME NEW S, NEW T, \A m \in S : m.type \notin T, NEW q \in Seq(S)
    PROVE  Free(q, T)
BY ElementOfSeq DEF Free

\* The coordinator sends: what it sends may be part of a round.
LEMMA SentFirst ==
    ASSUME TypeOK, ToldFirst, NEW conn, NEW msgs \in [Participants -> Seq(FirstRound)],
           toClient' = Sent(conn, msgs), UNCHANGED r1_cache,
           \A p \in Participants : Follows(msgs[p]) /\ ~AtHead(msgs[p], "ReadyRound2")
    PROVE  ToldFirst'
<1>1. ASSUME NEW p \in Participants
      PROVE  /\ toClient'[p] \in Seq(FirstRound)
             /\ Follows(toClient'[p])
             /\ AtHead(toClient'[p], "ReadyRound2") => r1_cache'[p] = Ones
    <2>1. /\ toClient[p] \in Seq(FirstRound) /\ msgs[p] \in Seq(FirstRound)
          /\ Follows(toClient[p]) /\ (AtHead(toClient[p], "ReadyRound2") => r1_cache[p] = Ones)
        BY DEF ToldFirst
    <2>2. toClient'[p] \in {toClient[p], toClient[p] \o msgs[p]}
        BY DEF Sent
    <2>3. /\ toClient[p] \o msgs[p] \in Seq(FirstRound)
          /\ Follows(toClient[p] \o msgs[p])
          /\ AtHead(toClient[p] \o msgs[p], "ReadyRound2") => AtHead(toClient[p], "ReadyRound2")
        BY <2>1, ConcatFollows, ConcatProperties
    <2>. QED BY <2>1, <2>2, <2>3
<1>. QED BY <1>1 DEF ToldFirst

\* Messages that belong to no round.
Plain == {m \in ServerMsg :
            m.type \in {"LoginOk", "DKGSessionCreated", "ReadyRound1", "Finalized", "Close"}}
Parting == {m \in Plain : m.type \in {"Finalized", "Close"}}

Answered(S) ==
    \/ UNCHANGED toClient
    \/ \E conn : \E msgs \in [Participants -> Seq(S)] : toClient' = Sent(conn, msgs)

LEMMA AnsweredPlain ==
    ASSUME TypeOK, ToldFirst, Answered(Plain), UNCHANGED r1_cache
    PROVE  /\ ToldFirst'
           /\ NoneCame(Told2) /\ NoneCame(Ready2) /\ NoneCame(All2)
<1>1. CASE UNCHANGED toClient
    BY <1>1, SilentStep DEF ToldFirst
<1>2. ASSUME NEW conn, NEW msgs \in [Participants -> Seq(Plain)], toClient' = Sent(conn, msgs)
      PROVE  /\ ToldFirst'
             /\ NoneCame(Told2) /\ NoneCame(Ready2) /\ NoneCame(All2)
    <2>1. /\ Plain \subseteq FirstRound /\ Plain \subseteq ServerMsg
          /\ \A m \in Plain : m.type \notin Told2 /\ m.type \notin Ready2 /\ m.type \notin All2
        BY FirstFacts DEF Plain, Told2, Ready2, All2
    <2>2. msgs \in [Participants -> Seq(FirstRound)] /\ msgs \in [Participants -> Seq(ServerMsg)]
        BY <2>1, SeqMonotone
    <2>3. \A p \in Participants :
            Free(msgs[p], Told2) /\ Free(msgs[p], Ready2) /\ Free(msgs[p], All2)
        BY <2>1, SeqFree
    <2>4. NoneCame(Told2) /\ NoneCame(Ready2) /\ NoneCame(All2)
        BY <1>2, <2>2, <2>3, SentQueued, OnceTypes
    <2>5. ASSUME NEW p \in Participants
          PROVE  Follows(msgs[p]) /\ ~AtHead(msgs[p], "ReadyRound2")
        <3>1. Follows(msgs[p])
            BY <2>3 DEF Follows, Free, Ready2
        <3>2. msgs[p] # <<>> => Head(msgs[p]) \in Plain
            BY HeadTailProperties
        <3>. QED BY <3>1, <3>2 DEF AtHead, Plain
    <2>6. ToldFirst'
        BY <1>2, <2>2, <2>5, SentFirst
    <2>. QED BY <2>4, <2>6
<1>. QED BY <1>1, <1>2 DEF Answered

LEMMA AnsweredParting ==
    ASSUME TypeOK, Answered(Parting)
    PROVE  NoneCame(TellIn) /\ NoneCame(Ready1) /\ Answered(Plain)
<1>1. CASE UNCHANGED toClient
    BY <1>1, SilentStep DEF Answered
<1>2. ASSUME NEW conn, NEW msgs \in [Participants -> Seq(Parting)], toClient' = Sent(conn, msgs)
      PROVE  NoneCame(TellIn) /\ NoneCame(Ready1) /\ Answered(Plain)
    <2>1. /\ Parting \subseteq Plain /\ Parting \subseteq ServerMsg
          /\ \A m \in Parting : m.type \notin TellIn /\ m.type \notin Ready1
        BY DEF Plain, Parting, TellIn, Ready1
    <2>2. msgs \in [Participants -> Seq(Plain)] /\ msgs \in [Participants -> Seq(ServerMsg)]
        BY <2>1, SeqMonotone
    <2>3. \A p \in Participants : Free(msgs[p], TellIn) /\ Free(msgs[p], Ready1)
        BY <2>1, SeqFree
    <2>. QED BY <1>2, <2>2, <2>3, SentQueued, OnceTypes DEF Answered
<1>. QED BY <1>1, <1>2 DEF Answered

LEMMA MemoryKept ==
    ASSUME MemoryFirst, UNCHANGED clientVars, UNCHANGED phase
    PROVE  MemoryFirst'
BY DEF MemoryFirst, Memory, clientVars, memoryVars

LEMMA ReadFirst ==
    ASSUME TypeOK, NEW c \in Conns, NEW type, Reads(c, type)
    PROVE  /\ \A T : NoneSent(T)
           /\ \A d \in Conns : \A S : toServer[d] \in Seq(S) => toServer'[d] \in Seq(S)
           /\ UNCHANGED <<started, phase>>
           /\ c[1] \in Participants
<1>1. Queues(ClientMsg, ServerMsg)
    BY OnceTypes
<1>2. \A T : NoneSent(T)
    BY <1>1, ReadsQueued
<1>3. \A d \in Conns : \A S : toServer[d] \in Seq(S) => toServer'[d] \in Seq(S)
    BY <1>1, SessionReads
<1>. QED BY <1>2, <1>3 DEF Reads, Conns

\* A step of the coordinator that sends no message of a round.
LEMMA PartingStep ==
    ASSUME TypeOK, OnceInv, UNCHANGED clientVars, UNCHANGED <<started, phase>>,
           \A T : NoneSent(T),
           \A d \in Conns : \A S : toServer[d] \in Seq(S) => toServer'[d] \in Seq(S),
           Answered(Parting), joined' \subseteq joined, r1_pkgs' \in {r1_pkgs, NoPackages},
           \A q \in Participants : r2_inbox'[q] \in {r2_inbox[q], NoPackages}
    PROVE  OnceInv'
<1>1. UNCHANGED <<gen, dealt, derived, r1_cache>>
    BY DEF clientVars, memoryVars
<1>2. /\ NoneCame(TellIn) /\ NoneCame(Ready1) /\ NoneCame(Told2) /\ NoneCame(Ready2)
      /\ NoneCame(All2) /\ ToldFirst'
    BY <1>1, AnsweredParting, AnsweredPlain DEF OnceInv
<1>3. /\ \A p \in Participants : r1_pkgs'[p] \in {r1_pkgs[p], 0}
      /\ \A p, q \in Participants : r2_inbox'[q][p] \in {r2_inbox[q][p], 0}
    BY DEF NoPackages
<1>4. EntersOnce' /\ \A p \in Participants : Entered(p) => Entered(p)'
    BY <1>2, EntersKept DEF OnceInv
<1>5. DrawsOnce' /\ \A p \in Participants : Submitted1(p) => Submitted1(p)'
    BY <1>1, <1>2, <1>3, <1>4, DrawsKept DEF OnceInv
<1>6. DealsOnce' /\ \A p \in Participants : Submitted2(p) => Submitted2(p)'
    BY <1>1, <1>2, <1>3, <1>5, DealsKept DEF OnceInv
<1>7. DerivesOnce'
    BY <1>1, <1>2, <1>6, DerivesKept DEF OnceInv
<1>8. ServerFirst'
    BY FirstFacts DEF OnceInv, ServerFirst
<1>. QED BY <1>2, <1>4, <1>5, <1>6, <1>7, <1>8, MemoryKept DEF OnceInv

-----------------------------------------------------------------------------
(***************************************************************************)
(* The coordinator's steps.                                                *)
(***************************************************************************)

LEMMA FinalizeOnce ==
    ASSUME IInv, OnceInv, NEW c \in Conns, HandleFinalizeSubmit(c), UNCHANGED clientVars
    PROVE  OnceInv'
<1>1. TypeOK /\ Reads(c, "FinalizeSubmit")
    BY DEF IInv, HandleFinalizeSubmit
<1>. DEFINE vk == Head(toServer[c]).vk
            m == [type |-> "Finalized", vk |-> vk]
<1>2. vk \in Key /\ Agreed(vk) = vk
    BY <1>1, ReadsFacts, ClientMsgFacts, AgreedIsSubmitted DEF TypeOK, HandleFinalizeSubmit
<1>3. m \in Parting
    BY <1>2, ServerMsgFacts DEF Parting, Plain
<1>4. [p \in Participants |-> <<m>>] \in [Participants -> Seq(Parting)]
    BY <1>3, FewMessages
<1>5. UNCHANGED toClient \/ toClient' = Sent(conns, [p \in Participants |-> <<m>>])
    BY <1>2 DEF HandleFinalizeSubmit, Broadcast, ToAll
<1>6. Answered(Parting)
    BY <1>4, <1>5 DEF Answered
<1>7. /\ joined' \subseteq joined /\ r1_pkgs' \in {r1_pkgs, NoPackages}
      /\ \A q \in Participants : r2_inbox'[q] \in {r2_inbox[q], NoPackages}
    BY DEF HandleFinalizeSubmit, RemoveSession
<1>. QED BY <1>1, <1>6, <1>7, ReadFirst, PartingStep

\* What arrives when the session does not take it, and the end of a connection.
LEMMA IgnoreOnce ==
    ASSUME TypeOK, OnceInv, NEW c \in Conns, UNCHANGED clientVars,
           Refuse(c) \/ HandleLogout(c) \/ HandleDisconnect(c)
    PROVE  OnceInv'
<1>1. PICK type : Reads(c, type)
    BY DEF Refuse, HandleLogout, HandleDisconnect
<1>2. /\ UNCHANGED <<toClient, r1_pkgs, r2_inbox>>
      /\ joined' \subseteq joined
    BY DEF Refuse, HandleLogout, HandleDisconnect, serverVars, sessionVars
<1>. QED BY <1>1, <1>2, ReadFirst, PartingStep DEF Answered

LEMMA ExpireOnce ==
    ASSUME TypeOK, OnceInv, Expire, UNCHANGED clientVars
    PROVE  OnceInv'
<1>1. [type |-> "Close"] \in Parting
    BY ServerMsgFacts DEF Parting, Plain
<1>2. [p \in Participants |-> <<[type |-> "Close"]>>] \in [Participants -> Seq(Parting)]
    BY <1>1, FewMessages
<1>3. Answered(Parting)
    BY <1>2 DEF Expire, Broadcast, ToAll, Answered
<1>4. UNCHANGED <<started, phase, toServer>>
    BY DEF Expire
<1>5. \A T : NoneSent(T)
    BY <1>4, SilentStep
<1>6. /\ joined' \subseteq joined /\ r1_pkgs' \in {r1_pkgs, NoPackages}
      /\ \A q \in Participants : r2_inbox'[q] \in {r2_inbox[q], NoPackages}
    BY DEF Expire, RemoveSession
<1>. QED BY <1>3, <1>4, <1>5, <1>6, PartingStep

\* A step that leaves the rounds' data alone, once it is known whom it lets in.
LEMMA PlainRounds ==
    ASSUME TypeOK, OnceInv, UNCHANGED clientVars, UNCHANGED <<started, phase, r1_pkgs, r2_inbox>>,
           \A T : NoneSent(T),
           \A d \in Conns : \A S : toServer[d] \in Seq(S) => toServer'[d] \in Seq(S),
           Answered(Plain), \A p \in Participants : Submitted1(p) => Submitted1(p)'
    PROVE  DealsOnce' /\ DerivesOnce' /\ ServerFirst' /\ ToldFirst' /\ MemoryFirst'
<1>1. UNCHANGED <<gen, dealt, derived, r1_cache>>
    BY DEF clientVars, memoryVars
<1>2. NoneCame(Told2) /\ NoneCame(Ready2) /\ NoneCame(All2) /\ ToldFirst'
    BY <1>1, AnsweredPlain DEF OnceInv
<1>3. DealsOnce' /\ \A p \in Participants : Submitted2(p) => Submitted2(p)'
    BY <1>1, <1>2, DealsKept DEF OnceInv
<1>4. DerivesOnce'
    BY <1>1, <1>2, <1>3, DerivesKept DEF OnceInv
<1>5. ServerFirst'
    BY DEF OnceInv, ServerFirst
<1>. QED BY <1>2, <1>3, <1>4, <1>5, MemoryKept DEF OnceInv

\* Login and AnnounceDKGSession are answered with the next thing to do.
LEMMA TellOnce ==
    ASSUME TypeOK, OnceInv, NEW c \in Conns, NEW type \in AskIn, Reads(c, type),
           NEW m \in Plain, m.type \in TellIn, Reply(c, m),
           UNCHANGED <<clientVars, joined, r1_pkgs, r2_inbox>>
    PROVE  OnceInv'
<1>. DEFINE p == c[1]
<1>1. /\ \A T : NoneSent(T)
      /\ \A d \in Conns : \A S : toServer[d] \in Seq(S) => toServer'[d] \in Seq(S)
      /\ UNCHANGED <<started, phase>>
      /\ p \in Participants
    BY ReadFirst
<1>2. Queues(ClientMsg, ServerMsg) /\ ProcessesTypeOK /\ m \in ServerMsg
    BY OnceTypes DEF Plain
<1>3. ~Unsent(p, AskIn) /\ Unsent(p, AskIn)'
    BY <1>1, <1>2, ReadsQueued DEF OnceInv, EntersOnce
<1>4. Free(toClient[p], TellIn)
    BY <1>1, <1>3 DEF OnceInv, EntersOnce
<1>5. /\ Single(toClient'[p], TellIn)
      /\ \A q \in Participants : q # p => toClient'[q] = toClient[q]
    BY <1>2, <1>4, ReplyQueued
<1>6. ~Entered(p) /\ p \notin joined /\ started[p] # 0
    BY <1>1, <1>3 DEF OnceInv, EntersOnce, Entered
<1>. HIDE DEF p
<1>7. \A q \in Participants : (Unsent(q, AskIn) => Unsent(q, AskIn)') /\ Once(q, AskIn)'
    BY <1>1, NoneSentKeeps DEF OnceInv, EntersOnce
<1>8. \A q \in Participants : Entered(q) => Entered(q)'
    BY <1>1, <1>5, <1>6, <1>7 DEF Entered
<1>9. EntersOnce'
    <2>1. ASSUME NEW q \in Participants
          PROVE  /\ Single(toClient'[q], TellIn)
                 /\ Unsent(q, AskIn)' \/ Free(toClient'[q], TellIn)
                 /\ started'[q] = 0 => Unsent(q, AskIn)' /\ Free(toClient'[q], TellIn)
                 /\ q \in joined' => Entered(q)'
        <3>1. CASE q = p
            BY <1>1, <1>3, <1>5, <1>6, <3>1
        <3>2. CASE q # p
            BY <1>1, <1>5, <1>7, <1>8, <3>2 DEF OnceInv, EntersOnce
        <3>. QED BY <3>1, <3>2
    <2>. QED BY <1>7, <2>1 DEF EntersOnce
<1>10. NoneCame(Ready1)
    BY <1>2, ReplyQueued DEF TellIn, Ready1
<1>11. DrawsOnce' /\ \A q \in Participants : Submitted1(q) => Submitted1(q)'
    BY <1>1, <1>8, <1>10, DrawsKept DEF OnceInv, clientVars
<1>12. Answered(Plain)
    <2>1. [q \in Participants |-> <<m>>] \in [Participants -> Seq(Plain)]
        BY FewMessages
    <2>. QED BY <2>1 DEF Reply, Answered
<1>13. DealsOnce' /\ DerivesOnce' /\ ServerFirst' /\ ToldFirst' /\ MemoryFirst'
    BY <1>1, <1>11, <1>12, PlainRounds
<1>. QED BY <1>9, <1>11, <1>13 DEF OnceInv

\* The last participant joins: everybody has entered, and nobody has drawn yet.
LEMMA JoinOnce ==
    ASSUME TypeOK, OnceInv, NEW c \in Conns, HandleJoin(c), UNCHANGED clientVars
    PROVE  OnceInv'
<1>. DEFINE p == c[1]
            msgs == [q \in Participants |-> <<[type |-> "ReadyRound1"]>>]
<1>1. /\ \A T : NoneSent(T)
      /\ \A d \in Conns : \A S : toServer[d] \in Seq(S) => toServer'[d] \in Seq(S)
      /\ UNCHANGED <<started, phase>>
      /\ p \in Participants
    BY ReadFirst DEF HandleJoin
<1>2. Queues(ClientMsg, ServerMsg) /\ ProcessesTypeOK /\ Reads(c, "JoinDKGSession")
    BY OnceTypes DEF HandleJoin
<1>3. ~Unsent(p, AskIn) /\ Unsent(p, AskIn)'
    <2>1. "JoinDKGSession" \in AskIn /\ Once(p, AskIn)
        BY <1>1 DEF AskIn, OnceInv, EntersOnce
    <2>. QED BY <1>2, <2>1, ReadsQueued
<1>4. ~Entered(p) /\ started[p] # 0 /\ Free(toClient[p], TellIn)
    BY <1>1, <1>3 DEF OnceInv, EntersOnce, Entered
<1>5. joined' = joined \cup {p} /\ UNCHANGED <<r1_pkgs, r2_inbox>>
    BY DEF HandleJoin
<1>6. /\ msgs \in [Participants -> Seq(Plain)] /\ msgs \in [Participants -> Seq(ServerMsg)]
      /\ \A q \in Participants : Free(msgs[q], TellIn) /\ Single(msgs[q], Ready1)
    <2>1. [type |-> "ReadyRound1"] \in Plain /\ [type |-> "ReadyRound1"] \in ServerMsg
          /\ "ReadyRound1" \notin TellIn
        BY ServerMsgFacts DEF Plain, TellIn
    <2>. QED BY <2>1, FewMessages, FewQueued
<1>7. IF AllOf(joined') THEN toClient' = Sent(conns, msgs) ELSE UNCHANGED toClient
    BY DEF HandleJoin, Broadcast, ToAll
<1>. HIDE DEF p, msgs
<1>8. Answered(Plain) /\ NoneCame(TellIn)
    BY <1>2, <1>6, <1>7, SentQueued, SilentStep DEF Answered
<1>9. \A q \in Participants : Entered(q) => Entered(q)'
    BY <1>1, <1>8, NoneSentKeeps DEF Entered, NoneCame, NoneNew
<1>10. Entered(p)'
    BY <1>1, <1>3, <1>4, <1>8 DEF Entered, NoneCame, NoneNew
<1>11. EntersOnce'
    <2>1. \A q \in Participants :
            /\ Once(q, AskIn)' /\ (Unsent(q, AskIn) => Unsent(q, AskIn)')
            /\ Single(toClient'[q], TellIn)
            /\ Free(toClient[q], TellIn) => Free(toClient'[q], TellIn)
        BY <1>1, <1>8, NoneSentKeeps DEF OnceInv, EntersOnce, NoneCame, NoneNew
    <2>2. \A q \in Participants : q \in joined' => Entered(q)'
        BY <1>5, <1>9, <1>10 DEF OnceInv, EntersOnce
    <2>. QED BY <1>1, <2>1, <2>2 DEF OnceInv, EntersOnce
<1>12. UNCHANGED gen /\ \A q \in Participants : r1_pkgs'[q] \in {r1_pkgs[q], 0}
    BY <1>5 DEF clientVars
<1>13. DrawsOnce' /\ \A q \in Participants : Submitted1(q) => Submitted1(q)'
    <2>1. CASE UNCHANGED toClient
        BY <1>1, <1>9, <1>12, <2>1, SilentStep, DrawsKept DEF OnceInv
    <2>2. CASE AllOf(joined')
        <3>1. \A q \in Participants : Entered(q)'
            <4>1. joined' \in SUBSET Participants
                BY <1>1, <1>5 DEF TypeOK, ServerTypeOK
            <4>. QED BY <1>11, <2>2, <4>1, EverybodyThere DEF EntersOnce
        <3>2. \A q \in Participants : Free(toClient[q], Ready1) /\ gen[q] = 0
            BY <1>1, <1>4 DEF OnceInv, DrawsOnce
        <3>3. \A q \in Participants : Single(toClient'[q], Ready1)
            BY <1>2, <1>6, <1>7, <2>2, <3>2, SentQueued
        <3>4. \A q \in Participants : ~Submitted1(q)
            BY <3>2 DEF Submitted1
        <3>5. \A q \in Participants :
                /\ Once(q, Submit1)' /\ (Unsent(q, Submit1) => Unsent(q, Submit1)')
                /\ r1_pkgs[q] = 0
            BY <1>1, <3>4, NoneSentKeeps DEF OnceInv, DrawsOnce
        <3>6. \A q \in Participants : gen'[q] = 0 /\ Unsent(q, Submit1)' /\ r1_pkgs'[q] = 0
            BY <1>12, <3>2, <3>5 DEF OnceInv, DrawsOnce
        <3>. QED BY <3>1, <3>3, <3>4, <3>5, <3>6 DEF DrawsOnce
    <2>. QED BY <1>7, <2>1, <2>2
<1>14. DealsOnce' /\ DerivesOnce' /\ ServerFirst' /\ ToldFirst' /\ MemoryFirst'
    BY <1>1, <1>5, <1>8, <1>13, PlainRounds
<1>. QED BY <1>11, <1>13, <1>14 DEF OnceInv

\* The last commitment arrives: everybody has drawn, and nobody has dealt yet.
LEMMA Submit1Once ==
    ASSUME TypeOK, OnceInv, NEW c \in Conns, HandleRound1Submit(c), UNCHANGED clientVars
    PROVE  OnceInv'
<1>. DEFINE p == c[1]
            all == [type |-> "Round1All", pkgs |-> r1_pkgs']
            ready == [type |-> "ReadyRound2"]
            msgs == [q \in Participants |-> <<all, ready>>]
<1>1. /\ \A T : NoneSent(T)
      /\ \A d \in Conns : \A S : toServer[d] \in Seq(S) => toServer'[d] \in Seq(S)
      /\ UNCHANGED <<started, phase>>
      /\ p \in Participants
    BY ReadFirst DEF HandleRound1Submit
<1>2. Queues(ClientMsg, ServerMsg) /\ ProcessesTypeOK /\ Reads(c, "Round1Submit")
    BY OnceTypes DEF HandleRound1Submit
<1>3. ~Unsent(p, Submit1) /\ Unsent(p, Submit1)'
    <2>1. "Round1Submit" \in Submit1 /\ Once(p, Submit1)
        BY <1>1 DEF Submit1, OnceInv, DrawsOnce
    <2>. QED BY <1>2, <2>1, ReadsQueued
<1>4. ~Submitted1(p) /\ gen[p] # 0
    BY <1>1, <1>3 DEF OnceInv, DrawsOnce, Submitted1
<1>5. /\ r1_pkgs' = [r1_pkgs EXCEPT ![p] = Head(toServer[c]).gen]
      /\ UNCHANGED <<joined, r2_inbox, gen, dealt, derived, r1_cache>>
    BY DEF HandleRound1Submit, clientVars, memoryVars
<1>6. r1_pkgs' \in Bits
    <2>1. Head(toServer[c]) \in FirstSubmit /\ Head(toServer[c]).type = "Round1Submit"
        BY <1>2, SessionReads DEF OnceInv, ServerFirst
    <2>2. Head(toServer[c]).gen = 1
        BY <2>1 DEF FirstSubmit
    <2>. QED BY <1>1, <1>5, <2>2 DEF OnceInv, ServerFirst, Bits
<1>7. all \in FirstRound /\ ready \in FirstRound
    <2>1. r1_pkgs' \in Packages
        BY <1>6 DEF Bits, Packages
    <2>2. all \in ServerMsg /\ ready \in ServerMsg
        BY <2>1, ServerMsgFacts
    <2>. QED BY <1>6, <2>2 DEF FirstRound
<1>8. all.type = "Round1All" /\ ready.type = "ReadyRound2"
    OBVIOUS
<1>9. UNCHANGED toClient \/ (AllOf(Present(r1_pkgs')) /\ toClient' = Sent(conns, msgs))
    BY DEF HandleRound1Submit, Broadcast, ToAll
<1>10. ServerFirst'
    BY <1>1, <1>5, <1>6 DEF OnceInv, ServerFirst
<1>. HIDE DEF p, all, ready
<1>11. /\ msgs \in [Participants -> Seq(FirstRound)] /\ msgs \in [Participants -> Seq(ServerMsg)]
       /\ \A q \in Participants :
            /\ Free(msgs[q], TellIn) /\ Free(msgs[q], Ready1) /\ Free(msgs[q], All2)
            /\ Single(msgs[q], Ready2)
            /\ Follows(msgs[q]) /\ ~AtHead(msgs[q], "ReadyRound2")
    <2>1. <<all, ready>> \in Seq(FirstRound) /\ <<all, ready>> \in Seq(ServerMsg)
        BY <1>7, FewMessages, FirstFacts
    <2>2. /\ Free(<<all, ready>>, TellIn) /\ Free(<<all, ready>>, Ready1)
          /\ Free(<<all, ready>>, All2) /\ Single(<<all, ready>>, Ready2)
        BY <1>8, FewQueued DEF TellIn, Ready1, All2, Ready2
    <2>3. Follows(<<all, ready>>) /\ ~AtHead(<<all, ready>>, "ReadyRound2")
        BY <1>8, FewFollow DEF AtHead
    <2>. QED BY <2>1, <2>2, <2>3
<1>. HIDE DEF msgs
<1>12. NoneCame(TellIn) /\ NoneCame(Ready1) /\ NoneCame(All2)
    BY <1>2, <1>9, <1>11, SentQueued, SilentStep
<1>13. ToldFirst'
    <2>1. CASE UNCHANGED toClient
        BY <1>5, <2>1 DEF OnceInv, ToldFirst
    <2>2. CASE toClient' = Sent(conns, msgs)
        BY <1>5, <1>11, <2>2, SentFirst DEF OnceInv
    <2>. QED BY <1>9, <2>1, <2>2
<1>14. EntersOnce' /\ \A q \in Participants : Entered(q) => Entered(q)'
    BY <1>1, <1>5, <1>12, EntersKept DEF OnceInv
<1>15. \A q \in Participants : Submitted1(q) => Submitted1(q)'
    BY <1>1, <1>5, NoneSentKeeps DEF Submitted1
<1>16. Submitted1(p)'
    BY <1>1, <1>3, <1>4, <1>5 DEF Submitted1
<1>17. DrawsOnce'
    <2>1. (\E q \in Participants : ~Entered(q)') =>
              \A q \in Participants : Free(toClient'[q], Ready1) /\ gen'[q] = 0
        BY <1>5, <1>12, <1>14 DEF OnceInv, DrawsOnce, NoneCame, NoneNew
    <2>2. \A q \in Participants :
              /\ Single(toClient'[q], Ready1)
              /\ ~Free(toClient'[q], Ready1) => gen'[q] = 0
              /\ Once(q, Submit1)'
              /\ gen'[q] = 0 => Unsent(q, Submit1)'
        BY <1>1, <1>5, <1>12, NoneSentKeeps DEF OnceInv, DrawsOnce, NoneCame, NoneNew
    <2>3. \A q \in Participants : q # p => r1_pkgs'[q] = r1_pkgs[q]
        BY <1>5 DEF OnceInv, ServerFirst, Bits
    <2>4. \A q \in Participants : r1_pkgs'[q] # 0 => Submitted1(q)'
        BY <1>15, <1>16, <2>3 DEF OnceInv, DrawsOnce
    <2>. QED BY <2>1, <2>2, <2>4 DEF DrawsOnce
<1>18. DealsOnce' /\ \A q \in Participants : Submitted2(q) => Submitted2(q)'
    <2>1. CASE UNCHANGED toClient
        BY <1>1, <1>5, <1>15, <2>1, SilentStep, DealsKept DEF OnceInv
    <2>2. CASE AllOf(Present(r1_pkgs')) /\ toClient' = Sent(conns, msgs)
        <3>1. \A q \in Participants : Submitted1(q)'
            <4>1. Present(r1_pkgs') \in SUBSET Participants
                BY DEF Present
            <4>2. Present(r1_pkgs') = Participants
                BY <2>2, <4>1, EverybodyThere
            <4>. QED BY <1>17, <4>2 DEF DrawsOnce, Present
        <3>2. \A q \in Participants : Free(toClient[q], Told2) /\ dealt[q] = {}
            BY <1>1, <1>4 DEF OnceInv, DealsOnce
        <3>3. \A q \in Participants : Free(toClient[q], Ready2)
            BY <3>2 DEF Free, Told2, Ready2
        <3>4. \A q \in Participants : Single(toClient'[q], Ready2)
            BY <1>2, <1>11, <2>2, <3>3, SentQueued
        <3>5. \A q \in Participants : ~Submitted2(q)
            BY <3>2 DEF Submitted2
        <3>6. \A q \in Participants :
                /\ Once(q, Submit2)'
                /\ dealt'[q] = {} /\ Unsent(q, Submit2)'
                /\ \A r \in Participants : r2_inbox'[r][q] = 0
            BY <1>1, <1>5, <3>2, <3>5, NoneSentKeeps DEF OnceInv, DealsOnce
        <3>. QED BY <3>1, <3>4, <3>5, <3>6 DEF DealsOnce
    <2>. QED BY <1>9, <2>1, <2>2
<1>19. DerivesOnce'
    BY <1>5, <1>12, <1>18, DerivesKept DEF OnceInv
<1>20. MemoryFirst'
    BY <1>1, MemoryKept DEF OnceInv
<1>. QED BY <1>10, <1>13, <1>14, <1>17, <1>18, <1>19, <1>20 DEF OnceInv

\* Full inboxes hold a package of everybody.
LEMMA FullInboxes ==
    ASSUME NEW inbox \in [Participants -> Packages], InboxesFull(inbox),
           NEW p \in Participants, inbox[p][p] = 0, NEW q \in Participants, q # p
    PROVE  inbox[p][q] # 0
<1>1. /\ Present(inbox[p]) \in SUBSET Participants /\ p \notin Present(inbox[p])
      /\ Cardinality(Present(inbox[p])) = Cardinality(Participants) - 1
    BY DEF Present, InboxesFull
<1>2. Present(inbox[p]) = Participants \ {p}
    BY <1>1, AllOfFacts
<1>. QED BY <1>2 DEF Present

\* The last packages of round 2 arrive: everybody has dealt, and nobody has derived
\* a key yet.
LEMMA Submit2Once ==
    ASSUME IInv, IInv', OnceInv, NEW c \in Conns, HandleRound2Submit(c), UNCHANGED clientVars
    PROVE  OnceInv'
<1>. DEFINE p == c[1]
            m(q) == [type |-> "Round2All", pkgs |-> r2_inbox'[q]]
            msgs == [q \in Participants |-> <<m(q)>>]
<1>. TypeOK
    BY DEF IInv
<1>1. /\ \A T : NoneSent(T)
      /\ \A d \in Conns : \A S : toServer[d] \in Seq(S) => toServer'[d] \in Seq(S)
      /\ UNCHANGED <<started, phase>>
      /\ p \in Participants
    BY ReadFirst DEF HandleRound2Submit
<1>2. Queues(ClientMsg, ServerMsg) /\ ProcessesTypeOK /\ Reads(c, "Round2Submit")
    BY OnceTypes DEF HandleRound2Submit
<1>3. ~Unsent(p, Submit2) /\ Unsent(p, Submit2)'
    <2>1. "Round2Submit" \in Submit2 /\ Once(p, Submit2)
        BY <1>1 DEF Submit2, OnceInv, DealsOnce
    <2>. QED BY <1>2, <2>1, ReadsQueued
<1>4. ~Submitted2(p) /\ dealt[p] # {}
    BY <1>1, <1>3 DEF OnceInv, DealsOnce, Submitted2
<1>5. /\ r2_inbox' = [q \in Participants |->
                        IF q = p THEN r2_inbox[q]
                        ELSE [r2_inbox[q] EXCEPT ![p] = Head(toServer[c]).gen]]
      /\ UNCHANGED <<joined, r1_pkgs, gen, dealt, derived, r1_cache>>
    BY DEF HandleRound2Submit, clientVars, memoryVars
<1>6. \A q \in Participants : r2_inbox'[q] \in Bits
    <2>1. Head(toServer[c]) \in FirstSubmit /\ Head(toServer[c]).type = "Round2Submit"
        BY <1>2, SessionReads DEF OnceInv, ServerFirst
    <2>2. Head(toServer[c]).gen = 1
        BY <2>1 DEF FirstSubmit
    <2>. QED BY <1>1, <1>5, <2>2 DEF OnceInv, ServerFirst, Bits
<1>7. \A q \in Participants : m(q) \in FirstRound /\ m(q).type = "Round2All"
    <2>1. \A q \in Participants : r2_inbox'[q] \in Packages
        BY <1>6 DEF Bits, Packages
    <2>2. \A q \in Participants : m(q) \in ServerMsg
        BY <2>1, ServerMsgFacts
    <2>. QED BY <1>6, <2>2 DEF FirstRound
<1>8. UNCHANGED toClient \/ (InboxesFull(r2_inbox') /\ toClient' = Sent(conns, msgs))
    BY DEF HandleRound2Submit, Broadcast
<1>9. ServerFirst'
    BY <1>1, <1>5, <1>6 DEF OnceInv, ServerFirst
<1>. HIDE DEF p, m
<1>10. /\ msgs \in [Participants -> Seq(FirstRound)] /\ msgs \in [Participants -> Seq(ServerMsg)]
       /\ \A q \in Participants :
            /\ Free(msgs[q], TellIn) /\ Free(msgs[q], Ready1)
            /\ Free(msgs[q], Told2) /\ Free(msgs[q], Ready2)
            /\ Single(msgs[q], All2)
            /\ Follows(msgs[q]) /\ ~AtHead(msgs[q], "ReadyRound2")
    <2>1. ASSUME NEW q \in Participants
          PROVE  /\ <<m(q)>> \in Seq(FirstRound) /\ <<m(q)>> \in Seq(ServerMsg)
                 /\ Free(<<m(q)>>, TellIn) /\ Free(<<m(q)>>, Ready1)
                 /\ Free(<<m(q)>>, Told2) /\ Free(<<m(q)>>, Ready2)
                 /\ Single(<<m(q)>>, All2)
                 /\ Follows(<<m(q)>>) /\ ~AtHead(<<m(q)>>, "ReadyRound2")
        <3>1. <<m(q)>> \in Seq(FirstRound) /\ <<m(q)>> \in Seq(ServerMsg)
            BY <1>7, FewMessages, FirstFacts
        <3>2. /\ Free(<<m(q)>>, TellIn) /\ Free(<<m(q)>>, Ready1)
              /\ Free(<<m(q)>>, Told2) /\ Free(<<m(q)>>, Ready2)
              /\ Single(<<m(q)>>, All2)
            BY <1>7, FewQueued DEF TellIn, Ready1, Told2, Ready2
        <3>3. Follows(<<m(q)>>) /\ ~AtHead(<<m(q)>>, "ReadyRound2")
            BY <1>7, <3>2 DEF AtHead, Follows, Free, Ready2
        <3>. QED BY <3>1, <3>2, <3>3
    <2>. QED BY <2>1
<1>. HIDE DEF msgs
<1>11. /\ NoneCame(TellIn) /\ NoneCame(Ready1) /\ NoneCame(Told2) /\ NoneCame(Ready2)
    BY <1>2, <1>8, <1>10, SentQueued, SilentStep
<1>12. ToldFirst'
    <2>1. CASE UNCHANGED toClient
        BY <1>5, <2>1 DEF OnceInv, ToldFirst
    <2>2. CASE toClient' = Sent(conns, msgs)
        BY <1>5, <1>10, <2>2, SentFirst DEF OnceInv
    <2>. QED BY <1>8, <2>1, <2>2
<1>13. EntersOnce' /\ \A q \in Participants : Entered(q) => Entered(q)'
    BY <1>1, <1>5, <1>11, EntersKept DEF OnceInv
<1>14. DrawsOnce' /\ \A q \in Participants : Submitted1(q) => Submitted1(q)'
    BY <1>1, <1>5, <1>11, <1>13, DrawsKept DEF OnceInv
<1>15. \A q \in Participants : Submitted2(q) => Submitted2(q)'
    BY <1>1, <1>5, NoneSentKeeps DEF Submitted2
<1>16. Submitted2(p)'
    BY <1>1, <1>3, <1>4, <1>5 DEF Submitted2
<1>17. DealsOnce'
    <2>1. (\E q \in Participants : ~Submitted1(q)') =>
              \A q \in Participants : Free(toClient'[q], Told2) /\ dealt'[q] = {}
        BY <1>5, <1>11, <1>14 DEF OnceInv, DealsOnce, NoneCame, NoneNew
    <2>2. \A q \in Participants :
              /\ Single(toClient'[q], Ready2)
              /\ ~Free(toClient'[q], Ready2) => dealt'[q] = {}
              /\ Once(q, Submit2)'
              /\ dealt'[q] = {} => Unsent(q, Submit2)'
        BY <1>1, <1>5, <1>11, NoneSentKeeps DEF OnceInv, DealsOnce, NoneCame, NoneNew
    <2>3. \A q, r \in Participants : q # p => r2_inbox'[r][q] = r2_inbox[r][q]
        BY <1>5 DEF OnceInv, ServerFirst, Bits
    <2>4. \A q, r \in Participants : r2_inbox'[r][q] # 0 => Submitted2(q)'
        BY <1>15, <1>16, <2>3 DEF OnceInv, DealsOnce
    <2>. QED BY <2>1, <2>2, <2>4 DEF DealsOnce
<1>18. DerivesOnce'
    <2>1. CASE UNCHANGED toClient
        BY <1>5, <1>15, <2>1, SilentStep, DerivesKept DEF OnceInv
    <2>2. CASE InboxesFull(r2_inbox') /\ toClient' = Sent(conns, msgs)
        <3>1. \A q \in Participants : q # p => r2_inbox'[p][q] # 0
            <4>1. r2_inbox' \in [Participants -> Packages] /\ r2_inbox'[p][p] = 0
                BY <1>1 DEF IInv, TypeOK, ServerTypeOK, InboxesDealt
            <4>. QED BY <1>1, <2>2, <4>1, FullInboxes
        <3>2. \A q \in Participants : Submitted2(q)'
            BY <1>1, <1>16, <1>17, <3>1 DEF DealsOnce
        <3>3. \A q \in Participants : Free(toClient[q], All2) /\ derived[q] = {}
            BY <1>1, <1>4 DEF OnceInv, DerivesOnce
        <3>4. \A q \in Participants : Single(toClient'[q], All2)
            BY <1>2, <1>10, <2>2, <3>3, SentQueued
        <3>. QED BY <1>5, <3>2, <3>3, <3>4 DEF DerivesOnce
    <2>. QED BY <1>8, <2>1, <2>2
<1>19. MemoryFirst'
    BY <1>1, MemoryKept DEF OnceInv
<1>. QED BY <1>9, <1>12, <1>13, <1>14, <1>17, <1>18, <1>19 DEF OnceInv

LEMMA ServerStepOnce ==
    ASSUME IInv, IInv', OnceInv, NEW c \in Conns, ServerStep(c)
    PROVE  OnceInv'
<1>1. TypeOK /\ UNCHANGED clientVars
    BY DEF IInv, ServerStep
<1>2. CASE HandleLogin(c)
    <2>1. [type |-> "LoginOk"] \in Plain /\ "LoginOk" \in TellIn /\ "Login" \in AskIn
        BY ServerMsgFacts DEF Plain, TellIn, AskIn
    <2>2. /\ Reads(c, "Login") /\ Reply(c, [type |-> "LoginOk"])
          /\ UNCHANGED <<joined, r1_pkgs, r2_inbox>>
        BY <1>2 DEF HandleLogin, Register, sessionVars
    <2>. QED BY <1>1, <2>1, <2>2, TellOnce
<1>3. CASE HandleAnnounce(c)
    <2>1. /\ [type |-> "DKGSessionCreated"] \in Plain /\ "DKGSessionCreated" \in TellIn
          /\ "AnnounceDKGSession" \in AskIn
        BY ServerMsgFacts DEF Plain, TellIn, AskIn
    <2>2. /\ Reads(c, "AnnounceDKGSession") /\ Reply(c, [type |-> "DKGSessionCreated"])
          /\ UNCHANGED <<joined, r1_pkgs, r2_inbox>>
        BY <1>3 DEF HandleAnnounce, sessionVars
    <2>. QED BY <1>1, <2>1, <2>2, TellOnce
<1>. QED BY <1>1, <1>2, <1>3, JoinOnce, Submit1Once, Submit2Once, FinalizeOnce, IgnoreOnce
         DEF ServerStep

-----------------------------------------------------------------------------
(***************************************************************************)
(* The clients' steps.                                                     *)
(***************************************************************************)

\* A client's queue after it has read a message.
LEMMA TailTold ==
    ASSUME TypeOK, ToldFirst, NEW p \in Participants, NEW type, Receives(p, type),
           toClient' = [toClient EXCEPT ![p] = Tail(@)],
           \A q \in Participants : q # p => r1_cache'[q] = r1_cache[q],
           type = "Round1All" => r1_cache'[p] = Ones
    PROVE  ToldFirst'
<1>1. toClient[p] \in Seq(FirstRound) /\ Follows(toClient[p])
    BY DEF ToldFirst
<1>2. toClient[p] # <<>> /\ Head(toClient[p]).type = type
    BY DEF Receives
<1>3. Tail(toClient[p]) \in Seq(FirstRound)
    BY <1>1, <1>2, HeadTailProperties
<1>4. /\ Follows(Tail(toClient[p]))
      /\ AtHead(Tail(toClient[p]), "ReadyRound2") => r1_cache'[p] = Ones
    BY <1>1, <1>2, TailFollows
<1>5. \A q \in Participants : toClient'[q] = IF q = p THEN Tail(toClient[p]) ELSE toClient[q]
    BY OnceTypes DEF Queues
<1>. QED BY <1>3, <1>4, <1>5 DEF ToldFirst

LEMMA SendsFirst ==
    ASSUME TypeOK, OnceInv, NEW p \in Participants, NEW type, Receives(p, type),
           NEW msgs \in Seq(FirstSubmit), Sends(p, msgs), UNCHANGED serverVars,
           \A q \in Participants : q # p => r1_cache'[q] = r1_cache[q],
           type = "Round1All" => r1_cache'[p] = Ones
    PROVE  /\ ServerFirst' /\ ToldFirst'
           /\ UNCHANGED <<started, phase, joined, r1_pkgs, r2_inbox>>
           /\ \A T : NoneCame(T)
           /\ \A T : Free(msgs, T) => NoneSent(T)
           /\ \A T : \A q \in Participants : q # p =>
                 (Unsent(q, T) => Unsent(q, T)') /\ (Once(q, T) => Once(q, T)')
           /\ \A T : Unsent(p, T) /\ Single(msgs, T) => Once(p, T)'
           /\ \A T : type \in T => ~Free(toClient[p], T)
           /\ \A T : type \in T /\ Single(toClient[p], T) => Free(toClient'[p], T)
<1>1. Queues(ClientMsg, ServerMsg) /\ ProcessesTypeOK /\ msgs \in Seq(ClientMsg)
    BY OnceTypes, SeqMonotone, FirstFacts
<1>2. toClient' = [toClient EXCEPT ![p] = Tail(@)]
    BY DEF Sends
<1>3. /\ \A T : Free(msgs, T) => NoneSent(T)
      /\ \A T : \A q \in Participants : q # p =>
            (Unsent(q, T) => Unsent(q, T)') /\ (Once(q, T) => Once(q, T)')
      /\ \A T : Unsent(p, T) /\ Single(msgs, T) => Once(p, T)'
    BY <1>1, SendsQueued
<1>4. /\ \A T : NoneCame(T)
      /\ \A T : type \in T => ~Free(toClient[p], T)
      /\ \A T : type \in T /\ Single(toClient[p], T) => Free(toClient'[p], T)
    BY <1>1, <1>2, ReceivesQueued
<1>5. UNCHANGED <<started, phase, joined, r1_pkgs, r2_inbox>>
    BY DEF Sends, serverVars, sessionVars
<1>6. \A d \in Conns : toServer'[d] \in Seq(FirstSubmit)
    BY <1>1, SessionSends DEF OnceInv, ServerFirst
<1>7. ServerFirst'
    BY <1>5, <1>6 DEF OnceInv, ServerFirst
<1>8. ToldFirst'
    BY <1>2, TailTold DEF OnceInv
<1>. QED BY <1>3, <1>4, <1>5, <1>7, <1>8

\* Answering LoginOk or DKGSessionCreated: the next thing p does to enter.
LEMMA AskOnce ==
    ASSUME TypeOK, OnceInv, NEW p \in Participants, NEW type \in TellIn, Receives(p, type),
           NEW m \in ClientMsg, m.type \in AskIn, Sends(p, <<m>>), UNCHANGED serverVars,
           UNCHANGED <<gen, dealt, derived, share, memoryVars>>
    PROVE  OnceInv'
<1>1. <<m>> \in Seq(FirstSubmit)
    BY FirstFacts, FewMessages DEF AskIn
<1>2. \A q \in Participants : r1_cache'[q] = r1_cache[q]
    BY DEF memoryVars
<1>3. type # "Round1All"
    BY DEF TellIn
<1>4. /\ ServerFirst' /\ ToldFirst'
      /\ UNCHANGED <<started, phase, joined, r1_pkgs, r2_inbox>>
      /\ \A T : NoneCame(T)
      /\ \A T : Free(<<m>>, T) => NoneSent(T)
      /\ \A T : \A q \in Participants : q # p =>
            (Unsent(q, T) => Unsent(q, T)') /\ (Once(q, T) => Once(q, T)')
      /\ \A T : Unsent(p, T) /\ Single(<<m>>, T) => Once(p, T)'
      /\ \A T : type \in T => ~Free(toClient[p], T)
      /\ \A T : type \in T /\ Single(toClient[p], T) => Free(toClient'[p], T)
    BY <1>1, <1>2, <1>3, SendsFirst
<1>5. NoneSent(Submit1) /\ NoneSent(Submit2)
    BY <1>4, FewQueued DEF AskIn, Submit1, Submit2
<1>6. ~Free(toClient[p], TellIn) /\ Single(toClient[p], TellIn)
    BY <1>4 DEF OnceInv, EntersOnce
<1>7. /\ Unsent(p, AskIn) /\ ~Entered(p) /\ started[p] # 0 /\ p \notin joined
    BY <1>6 DEF OnceInv, EntersOnce, Entered
<1>8. Free(toClient'[p], TellIn) /\ Once(p, AskIn)'
    BY <1>4, <1>6, <1>7, FewQueued
<1>9. \A q \in Participants : Entered(q) => Entered(q)'
    BY <1>4, <1>7 DEF Entered, NoneCame, NoneNew
<1>10. EntersOnce'
    <2>1. ASSUME NEW q \in Participants
          PROVE  /\ Once(q, AskIn)' /\ Single(toClient'[q], TellIn)
                 /\ Unsent(q, AskIn)' \/ Free(toClient'[q], TellIn)
                 /\ started'[q] = 0 => Unsent(q, AskIn)' /\ Free(toClient'[q], TellIn)
                 /\ q \in joined' => Entered(q)'
        <3>1. CASE q = p
            BY <1>4, <1>7, <1>8, <3>1, FreeIsSingle
        <3>2. CASE q # p
            BY <1>4, <1>9, <3>2 DEF OnceInv, EntersOnce, NoneCame, NoneNew
        <3>. QED BY <3>1, <3>2
    <2>. QED BY <2>1 DEF EntersOnce
<1>11. DrawsOnce' /\ \A q \in Participants : Submitted1(q) => Submitted1(q)'
    BY <1>4, <1>5, <1>9, DrawsKept DEF OnceInv
<1>12. DealsOnce' /\ \A q \in Participants : Submitted2(q) => Submitted2(q)'
    BY <1>4, <1>5, <1>11, DealsKept DEF OnceInv
<1>13. DerivesOnce'
    BY <1>4, <1>12, DerivesKept DEF OnceInv
<1>14. MemoryFirst'
    BY <1>4 DEF OnceInv, MemoryFirst, Memory, memoryVars
<1>. QED BY <1>4, <1>10, <1>11, <1>12, <1>13, <1>14 DEF OnceInv

\* p draws its polynomial, its first.
LEMMA DrawOnce ==
    ASSUME TypeOK, OnceInv, NEW p \in Participants, OnReadyRound1(p), UNCHANGED serverVars
    PROVE  OnceInv'
<1>. DEFINE m == [type |-> "Round1Submit", gen |-> gen[p] + 1]
<1>1. Receives(p, "ReadyRound1") /\ Sends(p, <<m>>) /\ phase[p] = "running"
    BY DEF OnReadyRound1, Receives
<1>2. ~Free(toClient[p], Ready1) /\ Single(toClient[p], Ready1)
    <2>1. toClient' = [toClient EXCEPT ![p] = Tail(@)]
        BY <1>1 DEF Sends
    <2>. QED BY <1>1, <2>1, OnceTypes, ReceivesQueued DEF Ready1, OnceInv, DrawsOnce
<1>3. gen[p] = 0 /\ \A q \in Participants : Entered(q)
    BY <1>2 DEF OnceInv, DrawsOnce
<1>4. m \in ClientMsg /\ m.type = "Round1Submit" /\ m.gen = 1
    <2>1. 1 \in Nat /\ 1 # 0 /\ gen[p] + 1 = 1
        BY <1>3
    <2>. QED BY <2>1, ClientMsgFacts
<1>5. <<m>> \in Seq(FirstSubmit)
    <2>1. m \in FirstSubmit
        BY <1>4 DEF FirstSubmit
    <2>. QED BY <2>1, FewMessages
<1>6. /\ \A q \in Participants : gen'[q] = IF q = p THEN 1 ELSE gen[q]
      /\ UNCHANGED <<dealt, derived, share, r1_cache, r2_secret, final_kp>>
    BY <1>3, OnceTypes DEF OnReadyRound1
<1>. HIDE DEF m
<1>7. /\ ServerFirst' /\ ToldFirst'
      /\ UNCHANGED <<started, phase, joined, r1_pkgs, r2_inbox>>
      /\ \A T : NoneCame(T)
      /\ \A T : Free(<<m>>, T) => NoneSent(T)
      /\ \A T : \A q \in Participants : q # p =>
            (Unsent(q, T) => Unsent(q, T)') /\ (Once(q, T) => Once(q, T)')
      /\ \A T : Unsent(p, T) /\ Single(<<m>>, T) => Once(p, T)'
      /\ \A T : "ReadyRound1" \in T => ~Free(toClient[p], T)
      /\ \A T : "ReadyRound1" \in T /\ Single(toClient[p], T) => Free(toClient'[p], T)
    <2>1. "ReadyRound1" = "Round1All" => r1_cache'[p] = Ones
        OBVIOUS
    <2>2. \A q \in Participants : q # p => r1_cache'[q] = r1_cache[q]
        BY <1>6
    <2>. QED BY <1>1, <1>5, <2>1, <2>2, SendsFirst
<1>8. NoneSent(AskIn) /\ NoneSent(Submit2)
    BY <1>4, <1>7, FewQueued DEF AskIn, Submit2
<1>9. EntersOnce' /\ \A q \in Participants : Entered(q) => Entered(q)'
    BY <1>7, <1>8, EntersKept DEF OnceInv
<1>10. \A q \in Participants : Submitted1(q) => Submitted1(q)'
    BY <1>3, <1>6, <1>7 DEF Submitted1
<1>11. DrawsOnce'
    <2>1. Free(toClient'[p], Ready1) /\ Once(p, Submit1)' /\ r1_pkgs'[p] = 0 /\ gen'[p] # 0
        <3>1. "ReadyRound1" \in Ready1 /\ Single(<<m>>, Submit1)
            BY FewQueued DEF Ready1
        <3>2. Unsent(p, Submit1) /\ r1_pkgs[p] = 0
            BY <1>3 DEF OnceInv, DrawsOnce, Submitted1
        <3>. QED BY <1>2, <1>6, <1>7, <3>1, <3>2
    <2>2. \A q \in Participants : q # p =>
              /\ Single(toClient'[q], Ready1)
              /\ ~Free(toClient'[q], Ready1) => gen'[q] = 0
              /\ Once(q, Submit1)'
              /\ gen'[q] = 0 => Unsent(q, Submit1)'
              /\ r1_pkgs'[q] # 0 => Submitted1(q)'
        BY <1>6, <1>7, <1>10 DEF OnceInv, DrawsOnce, NoneCame, NoneNew
    <2>. QED BY <1>3, <1>9, <2>1, <2>2, FreeIsSingle DEF DrawsOnce
<1>12. DealsOnce' /\ \A q \in Participants : Submitted2(q) => Submitted2(q)'
    BY <1>6, <1>7, <1>8, <1>10, DealsKept DEF OnceInv
<1>13. DerivesOnce'
    BY <1>6, <1>7, <1>12, DerivesKept DEF OnceInv
<1>14. MemoryFirst'
    <2>1. /\ my_id' = [my_id EXCEPT ![p] = TRUE]
          /\ r1_secret' = [r1_secret EXCEPT ![p] = 1]
        BY <1>3 DEF OnReadyRound1
    <2>2. Memory(p) /\ dealt[p] = {} /\ derived[p] = {}
        BY <1>3 DEF OnceInv, MemoryFirst, DealsOnce, DerivesOnce, Submitted1, Submitted2
    <2>3. my_id'[p] = TRUE /\ r1_secret'[p] = 1 /\ gen'[p] = 1
        BY <1>6, <2>1 DEF TypeOK, ClientTypeOK
    <2>4. Memory(p)'
        BY <1>6, <1>7, <2>2, <2>3 DEF Memory
    <2>5. \A q \in Participants : q # p => my_id'[q] = my_id[q] /\ r1_secret'[q] = r1_secret[q]
        BY <2>1 DEF TypeOK, ClientTypeOK
    <2>6. \A q \in Participants : q # p => Memory(q)'
        BY <1>6, <1>7, <2>5 DEF OnceInv, MemoryFirst, Memory
    <2>. QED BY <2>4, <2>6 DEF MemoryFirst
<1>. QED BY <1>7, <1>9, <1>11, <1>12, <1>13, <1>14 DEF OnceInv

LEMMA OnesFacts ==
    /\ Ones \in Packages /\ Ones \in Bits
    /\ \A pkgs \in Bits : Present(pkgs) = Participants => pkgs = Ones
    /\ Present(Ones) = Participants
    /\ \A p \in Participants : [Ones EXCEPT ![p] = 1] = Ones
    /\ \A p \in Participants, pkgs \in Bits :
          Present(pkgs) = Participants \ {p} => Part3Accepts(p, Ones, pkgs)
    /\ \A p \in Participants : Part2Accepts(p, Ones)
<1>1. /\ Ones \in Packages /\ Ones \in Bits
      /\ Present(Ones) = Participants
      /\ \A p \in Participants : [Ones EXCEPT ![p] = 1] = Ones
    BY DEF Ones, Packages, Bits, Present
<1>2. ASSUME NEW pkgs \in Bits, Present(pkgs) = Participants PROVE pkgs = Ones
    <2>1. \A q \in Participants : pkgs[q] = 1
        BY <1>2 DEF Present, Bits
    <2>. QED BY <2>1 DEF Bits, Ones
<1>3. ASSUME NEW p \in Participants, NEW pkgs \in Bits, Present(pkgs) = Participants \ {p}
      PROVE  Part3Accepts(p, Ones, pkgs)
    BY <1>3 DEF Present, Bits, Ones, Part3Accepts
<1>4. ASSUME NEW p \in Participants PROVE Part2Accepts(p, Ones)
    <2>1. Cardinality(Participants \ {p}) = Cardinality(Participants) - 1
        BY ParticipantsAssumption, FS_RemoveElement
    <2>. QED BY <1>1, <2>1 DEF Part2Accepts
<1>. QED BY <1>1, <1>2, <1>3, <1>4

\* p caches the commitments: everybody's first.
LEMMA CacheOnce ==
    ASSUME IInv, OnceInv, NEW p \in Participants, OnRound1All(p), UNCHANGED serverVars
    PROVE  OnceInv'
<1>. TypeOK
    BY DEF IInv
<1>1. Receives(p, "Round1All") /\ Sends(p, <<>>)
    BY DEF OnRound1All
<1>2. Head(toClient[p]).pkgs = Ones
    <2>1. /\ Head(toClient[p]) \in FirstRound /\ Head(toClient[p]) \in FromCoordinator(p)
          /\ Head(toClient[p]).type = "Round1All"
        BY <1>1, ReceivesFacts DEF OnceInv, ToldFirst, IInv, TypeOK, MessagesTrue
    <2>2. Head(toClient[p]).pkgs \in Bits /\ Present(Head(toClient[p]).pkgs) = Participants
        BY <2>1 DEF FirstRound, FromCoordinator
    <2>. QED BY <2>2, OnesFacts
<1>3. /\ r1_cache' = [r1_cache EXCEPT ![p] = Ones]
      /\ UNCHANGED <<gen, dealt, derived, share, my_id, r1_secret, r2_secret, final_kp>>
    BY <1>2 DEF OnRound1All
<1>4. r1_cache'[p] = Ones /\ \A q \in Participants : q # p => r1_cache'[q] = r1_cache[q]
    BY <1>3 DEF TypeOK, ClientTypeOK
<1>5. /\ ServerFirst' /\ ToldFirst'
      /\ UNCHANGED <<started, phase, joined, r1_pkgs, r2_inbox>>
      /\ \A T : NoneCame(T)
      /\ \A T : Free(<<>>, T) => NoneSent(T)
    BY <1>1, <1>4, EmptySeq, SendsFirst
<1>6. NoneSent(AskIn) /\ NoneSent(Submit1) /\ NoneSent(Submit2)
    BY <1>5, EmptySeq DEF Free
<1>7. EntersOnce' /\ \A q \in Participants : Entered(q) => Entered(q)'
    BY <1>5, <1>6, EntersKept DEF OnceInv
<1>8. DrawsOnce' /\ \A q \in Participants : Submitted1(q) => Submitted1(q)'
    BY <1>3, <1>5, <1>6, <1>7, DrawsKept DEF OnceInv
<1>9. DealsOnce' /\ \A q \in Participants : Submitted2(q) => Submitted2(q)'
    BY <1>3, <1>5, <1>6, <1>8, DealsKept DEF OnceInv
<1>10. DerivesOnce'
    BY <1>3, <1>5, <1>9, DerivesKept DEF OnceInv
<1>11. MemoryFirst'
    BY <1>3, <1>4, <1>5 DEF OnceInv, MemoryFirst, Memory
<1>. QED BY <1>5, <1>7, <1>8, <1>9, <1>10, <1>11 DEF OnceInv

\* p deals its polynomial, once.
LEMMA DealOnce ==
    ASSUME TypeOK, OnceInv, NEW p \in Participants, OnReadyRound2(p), UNCHANGED serverVars
    PROVE  OnceInv'
<1>. DEFINE m == [type |-> "Round2Submit", gen |-> r1_secret[p]]
<1>1. Receives(p, "ReadyRound2") /\ Sends(p, <<m>>) /\ phase[p] = "running"
    BY DEF OnReadyRound2, Receives
<1>2. /\ ~Free(toClient[p], Ready2) /\ Single(toClient[p], Ready2)
      /\ ~Free(toClient[p], Told2)
    <2>1. toClient' = [toClient EXCEPT ![p] = Tail(@)]
        BY <1>1 DEF Sends
    <2>. QED BY <1>1, <2>1, OnceTypes, ReceivesQueued DEF Ready2, Told2, OnceInv, DealsOnce
<1>3. dealt[p] = {} /\ \A q \in Participants : Submitted1(q)
    BY <1>2 DEF OnceInv, DealsOnce
<1>4. r1_secret[p] = 1 /\ r1_cache[p] = Ones
    BY <1>1 DEF OnReadyRound2, Round2Possible, Receives, AtHead, OnceInv, ToldFirst, MemoryFirst,
                Memory
<1>5. m \in ClientMsg /\ m.type = "Round2Submit" /\ m.gen = 1
    <2>1. 1 \in Nat /\ 1 # 0
        OBVIOUS
    <2>. QED BY <1>4, <2>1, ClientMsgFacts
<1>6. <<m>> \in Seq(FirstSubmit)
    <2>1. m \in FirstSubmit
        BY <1>5 DEF FirstSubmit
    <2>. QED BY <2>1, FewMessages
<1>7. /\ \A q \in Participants : dealt'[q] = IF q = p THEN {1} ELSE dealt[q]
      /\ UNCHANGED <<gen, derived, share, my_id, r1_cache, final_kp>>
    BY <1>3, <1>4, OnceTypes DEF OnReadyRound2
<1>. HIDE DEF m
<1>8. /\ ServerFirst' /\ ToldFirst'
      /\ UNCHANGED <<started, phase, joined, r1_pkgs, r2_inbox>>
      /\ \A T : NoneCame(T)
      /\ \A T : Free(<<m>>, T) => NoneSent(T)
      /\ \A T : \A q \in Participants : q # p =>
            (Unsent(q, T) => Unsent(q, T)') /\ (Once(q, T) => Once(q, T)')
      /\ \A T : Unsent(p, T) /\ Single(<<m>>, T) => Once(p, T)'
      /\ \A T : "ReadyRound2" \in T => ~Free(toClient[p], T)
      /\ \A T : "ReadyRound2" \in T /\ Single(toClient[p], T) => Free(toClient'[p], T)
    <2>1. "ReadyRound2" = "Round1All" => r1_cache'[p] = Ones
        OBVIOUS
    <2>2. \A q \in Participants : q # p => r1_cache'[q] = r1_cache[q]
        BY <1>7
    <2>. QED BY <1>1, <1>6, <2>1, <2>2, SendsFirst
<1>9. NoneSent(AskIn) /\ NoneSent(Submit1)
    BY <1>5, <1>8, FewQueued DEF AskIn, Submit1
<1>10. EntersOnce' /\ \A q \in Participants : Entered(q) => Entered(q)'
    BY <1>8, <1>9, EntersKept DEF OnceInv
<1>11. DrawsOnce' /\ \A q \in Participants : Submitted1(q) => Submitted1(q)'
    BY <1>7, <1>8, <1>9, <1>10, DrawsKept DEF OnceInv
<1>12. \A q \in Participants : Submitted2(q) => Submitted2(q)'
    BY <1>3, <1>7, <1>8 DEF Submitted2
<1>13. DealsOnce'
    <2>1. /\ Free(toClient'[p], Ready2) /\ Once(p, Submit2)' /\ dealt'[p] # {}
          /\ \A q \in Participants : r2_inbox'[q][p] = 0
        <3>1. "ReadyRound2" \in Ready2 /\ Single(<<m>>, Submit2)
            BY FewQueued DEF Ready2
        <3>2. Unsent(p, Submit2) /\ \A q \in Participants : r2_inbox[q][p] = 0
            BY <1>3 DEF OnceInv, DealsOnce, Submitted2
        <3>. QED BY <1>2, <1>7, <1>8, <3>1, <3>2
    <2>2. \A q \in Participants : q # p =>
              /\ Single(toClient'[q], Ready2)
              /\ ~Free(toClient'[q], Ready2) => dealt'[q] = {}
              /\ Once(q, Submit2)'
              /\ dealt'[q] = {} => Unsent(q, Submit2)'
              /\ \A r \in Participants : r2_inbox'[r][q] # 0 => Submitted2(q)'
        BY <1>7, <1>8, <1>12 DEF OnceInv, DealsOnce, NoneCame, NoneNew
    <2>. QED BY <1>3, <1>11, <2>1, <2>2, FreeIsSingle DEF DealsOnce
<1>14. DerivesOnce'
    BY <1>7, <1>8, <1>12, DerivesKept DEF OnceInv
<1>15. MemoryFirst'
    <2>1. /\ r1_secret' = [r1_secret EXCEPT ![p] = 0]
          /\ r2_secret' = [r2_secret EXCEPT ![p] = 1]
        BY <1>4 DEF OnReadyRound2
    <2>2. Memory(p)
        BY DEF OnceInv, MemoryFirst
    <2>3. r1_secret'[p] = 0 /\ r2_secret'[p] = 1 /\ dealt'[p] = {1}
        BY <1>7, <2>1 DEF TypeOK, ClientTypeOK
    <2>4. Memory(p)'
        BY <1>4, <1>7, <1>8, <2>2, <2>3 DEF Memory
    <2>5. \A q \in Participants : q # p => r1_secret'[q] = r1_secret[q] /\ r2_secret'[q] = r2_secret[q]
        BY <2>1 DEF TypeOK, ClientTypeOK
    <2>6. \A q \in Participants : q # p => Memory(q)'
        BY <1>7, <1>8, <2>5 DEF OnceInv, MemoryFirst, Memory
    <2>. QED BY <2>4, <2>6 DEF MemoryFirst
<1>. QED BY <1>8, <1>10, <1>11, <1>13, <1>14, <1>15 DEF OnceInv

\* p derives a key, once: everybody's first polynomials.
LEMMA DeriveOnce ==
    ASSUME TypeOK, OnceInv, NEW p \in Participants, OnRound2All(p), UNCHANGED serverVars
    PROVE  OnceInv'
<1>. DEFINE vk == Part3Key(p, r2_secret[p], r1_cache[p])
            m == [type |-> "FinalizeSubmit", vk |-> vk]
<1>1. Receives(p, "Round2All") /\ Sends(p, <<m>>) /\ phase[p] = "running"
    BY DEF OnRound2All, Receives
<1>2. ~Free(toClient[p], All2) /\ Single(toClient[p], All2)
    <2>1. toClient' = [toClient EXCEPT ![p] = Tail(@)]
        BY <1>1 DEF Sends
    <2>. QED BY <1>1, <2>1, OnceTypes, ReceivesQueued DEF All2, OnceInv, DerivesOnce
<1>3. derived[p] = {} /\ \A q \in Participants : Submitted2(q)
    BY <1>2 DEF OnceInv, DerivesOnce
<1>4. vk = Ones /\ r1_cache[p] = Ones
    <2>1. r2_secret[p] = 1 /\ r1_cache[p] = Ones
        BY DEF OnRound2All, Round3Possible, OnceInv, MemoryFirst, Memory
    <2>. QED BY <2>1, OnesFacts DEF Part3Key
<1>5. Ones # NoKey
    BY DEF Ones, NoKey, NoPackages
<1>6. m \in ClientMsg /\ m.type = "FinalizeSubmit"
    <2>1. Ones \in Key
        BY <1>5, OnesFacts DEF Key
    <2>. QED BY <1>4, <2>1, ClientMsgFacts
<1>7. <<m>> \in Seq(FirstSubmit)
    BY <1>6, FirstFacts, FewMessages
<1>8. /\ \A q \in Participants : derived'[q] = IF q = p THEN {Ones} ELSE derived[q]
      /\ UNCHANGED <<gen, dealt, share, my_id, r1_secret, r1_cache>>
    BY <1>3, <1>4, OnceTypes DEF OnRound2All
<1>9. final_kp' = [final_kp EXCEPT ![p] = Ones] /\ r2_secret' = [r2_secret EXCEPT ![p] = 0]
    BY <1>4 DEF OnRound2All
<1>. HIDE DEF m
<1>10. /\ ServerFirst' /\ ToldFirst'
       /\ UNCHANGED <<started, phase, joined, r1_pkgs, r2_inbox>>
       /\ \A T : NoneCame(T)
       /\ \A T : Free(<<m>>, T) => NoneSent(T)
       /\ \A T : "Round2All" \in T => ~Free(toClient[p], T)
       /\ \A T : "Round2All" \in T /\ Single(toClient[p], T) => Free(toClient'[p], T)
    <2>1. "Round2All" = "Round1All" => r1_cache'[p] = Ones
        OBVIOUS
    <2>2. \A q \in Participants : q # p => r1_cache'[q] = r1_cache[q]
        BY <1>8
    <2>. QED BY <1>1, <1>7, <2>1, <2>2, SendsFirst
<1>11. NoneSent(AskIn) /\ NoneSent(Submit1) /\ NoneSent(Submit2)
    BY <1>6, <1>10, FewQueued DEF AskIn, Submit1, Submit2
<1>12. EntersOnce' /\ \A q \in Participants : Entered(q) => Entered(q)'
    BY <1>10, <1>11, EntersKept DEF OnceInv
<1>13. DrawsOnce' /\ \A q \in Participants : Submitted1(q) => Submitted1(q)'
    BY <1>8, <1>10, <1>11, <1>12, DrawsKept DEF OnceInv
<1>14. DealsOnce' /\ \A q \in Participants : Submitted2(q) => Submitted2(q)'
    BY <1>8, <1>10, <1>11, <1>13, DealsKept DEF OnceInv
<1>15. DerivesOnce'
    <2>1. Free(toClient'[p], All2)
        BY <1>2, <1>10 DEF All2
    <2>2. \A q \in Participants : q # p =>
              /\ Single(toClient'[q], All2)
              /\ ~Free(toClient'[q], All2) => derived'[q] = {}
        BY <1>8, <1>10 DEF OnceInv, DerivesOnce, NoneCame, NoneNew
    <2>. QED BY <1>3, <1>14, <2>1, <2>2, FreeIsSingle DEF DerivesOnce
<1>16. MemoryFirst'
    <2>1. Memory(p)
        BY DEF OnceInv, MemoryFirst
    <2>2. final_kp'[p] = Ones /\ r2_secret'[p] = 0 /\ derived'[p] = {Ones}
        BY <1>8, <1>9 DEF TypeOK, ClientTypeOK
    <2>3. Memory(p)'
        BY <1>4, <1>5, <1>8, <1>10, <2>1, <2>2 DEF Memory
    <2>4. \A q \in Participants : q # p => final_kp'[q] = final_kp[q] /\ r2_secret'[q] = r2_secret[q]
        BY <1>9 DEF TypeOK, ClientTypeOK
    <2>5. \A q \in Participants : q # p => Memory(q)'
        BY <1>8, <1>10, <2>4 DEF OnceInv, MemoryFirst, Memory
    <2>. QED BY <2>3, <2>5 DEF MemoryFirst
<1>. QED BY <1>10, <1>12, <1>13, <1>14, <1>15, <1>16 DEF OnceInv

\* p's process ends, other than by an error, with the artifacts of everybody's
\* first polynomials or with none.
LEMMA ExitOnce ==
    ASSUME TypeOK, OnceInv, NEW p \in Participants, phase[p] = "running",
           NEW how \in {"finished", "closed", "crashed"}, NEW msgs \in Seq(ClientMsg),
           Exits(p, how, msgs), UNCHANGED serverVars, UNCHANGED <<gen, dealt, derived>>,
           msgs \in Seq(FirstSubmit),
           NoneNew(Unread(p), msgs, AskIn), NoneNew(Unread(p), msgs, Submit1),
           NoneNew(Unread(p), msgs, Submit2),
           \A q \in Participants :
              share'[q] \in {share[q], [key |-> Ones, group_vk |-> Ones, commitment |-> Ones]}
    PROVE  OnceInv'
<1>1. /\ Queues(ClientMsg, ServerMsg) /\ ProcessesTypeOK
      /\ [type |-> "Close"] \in ClientMsg /\ [type |-> "Close"] \in FirstSubmit
      /\ Ends(p, how, msgs) /\ how \in Phase \ {"running"}
    BY OnceTypes, ClientMsgFacts, FirstFacts DEF Exits, Phase
<1>2. \A T : "Close" \notin T /\ NoneNew(Unread(p), msgs, T) => NoneSent(T) /\ NoneCame(T)
    BY <1>1, EndsQueued
<1>3. NoneSent(AskIn) /\ NoneSent(Submit1) /\ NoneSent(Submit2)
    BY <1>2 DEF AskIn, Submit1, Submit2
<1>4. /\ UNCHANGED <<started, joined, r1_pkgs, r2_inbox>>
      /\ phase' = [phase EXCEPT ![p] = how]
      /\ toClient' = [toClient EXCEPT ![p] = <<>>]
    BY DEF Exits, Ends, serverVars, sessionVars
<1>5. \A T : Free(<<>>, T)
    BY EmptySeq DEF Free
<1>6. \A q \in Participants : toClient'[q] = IF q = p THEN <<>> ELSE toClient[q]
    BY <1>1, <1>4 DEF Queues
<1>7. \A T : NoneCame(T)
    BY <1>5, <1>6, FreeIsSingle DEF NoneCame, NoneNew
<1>8. EntersOnce' /\ \A q \in Participants : Entered(q) => Entered(q)'
    BY <1>3, <1>4, <1>7, EntersKept DEF OnceInv
<1>9. DrawsOnce' /\ \A q \in Participants : Submitted1(q) => Submitted1(q)'
    BY <1>3, <1>4, <1>7, <1>8, DrawsKept DEF OnceInv
<1>10. DealsOnce' /\ \A q \in Participants : Submitted2(q) => Submitted2(q)'
    BY <1>3, <1>4, <1>7, <1>9, DealsKept DEF OnceInv
<1>11. DerivesOnce'
    BY <1>7, <1>10, DerivesKept DEF OnceInv
<1>12. ServerFirst'
    <2>1. \A d \in Conns : toServer'[d] \in Seq(FirstSubmit)
        BY <1>1, SessionEnds DEF OnceInv, ServerFirst
    <2>. QED BY <1>4, <2>1 DEF OnceInv, ServerFirst
<1>13. /\ my_id' = [my_id EXCEPT ![p] = FALSE]
       /\ r1_secret' = [r1_secret EXCEPT ![p] = 0]
       /\ r1_cache' = [r1_cache EXCEPT ![p] = NoPackages]
       /\ r2_secret' = [r2_secret EXCEPT ![p] = 0]
       /\ final_kp' = [final_kp EXCEPT ![p] = NoKey]
    BY DEF Exits
<1>14. \A q \in Participants :
        /\ q = p => /\ phase'[q] = how /\ r1_secret'[q] = 0 /\ r1_cache'[q] = NoPackages
                    /\ r2_secret'[q] = 0 /\ final_kp'[q] = NoKey
        /\ q # p => /\ phase'[q] = phase[q] /\ my_id'[q] = my_id[q]
                    /\ r1_secret'[q] = r1_secret[q] /\ r1_cache'[q] = r1_cache[q]
                    /\ r2_secret'[q] = r2_secret[q] /\ final_kp'[q] = final_kp[q]
    BY <1>1, <1>4, <1>13 DEF TypeOK, ClientTypeOK, ProcessesTypeOK
<1>15. ToldFirst'
    <2>1. Follows(<<>>) /\ ~AtHead(<<>>, "ReadyRound2") /\ <<>> \in Seq(FirstRound)
        BY EmptySeq DEF Follows, AtHead
    <2>. QED BY <1>6, <1>14, <2>1 DEF OnceInv, ToldFirst
<1>16. MemoryFirst'
    <2>1. ASSUME NEW q \in Participants PROVE Memory(q)'
        <3>1. Memory(q)
            BY DEF OnceInv, MemoryFirst
        <3>2. CASE q = p
            BY <1>14, <3>1, <3>2 DEF Memory
        <3>3. CASE q # p
            BY <1>14, <3>1, <3>3 DEF Memory
        <3>. QED BY <3>2, <3>3
    <2>. QED BY <2>1 DEF MemoryFirst
<1>. QED BY <1>8, <1>9, <1>10, <1>11, <1>12, <1>15, <1>16 DEF OnceInv

LEMMA FinishOnce ==
    ASSUME IInv, OnceInv, NEW p \in Participants, OnFinalized(p), UNCHANGED serverVars
    PROVE  OnceInv'
<1>. DEFINE vk == Head(toClient[p]).vk
            msgs == Append(Unread(p), [type |-> "Logout"])
<1>1. TypeOK /\ Receives(p, "Finalized") /\ phase[p] = "running"
    BY DEF IInv, OnFinalized, Receives
<1>2. session = "completed" /\ vk = completed_vk
    <2>1. Head(toClient[p]) \in FromCoordinator(p) /\ Head(toClient[p]).type = "Finalized"
        BY <1>1, ReceivesFacts DEF IInv, TypeOK, MessagesTrue
    <2>. QED BY <2>1 DEF FromCoordinator
<1>3. vk = Ones
    BY <1>2 DEF IInv, CompletedKeyDerivedByAll, OnceInv, MemoryFirst, Memory
<1>4. final_kp[p] = Ones /\ r1_cache[p] = Ones
    BY DEF OnFinalized, OnceInv, MemoryFirst, Memory
<1>5. share' = [share EXCEPT ![p] = [key |-> Ones, group_vk |-> Ones, commitment |-> Ones]]
    BY <1>3, <1>4 DEF OnFinalized, Artifacts
<1>6. \A q \in Participants :
        share'[q] \in {share[q], [key |-> Ones, group_vk |-> Ones, commitment |-> Ones]}
    BY <1>1, <1>5 DEF TypeOK, ClientTypeOK
<1>7. Conn(p) \in Conns
    BY <1>1, UnreadFacts DEF TypeOK
<1>8. /\ Unread(p) \in Seq(ClientMsg) /\ Unread(p) \in Seq(FirstSubmit)
      /\ [type |-> "Logout"] \in ClientMsg /\ [type |-> "Logout"] \in FirstSubmit
    BY <1>1, <1>7, UnreadFacts, ClientMsgFacts, FirstFacts, OnceTypes
       DEF TypeOK, Queues, OnceInv, ServerFirst
<1>9. msgs \in Seq(ClientMsg) /\ msgs \in Seq(FirstSubmit)
    BY <1>8, QueueFacts
<1>10. /\ NoneNew(Unread(p), msgs, AskIn) /\ NoneNew(Unread(p), msgs, Submit1)
       /\ NoneNew(Unread(p), msgs, Submit2)
    BY <1>8, AppendQueued DEF AskIn, Submit1, Submit2
<1>11. Exits(p, "finished", msgs) /\ UNCHANGED <<gen, dealt, derived>>
    BY DEF OnFinalized
<1>. QED BY <1>1, <1>6, <1>9, <1>10, <1>11, ExitOnce

LEMMA StopOnce ==
    ASSUME TypeOK, OnceInv, NEW p \in Participants, OnClose(p) \/ Crash(p), UNCHANGED serverVars
    PROVE  OnceInv'
<1>1. /\ phase[p] = "running" /\ UNCHANGED <<gen, dealt, derived, share>>
      /\ \E how \in {"closed", "crashed"}, n \in 0..Len(Unread(p)) :
            \/ Exits(p, how, Unread(p))
            \/ Exits(p, how, SubSeq(Unread(p), 1, n))
    <2>1. CASE OnClose(p)
        <3>1. Conn(p) \in Conns /\ Unread(p) \in Seq(ClientMsg)
            BY <2>1, UnreadFacts, OnceTypes DEF TypeOK, Queues, OnClose, Receives
        <3>2. 0 \in 0..Len(Unread(p))
            BY <3>1, LenProperties
        <3>. QED BY <2>1, <3>2 DEF OnClose, Receives
    <2>2. CASE Crash(p)
        BY <2>2 DEF Crash
    <2>. QED BY <2>1, <2>2
<1>2. PICK how \in {"closed", "crashed"}, n \in 0..Len(Unread(p)) :
        \/ Exits(p, how, Unread(p))
        \/ Exits(p, how, SubSeq(Unread(p), 1, n))
    BY <1>1
<1>3. Conn(p) \in Conns
    BY <1>1, UnreadFacts DEF TypeOK
<1>4. Unread(p) \in Seq(ClientMsg) /\ Unread(p) \in Seq(FirstSubmit)
    BY <1>1, <1>3, UnreadFacts, OnceTypes DEF TypeOK, Queues, OnceInv, ServerFirst
<1>5. SubSeq(Unread(p), 1, n) \in Seq(ClientMsg) /\ SubSeq(Unread(p), 1, n) \in Seq(FirstSubmit)
    BY <1>4, QueueFacts, EmptySeq, ClientMsgFacts, FirstFacts
<1>6. \A T : NoneNew(Unread(p), SubSeq(Unread(p), 1, n), T) /\ NoneNew(Unread(p), Unread(p), T)
    BY <1>4, PrefixQueued DEF NoneNew
<1>. QED BY <1>1, <1>2, <1>4, <1>5, <1>6, ExitOnce

\* Every message that comes can be acted on.
LEMMA NeverAborts ==
    ASSUME IInv, OnceInv, NEW p \in Participants, Abort(p)
    PROVE  FALSE
<1>1. phase[p] = "running" /\ Memory(p) /\ toClient[p] \in Seq(ServerMsg) /\ toClient[p] # <<>>
    BY DEF Abort, Receives, OnceInv, MemoryFirst, IInv, TypeOK, NetTypeOK
<1>. DEFINE head == Head(toClient[p])
<1>2. /\ \A T : head.type \in T => ~Free(toClient[p], T)
      /\ head \in FirstRound /\ head \in FromCoordinator(p)
    BY <1>1, HeadQueued, HeadTailProperties DEF OnceInv, ToldFirst, IInv, MessagesTrue
<1>. HIDE DEF head
<1>3. ASSUME \A q \in Participants : Submitted1(q) PROVE my_id[p]
    BY <1>1, <1>3 DEF Submitted1, Memory
<1>4. CASE head.type \in Told2
    <2>1. \A q \in Participants : Submitted1(q)
        BY <1>2, <1>4 DEF OnceInv, DealsOnce
    <2>2. my_id[p] /\ gen[p] # 0
        BY <1>3, <2>1 DEF Submitted1
    <2>3. head.type = "ReadyRound2"
        BY <1>4, <2>2 DEF Abort, Receives, head, Told2
    <2>4. dealt[p] = {} /\ r1_cache[p] = Ones
        BY <1>1, <1>2, <2>3 DEF OnceInv, DealsOnce, ToldFirst, AtHead, Ready2, head
    <2>5. Round2Possible(p)
        BY <1>1, <2>2, <2>4, OnesFacts DEF Round2Possible, Memory
    <2>. QED BY <2>3, <2>5 DEF Abort, Receives, head
<1>5. CASE head.type = "Round2All"
    <2>1. derived[p] = {} /\ \A q \in Participants : Submitted2(q)
        BY <1>2, <1>5 DEF OnceInv, DerivesOnce, All2
    <2>2. \A q \in Participants : Submitted1(q)
        BY <2>1 DEF OnceInv, DealsOnce, Submitted2
    <2>3. my_id[p] /\ r2_secret[p] # 0 /\ r1_cache[p] = Ones
        BY <1>1, <1>3, <2>1, <2>2 DEF Memory, Submitted2
    <2>4. head.pkgs \in Bits /\ Present(head.pkgs) = Participants \ {p}
        BY <1>2, <1>5 DEF FirstRound, FromCoordinator
    <2>5. Round3Possible(p)
        BY <2>3, <2>4, OnesFacts DEF Round3Possible, head
    <2>. QED BY <1>5, <2>5 DEF Abort, Receives, head
<1>6. CASE head.type = "Finalized"
    <2>1. session = "completed"
        BY <1>2, <1>6 DEF FromCoordinator
    <2>2. derived[p] # {}
        BY <2>1 DEF IInv, CompletedKeyDerivedByAll
    <2>. QED BY <1>1, <1>6, <2>2 DEF Memory, Abort, Receives, head
<1>. QED BY <1>4, <1>5, <1>6 DEF Abort, Receives, head, Told2

LEMMA ClientStepOnce ==
    ASSUME IInv, OnceInv, NEW p \in Participants, ClientStep(p)
    PROVE  OnceInv'
<1>1. TypeOK /\ UNCHANGED serverVars
    BY DEF IInv, ClientStep
<1>2. CASE OnLoginOk(p)
    <2>1. PICK t \in {"JoinDKGSession", "AnnounceDKGSession"} : Sends(p, <<[type |-> t]>>)
        BY <1>2 DEF OnLoginOk
    <2>2. [type |-> t] \in ClientMsg /\ t \in AskIn /\ "LoginOk" \in TellIn
        BY ClientMsgFacts DEF AskIn, TellIn
    <2>3. Receives(p, "LoginOk") /\ UNCHANGED <<gen, dealt, derived, share, memoryVars>>
        BY <1>2 DEF OnLoginOk, clientVars
    <2>. QED BY <1>1, <2>1, <2>2, <2>3, AskOnce
<1>3. CASE OnSessionCreated(p)
    <2>1. /\ [type |-> "JoinDKGSession"] \in ClientMsg /\ "JoinDKGSession" \in AskIn
          /\ "DKGSessionCreated" \in TellIn
        BY ClientMsgFacts DEF AskIn, TellIn
    <2>2. /\ Receives(p, "DKGSessionCreated") /\ Sends(p, <<[type |-> "JoinDKGSession"]>>)
          /\ UNCHANGED <<gen, dealt, derived, share, memoryVars>>
        BY <1>3 DEF OnSessionCreated
    <2>. QED BY <1>1, <2>1, <2>2, AskOnce
<1>4. ~Abort(p)
    BY NeverAborts
<1>. QED BY <1>1, <1>2, <1>3, <1>4, DrawOnce, CacheOnce, DealOnce, DeriveOnce, FinishOnce,
            StopOnce DEF ClientStep

\* p's client is started for the first time: nobody has drawn yet.
LEMMA StartOnce ==
    ASSUME TypeOK, OnceInv, NEW p \in Participants, Start(p), started[p] = 0, UNCHANGED serverVars
    PROVE  OnceInv'
<1>1. /\ Starts(p) /\ Queues(ClientMsg, ServerMsg) /\ ProcessesTypeOK
      /\ [type |-> "Login"] \in ClientMsg /\ [type |-> "Login"] \in FirstSubmit
    BY OnceTypes, ClientMsgFacts, FirstFacts DEF Start
<1>2. /\ \A T : "Login" \notin T => NoneSent(T)
      /\ \A T : NoneCame(T)
      /\ \A q \in Participants : q # p =>
            (Unsent(q, AskIn) => Unsent(q, AskIn)') /\ (Once(q, AskIn) => Once(q, AskIn)')
      /\ Unsent(p, AskIn) => Once(p, AskIn)'
    BY <1>1, StartsQueued
<1>3. NoneSent(Submit1) /\ NoneSent(Submit2)
    BY <1>2 DEF Submit1, Submit2
<1>4. /\ UNCHANGED <<toClient, joined, r1_pkgs, r2_inbox, clientVars>>
      /\ started' = [started EXCEPT ![p] = 1]
      /\ phase' = [phase EXCEPT ![p] = "running"]
    BY DEF Start, Starts, serverVars, sessionVars
<1>5. \A q \in Participants :
        /\ started'[q] = IF q = p THEN 1 ELSE started[q]
        /\ phase'[q] = IF q = p THEN "running" ELSE phase[q]
    BY <1>1, <1>4 DEF ProcessesTypeOK
<1>6. ~Entered(p) /\ p \notin joined /\ Unsent(p, AskIn) /\ Free(toClient[p], TellIn)
    BY DEF OnceInv, EntersOnce, Entered
<1>7. \A q \in Participants : Entered(q) => Entered(q)'
    BY <1>2, <1>4, <1>5, <1>6 DEF Entered
<1>8. EntersOnce'
    <2>1. ASSUME NEW q \in Participants
          PROVE  /\ Once(q, AskIn)' /\ Single(toClient'[q], TellIn)
                 /\ Unsent(q, AskIn)' \/ Free(toClient'[q], TellIn)
                 /\ started'[q] = 0 => Unsent(q, AskIn)' /\ Free(toClient'[q], TellIn)
                 /\ q \in joined' => Entered(q)'
        <3>1. CASE q = p
            BY <1>2, <1>4, <1>5, <1>6, <3>1 DEF OnceInv, EntersOnce
        <3>2. CASE q # p
            BY <1>2, <1>4, <1>5, <1>7, <3>2 DEF OnceInv, EntersOnce
        <3>. QED BY <3>1, <3>2
    <2>. QED BY <2>1 DEF EntersOnce
<1>9. UNCHANGED <<gen, dealt, derived, r1_cache>>
    BY <1>4 DEF clientVars, memoryVars
<1>10. DrawsOnce' /\ \A q \in Participants : Submitted1(q) => Submitted1(q)'
    BY <1>2, <1>3, <1>4, <1>7, <1>9, DrawsKept DEF OnceInv
<1>11. DealsOnce' /\ \A q \in Participants : Submitted2(q) => Submitted2(q)'
    BY <1>2, <1>3, <1>4, <1>9, <1>10, DealsKept DEF OnceInv
<1>12. DerivesOnce'
    BY <1>2, <1>9, <1>11, DerivesKept DEF OnceInv
<1>13. ServerFirst' /\ ToldFirst'
    <2>1. \A d \in Conns : toServer'[d] \in Seq(FirstSubmit)
        BY <1>1, SessionStarts DEF OnceInv, ServerFirst
    <2>. QED BY <1>4, <1>9, <2>1 DEF OnceInv, ServerFirst, ToldFirst
<1>14. MemoryFirst'
    <2>1. gen[p] = 0 /\ dealt[p] = {} /\ derived[p] = {}
        BY <1>6 DEF OnceInv, DrawsOnce, DealsOnce, DerivesOnce, Submitted1, Submitted2
    <2>2. ASSUME NEW q \in Participants PROVE Memory(q)'
        BY <1>4, <1>5, <2>1 DEF OnceInv, MemoryFirst, Memory, clientVars, memoryVars
    <2>. QED BY <2>2 DEF MemoryFirst
<1>. QED BY <1>8, <1>10, <1>11, <1>12, <1>13, <1>14 DEF OnceInv

-----------------------------------------------------------------------------
CrashFreeInv == IInv /\ (NobodyRestarted => OnceInv)

LEMMA InitOnce == Init => CrashFreeInv
<1>. SUFFICES ASSUME Init PROVE OnceInv
    BY InitIInv DEF CrashFreeInv
<1>1. \A T : Free(<<>>, T) /\ Single(<<>>, T)
    BY EmptySeq DEF Free, Single
<1>2. \A T : \A p \in Participants :
        /\ Unsent(p, T) /\ Once(p, T) /\ Free(toClient[p], T) /\ Single(toClient[p], T)
    BY <1>1 DEF Init, NetInit, Unsent, Once
<1>3. \A p \in Participants :
        /\ started[p] = 0 /\ gen[p] = 0 /\ dealt[p] = {} /\ derived[p] = {} /\ r1_pkgs[p] = 0
        /\ \A q \in Participants : r2_inbox[q][p] = 0
    BY DEF Init, NetInit, ClientInit, ServerInit, NoPackages
<1>4. joined = {}
    BY DEF Init, ServerInit
<1>5. EntersOnce /\ DrawsOnce /\ DealsOnce /\ DerivesOnce
    BY <1>2, <1>3, <1>4 DEF EntersOnce, DrawsOnce, DealsOnce, DerivesOnce
<1>6. ServerFirst
    BY EmptySeq, FirstFacts DEF Init, NetInit, ServerInit, ServerFirst
<1>7. ToldFirst
    <2>1. Follows(<<>>) /\ ~AtHead(<<>>, "ReadyRound2") /\ <<>> \in Seq(FirstRound)
        BY EmptySeq DEF Follows, AtHead
    <2>. QED BY <2>1 DEF Init, NetInit, ToldFirst
<1>8. MemoryFirst
    BY <1>3 DEF Init, NetInit, ClientInit, MemoryFirst, Memory
<1>. QED BY <1>5, <1>6, <1>7, <1>8 DEF OnceInv

\* Clients are started, never unstarted.
LEMMA RestartedStays ==
    ASSUME TypeOK, [Next]_vars, NobodyRestarted'
    PROVE  NobodyRestarted
<1>1. \A p \in Participants : started'[p] = started[p] \/ started'[p] = started[p] + 1
    <2>1. CASE UNCHANGED started
        BY <2>1
    <2>2. ASSUME NEW p \in Participants, Start(p) PROVE started' = [started EXCEPT ![p] = @ + 1]
        BY <2>2 DEF Start, Starts
    <2>3. UNCHANGED started \/ \E p \in Participants : Start(p)
        BY DEF Next, vars, netVars, ServerStep, HandleLogin, Register, HandleAnnounce, HandleJoin,
               HandleRound1Submit, HandleRound2Submit, HandleFinalizeSubmit, Refuse, HandleLogout,
               HandleDisconnect, Reads, Expire, ClientStep, OnLoginOk, OnSessionCreated,
               OnReadyRound1, OnRound1All, OnReadyRound2, OnRound2All, Sends, OnFinalized, Abort,
               OnClose, Crash, Exits, Ends
    <2>. QED BY <2>1, <2>2, <2>3, OnceTypes DEF ProcessesTypeOK
<1>2. \A p \in Participants : started[p] \in Nat
    BY MaxStartsAssumption, OnceTypes DEF ProcessesTypeOK
<1>. QED BY <1>1, <1>2 DEF NobodyRestarted

LEMMA NextOnce == CrashFreeInv /\ [Next]_vars => CrashFreeInv'
<1>. SUFFICES ASSUME CrashFreeInv, [Next]_vars, NobodyRestarted' PROVE OnceInv'
    BY StepIInv DEF CrashFreeInv
<1>1. IInv /\ IInv' /\ TypeOK /\ OnceInv
    BY StepIInv, RestartedStays DEF CrashFreeInv, IInv
<1>2. CASE UNCHANGED vars
    <2>1. UNCHANGED <<toServer, toClient, joined, r1_pkgs, r2_inbox, started, phase, clientVars>>
        BY <1>2 DEF vars, netVars, serverVars, sessionVars
    <2>2. (\A T : NoneSent(T)) /\ Answered(Parting)
        BY <2>1, SilentStep DEF Answered
    <2>. QED BY <1>1, <2>1, <2>2, PartingStep
<1>3. ASSUME NEW p \in Participants, Start(p), UNCHANGED serverVars PROVE OnceInv'
    <2>1. started'[p] <= 1 /\ started'[p] = started[p] + 1 /\ started[p] \in Nat
        BY <1>1, <1>3, MaxStartsAssumption, OnceTypes
           DEF NobodyRestarted, Start, Starts, ProcessesTypeOK
    <2>2. started[p] = 0
        BY <2>1
    <2>. QED BY <1>1, <1>3, <2>2, StartOnce
<1>. QED BY <1>1, <1>2, <1>3, ServerStepOnce, ExpireOnce, ClientStepOnce, StopOnce DEF Next

\* The files belong together unless some client is started a second time: the key
\* share, the group key and the commitment are of everybody's first polynomials.
THEOREM WrittenShareIsOfGroup == Spec => [](NobodyRestarted => WrittenShareBelongsToGroup)
<1>1. CrashFreeInv => (NobodyRestarted => WrittenShareBelongsToGroup)
    BY DEF CrashFreeInv, OnceInv, MemoryFirst, Memory, WrittenShareBelongsToGroup, HasShare
<1>. QED BY <1>1, InitOnce, NextOnce, PTL DEF Spec

\* Unless some client is started a second time, every message finds its client
\* ready for it: no client ends with an error, also when others have crashed or
\* the session expires.
THEOREM ClientsNeverAbort == Spec => [](NobodyRestarted => NoClientAborts)
<1>1. CrashFreeInv => (NobodyRestarted => NoClientAborts)
    BY DEF CrashFreeInv, OnceInv, MemoryFirst, Memory, NoClientAborts
<1>. QED BY <1>1, InitOnce, NextOnce, PTL DEF Spec
=============================================================================
