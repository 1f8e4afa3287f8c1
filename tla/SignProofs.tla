----------------------------- MODULE SignProofs -----------------------------
(***************************************************************************)
(* What SignCeremony guarantees for any finite set of participants, any    *)
(* number of restarts and any set of faulty participants: nonces sign      *)
(* once, a signature is over a package that everybody signed, and the      *)
(* session implements SignOutcome; and, while nobody has been restarted,   *)
(* no signer of a session that has not expired ends with an error.         *)
(***************************************************************************)
EXTENDS SignCeremony, SessionProofs

-----------------------------------------------------------------------------
(***************************************************************************)
(* Nonces, whatever messages the coordinator sends.  NoncesSignOnce is not *)
(* inductive by itself: what matters is that the nonces a signer holds are *)
(* none it has signed with, and that nonces are drawn in order.            *)
(***************************************************************************)

\* Nonces are numbered as they are drawn, and those held have not signed yet.
NoncesUnused ==
    /\ gen \in [Participants -> Nat]
    /\ my_nonces \in [Participants -> Nat]
    /\ signed = [p \in Participants |-> signed[p]]
    /\ \A p \in Participants :
          /\ my_nonces[p] <= gen[p]
          /\ \A s \in signed[p] :
                s.nonces \in Generation /\ s.nonces <= gen[p] /\ s.nonces # my_nonces[p]

NonceInv == NoncesUnused /\ NoncesSignOnce

LEMMA InitNonceInv == Init => NonceInv
BY DEF Init, ClientInit, NonceInv, NoncesUnused, NoncesSignOnce

\* Fresh nonces are above all that were drawn before.
LEMMA DrawNonceInv ==
    ASSUME NonceInv, NEW p \in Participants, OnSignReadyRound1(p)
    PROVE  NonceInv'
<1>1. /\ gen' = [gen EXCEPT ![p] = gen[p] + 1]
      /\ my_nonces' = [my_nonces EXCEPT ![p] = gen[p] + 1]
      /\ signed' = signed
    BY DEF OnSignReadyRound1
<1>2. NoncesUnused'
    BY <1>1 DEF NonceInv, NoncesUnused, Generation
<1>. QED BY <1>1, <1>2 DEF NonceInv, NoncesSignOnce

\* Signing uses nonces that have not signed, and gives them up.
LEMMA SignNonceInv ==
    ASSUME NonceInv, NEW p \in Participants, OnSignSigningPackage(p)
    PROVE  NonceInv'
<1>. DEFINE new == [nonces |-> my_nonces[p], pkg |-> Head(toClient[p]).pkg]
<1>1. /\ signed' = [signed EXCEPT ![p] = signed[p] \cup {new}]
      /\ my_nonces' = [my_nonces EXCEPT ![p] = 0]
      /\ gen' = gen
      /\ new.nonces = my_nonces[p]
      /\ my_nonces[p] # 0
    BY DEF OnSignSigningPackage, CanSign, NoncesAfterSigning
<1>. HIDE DEF new
<1>2. NoncesUnused'
    <2>1. /\ my_nonces[p] \in Nat /\ gen[p] \in Nat /\ my_nonces[p] <= gen[p]
          /\ new.nonces \in Generation /\ new.nonces <= gen[p]
        BY <1>1 DEF NonceInv, NoncesUnused, Generation
    <2>2. ASSUME NEW q \in Participants
          PROVE  /\ my_nonces'[q] <= gen'[q]
                 /\ \A s \in signed'[q] :
                       s.nonces \in Generation /\ s.nonces <= gen'[q] /\ s.nonces # my_nonces'[q]
        <3>1. CASE q # p
            BY <1>1, <2>2, <3>1 DEF NonceInv, NoncesUnused
        <3>2. CASE q = p
            <4>1. my_nonces'[p] = 0 /\ gen'[p] = gen[p] /\ signed'[p] = signed[p] \cup {new}
                BY <1>1 DEF NonceInv, NoncesUnused
            <4>2. \A s \in signed'[p] : s.nonces \in Generation /\ s.nonces <= gen[p]
                BY <2>1, <4>1 DEF NonceInv, NoncesUnused
            <4>. QED BY <2>1, <3>2, <4>1, <4>2 DEF Generation
        <3>. QED BY <3>1, <3>2
    <2>3. signed' = [q \in Participants |-> signed'[q]]
        BY <1>1 DEF NonceInv, NoncesUnused
    <2>4. gen' \in [Participants -> Nat] /\ my_nonces' \in [Participants -> Nat]
        BY <1>1 DEF NonceInv, NoncesUnused
    <2>. QED BY <2>2, <2>3, <2>4 DEF NoncesUnused
<1>3. ASSUME NEW q \in Participants, NEW s \in signed'[q], NEW t \in signed'[q],
             s.nonces = t.nonces
      PROVE  s = t
    <2>1. CASE q # p
        BY <1>1, <1>3, <2>1 DEF NonceInv, NoncesUnused, NoncesSignOnce
    <2>2. CASE q = p
        <3>1. signed'[p] = signed[p] \cup {new}
            BY <1>1 DEF NonceInv, NoncesUnused
        <3>2. \A old \in signed[p] : old.nonces # new.nonces
            BY <1>1 DEF NonceInv, NoncesUnused
        <3>. QED BY <1>3, <2>2, <3>1, <3>2 DEF NonceInv, NoncesSignOnce
    <2>. QED BY <2>1, <2>2
<1>. QED BY <1>2, <1>3 DEF NonceInv, NoncesSignOnce

\* Every other step leaves the nonces alone, or ends the process that holds them.
LEMMA OtherNonceInv ==
    ASSUME NonceInv, UNCHANGED <<gen, signed>>,
           \/ UNCHANGED my_nonces
           \/ \E p \in Participants : my_nonces' = [my_nonces EXCEPT ![p] = 0]
    PROVE  NonceInv'
BY DEF NonceInv, NoncesUnused, NoncesSignOnce, Generation

LEMMA StepNonceInv == NonceInv /\ [Next]_vars => NonceInv'
<1>. SUFFICES ASSUME NonceInv, [Next]_vars PROVE NonceInv'
    OBVIOUS
<1>1. CASE UNCHANGED clientVars
    BY <1>1, OtherNonceInv DEF clientVars
<1>2. ASSUME NEW p \in Participants, ClientStep(p)
      PROVE  NonceInv'
    <2>1. CASE OnLoginOk(p)
        BY <2>1, OtherNonceInv DEF OnLoginOk, clientVars
    <2>2. CASE OnSignSessionCreated(p)
        BY <2>2, OtherNonceInv DEF OnSignSessionCreated
    <2>3. CASE OnSignReadyRound1(p)
        BY <2>3, DrawNonceInv
    <2>4. CASE OnSignSigningPackage(p)
        BY <2>4, SignNonceInv
    <2>5. CASE OnSignatureReady(p)
        BY <2>5, OtherNonceInv DEF OnSignatureReady, Exits
    <2>6. CASE Abort(p)
        BY <2>6, OtherNonceInv DEF Abort, Exits
    <2>. QED BY <1>2, <2>1, <2>2, <2>3, <2>4, <2>5, <2>6 DEF ClientStep
<1>3. ASSUME NEW p \in Participants, Crash(p)
      PROVE  NonceInv'
    BY <1>3, OtherNonceInv DEF Crash, Exits
<1>. QED BY <1>1, <1>2, <1>3 DEF Next, ServerStep, Start, vars

\* Nonces sign one package, however often the coordinator sends packages and a
\* signer is started again: a signer that signed twice with the same nonces would
\* give its secret share away (signing/src/main.rs:925 takes them).
THEOREM NoncesServeOnce == Spec => []NoncesSignOnce
<1>1. NonceInv => NoncesSignOnce
    BY DEF NonceInv
<1>. QED BY <1>1, InitNonceInv, StepNonceInv, PTL DEF Spec

-----------------------------------------------------------------------------
(***************************************************************************)
(* The messages.                                                           *)
(***************************************************************************)

LEMMA PackagesFacts ==
    /\ NoPackages \in Packages /\ NoPackage \in Packages
    /\ NoShares \in [Participants -> Packages]
    /\ \A pkgs \in Packages, p \in Participants, g \in Nat : [pkgs EXCEPT ![p] = g] \in Packages
    /\ \A pkgs \in Packages : Present(pkgs) \in SUBSET Participants
    /\ \A pkgs \in Packages : Present(pkgs) = Participants => pkgs \in SigningPackage
<1>1. ASSUME NEW pkgs \in Packages, Present(pkgs) = Participants
      PROVE  pkgs \in SigningPackage
    <2>1. pkgs[Creator] # 0
        BY <1>1, ParticipantsAssumption DEF Present
    <2>. QED BY <2>1, ParticipantsAssumption DEF SigningPackage, NoPackage, NoPackages
<1>2. /\ NoPackages \in Packages /\ NoPackage \in Packages
      /\ NoShares \in [Participants -> Packages]
      /\ \A pkgs \in Packages, p \in Participants, g \in Nat : [pkgs EXCEPT ![p] = g] \in Packages
      /\ \A pkgs \in Packages : Present(pkgs) \in SUBSET Participants
    BY DEF NoPackages, NoPackage, NoShares, Packages, Present
<1>. QED BY <1>1, <1>2

LEMMA ClientMsgFacts ==
    /\ \A t \in {"Login", "JoinSignSession", "Close"} : [type |-> t] \in ClientMsg
    /\ \A h \in BOOLEAN : [type |-> "AnnounceSignSession", hashed |-> h] \in ClientMsg
    /\ \A g \in Nat : g # 0 => [type |-> "SignRound1Submit", gen |-> g] \in ClientMsg
    /\ \A pkg \in SigningPackage : [type |-> "SignRound2Submit", share |-> pkg] \in ClientMsg
    /\ \A m \in ClientMsg :
          /\ m.type = "SignRound1Submit" => m.gen \in Nat /\ m.gen # 0
          /\ m.type = "SignRound2Submit" => m.share \in SigningPackage
BY DEF ClientMsg, Generation

LEMMA ServerMsgFacts ==
    /\ \A t \in {"LoginOk", "SignSessionCreated", "SignReadyRound1", "Error", "Close"} :
          [type |-> t] \in ServerMsg
    /\ \A pkg \in SigningPackage :
          /\ [type |-> "SignSigningPackage", pkg |-> pkg] \in ServerMsg
          /\ [type |-> "SignatureReady", signature |-> pkg] \in ServerMsg
    /\ \A m \in ServerMsg :
          /\ m.type = "SignSigningPackage" => m.pkg \in SigningPackage
          /\ m.type = "SignatureReady" => m.signature \in SigningPackage
BY DEF ServerMsg

LEMMA NetQueues ==
    /\ NetTypeOK <=> Queues(ClientMsg, ServerMsg) /\ ProcessesTypeOK
    /\ NetTypeOK' <=> Queues(ClientMsg, ServerMsg)' /\ ProcessesTypeOK'
BY DEF NetTypeOK, Queues, ProcessesTypeOK

-----------------------------------------------------------------------------
(***************************************************************************)
(* Type correctness.                                                       *)
(***************************************************************************)

LEMMA InitTypeOK == Init => TypeOK
<1>. SUFFICES ASSUME Init PROVE TypeOK
    OBVIOUS
<1>1. NetTypeOK
    BY EmptySeq, MaxStartsAssumption DEF Init, NetInit, NetTypeOK, Phase
<1>2. ServerTypeOK
    BY PackagesFacts, MaxStartsAssumption DEF Init, ServerInit, RegistryInit, ServerTypeOK
<1>3. ClientTypeOK
    BY PackagesFacts DEF Init, ClientInit, ClientTypeOK
<1>. QED BY <1>1, <1>2, <1>3 DEF TypeOK

\* ServerTypeOK and ClientTypeOK speak of their own component's variables only.
LEMMA UnchangedTypeOK ==
    /\ ServerTypeOK /\ UNCHANGED serverVars => ServerTypeOK'
    /\ ClientTypeOK /\ UNCHANGED clientVars => ClientTypeOK'
    /\ NetTypeOK /\ UNCHANGED netVars => NetTypeOK'
BY DEF ServerTypeOK, serverVars, sessionVars, ClientTypeOK, clientVars, NetTypeOK, netVars

\* A handler that sends well-typed messages, or none, keeps the network well typed.
LEMMA HandlerNetTypeOK ==
    ASSUME NetTypeOK, NEW c \in Conns, NEW type, Reads(c, type), Answers(ServerMsg)
    PROVE  NetTypeOK'
<1>1. Queues(ClientMsg, ServerMsg) /\ ProcessesTypeOK
    BY NetQueues
<1>2. Queues(ClientMsg, ServerMsg)' /\ UNCHANGED <<started, phase>>
    BY <1>1, HandlerQueues
<1>3. ProcessesTypeOK'
    BY <1>1, <1>2 DEF ProcessesTypeOK
<1>. QED BY <1>2, <1>3, NetQueues

\* A full package goes to everybody.
LEMMA PackageAnswers ==
    ASSUME NEW pkg \in Packages, AllOf(Present(pkg))
    PROVE  /\ Present(pkg) = Participants
           /\ [type |-> "SignSigningPackage", pkg |-> pkg] \in ServerMsg
<1>1. Present(pkg) = Participants
    BY PackagesFacts, EverybodyThere
<1>. QED BY <1>1, PackagesFacts, ServerMsgFacts

\* Aggregation succeeds only on a package that somebody's share is of.
LEMMA AggregatedPackage ==
    ASSUME NEW pkg \in Packages, NEW shares \in [Participants -> Packages],
           NEW p \in Participants, shares[p] # NoPackage,
           Cardinality({q \in Participants : shares[q] # NoPackage}) = Cardinality(Present(pkg)),
           AggregateAccepts(pkg, shares)
    PROVE  /\ pkg \in SigningPackage
           /\ shares[p] = pkg
           /\ \A q \in Present(pkg) : shares[q] = pkg
<1>. DEFINE given == {q \in Participants : shares[q] # NoPackage}
<1>1. IsFiniteSet(given) /\ IsFiniteSet(Present(pkg))
    BY ParticipantsAssumption, FS_Subset DEF Present
<1>2. \A q \in Present(pkg) : shares[q] = pkg
    BY DEF AggregateAccepts
<1>3. \A q \in Present(pkg) : q \in Participants /\ pkg # NoPackage
    BY DEF Present, NoPackage, NoPackages
<1>4. Present(pkg) \subseteq given
    BY <1>2, <1>3
<1>5. Present(pkg) = given
    BY <1>1, <1>4, FS_Subset
<1>. QED BY <1>2, <1>3, <1>5 DEF SigningPackage

LEMMA ServerStepTypeOK ==
    ASSUME TypeOK, NEW c \in Conns, ServerStep(c)
    PROVE  TypeOK'
<1>. USE DEF TypeOK
<1>. c[1] \in Participants /\ c[2] \in 0..MaxStarts
    BY MaxStartsAssumption DEF Conns
<1>1. CASE HandleLogin(c) /\ UNCHANGED clientVars
    <2>1. NetTypeOK'
        BY <1>1, HandlerNetTypeOK, ReplyAnswers, ServerMsgFacts DEF HandleLogin, Register
    <2>2. ServerTypeOK'
        BY <1>1 DEF HandleLogin, Register, ServerTypeOK, sessionVars
    <2>. QED BY <1>1, <2>1, <2>2, UnchangedTypeOK
<1>2. CASE HandleAnnounceSign(c) /\ UNCHANGED clientVars
    <2>1. NetTypeOK'
        BY <1>2, HandlerNetTypeOK, ReplyAnswers, ServerMsgFacts DEF HandleAnnounceSign
    <2>2. ServerTypeOK'
        BY <1>2 DEF HandleAnnounceSign, ServerTypeOK, sessionVars
    <2>. QED BY <1>2, <2>1, <2>2, UnchangedTypeOK
<1>3. CASE HandleJoinSign(c) /\ UNCHANGED clientVars
    <2>1. <<[type |-> "SignReadyRound1"]>> \in Seq(ServerMsg)
        BY ServerMsgFacts, FewMessages
    <2>2. NetTypeOK'
        BY <1>3, <2>1, HandlerNetTypeOK, BroadcastAnswers DEF HandleJoinSign, Answers
    <2>3. ServerTypeOK'
        BY <1>3 DEF HandleJoinSign, ServerTypeOK
    <2>. QED BY <1>3, <2>2, <2>3, UnchangedTypeOK
<1>4. CASE HandleSignRound1Submit(c) /\ UNCHANGED clientVars
    <2>1. Head(toServer[c]).gen \in Nat
        BY <1>4, NetQueues, SessionReads, ClientMsgFacts DEF HandleSignRound1Submit
    <2>2. commitments' \in Packages
        BY <1>4, <2>1, PackagesFacts DEF HandleSignRound1Submit, ServerTypeOK
    <2>3. Answers(ServerMsg)
        <3>1. CASE AllOf(Present(commitments'))
            <4>1. <<[type |-> "SignSigningPackage", pkg |-> commitments']>> \in Seq(ServerMsg)
                BY <2>2, <3>1, PackageAnswers, FewMessages
            <4>. QED BY <1>4, <3>1, <4>1, BroadcastAnswers DEF HandleSignRound1Submit
        <3>2. CASE ~AllOf(Present(commitments'))
            BY <1>4, <3>2 DEF HandleSignRound1Submit, Answers
        <3>. QED BY <3>1, <3>2
    <2>4. NetTypeOK'
        BY <1>4, <2>3, HandlerNetTypeOK DEF HandleSignRound1Submit
    <2>5. ServerTypeOK'
        BY <1>4, <2>2 DEF HandleSignRound1Submit, ServerTypeOK
    <2>. QED BY <1>4, <2>4, <2>5, UnchangedTypeOK
<1>5. CASE HandleSignRound2Submit(c) /\ UNCHANGED clientVars
    <2>. DEFINE share == Head(toServer[c]).share
                shares == [sign_shares EXCEPT ![c[1]] = share]
    <2>1. share \in Packages /\ share # NoPackage
        BY <1>5, NetQueues, SessionReads, ClientMsgFacts DEF HandleSignRound2Submit, SigningPackage
    <2>2. shares \in [Participants -> Packages] /\ shares[c[1]] # NoPackage
        BY <2>1 DEF ServerTypeOK
    <2>3. Answers(ServerMsg)
        <3>1. CASE UNCHANGED toClient
            BY <3>1 DEF Answers
        <3>2. CASE Reply(c, [type |-> "Error"])
            BY <3>2, ReplyAnswers, ServerMsgFacts
        <3>3. CASE /\ SharesComplete(shares) /\ AggregateAccepts(commitments, shares)
                   /\ Broadcast(ToAll(<<[type |-> "SignatureReady", signature |-> commitments]>>))
            <4>1. commitments \in SigningPackage
                BY <2>2, <3>3, AggregatedPackage DEF SharesComplete, ServerTypeOK
            <4>2. <<[type |-> "SignatureReady", signature |-> commitments]>> \in Seq(ServerMsg)
                BY <4>1, ServerMsgFacts, FewMessages
            <4>. QED BY <3>3, <4>2, BroadcastAnswers
        <3>. QED BY <1>5, <3>1, <3>2, <3>3 DEF HandleSignRound2Submit
    <2>4. NetTypeOK'
        BY <1>5, <2>3, HandlerNetTypeOK DEF HandleSignRound2Submit
    <2>5. ServerTypeOK'
        BY <1>5, <2>2, PackagesFacts DEF HandleSignRound2Submit, RemoveSession, ServerTypeOK
    <2>. QED BY <1>5, <2>4, <2>5, UnchangedTypeOK
<1>6. CASE Refuse(c) /\ UNCHANGED clientVars
    <2>1. NetTypeOK'
        BY <1>6, HandlerNetTypeOK, ReplyAnswers, ServerMsgFacts DEF Refuse
    <2>. QED BY <1>6, <2>1, UnchangedTypeOK DEF Refuse
<1>7. CASE HandleDisconnect(c) /\ UNCHANGED clientVars
    <2>1. NetTypeOK'
        BY <1>7, HandlerNetTypeOK DEF HandleDisconnect, Unregister, Answers
    <2>2. ServerTypeOK'
        BY <1>7, MaxStartsAssumption DEF HandleDisconnect, Unregister, ServerTypeOK
    <2>. QED BY <1>7, <2>1, <2>2, UnchangedTypeOK
<1>. QED BY <1>1, <1>2, <1>3, <1>4, <1>5, <1>6, <1>7 DEF ServerStep

\* A client's answer is well typed.
LEMMA SendsNetTypeOK ==
    ASSUME NetTypeOK, NEW p \in Participants, NEW type, Receives(p, type),
           NEW msgs \in Seq(ClientMsg), Sends(p, msgs)
    PROVE  NetTypeOK'
BY NetQueues, SessionSends

\* The end of a process leaves the client well typed, whatever it stored.
LEMMA ExitsTypeOK ==
    ASSUME NetTypeOK, ClientTypeOK, NEW p \in Participants, phase[p] = "running",
           NEW how \in Phase \ {"running"}, NEW msgs \in Seq(ClientMsg), Exits(p, how, msgs),
           UNCHANGED <<session_file, gen, signed>>,
           signature_file' \in [Participants -> Packages]
    PROVE  NetTypeOK' /\ ClientTypeOK'
<1>1. [type |-> "Close"] \in ClientMsg /\ Ends(p, how, msgs)
    BY ClientMsgFacts DEF Exits
<1>2. NetTypeOK'
    BY <1>1, NetQueues, SessionEnds
<1>3. ClientTypeOK'
    BY DEF Exits, ClientTypeOK
<1>. QED BY <1>2, <1>3

\* What a running signer has not delivered, or a prefix of it.
LEMMA UnreadFacts ==
    ASSUME NetTypeOK, NEW p \in Participants, phase[p] = "running"
    PROVE  /\ Conn(p) \in Conns
           /\ Unread(p) \in Seq(ClientMsg)
           /\ \A n \in 0..Len(Unread(p)) : SubSeq(Unread(p), 1, n) \in Seq(ClientMsg)
<1>1. Conn(p) \in Conns
    BY NetQueues, RunningConn
<1>2. toServer[Conn(p)] \in Seq(ClientMsg)
    BY <1>1 DEF NetTypeOK
<1>. QED BY <1>1, <1>2, UnreadMessages

LEMMA ClientStepTypeOK ==
    ASSUME TypeOK, NEW p \in Participants, ClientStep(p)
    PROVE  TypeOK'
<1>. USE DEF TypeOK
<1>1. CASE OnLoginOk(p) /\ UNCHANGED serverVars
    <2>1. Announcement \in ClientMsg /\ [type |-> "JoinSignSession"] \in ClientMsg
        BY MessageAssumption, ClientMsgFacts DEF Announcement
    <2>2. <<IF session_file THEN [type |-> "JoinSignSession"] ELSE Announcement>> \in Seq(ClientMsg)
        BY <2>1, FewMessages
    <2>3. NetTypeOK'
        BY <1>1, <2>2, SendsNetTypeOK DEF OnLoginOk
    <2>. QED BY <1>1, <2>3, UnchangedTypeOK DEF OnLoginOk
<1>2. CASE OnSignSessionCreated(p) /\ UNCHANGED serverVars
    <2>1. <<[type |-> "JoinSignSession"]>> \in Seq(ClientMsg)
        BY ClientMsgFacts, FewMessages
    <2>2. NetTypeOK'
        BY <1>2, <2>1, SendsNetTypeOK DEF OnSignSessionCreated
    <2>3. ClientTypeOK'
        BY <1>2 DEF OnSignSessionCreated, ClientTypeOK
    <2>. QED BY <1>2, <2>2, <2>3, UnchangedTypeOK
<1>3. CASE OnSignReadyRound1(p) /\ UNCHANGED serverVars
    <2>1. gen[p] + 1 \in Nat /\ gen[p] + 1 # 0
        BY DEF ClientTypeOK
    <2>2. <<[type |-> "SignRound1Submit", gen |-> gen[p] + 1]>> \in Seq(ClientMsg)
        BY <2>1, ClientMsgFacts, FewMessages
    <2>3. NetTypeOK'
        BY <1>3, <2>2, SendsNetTypeOK DEF OnSignReadyRound1
    <2>4. ClientTypeOK'
        BY <1>3, <2>1 DEF OnSignReadyRound1, ClientTypeOK
    <2>. QED BY <1>3, <2>3, <2>4, UnchangedTypeOK
<1>4. CASE OnSignSigningPackage(p) /\ UNCHANGED serverVars
    <2>. DEFINE pkg == Head(toClient[p]).pkg
    <2>1. pkg \in SigningPackage
        BY <1>4, NetQueues, SessionReceives, ServerMsgFacts DEF OnSignSigningPackage
    <2>2. <<[type |-> "SignRound2Submit", share |-> pkg]>> \in Seq(ClientMsg)
        BY <2>1, ClientMsgFacts, FewMessages
    <2>3. NetTypeOK'
        BY <1>4, <2>2, SendsNetTypeOK DEF OnSignSigningPackage
    <2>4. my_nonces[p] \in Generation
        BY <1>4 DEF OnSignSigningPackage, CanSign, ClientTypeOK, Generation
    <2>5. ClientTypeOK'
        <3>1. signed' = [signed EXCEPT ![p] =
                            signed[p] \cup {[nonces |-> my_nonces[p], pkg |-> pkg]}]
            BY <1>4 DEF OnSignSigningPackage
        <3>2. [nonces |-> my_nonces[p], pkg |-> pkg] \in [nonces : Generation, pkg : SigningPackage]
            BY <2>1, <2>4
        <3>3. signed' \in [Participants -> SUBSET [nonces : Generation, pkg : SigningPackage]]
            <4>. DEFINE new == [nonces |-> my_nonces[p], pkg |-> pkg]
            <4>. HIDE DEF new
            <4>. QED BY <3>1, <3>2 DEF ClientTypeOK, new
        <3>. QED BY <1>4, <3>3 DEF OnSignSigningPackage, NoncesAfterSigning, ClientTypeOK
    <2>. QED BY <1>4, <2>3, <2>5, UnchangedTypeOK
<1>5. CASE OnSignatureReady(p) /\ UNCHANGED serverVars
    <2>1. Head(toClient[p]).signature \in Packages
        BY <1>5, NetQueues, SessionReceives, ServerMsgFacts DEF OnSignatureReady, SigningPackage
    <2>2. signature_file' \in [Participants -> Packages]
        BY <1>5, <2>1 DEF OnSignatureReady, ClientTypeOK
    <2>3. phase[p] = "running"
        BY <1>5 DEF OnSignatureReady, Receives
    <2>4. NetTypeOK' /\ ClientTypeOK'
        BY <1>5, <2>2, <2>3, UnreadFacts, ExitsTypeOK DEF OnSignatureReady, Phase
    <2>. QED BY <1>5, <2>4, UnchangedTypeOK
<1>6. CASE Abort(p) /\ UNCHANGED serverVars
    <2>1. phase[p] = "running"
        BY <1>6 DEF Abort, Receives
    <2>2. NetTypeOK' /\ ClientTypeOK'
        BY <1>6, <2>1, UnreadFacts, ExitsTypeOK DEF Abort, Phase, ClientTypeOK
    <2>. QED BY <1>6, <2>2, UnchangedTypeOK
<1>. QED BY <1>1, <1>2, <1>3, <1>4, <1>5, <1>6 DEF ClientStep

LEMMA StepTypeOK == TypeOK /\ [Next]_vars => TypeOK'
<1>. SUFFICES ASSUME TypeOK, [Next]_vars PROVE TypeOK'
    OBVIOUS
<1>. USE DEF TypeOK
<1>1. CASE Expire /\ UNCHANGED clientVars
    <2>1. <<[type |-> "Error"], [type |-> "Close"]>> \in Seq(ServerMsg)
        BY ServerMsgFacts, FewMessages
    <2>2. ToAll(<<[type |-> "Error"], [type |-> "Close"]>>) \in [Participants -> Seq(ServerMsg)]
        BY <2>1 DEF ToAll
    <2>3. toClient' \in [Participants -> Seq(ServerMsg)]
        BY <1>1, <2>2, NetQueues, SessionSent DEF Expire, Broadcast
    <2>4. NetTypeOK'
        BY <1>1, <2>3 DEF Expire, NetTypeOK
    <2>5. ServerTypeOK'
        BY <1>1, PackagesFacts DEF Expire, RemoveSession, ServerTypeOK
    <2>. QED BY <1>1, <2>4, <2>5, UnchangedTypeOK
<1>2. ASSUME NEW p \in Participants, Start(p), UNCHANGED serverVars
      PROVE  TypeOK'
    <2>1. NetTypeOK'
        BY <1>2, NetQueues, SessionStarts, ClientMsgFacts DEF Start
    <2>. QED BY <1>2, <2>1, UnchangedTypeOK DEF Start
<1>3. ASSUME NEW p \in Participants, Crash(p), UNCHANGED serverVars
      PROVE  TypeOK'
    <2>1. PICK n \in 0..Len(Unread(p)) : Exits(p, "crashed", SubSeq(Unread(p), 1, n))
        BY <1>3 DEF Crash
    <2>2. SubSeq(Unread(p), 1, n) \in Seq(ClientMsg)
        BY <1>3, UnreadFacts DEF Crash
    <2>3. NetTypeOK' /\ ClientTypeOK'
        BY <1>3, <2>1, <2>2, ExitsTypeOK DEF Crash, Phase, ClientTypeOK
    <2>. QED BY <1>3, <2>3, UnchangedTypeOK
<1>4. CASE UNCHANGED vars
    BY <1>4, UnchangedTypeOK DEF vars
<1>. QED BY <1>1, <1>2, <1>3, <1>4, ServerStepTypeOK, ClientStepTypeOK DEF Next

\* Every variable of the signing session keeps its type, and a running signer has
\* been started: whatever the coordinator sends can be sent.
THEOREM SignTypeCorrect == Spec => []TypeOK
BY InitTypeOK, StepTypeOK, PTL DEF Spec

-----------------------------------------------------------------------------
(***************************************************************************)
(* Whose signature it is.  SignatureSignedByAll is not inductive: the      *)
(* coordinator knows nothing of what a signer signed but the shares it was *)
(* sent, so the invariant says of every share, stored or on its way, that  *)
(* its sender has signed that package, and of every package that it is     *)
(* everybody's.                                                            *)
(***************************************************************************)

SignedBy(p, pkg) == \E s \in signed[p] : s.pkg = pkg

FromSigner(p) ==
    {m \in ClientMsg : m.type = "SignRound2Submit" => SignedBy(p, m.share)}

FromCoordinator ==
    {m \in ServerMsg :
        /\ m.type = "SignSigningPackage" => Present(m.pkg) = Participants
        /\ m.type = "SignatureReady" => session = "completed" /\ m.signature = signature}

MessagesTrue ==
    /\ \A c \in Conns : toServer[c] \in Seq(FromSigner(c[1]))
    /\ \A p \in Participants : toClient[p] \in Seq(FromCoordinator)

SharesTrue ==
    \A p \in Participants : sign_shares[p] # NoPackage => SignedBy(p, sign_shares[p])

SignedFull == \A p \in Participants : \A s \in signed[p] : Present(s.pkg) = Participants

CompletedSignature == session = "completed" => signature # NoPackage

\* A signer that stored a signature has finished and is not started again.
StoredEnds ==
    \A p \in Participants :
        signature_file[p] # NoPackage => phase[p] = "finished" /\ started[p] # 0

IInv ==
    /\ TypeOK
    /\ NonceInv
    /\ MessagesTrue
    /\ SharesTrue
    /\ SignedFull
    /\ SignatureSignedByAll
    /\ CompletedSignature
    /\ StoredEnds

LEMMA InitIInv == Init => IInv
<1>. SUFFICES ASSUME Init PROVE IInv
    OBVIOUS
<1>1. TypeOK /\ NonceInv
    BY InitTypeOK, InitNonceInv
<1>2. MessagesTrue
    BY EmptySeq DEF Init, NetInit, MessagesTrue, Conns
<1>3. SharesTrue /\ SignedFull /\ SignatureSignedByAll /\ CompletedSignature /\ StoredEnds
    BY DEF Init, NetInit, ServerInit, ClientInit, NoShares, SharesTrue, SignedFull,
           SignatureSignedByAll, CompletedSignature, StoredEnds
<1>. QED BY <1>1, <1>2, <1>3 DEF IInv

\* What a step does to the facts messages are about: a signer never unsigns, and a
\* completed session stays so.
Stable ==
    /\ \A p \in Participants : signed[p] \subseteq signed'[p]
    /\ session = "completed" => session' = "completed" /\ signature' = signature

LEMMA StableMessages ==
    ASSUME Stable
    PROVE  /\ \A p \in Participants : \A s \in Seq(FromSigner(p)) : s \in Seq(FromSigner(p)')
           /\ \A s \in Seq(FromCoordinator) : s \in Seq(FromCoordinator')
           /\ \A p \in Participants : \A pkg : SignedBy(p, pkg) => SignedBy(p, pkg)'
<1>1. \A p \in Participants : \A pkg : SignedBy(p, pkg) => SignedBy(p, pkg)'
    BY DEF Stable, SignedBy
<1>2. \A p \in Participants : FromSigner(p) \subseteq FromSigner(p)'
    BY <1>1 DEF FromSigner
<1>3. FromCoordinator \subseteq FromCoordinator'
    BY DEF Stable, FromCoordinator
<1>. QED BY <1>1, <1>2, <1>3

\* A handler whose answer is true leaves all messages true.
LEMMA HandlerMessages ==
    ASSUME IInv, Stable, NEW c \in Conns, NEW type, Reads(c, type), Answers(FromCoordinator')
    PROVE  MessagesTrue'
<1>1. Queues(ClientMsg, ServerMsg)
    BY NetQueues DEF IInv, TypeOK
<1>2. \A d \in Conns : d[1] \in Participants
    BY DEF Conns
<1>3. ASSUME NEW d \in Conns PROVE toServer'[d] \in Seq(FromSigner(d[1])')
    BY <1>1, <1>2, SessionReads, StableMessages DEF IInv, MessagesTrue
<1>4. \A p \in Participants : toClient[p] \in Seq(FromCoordinator')
    BY StableMessages DEF IInv, MessagesTrue
<1>5. Queues(ClientMsg, FromCoordinator')
    BY <1>1, <1>4 DEF Queues
<1>6. \A p \in Participants : toClient'[p] \in Seq(FromCoordinator')
    BY <1>4, <1>5, SessionSent DEF Answers
<1>. QED BY <1>3, <1>6 DEF MessagesTrue

\* A signer that sends what it has signed leaves all messages true.
LEMMA SendsMessages ==
    ASSUME IInv, Stable, NEW p \in Participants, NEW type, Receives(p, type),
           NEW msgs \in Seq(ClientMsg), Sends(p, msgs), msgs \in Seq(FromSigner(p)')
    PROVE  MessagesTrue'
<1>1. Queues(ClientMsg, ServerMsg) /\ ProcessesTypeOK
    BY NetQueues DEF IInv, TypeOK
<1>2. ASSUME NEW d \in Conns PROVE toServer'[d] \in Seq(FromSigner(d[1])')
    <2>1. d[1] \in Participants /\ (d = Conn(p) => d[1] = p)
        BY DEF Conns, Conn
    <2>2. toServer[d] \in Seq(FromSigner(d[1])')
        BY <2>1, StableMessages DEF IInv, MessagesTrue
    <2>. QED BY <1>1, <2>1, <2>2, SessionSends
<1>3. \A q \in Participants : toClient'[q] \in Seq(FromCoordinator')
    BY <1>1, StableMessages, SessionSends DEF IInv, MessagesTrue
<1>. QED BY <1>2, <1>3 DEF MessagesTrue

\* What a signer leaves behind is true.
LEMMA ExitsMessages ==
    ASSUME IInv, Stable, NEW p \in Participants, phase[p] = "running",
           NEW how \in Phase \ {"running"}, NEW msgs, Exits(p, how, msgs),
           msgs = Unread(p) \/ \E n \in 0..Len(Unread(p)) : msgs = SubSeq(Unread(p), 1, n)
    PROVE  MessagesTrue'
<1>1. Queues(ClientMsg, ServerMsg) /\ ProcessesTypeOK
    BY NetQueues DEF IInv, TypeOK
<1>2. Conn(p) \in Conns /\ Conn(p)[1] = p
    BY <1>1, RunningConn DEF Conn
<1>3. [type |-> "Close"] \in ClientMsg /\ Ends(p, how, msgs) /\ msgs \in Seq(ClientMsg)
    BY ClientMsgFacts, UnreadFacts DEF Exits, IInv, TypeOK
<1>4. \A q \in Participants : [type |-> "Close"] \in FromSigner(q)'
    BY ClientMsgFacts DEF FromSigner
<1>5. msgs \in Seq(FromSigner(p)')
    <2>1. toServer[Conn(p)] \in Seq(FromSigner(p)')
        BY <1>2, StableMessages DEF IInv, MessagesTrue
    <2>. QED BY <2>1, UnreadMessages
<1>6. ASSUME NEW d \in Conns PROVE toServer'[d] \in Seq(FromSigner(d[1])')
    <2>1. d[1] \in Participants /\ (d = Conn(p) => d[1] = p)
        BY DEF Conns, Conn
    <2>2. toServer[d] \in Seq(FromSigner(d[1])')
        BY <2>1, StableMessages DEF IInv, MessagesTrue
    <2>3. [type |-> "Close"] \in FromSigner(d[1])' /\ (d = Conn(p) => msgs \in Seq(FromSigner(d[1])'))
        BY <1>4, <1>5, <2>1
    <2>. QED BY <1>1, <1>3, <2>2, <2>3, SessionEnds
<1>7. \A q \in Participants : toClient'[q] \in Seq(FromCoordinator')
    BY <1>1, <1>3, StableMessages, SessionEnds DEF IInv, MessagesTrue
<1>. QED BY <1>6, <1>7 DEF MessagesTrue

\* What else a step keeps when it writes neither signatures nor shares.
LEMMA OtherFacts ==
    ASSUME IInv, UNCHANGED <<signed, signature, signature_file>>,
           sign_shares' \in {sign_shares, NoShares},
           session' # "completed" \/ UNCHANGED session,
           \A p \in Participants :
              signature_file[p] # NoPackage => UNCHANGED <<phase[p], started[p]>>
    PROVE  /\ SharesTrue' /\ SignedFull' /\ SignatureSignedByAll'
           /\ CompletedSignature' /\ StoredEnds'
<1>1. SharesTrue'
    BY DEF IInv, SharesTrue, SignedBy, NoShares
<1>2. SignedFull' /\ SignatureSignedByAll' /\ CompletedSignature'
    BY DEF IInv, SignedFull, SignatureSignedByAll, CompletedSignature
<1>3. StoredEnds'
    BY DEF IInv, StoredEnds
<1>. QED BY <1>1, <1>2, <1>3

\* Aggregation succeeds on a package that everybody has signed: the last share
\* alone shows that the package is everybody's, and it equals all the others.
LEMMA AggregatedSigned ==
    ASSUME IInv, NEW c \in Conns, Reads(c, "SignRound2Submit"),
           NEW shares, shares = [sign_shares EXCEPT ![c[1]] = Head(toServer[c]).share],
           SharesComplete(shares), AggregateAccepts(commitments, shares)
    PROVE  /\ commitments \in SigningPackage /\ Present(commitments) = Participants
           /\ \A p \in Participants : SignedBy(p, commitments)
<1>1. c[1] \in Participants
    BY DEF Conns
<1>2. /\ Head(toServer[c]) \in FromSigner(c[1]) /\ Head(toServer[c]) \in ClientMsg
      /\ Head(toServer[c]).type = "SignRound2Submit"
    BY <1>1, NetQueues, SessionReads DEF IInv, TypeOK, MessagesTrue
<1>3. Head(toServer[c]).share \in SigningPackage /\ SignedBy(c[1], Head(toServer[c]).share)
    BY <1>2, ClientMsgFacts DEF FromSigner
<1>4. /\ shares \in [Participants -> Packages]
      /\ shares[c[1]] = Head(toServer[c]).share /\ shares[c[1]] # NoPackage
      /\ \A p \in Participants : p # c[1] => shares[p] = sign_shares[p]
    BY <1>1, <1>3 DEF IInv, TypeOK, ServerTypeOK, SigningPackage
<1>5. /\ commitments \in SigningPackage /\ shares[c[1]] = commitments
      /\ \A q \in Present(commitments) : shares[q] = commitments
    <2>1. commitments \in Packages
        BY DEF IInv, TypeOK, ServerTypeOK
    <2>2. Cardinality({p \in Participants : shares[p] # NoPackage}) = Cardinality(Present(commitments))
        BY DEF SharesComplete
    <2>3. c[1] \in Participants /\ shares \in [Participants -> Packages] /\ shares[c[1]] # NoPackage
        BY <1>1, <1>4
    <2>4. shares[c[1]] = commitments /\ commitments \in SigningPackage
        BY <2>1, <2>2, <2>3, AggregatedPackage
    <2>. QED BY <2>4 DEF AggregateAccepts
<1>6. Present(commitments) = Participants
    BY <1>1, <1>3, <1>4, <1>5 DEF SignedBy, IInv, SignedFull
<1>7. ASSUME NEW p \in Participants PROVE SignedBy(p, commitments)
    <2>1. shares[p] = commitments /\ commitments # NoPackage
        BY <1>5, <1>6 DEF SigningPackage
    <2>2. CASE p = c[1]
        BY <1>3, <1>4, <2>1, <2>2
    <2>3. CASE p # c[1]
        BY <1>4, <2>1, <2>3 DEF IInv, SharesTrue
    <2>. QED BY <2>2, <2>3
<1>. QED BY <1>5, <1>6, <1>7

LEMMA ServerStepFacts ==
    ASSUME IInv, TypeOK', NonceInv', NEW c \in Conns, ServerStep(c)
    PROVE  IInv'
<1>. c[1] \in Participants
    BY DEF Conns
<1>0. UNCHANGED <<signed, signature_file>>
    BY DEF ServerStep, clientVars
<1>1. CASE HandleSignRound2Submit(c)
    <2>. DEFINE share == Head(toServer[c]).share
                shares == [sign_shares EXCEPT ![c[1]] = share]
    <2>1. Reads(c, "SignRound2Submit") /\ session = "open"
        BY <1>1 DEF HandleSignRound2Submit, Admitted
    <2>2. Stable
        BY <1>0, <2>1 DEF Stable
    <2>3. StoredEnds'
        BY <1>0, <2>1 DEF Reads, IInv, StoredEnds
    <2>4. SignedFull'
        BY <1>0 DEF IInv, SignedFull
    <2>5. CASE ~SharesComplete(shares)
        <3>1. sign_shares' = shares /\ UNCHANGED <<session, signature, toClient>>
            BY <1>1, <2>5 DEF HandleSignRound2Submit
        <3>2. SignedBy(c[1], share)
            BY <2>1, NetQueues, SessionReads DEF IInv, TypeOK, MessagesTrue, FromSigner
        <3>3. SharesTrue'
            BY <1>0, <3>1, <3>2 DEF IInv, SharesTrue, SignedBy, TypeOK, ServerTypeOK
        <3>4. MessagesTrue'
            BY <2>1, <2>2, <3>1, HandlerMessages DEF Answers
        <3>5. SignatureSignedByAll' /\ CompletedSignature'
            BY <2>1, <3>1 DEF SignatureSignedByAll, CompletedSignature
        <3>. QED BY <2>3, <2>4, <3>3, <3>4, <3>5 DEF IInv
    <2>6. CASE /\ SharesComplete(shares) /\ AggregateAccepts(commitments, shares)
               /\ session' = "completed" /\ signature' = commitments
               /\ sign_shares' = NoShares
               /\ Broadcast(ToAll(<<[type |-> "SignatureReady", signature |-> commitments]>>))
        <3>1. /\ commitments \in SigningPackage
              /\ \A p \in Participants : SignedBy(p, commitments)
            BY <2>1, <2>6, AggregatedSigned
        <3>2. SignatureSignedByAll' /\ CompletedSignature'
            BY <1>0, <2>6, <3>1 DEF SignatureSignedByAll, CompletedSignature, SignedBy, SigningPackage
        <3>3. [type |-> "SignatureReady", signature |-> commitments] \in FromCoordinator'
            BY <2>6, <3>1, ServerMsgFacts DEF FromCoordinator
        <3>4. MessagesTrue'
            BY <2>1, <2>2, <2>6, <3>3, FewMessages, BroadcastAnswers, HandlerMessages
        <3>5. SharesTrue'
            BY <2>6 DEF SharesTrue, NoShares
        <3>. QED BY <2>3, <2>4, <3>2, <3>4, <3>5 DEF IInv
    <2>7. CASE /\ session' = "failed" /\ sign_shares' = NoShares /\ UNCHANGED signature
               /\ Reply(c, [type |-> "Error"])
        <3>1. [type |-> "Error"] \in FromCoordinator'
            BY ServerMsgFacts DEF FromCoordinator
        <3>2. MessagesTrue'
            BY <2>1, <2>2, <2>7, <3>1, ReplyAnswers, HandlerMessages
        <3>3. SharesTrue' /\ SignatureSignedByAll' /\ CompletedSignature'
            BY <2>7 DEF SharesTrue, NoShares, SignatureSignedByAll, CompletedSignature
        <3>. QED BY <2>3, <2>4, <3>2, <3>3 DEF IInv
    <2>. QED BY <1>1, <2>5, <2>6, <2>7 DEF HandleSignRound2Submit, RemoveSession
<1>2. CASE HandleSignRound1Submit(c)
    <2>1. /\ Reads(c, "SignRound1Submit") /\ UNCHANGED <<session, signature, sign_shares>>
          /\ commitments' \in Packages
        BY <1>2 DEF HandleSignRound1Submit, TypeOK, ServerTypeOK
    <2>2. Stable
        BY <1>0, <2>1 DEF Stable
    <2>3. Answers(FromCoordinator')
        <3>1. CASE AllOf(Present(commitments'))
            <4>1. [type |-> "SignSigningPackage", pkg |-> commitments'] \in FromCoordinator'
                BY <2>1, <3>1, PackageAnswers DEF FromCoordinator
            <4>. QED BY <1>2, <3>1, <4>1, FewMessages, BroadcastAnswers DEF HandleSignRound1Submit
        <3>2. CASE ~AllOf(Present(commitments'))
            BY <1>2, <3>2 DEF HandleSignRound1Submit, Answers
        <3>. QED BY <3>1, <3>2
    <2>4. MessagesTrue'
        BY <2>1, <2>2, <2>3, HandlerMessages
    <2>. QED BY <1>0, <2>1, <2>4, OtherFacts DEF IInv, Reads
<1>3. ASSUME NEW t \in {"LoginOk", "SignSessionCreated", "SignReadyRound1", "Error"}
      PROVE  [type |-> t] \in FromCoordinator'
    BY ServerMsgFacts DEF FromCoordinator
<1>4. CASE HandleLogin(c)
    <2>1. Stable /\ Reads(c, "Login") /\ Reply(c, [type |-> "LoginOk"])
          /\ UNCHANGED <<session, signature, sign_shares>>
        BY <1>0, <1>4 DEF HandleLogin, Register, sessionVars, Stable
    <2>. QED BY <1>0, <1>3, <2>1, ReplyAnswers, HandlerMessages, OtherFacts DEF IInv, Reads
<1>5. CASE HandleAnnounceSign(c)
    <2>1. Stable /\ Reads(c, "AnnounceSignSession") /\ Reply(c, [type |-> "SignSessionCreated"])
          /\ session' # "completed" /\ UNCHANGED <<signature, sign_shares>>
        BY <1>0, <1>5 DEF HandleAnnounceSign, sessionVars, Stable
    <2>. QED BY <1>0, <1>3, <2>1, ReplyAnswers, HandlerMessages, OtherFacts DEF IInv, Reads
<1>6. CASE HandleJoinSign(c)
    <2>1. Stable /\ Reads(c, "JoinSignSession") /\ UNCHANGED <<session, signature, sign_shares>>
        BY <1>0, <1>6 DEF HandleJoinSign, Stable
    <2>2. Answers(FromCoordinator')
        BY <1>3, <1>6, FewMessages, BroadcastAnswers DEF HandleJoinSign, Answers
    <2>. QED BY <1>0, <2>1, <2>2, HandlerMessages, OtherFacts DEF IInv, Reads
<1>7. CASE Refuse(c)
    <2>1. PICK type : Reads(c, type)
        <3>1. CASE Reads(c, "AnnounceSignSession")
            BY <3>1
        <3>2. CASE \E t \in {"JoinSignSession", "SignRound1Submit", "SignRound2Submit"} : Reads(c, t)
            BY <3>2
        <3>. QED BY <1>7, <3>1, <3>2 DEF Refuse
    <2>2. Stable /\ Reply(c, [type |-> "Error"]) /\ UNCHANGED <<session, signature, sign_shares>>
        BY <1>0, <1>7 DEF Refuse, serverVars, sessionVars, Stable
    <2>. QED BY <1>0, <1>3, <2>1, <2>2, ReplyAnswers, HandlerMessages, OtherFacts DEF IInv, Reads
<1>8. CASE HandleDisconnect(c)
    <2>1. Stable /\ Reads(c, "Close") /\ UNCHANGED <<toClient, session, signature, sign_shares>>
        BY <1>0, <1>8 DEF HandleDisconnect, Stable
    <2>. QED BY <1>0, <2>1, HandlerMessages, OtherFacts DEF IInv, Reads, Answers
<1>. QED BY <1>1, <1>2, <1>4, <1>5, <1>6, <1>7, <1>8 DEF ServerStep

LEMMA ClientStepFacts ==
    ASSUME IInv, TypeOK', NonceInv', NEW p \in Participants, ClientStep(p)
    PROVE  IInv'
<1>0. UNCHANGED <<session, signature, sign_shares>>
    BY DEF ClientStep, serverVars, sessionVars
<1>1. CASE OnSignSigningPackage(p)
    <2>0. PICK pkg, new : pkg = Head(toClient[p]).pkg /\ new = [nonces |-> my_nonces[p], pkg |-> pkg]
        OBVIOUS
    <2>1. Receives(p, "SignSigningPackage") /\ Sends(p, <<[type |-> "SignRound2Submit", share |-> pkg]>>)
        BY <1>1, <2>0 DEF OnSignSigningPackage
    <2>2. pkg \in SigningPackage /\ Present(pkg) = Participants
        <3>1. Head(toClient[p]) \in FromCoordinator /\ Head(toClient[p]).type = "SignSigningPackage"
            BY <2>1, NetQueues, SessionReceives DEF IInv, TypeOK, MessagesTrue
        <3>. QED BY <2>0, <3>1, ServerMsgFacts DEF FromCoordinator
    <2>3. /\ signed' = [signed EXCEPT ![p] = signed[p] \cup {new}]
          /\ \A q \in Participants : signed'[q] = IF q = p THEN signed[p] \cup {new} ELSE signed[q]
          /\ new.pkg = pkg
        BY <1>1, <2>0 DEF OnSignSigningPackage, IInv, NonceInv, NoncesUnused
    <2>4. Stable
        BY <1>0, <2>3 DEF Stable
    <2>5. SignedBy(p, pkg)'
        BY <2>3 DEF SignedBy
    <2>6. <<[type |-> "SignRound2Submit", share |-> pkg]>> \in Seq(ClientMsg)
          /\ <<[type |-> "SignRound2Submit", share |-> pkg]>> \in Seq(FromSigner(p)')
        <3>1. [type |-> "SignRound2Submit", share |-> pkg] \in FromSigner(p)'
            BY <2>2, <2>5, ClientMsgFacts DEF FromSigner
        <3>2. [type |-> "SignRound2Submit", share |-> pkg] \in ClientMsg
            BY <2>2, ClientMsgFacts
        <3>. QED BY <3>1, <3>2, FewMessages
    <2>7. MessagesTrue'
        BY <2>1, <2>4, <2>6, SendsMessages
    <2>8. SharesTrue' /\ SignatureSignedByAll' /\ CompletedSignature'
        BY <1>0, <2>4, StableMessages
        DEF IInv, SharesTrue, SignatureSignedByAll, CompletedSignature, SignedBy
    <2>9. SignedFull'
        BY <2>2, <2>3 DEF IInv, SignedFull
    <2>10. StoredEnds'
        BY <1>1, <2>1 DEF OnSignSigningPackage, Sends, IInv, StoredEnds
    <2>. QED BY <2>7, <2>8, <2>9, <2>10 DEF IInv
<1>2. CASE OnSignatureReady(p)
    <2>1. /\ phase[p] = "running" /\ Exits(p, "finished", Unread(p)) /\ UNCHANGED signed
          /\ signature_file' = [signature_file EXCEPT ![p] = Head(toClient[p]).signature]
        BY <1>2 DEF OnSignatureReady, Receives
    <2>2. Stable
        BY <1>0, <2>1 DEF Stable
    <2>3. MessagesTrue'
        BY <2>1, <2>2, ExitsMessages DEF Phase
    <2>4. SharesTrue' /\ SignedFull' /\ SignatureSignedByAll' /\ CompletedSignature'
        BY <1>0, <2>1
        DEF IInv, SharesTrue, SignedFull, SignatureSignedByAll, CompletedSignature, SignedBy
    <2>5. StoredEnds'
        BY <2>1 DEF Exits, Ends, IInv, StoredEnds, TypeOK, NetTypeOK, ClientTypeOK
    <2>. QED BY <2>3, <2>4, <2>5 DEF IInv
<1>3. CASE Abort(p)
    <2>1. phase[p] = "running" /\ Exits(p, "aborted", Unread(p)) /\ UNCHANGED <<signed, signature_file>>
        BY <1>3 DEF Abort, Receives
    <2>2. Stable
        BY <1>0, <2>1 DEF Stable
    <2>3. MessagesTrue'
        BY <2>1, <2>2, ExitsMessages DEF Phase
    <2>. QED BY <1>0, <2>1, <2>3, OtherFacts DEF IInv, Exits, Ends, StoredEnds
<1>4. ASSUME UNCHANGED <<signed, signature_file>>,
             NEW type, Receives(p, type), NEW m \in ClientMsg, m.type # "SignRound2Submit",
             Sends(p, <<m>>)
      PROVE  IInv'
    <2>1. Stable
        BY <1>0, <1>4 DEF Stable
    <2>2. m \in FromSigner(p)'
        BY <1>4 DEF FromSigner
    <2>3. MessagesTrue'
        BY <1>4, <2>1, <2>2, FewMessages, SendsMessages
    <2>. QED BY <1>0, <1>4, <2>3, OtherFacts DEF IInv, Sends
<1>5. CASE OnLoginOk(p)
    <2>1. /\ [type |-> "JoinSignSession"] \in ClientMsg
          /\ Announcement \in ClientMsg /\ Announcement.type = "AnnounceSignSession"
        BY MessageAssumption, ClientMsgFacts DEF Announcement
    <2>2. UNCHANGED <<signed, signature_file>> /\ Receives(p, "LoginOk")
          /\ Sends(p, <<IF session_file THEN [type |-> "JoinSignSession"] ELSE Announcement>>)
        BY <1>5 DEF OnLoginOk, clientVars
    <2>3. CASE session_file
        BY <1>4, <2>1, <2>2, <2>3
    <2>4. CASE ~session_file
        BY <1>4, <2>1, <2>2, <2>4
    <2>. QED BY <2>3, <2>4
<1>6. CASE OnSignSessionCreated(p)
    BY <1>4, <1>6, ClientMsgFacts DEF OnSignSessionCreated
<1>7. CASE OnSignReadyRound1(p)
    <2>1. [type |-> "SignRound1Submit", gen |-> gen[p] + 1] \in ClientMsg
        BY ClientMsgFacts DEF IInv, TypeOK, ClientTypeOK
    <2>. QED BY <1>4, <1>7, <2>1 DEF OnSignReadyRound1
<1>. QED BY <1>1, <1>2, <1>3, <1>5, <1>6, <1>7 DEF ClientStep

LEMMA StepIInv == IInv /\ [Next]_vars => IInv'
<1>. SUFFICES ASSUME IInv, [Next]_vars PROVE IInv'
    OBVIOUS
<1>1. TypeOK' /\ NonceInv'
    BY StepTypeOK, StepNonceInv DEF IInv
<1>2. CASE Expire /\ UNCHANGED clientVars
    <2>1. Stable /\ session' = "expired" /\ sign_shares' = NoShares
          /\ UNCHANGED <<signature, signed, signature_file, phase, started, toServer>>
        BY <1>2 DEF Expire, RemoveSession, clientVars, Stable
    <2>2. <<[type |-> "Error"], [type |-> "Close"]>> \in Seq(FromCoordinator')
        <3>1. [type |-> "Error"] \in FromCoordinator' /\ [type |-> "Close"] \in FromCoordinator'
            BY ServerMsgFacts DEF FromCoordinator
        <3>. QED BY <3>1, FewMessages
    <2>3. \A p \in Participants : toClient'[p] \in Seq(FromCoordinator')
        <3>1. /\ \A p \in Participants : toClient[p] \in Seq(FromCoordinator')
              /\ toClient = [p \in Participants |-> toClient[p]]
            BY <2>1, StableMessages DEF IInv, MessagesTrue, TypeOK, NetTypeOK
        <3>2. Queues(ClientMsg, FromCoordinator')
            BY <3>1 DEF Queues, IInv, TypeOK, NetTypeOK
        <3>3. Answers(FromCoordinator')
            BY <1>2, <2>2, BroadcastAnswers DEF Expire
        <3>. QED BY <3>1, <3>2, <3>3, SessionSent DEF Answers
    <2>4. MessagesTrue'
        BY <2>1, <2>3, StableMessages DEF IInv, MessagesTrue, Conns
    <2>. QED BY <1>1, <2>1, <2>4, OtherFacts DEF IInv
<1>3. ASSUME NEW p \in Participants, Start(p), UNCHANGED serverVars
      PROVE  IInv'
    <2>1. Stable /\ UNCHANGED <<signature, signed, signature_file, session, sign_shares, toClient>>
        BY <1>3 DEF Start, Starts, serverVars, sessionVars, clientVars, Stable
    <2>2. \A q \in Participants : [type |-> "Login"] \in FromSigner(q)'
        BY ClientMsgFacts DEF FromSigner
    <2>3. \A d \in Conns : toServer'[d] \in Seq(FromSigner(d[1])')
        <3>1. TAKE d \in Conns
        <3>2. d[1] \in Participants
            BY DEF Conns
        <3>3. toServer[d] \in Seq(FromSigner(d[1])') /\ [type |-> "Login"] \in FromSigner(d[1])'
            BY <2>1, <2>2, <3>2, StableMessages DEF IInv, MessagesTrue
        <3>. QED BY <1>3, <3>3, NetQueues, ClientMsgFacts, SessionStarts DEF IInv, TypeOK, Start
    <2>4. MessagesTrue'
        BY <2>1, <2>3, StableMessages DEF IInv, MessagesTrue
    <2>5. \A q \in Participants :
             signature_file[q] # NoPackage => UNCHANGED <<phase[q], started[q]>>
        BY <1>3 DEF Start, Starts, IInv, StoredEnds, TypeOK, NetTypeOK
    <2>. QED BY <1>1, <2>1, <2>4, <2>5, OtherFacts DEF IInv
<1>4. ASSUME NEW p \in Participants, Crash(p), UNCHANGED serverVars
      PROVE  IInv'
    <2>1. Stable /\ UNCHANGED <<signature, signed, signature_file, session, sign_shares>>
          /\ phase[p] = "running"
        BY <1>4 DEF Crash, serverVars, sessionVars, Stable
    <2>2. PICK n \in 0..Len(Unread(p)) : Exits(p, "crashed", SubSeq(Unread(p), 1, n))
        BY <1>4 DEF Crash
    <2>3. MessagesTrue'
        BY <2>1, <2>2, ExitsMessages DEF Phase
    <2>. QED BY <1>1, <2>1, <2>2, <2>3, OtherFacts DEF IInv, Exits, Ends, StoredEnds
<1>5. CASE UNCHANGED vars
    <2>1. Stable /\ UNCHANGED <<signature, signed, signature_file, session, sign_shares, phase, started,
                               toServer, toClient>>
        BY <1>5 DEF vars, netVars, serverVars, sessionVars, clientVars, Stable
    <2>2. MessagesTrue'
        BY <2>1, StableMessages DEF IInv, MessagesTrue, Conns
    <2>. QED BY <1>1, <2>1, <2>2, OtherFacts DEF IInv
<1>. QED BY <1>1, <1>2, <1>3, <1>4, <1>5, ServerStepFacts, ClientStepFacts DEF Next

LEMMA SignInvariance == Spec => []IInv
BY InitIInv, StepIInv, PTL DEF Spec

\* However signers restart and packages are sent again, a signature the session
\* gives out is over a package that every participant has signed: shares on
\* different packages are never combined (fserver/src/main.rs:1604).
THEOREM SignatureSigned == Spec => []SignatureSignedByAll
<1>1. IInv => SignatureSignedByAll
    BY DEF IInv
<1>. QED BY <1>1, SignInvariance, PTL

-----------------------------------------------------------------------------
(***************************************************************************)
(* The session implements SignOutcome: the last share decides, a failed    *)
(* aggregation or the timer loses, and every other step of the coordinator *)
(* is a stutter of its.                                                    *)
(***************************************************************************)

LEMMA OutcomeStutters ==
    ASSUME UNCHANGED <<signed, signature, signature_file>>,
           \/ UNCHANGED session
           \/ session = "none" /\ session' = "open"
    PROVE  UNCHANGED Outcome!vars
BY DEF status, Outcome!vars

LEMMA InitOutcome == Init => Outcome!Init
BY DEF Init, ServerInit, ClientInit, status, NoPackage, Outcome!Init

\* The last share decides or loses, an earlier one changes nothing of the outcome.
LEMMA Round2Outcome ==
    ASSUME IInv, IInv', NEW c \in Conns, HandleSignRound2Submit(c), UNCHANGED clientVars
    PROVE  Outcome!Decide \/ Outcome!Lose \/ UNCHANGED Outcome!vars
<1>1. session = "open" /\ UNCHANGED <<signed, signature_file>>
    BY DEF HandleSignRound2Submit, Admitted, clientVars
<1>2. CASE session' = "completed"
    <2>1. status = "undecided" /\ status' = "decided"
        BY <1>1, <1>2 DEF status
    <2>2. /\ signature' # NoPackage
          /\ \A p \in Participants : \E s \in signed[p] : s.pkg = signature'
        BY <1>1, <1>2 DEF IInv, CompletedSignature, SignatureSignedByAll
    <2>. QED BY <1>1, <2>1, <2>2 DEF Outcome!Decide
<1>3. CASE session' = "failed" /\ UNCHANGED signature
    <2>1. status = "undecided" /\ status' = "lost"
        BY <1>1, <1>3 DEF status
    <2>. QED BY <1>1, <1>3, <2>1 DEF Outcome!Lose
<1>4. CASE UNCHANGED <<session, signature>>
    BY <1>1, <1>4, OutcomeStutters
<1>. QED BY <1>2, <1>3, <1>4 DEF HandleSignRound2Submit

LEMMA ServerStepOutcome ==
    ASSUME IInv, IInv', NEW c \in Conns, ServerStep(c)
    PROVE  Outcome!Decide \/ Outcome!Lose \/ UNCHANGED Outcome!vars
<1>0. UNCHANGED clientVars
    BY DEF ServerStep
<1>1. CASE HandleSignRound2Submit(c)
    BY <1>0, <1>1, Round2Outcome
<1>2. CASE HandleAnnounceSign(c)
    BY <1>0, <1>2, OutcomeStutters DEF HandleAnnounceSign, clientVars
<1>3. CASE \/ HandleLogin(c) \/ HandleJoinSign(c) \/ HandleSignRound1Submit(c)
           \/ Refuse(c) \/ HandleDisconnect(c)
    <2>1. UNCHANGED <<session, signature>>
        BY <1>3 DEF HandleLogin, Register, HandleJoinSign, HandleSignRound1Submit, Refuse,
                    HandleDisconnect, serverVars
    <2>. QED BY <1>0, <2>1, OutcomeStutters DEF clientVars
<1>. QED BY <1>1, <1>2, <1>3 DEF ServerStep

LEMMA ExpireOutcome ==
    ASSUME Expire, UNCHANGED clientVars
    PROVE  Outcome!Lose
<1>1. status = "undecided" /\ status' = "lost"
    BY DEF Expire, status
<1>2. UNCHANGED <<signed, signature, signature_file>>
    BY DEF Expire, clientVars
<1>. QED BY <1>1, <1>2 DEF Outcome!Lose

\* round2::sign uses nonces that have not signed.
LEMMA SignOutcomeStep ==
    ASSUME IInv, NEW p \in Participants, OnSignSigningPackage(p), UNCHANGED serverVars
    PROVE  Outcome!Sign(p)
<1>1. PICK new : new = [nonces |-> my_nonces[p], pkg |-> Head(toClient[p]).pkg]
    OBVIOUS
<1>2. Head(toClient[p]).pkg \in SigningPackage
    BY NetQueues, SessionReceives, ServerMsgFacts DEF OnSignSigningPackage, IInv, TypeOK
<1>3. new.nonces = my_nonces[p] /\ new.nonces \in Generation /\ new.pkg # NoPackage
    BY <1>1, <1>2 DEF OnSignSigningPackage, CanSign, IInv, TypeOK, ClientTypeOK, Generation,
                      SigningPackage
<1>4. signed' = [signed EXCEPT ![p] = signed[p] \cup {new}]
    BY <1>1 DEF OnSignSigningPackage
<1>5. new \in signed'[p]
    BY <1>4 DEF IInv, TypeOK, ClientTypeOK
<1>6. \A earlier \in signed[p] : earlier.nonces # new.nonces
    BY <1>3 DEF IInv, NonceInv, NoncesUnused
<1>7. status' = status /\ UNCHANGED <<signature, signature_file>>
    BY DEF OnSignSigningPackage, serverVars, status
<1>. QED BY <1>3, <1>4, <1>5, <1>6, <1>7 DEF Outcome!Sign

\* SignatureReady makes a signer store the signature, once.
LEMMA StoreOutcome ==
    ASSUME IInv, NEW p \in Participants, OnSignatureReady(p), UNCHANGED serverVars
    PROVE  Outcome!Store(p)
<1>1. Head(toClient[p]) \in FromCoordinator /\ Head(toClient[p]).type = "SignatureReady"
    BY NetQueues, SessionReceives DEF OnSignatureReady, IInv, TypeOK, MessagesTrue
<1>2. session = "completed" /\ Head(toClient[p]).signature = signature
    BY <1>1 DEF FromCoordinator
<1>3. signature_file[p] = NoPackage
    BY DEF OnSignatureReady, Receives, IInv, StoredEnds
<1>4. signature_file' = [signature_file EXCEPT ![p] = signature]
    BY <1>2 DEF OnSignatureReady
<1>5. status = "decided" /\ status' = status /\ UNCHANGED <<signed, signature>>
    BY <1>2 DEF OnSignatureReady, serverVars, status
<1>. QED BY <1>3, <1>4, <1>5 DEF Outcome!Store

LEMMA StepOutcome == IInv /\ IInv' /\ [Next]_vars => [Outcome!Next]_(Outcome!vars)
<1>. SUFFICES ASSUME IInv, IInv', [Next]_vars PROVE [Outcome!Next]_(Outcome!vars)
    OBVIOUS
<1>1. ASSUME NEW p \in Participants, ClientStep(p)
      PROVE  Outcome!Sign(p) \/ Outcome!Store(p) \/ UNCHANGED Outcome!vars
    <2>1. CASE OnSignSigningPackage(p) /\ UNCHANGED serverVars
        BY <2>1, SignOutcomeStep
    <2>2. CASE OnSignatureReady(p) /\ UNCHANGED serverVars
        BY <2>2, StoreOutcome
    <2>3. CASE \/ OnLoginOk(p) /\ UNCHANGED serverVars
               \/ OnSignSessionCreated(p) /\ UNCHANGED serverVars
               \/ OnSignReadyRound1(p) /\ UNCHANGED serverVars
               \/ Abort(p) /\ UNCHANGED serverVars
        BY <2>3, OutcomeStutters
        DEF OnLoginOk, OnSignSessionCreated, OnSignReadyRound1, Abort, clientVars, serverVars
    <2>. QED BY <1>1, <2>1, <2>2, <2>3 DEF ClientStep
<1>2. ASSUME NEW p \in Participants, (Start(p) \/ Crash(p)) /\ UNCHANGED serverVars
      PROVE  UNCHANGED Outcome!vars
    BY <1>2, OutcomeStutters DEF Start, Crash, clientVars, serverVars
<1>3. CASE UNCHANGED vars
    BY <1>3, OutcomeStutters DEF vars, serverVars, clientVars
<1>4. CASE Expire /\ UNCHANGED clientVars
    BY <1>4, ExpireOutcome DEF Outcome!Next
<1>5. ASSUME NEW c \in Conns, ServerStep(c)
      PROVE  [Outcome!Next]_(Outcome!vars)
    BY <1>5, ServerStepOutcome DEF Outcome!Next
<1>6. ASSUME NEW p \in Participants, ClientStep(p)
      PROVE  [Outcome!Next]_(Outcome!vars)
    BY <1>1, <1>6 DEF Outcome!Next
<1>. QED BY <1>2, <1>3, <1>4, <1>5, <1>6 DEF Next

\* The session yields at most one signature, over a package all participants
\* signed with nonces that sign nothing else, and that signature is what
\* participants store.
THEOREM SignImplementsOutcome == Spec => ImplementsOutcome
BY InitOutcome, StepOutcome, SignInvariance, PTL DEF Spec, ImplementsOutcome, Outcome!Spec
-----------------------------------------------------------------------------
(***************************************************************************)
(* The sockets.  Close is the last message of a connection, what is sent   *)
(* after Login comes from a logged-in connection, and the coordinator      *)
(* sends to no others: no message is refused for want of a login.          *)
(***************************************************************************)
Asked == {"AnnounceSignSession", "JoinSignSession", "SignRound1Submit", "SignRound2Submit"}

CloseLast(q) == \A i \in 1..Len(q) : q[i].type = "Close" => i = Len(q)

SocketsInv ==
    /\ \A p \in Participants :
          /\ phase[p] = "running" => Free(toServer[Conn(p)], {"Close"})
          /\ toClient[p] # <<>> => phase[p] = "running" /\ Conn(p) \in logged_in
          /\ conns[p] # 0 => <<p, conns[p]>> \in logged_in
    /\ \A c \in Conns :
          /\ CloseLast(toServer[c])
          /\ ~Free(toServer[c], Asked) => c \in logged_in

LEMMA CloseQueued ==
    ASSUME NEW S, NEW q \in Seq(S)
    PROVE  /\ Free(q, {"Close"}) => CloseLast(q)
           /\ q # <<>> /\ CloseLast(q) => CloseLast(Tail(q))
           /\ q # <<>> /\ CloseLast(q) /\ Head(q).type = "Close" => Tail(q) = <<>>
           /\ \A m \in S : Free(q, {"Close"}) => CloseLast(Append(q, m))
<1>1. Len(q) \in Nat
    BY LenProperties
<1>2. Free(q, {"Close"}) => CloseLast(q)
    BY DEF Free, CloseLast
<1>3. ASSUME q # <<>>, CloseLast(q)
      PROVE  CloseLast(Tail(q)) /\ (Head(q).type = "Close" => Tail(q) = <<>>)
    <2>. DEFINE n == Len(q)
                t == Tail(q)
                k == Len(t)
    <2>1. /\ n # 0 /\ Head(q) = q[1] /\ t \in Seq(S) /\ k = n - 1
          /\ \A i \in 1..k : t[i] = q[i + 1]
        BY <1>1, <1>3, HeadTailProperties, EmptySeq
    <2>2. \A i \in 1..n : q[i].type = "Close" => i = n
        BY <1>3 DEF CloseLast
    <2>3. k = 0 => t = <<>>
        BY <2>1, EmptySeq
    <2>4. CloseLast(t) <=> \A i \in 1..k : t[i].type = "Close" => i = k
        BY DEF CloseLast
    <2>5. n \in Nat
        BY <1>1
    <2>. HIDE DEF n, t, k
    <2>6. \A i \in 1..k : i + 1 \in 1..n /\ (i + 1 = n => i = k)
        BY <2>1, <2>5
    <2>7. 1 \in 1..n /\ (1 = n => k = 0)
        BY <2>1, <2>5
    <2>8. CloseLast(t)
        BY <2>1, <2>2, <2>4, <2>6
    <2>9. Head(q).type = "Close" => t = <<>>
        BY <2>1, <2>2, <2>3, <2>7
    <2>. QED BY <2>8, <2>9 DEF t
<1>4. ASSUME NEW m \in S, Free(q, {"Close"})
      PROVE  CloseLast(Append(q, m))
    <2>1. /\ Len(Append(q, m)) = Len(q) + 1
          /\ \A i \in 1..Len(q) : Append(q, m)[i] = q[i]
        BY AppendProperties
    <2>2. \A i \in 1..Len(q) + 1 : i # Len(q) + 1 => i \in 1..Len(q)
        BY <1>1
    <2>. QED BY <1>4, <2>1, <2>2 DEF Free, CloseLast
<1>. QED BY <1>2, <1>3, <1>4

LEMMA ReadSockets ==
    ASSUME TypeOK, SocketsInv, NEW c \in Conns, NEW type, Reads(c, type)
    PROVE  /\ \A d \in Conns : CloseLast(toServer'[d])
           /\ \A d \in Conns : \A T : Free(toServer[d], T) => Free(toServer'[d], T)
           /\ type \in Asked => c \in logged_in
           /\ type = "Close" =>
                 /\ toServer'[c] = <<>>
                 /\ \A p \in Participants : phase[p] = "running" => Conn(p) # c
           /\ UNCHANGED <<started, phase>>
           /\ \A p \in Participants : Conn(p)' = Conn(p)
           /\ \A p \in Participants : phase[p] = "running" => Conn(p) \in Conns
<1>1. Queues(ClientMsg, ServerMsg) /\ ProcessesTypeOK
    BY NetQueues DEF TypeOK
<1>2. toServer[c] \in Seq(ClientMsg) /\ toServer[c] # <<>> /\ Head(toServer[c]).type = type
    BY <1>1 DEF Queues, Reads
<1>3. \A d \in Conns : toServer'[d] = IF d = c THEN Tail(toServer[c]) ELSE toServer[d]
    BY <1>1 DEF Queues, Reads
<1>4. CloseLast(Tail(toServer[c])) /\ (type = "Close" => Tail(toServer[c]) = <<>>)
    BY <1>2, CloseQueued DEF SocketsInv
<1>5. \A T : /\ NoneNew(toServer[c], Tail(toServer[c]), T)
             /\ type \in T => ~Free(toServer[c], T)
    BY <1>2, HeadQueued
<1>6. \A d \in Conns : \A T : Free(toServer[d], T) => Free(toServer'[d], T)
    BY <1>3, <1>5 DEF NoneNew
<1>7. type = "Close" => ~Free(toServer[c], {"Close"})
    BY <1>5
<1>8. UNCHANGED <<started, phase>>
    BY DEF Reads
<1>. QED BY <1>1, <1>3, <1>4, <1>5, <1>6, <1>7, <1>8, RunningConn DEF SocketsInv, Conn

\* A handler that answers the sender, when it is logged in, or everybody registered.
Addressed(c) ==
    \/ UNCHANGED toClient
    \/ \E msgs : Broadcast(msgs)
    \/ c \in logged_in /\ \E m : Reply(c, m)

LEMMA ReplyTo ==
    ASSUME ProcessesTypeOK, NEW c \in Conns, NEW m, Reply(c, m), NEW p \in Participants
    PROVE  toClient'[p] = toClient[p] \/ (phase[p] = "running" /\ Conn(p) = c)
<1>1. c = <<c[1], c[2]>>
    BY DEF Conns
<1>2. toClient'[p] = toClient[p] \/ Live(p, IF p = c[1] THEN c[2] ELSE 0)
    BY DEF Reply, Sent
<1>3. ~Live(p, 0)
    BY DEF Live, ProcessesTypeOK
<1>. QED BY <1>1, <1>2, <1>3 DEF Live, Conn

LEMMA BroadcastTo ==
    ASSUME TypeOK, SocketsInv, NEW msgs, Broadcast(msgs), NEW p \in Participants
    PROVE  toClient'[p] = toClient[p] \/ (phase[p] = "running" /\ Conn(p) \in logged_in)
<1>1. toClient'[p] = toClient[p] \/ Live(p, conns[p])
    BY DEF Broadcast, Sent
<1>2. ASSUME Live(p, conns[p]) PROVE phase[p] = "running" /\ Conn(p) \in logged_in
    <2>1. phase[p] = "running" /\ conns[p] = started[p] /\ started[p] # 0
        BY <1>2 DEF Live, TypeOK, NetTypeOK
    <2>. QED BY <2>1 DEF SocketsInv, Conn
<1>. QED BY <1>1, <1>2

LEMMA HandlerSockets ==
    ASSUME TypeOK, SocketsInv, NEW c \in Conns, NEW type, Reads(c, type), Addressed(c),
           UNCHANGED <<conns, logged_in>>
    PROVE  SocketsInv'
<1>1. /\ \A d \in Conns : CloseLast(toServer'[d])
      /\ \A d \in Conns : \A T : Free(toServer[d], T) => Free(toServer'[d], T)
      /\ UNCHANGED <<started, phase>>
      /\ \A p \in Participants : Conn(p)' = Conn(p)
      /\ \A p \in Participants : phase[p] = "running" => Conn(p) \in Conns
    BY ReadSockets
<1>2. \A p \in Participants :
        toClient'[p] = toClient[p] \/ (phase[p] = "running" /\ Conn(p) \in logged_in)
    BY NetQueues, ReplyTo, BroadcastTo DEF Addressed, TypeOK
<1>. QED BY <1>1, <1>2 DEF SocketsInv

LEMMA ServerStepSockets ==
    ASSUME TypeOK, SocketsInv, NEW c \in Conns, ServerStep(c)
    PROVE  SocketsInv'
<1>0. c = <<c[1], c[2]>> /\ c[1] \in Participants /\ c[2] # 0
    BY MaxStartsAssumption DEF Conns
<1>1. CASE HandleLogin(c)
    <2>1. Reads(c, "Login") /\ Reply(c, [type |-> "LoginOk"])
        BY <1>1 DEF HandleLogin, Register
    <2>2. /\ \A d \in Conns : CloseLast(toServer'[d])
          /\ \A d \in Conns : \A T : Free(toServer[d], T) => Free(toServer'[d], T)
          /\ UNCHANGED <<started, phase>>
          /\ \A p \in Participants : Conn(p)' = Conn(p)
          /\ \A p \in Participants : phase[p] = "running" => Conn(p) \in Conns
        BY <2>1, ReadSockets
    <2>3. /\ logged_in' = logged_in \cup {c}
          /\ \A p \in Participants : conns'[p] = IF p = c[1] THEN c[2] ELSE conns[p]
        BY <1>1 DEF HandleLogin, Register, TypeOK, ServerTypeOK
    <2>4. \A p \in Participants :
            toClient'[p] = toClient[p] \/ (phase[p] = "running" /\ Conn(p) = c)
        BY <2>1, NetQueues, ReplyTo DEF TypeOK
    <2>. QED BY <1>0, <2>2, <2>3, <2>4 DEF SocketsInv
<1>2. CASE HandleDisconnect(c)
    <2>1. Reads(c, "Close") /\ UNCHANGED toClient
        BY <1>2 DEF HandleDisconnect
    <2>2. /\ \A d \in Conns : CloseLast(toServer'[d])
          /\ \A d \in Conns : \A T : Free(toServer[d], T) => Free(toServer'[d], T)
          /\ toServer'[c] = <<>>
          /\ \A p \in Participants : phase[p] = "running" => Conn(p) # c
          /\ UNCHANGED <<started, phase>>
          /\ \A p \in Participants : Conn(p)' = Conn(p)
          /\ \A p \in Participants : phase[p] = "running" => Conn(p) \in Conns
        BY <2>1, ReadSockets
    <2>3. Free(toServer'[c], Asked)
        BY <2>2, EmptySeq DEF Free
    <2>4. CASE UNCHANGED <<conns, logged_in>>
        BY <2>1, <2>4, HandlerSockets DEF Addressed
    <2>5. CASE Unregister(c)
        <3>1. /\ logged_in' = logged_in \ {c}
              /\ \A p \in Participants : conns'[p] = IF p = c[1] THEN 0 ELSE conns[p]
            BY <2>5 DEF Unregister, TypeOK, ServerTypeOK
        <3>2. \A p \in Participants : p # c[1] => <<p, conns[p]>> # c
            BY <1>0
        <3>. QED BY <2>1, <2>2, <2>3, <3>1, <3>2 DEF SocketsInv
    <2>. QED BY <1>2, <2>4, <2>5 DEF HandleDisconnect
<1>3. CASE Refuse(c)
    <2>1. PICK type \in Asked : Reads(c, type)
        BY <1>3 DEF Refuse, Asked
    <2>2. Addressed(c) /\ UNCHANGED <<conns, logged_in>>
        BY <1>3, <2>1, ReadSockets DEF Refuse, Addressed, serverVars
    <2>. QED BY <2>1, <2>2, HandlerSockets
<1>4. CASE HandleAnnounceSign(c) \/ HandleJoinSign(c) \/ HandleSignRound1Submit(c)
             \/ HandleSignRound2Submit(c)
    <2>1. PICK type : Reads(c, type)
        BY <1>4 DEF HandleAnnounceSign, HandleJoinSign, HandleSignRound1Submit,
                    HandleSignRound2Submit
    <2>2. c \in logged_in /\ UNCHANGED <<conns, logged_in>>
        BY <1>4 DEF HandleAnnounceSign, HandleJoinSign, HandleSignRound1Submit,
                    HandleSignRound2Submit, Admitted
    <2>3. Addressed(c)
        BY <1>4, <2>2 DEF HandleAnnounceSign, HandleJoinSign, HandleSignRound1Submit,
                    HandleSignRound2Submit, Addressed
    <2>. QED BY <2>1, <2>2, <2>3, HandlerSockets
<1>. QED BY <1>1, <1>2, <1>3, <1>4 DEF ServerStep

\* A signer that sends is spoken to, so it is logged in.
LEMMA SendsSockets ==
    ASSUME TypeOK, SocketsInv, NEW p \in Participants, NEW type, Receives(p, type),
           NEW m \in ClientMsg, m.type # "Close", Sends(p, <<m>>), UNCHANGED serverVars
    PROVE  SocketsInv'
<1>1. phase[p] = "running" /\ Conn(p) \in logged_in /\ Conn(p) \in Conns
    BY NetQueues, RunningConn DEF Receives, SocketsInv, TypeOK
<1>2. /\ \A q \in Participants : toClient'[q] = IF q = p THEN Tail(toClient[p]) ELSE toClient[q]
      /\ \A d \in Conns :
            toServer'[d] = IF d = Conn(p) THEN toServer[d] \o <<m>> ELSE toServer[d]
      /\ UNCHANGED <<started, phase, conns, logged_in>>
      /\ \A q \in Participants : Conn(q)' = Conn(q)
    BY DEF Sends, TypeOK, NetTypeOK, serverVars, Conn
<1>3. /\ toServer[Conn(p)] \in Seq(ClientMsg) /\ <<m>> \in Seq(ClientMsg)
      /\ Free(toServer[Conn(p)], {"Close"}) /\ Free(<<m>>, {"Close"})
    <2>1. toServer[Conn(p)] \in Seq(ClientMsg) /\ Free(toServer[Conn(p)], {"Close"})
        BY <1>1 DEF TypeOK, NetTypeOK, SocketsInv
    <2>2. <<m>> \in Seq(ClientMsg) /\ Free(<<m>>, {"Close"})
        BY FewMessages, FewQueued
    <2>. QED BY <2>1, <2>2
<1>4. toServer[Conn(p)] \o <<m>> \in Seq(ClientMsg) /\ Free(toServer[Conn(p)] \o <<m>>, {"Close"})
    BY <1>3, ConcatQueued, ConcatProperties DEF NoneNew
<1>5. CloseLast(toServer[Conn(p)] \o <<m>>)
    BY <1>4, CloseQueued
<1>6. \A d \in Conns :
        CloseLast(toServer'[d]) /\ (~Free(toServer'[d], Asked) => d \in logged_in')
    BY <1>1, <1>2, <1>5 DEF SocketsInv
<1>7. \A q \in Participants : phase'[q] = "running" => Free(toServer'[Conn(q)'], {"Close"})
    <2>1. \A q \in Participants : phase[q] = "running" => Conn(q) \in Conns
        BY NetQueues, RunningConn DEF TypeOK
    <2>. QED BY <1>2, <1>4, <2>1 DEF SocketsInv
<1>. QED BY <1>1, <1>2, <1>6, <1>7 DEF SocketsInv

\* A signer that ends delivers nothing it had not sent.
LEMMA ExitsSockets ==
    ASSUME TypeOK, SocketsInv, NEW p \in Participants, phase[p] = "running",
           NEW how, how # "running", NEW msgs \in Seq(ClientMsg), Exits(p, how, msgs),
           \A T : NoneNew(Unread(p), msgs, T), UNCHANGED serverVars
    PROVE  SocketsInv'
<1>1. Conn(p) \in Conns /\ \A q \in Participants : phase[q] = "running" => Conn(q) \in Conns
    BY NetQueues, RunningConn DEF TypeOK
<1>2. /\ \A q \in Participants :
            /\ toClient'[q] = IF q = p THEN <<>> ELSE toClient[q]
            /\ phase'[q] = IF q = p THEN how ELSE phase[q]
            /\ Conn(q)' = Conn(q)
            /\ q # p => Conn(q) # Conn(p)
      /\ \A d \in Conns :
            toServer'[d] = IF d = Conn(p) THEN Append(msgs, [type |-> "Close"]) ELSE toServer[d]
      /\ UNCHANGED <<conns, logged_in>>
    BY DEF Exits, Ends, TypeOK, NetTypeOK, serverVars, Conn
<1>3. Free(msgs, {"Close"}) /\ [type |-> "Close"] \in ClientMsg
    BY ClientMsgFacts DEF SocketsInv, NoneNew, Unread
<1>4. CloseLast(Append(msgs, [type |-> "Close"]))
    BY <1>3, CloseQueued
<1>5. Free(msgs, Asked) => Free(Append(msgs, [type |-> "Close"]), Asked)
    BY <1>3, AppendQueued DEF NoneNew, Asked
<1>6. Free(Unread(p), Asked) => Free(msgs, Asked)
    BY DEF NoneNew
<1>7. \A d \in Conns :
        CloseLast(toServer'[d]) /\ (~Free(toServer'[d], Asked) => d \in logged_in')
    BY <1>2, <1>4, <1>5, <1>6 DEF SocketsInv, Unread
<1>8. \A q \in Participants : phase'[q] = "running" => Free(toServer'[Conn(q)'], {"Close"})
    BY <1>1, <1>2 DEF SocketsInv
<1>. QED BY <1>2, <1>7, <1>8 DEF SocketsInv

LEMMA StartSockets ==
    ASSUME TypeOK, SocketsInv, NEW p \in Participants, Start(p), UNCHANGED serverVars
    PROVE  SocketsInv'
<1>1. phase[p] # "running" /\ toClient[p] = <<>>
    BY DEF Start, Starts, SocketsInv
<1>. DEFINE fresh == <<p, started[p] + 1>>
            login == <<[type |-> "Login"]>>
<1>2. /\ \A q \in Participants :
            /\ q = p => Conn(q)' = fresh
            /\ q # p => phase'[q] = phase[q] /\ Conn(q)' = Conn(q) /\ Conn(q) # fresh
      /\ fresh \in Conns
      /\ UNCHANGED <<toClient, conns, logged_in>>
      /\ \A d \in Conns : toServer'[d] = IF d = fresh THEN login ELSE toServer[d]
    <2>1. started[p] + 1 \in 1..MaxStarts
        BY MaxStartsAssumption DEF Start, Starts, TypeOK, NetTypeOK
    <2>. QED BY <2>1 DEF Start, Starts, TypeOK, NetTypeOK, serverVars, Conn, Conns
<1>3. login \in Seq(ClientMsg) /\ Free(login, {"Close"}) /\ Free(login, Asked)
    BY ClientMsgFacts, FewMessages, FewQueued DEF Asked
<1>4. CloseLast(login)
    BY <1>3, CloseQueued
<1>. HIDE DEF fresh, login
<1>5. \A q \in Participants : phase[q] = "running" => Conn(q) \in Conns
    BY NetQueues, RunningConn DEF TypeOK
<1>6. \A q \in Participants : phase'[q] = "running" => Free(toServer'[Conn(q)'], {"Close"})
    BY <1>2, <1>3, <1>5 DEF SocketsInv
<1>7. \A d \in Conns :
        CloseLast(toServer'[d]) /\ (~Free(toServer'[d], Asked) => d \in logged_in')
    BY <1>2, <1>3, <1>4 DEF SocketsInv
<1>8. \A q \in Participants : toClient'[q] # <<>> => phase'[q] = "running" /\ Conn(q)' \in logged_in'
    BY <1>1, <1>2 DEF SocketsInv
<1>. QED BY <1>2, <1>6, <1>7, <1>8 DEF SocketsInv

LEMMA InitSockets == Init => SocketsInv
<1>1. \A T : Free(<<>>, T)
    BY EmptySeq DEF Free
<1>2. CloseLast(<<>>)
    BY EmptySeq DEF CloseLast
<1>. QED BY <1>1, <1>2 DEF Init, NetInit, ServerInit, RegistryInit, SocketsInv

LEMMA StepSockets == TypeOK /\ SocketsInv /\ [Next]_vars => SocketsInv'
<1>. SUFFICES ASSUME TypeOK, SocketsInv, [Next]_vars PROVE SocketsInv'
    OBVIOUS
<1>1. ASSUME NEW p \in Participants, ClientStep(p) PROVE SocketsInv'
    <2>0. UNCHANGED serverVars
        BY <1>1 DEF ClientStep
    <2>1. CASE OnSignatureReady(p) \/ Abort(p)
        <3>1. phase[p] = "running" /\ \E how \in {"finished", "aborted"} : Exits(p, how, Unread(p))
            BY <2>1 DEF OnSignatureReady, Abort, Receives
        <3>2. Unread(p) \in Seq(ClientMsg) /\ \A T : NoneNew(Unread(p), Unread(p), T)
            BY <3>1, UnreadFacts DEF TypeOK, NoneNew
        <3>. QED BY <2>0, <3>1, <3>2, ExitsSockets
    <2>2. CASE OnLoginOk(p) \/ OnSignSessionCreated(p)
        <3>1. PICK m \in {[type |-> "JoinSignSession"], Announcement} :
                \E type : Receives(p, type) /\ Sends(p, <<m>>)
            BY <2>2 DEF OnLoginOk, OnSignSessionCreated
        <3>2. /\ Announcement \in ClientMsg /\ Announcement.type # "Close"
              /\ [type |-> "JoinSignSession"] \in ClientMsg
            BY ClientMsgFacts, MessageAssumption DEF Announcement
        <3>3. m \in ClientMsg /\ m.type # "Close"
            BY <3>1, <3>2
        <3>. QED BY <2>0, <3>1, <3>3, SendsSockets
    <2>3. CASE OnSignReadyRound1(p)
        <3>. DEFINE m == [type |-> "SignRound1Submit", gen |-> gen[p] + 1]
        <3>1. m \in ClientMsg
            <4>1. gen[p] + 1 \in Nat /\ gen[p] + 1 # 0
                BY DEF TypeOK, ClientTypeOK
            <4>. QED BY <4>1, ClientMsgFacts
        <3>. QED BY <2>0, <2>3, <3>1, SendsSockets DEF OnSignReadyRound1
    <2>4. CASE OnSignSigningPackage(p)
        <3>. DEFINE m == [type |-> "SignRound2Submit", share |-> Head(toClient[p]).pkg]
        <3>1. Receives(p, "SignSigningPackage") /\ Sends(p, <<m>>) /\ m.type # "Close"
            BY <2>4 DEF OnSignSigningPackage
        <3>2. m \in ClientMsg
            BY <3>1, NetQueues, SessionReceives, ServerMsgFacts, ClientMsgFacts DEF TypeOK
        <3>. HIDE DEF m
        <3>. QED BY <2>0, <3>1, <3>2, SendsSockets
    <2>. QED BY <1>1, <2>1, <2>2, <2>3, <2>4 DEF ClientStep
<1>2. ASSUME NEW p \in Participants, Crash(p), UNCHANGED serverVars PROVE SocketsInv'
    <2>1. PICK n \in 0..Len(Unread(p)) : Exits(p, "crashed", SubSeq(Unread(p), 1, n))
        BY <1>2 DEF Crash
    <2>2. /\ phase[p] = "running" /\ Unread(p) \in Seq(ClientMsg)
          /\ SubSeq(Unread(p), 1, n) \in Seq(ClientMsg)
        BY <1>2, UnreadFacts DEF Crash, TypeOK
    <2>3. \A T : NoneNew(Unread(p), SubSeq(Unread(p), 1, n), T)
        BY <2>2, PrefixQueued
    <2>. QED BY <1>2, <2>1, <2>2, <2>3, ExitsSockets
<1>3. CASE Expire /\ UNCHANGED clientVars
    <2>1. \A p \in Participants :
            toClient'[p] = toClient[p] \/ (phase[p] = "running" /\ Conn(p) \in logged_in)
        BY <1>3, BroadcastTo DEF Expire
    <2>2. UNCHANGED <<started, phase, toServer, conns, logged_in>>
        BY <1>3 DEF Expire
    <2>. QED BY <2>1, <2>2 DEF SocketsInv, Conn
<1>4. CASE UNCHANGED vars
    BY <1>4 DEF vars, netVars, serverVars, SocketsInv, Conn
<1>. QED BY <1>1, <1>2, <1>3, <1>4, ServerStepSockets, StartSockets DEF Next
-----------------------------------------------------------------------------
(***************************************************************************)
(* While no signer is started twice and the session has not expired.  Each *)
(* signer enters (Login, Announce, Join) once, draws nonces once and signs *)
(* once, and each round starts after everybody's part of the one before.   *)
(* So there is one package, of everybody's first nonces, the coordinator   *)
(* refuses nothing, and each message finds its signer ready for it.        *)
(***************************************************************************)
NobodyRestarted == \A p \in Participants : started[p] <= 1

Ones == [p \in Participants |-> 1]

AskIn == {"Login", "AnnounceSignSession", "JoinSignSession"}
TellIn == {"LoginOk", "SignSessionCreated"}
Ready1 == {"SignReadyRound1"}
Submit1 == {"SignRound1Submit"}
Told2 == {"SignSigningPackage"}
Submit2 == {"SignRound2Submit"}

\* p's part before round 1, of round 1, of round 2 was sent, and is read or lost.
Entered(p) == started[p] # 0 /\ Unsent(p, AskIn) /\ Free(toClient[p], TellIn)
Submitted1(p) == gen[p] # 0 /\ Unsent(p, Submit1)
Submitted2(p) == signed[p] # {} /\ Unsent(p, Submit2)

EntersOnce ==
    \A p \in Participants :
        /\ Once(p, AskIn) /\ Single(toClient[p], TellIn)
        /\ Unsent(p, AskIn) \/ Free(toClient[p], TellIn)
        /\ started[p] = 0 => Unsent(p, AskIn) /\ Free(toClient[p], TellIn)
        /\ p \in joined => Entered(p)

DrawsOnce ==
    /\ (\E p \in Participants : ~Entered(p)) =>
          \A p \in Participants : Free(toClient[p], Ready1) /\ gen[p] = 0
    /\ \A p \in Participants :
          /\ Single(toClient[p], Ready1)
          /\ ~Free(toClient[p], Ready1) => gen[p] = 0
          /\ Once(p, Submit1)
          /\ gen[p] = 0 => Unsent(p, Submit1)
          /\ commitments[p] # 0 => Submitted1(p)

SignsOnce ==
    /\ (\E p \in Participants : ~Submitted1(p)) =>
          \A p \in Participants : Free(toClient[p], Told2) /\ signed[p] = {}
    /\ session # "completed" /\ commitments # Ones =>
          \A p \in Participants : Free(toClient[p], Told2) /\ signed[p] = {}
    /\ \A p \in Participants :
          /\ Single(toClient[p], Told2)
          /\ ~Free(toClient[p], Told2) => signed[p] = {}
          /\ Once(p, Submit2)
          /\ signed[p] = {} => Unsent(p, Submit2)
          /\ sign_shares[p] # NoPackage => Submitted2(p)

\* What a session that is not yet announced has not seen.
Opened == {"SignSessionCreated", "SignReadyRound1", "SignSigningPackage"}
Inside == {"JoinSignSession", "SignRound1Submit", "SignRound2Submit"}

SessionOnce ==
    /\ session \in {"none", "open", "completed"}
    /\ session = "none" =>
          /\ ~session_file
          /\ \A p \in Participants : Free(toClient[p], Opened) /\ Unsent(p, Inside)
    /\ session = "completed" => \A p \in Participants : Submitted2(p)

\* What is kept and sent is of everybody's first nonces, and nobody has failed.
Bits == [Participants -> {0, 1}]
FirstSubmit ==
    {m \in ClientMsg :
        /\ m.type = "AnnounceSignSession" => m.hashed
        /\ m.type = "SignRound1Submit" => m.gen = 1
        /\ m.type = "SignRound2Submit" => m.share = Ones}
FirstRound ==
    {m \in ServerMsg :
        m.type # "Error" /\ (m.type = "SignSigningPackage" => m.pkg = Ones)}

ServerFirst ==
    /\ \A c \in Conns : toServer[c] \in Seq(FirstSubmit)
    /\ commitments \in Bits
    /\ \A p \in Participants : sign_shares[p] \in {NoPackage, Ones}

SignersFirst ==
    \A p \in Participants :
        /\ toClient[p] \in Seq(FirstRound)
        /\ gen[p] \in {0, 1} /\ phase[p] # "aborted"
        /\ phase[p] = "running" /\ gen[p] # 0 /\ signed[p] = {} => my_nonces[p] = 1

OnceInv ==
    /\ EntersOnce
    /\ DrawsOnce
    /\ SignsOnce
    /\ SessionOnce
    /\ ServerFirst
    /\ SignersFirst

LEMMA EntersKept ==
    ASSUME EntersOnce, NoneSent(AskIn), NoneCame(TellIn), UNCHANGED started, joined' \subseteq joined
    PROVE  EntersOnce' /\ \A p \in Participants : Entered(p) => Entered(p)'
BY NoneSentKeeps DEF EntersOnce, Entered, NoneCame, NoneNew

LEMMA DrawsKept ==
    ASSUME DrawsOnce, \A p \in Participants : Entered(p) => Entered(p)',
           NoneSent(Submit1), NoneCame(Ready1), UNCHANGED gen,
           \A p \in Participants : commitments'[p] \in {commitments[p], 0}
    PROVE  DrawsOnce' /\ \A p \in Participants : Submitted1(p) => Submitted1(p)'
<1>1. \A p \in Participants : Submitted1(p) => Submitted1(p)'
    BY NoneSentKeeps DEF Submitted1
<1>2. (\E p \in Participants : ~Entered(p)') =>
          \A p \in Participants : Free(toClient'[p], Ready1) /\ gen'[p] = 0
    BY DEF DrawsOnce, NoneCame, NoneNew
<1>3. \A p \in Participants :
          /\ Single(toClient'[p], Ready1)
          /\ ~Free(toClient'[p], Ready1) => gen'[p] = 0
          /\ Once(p, Submit1)'
          /\ gen'[p] = 0 => Unsent(p, Submit1)'
          /\ commitments'[p] # 0 => Submitted1(p)'
    BY <1>1, NoneSentKeeps DEF DrawsOnce, NoneCame, NoneNew
<1>. QED BY <1>1, <1>2, <1>3 DEF DrawsOnce

LEMMA SignsKept ==
    ASSUME SignsOnce, \A p \in Participants : Submitted1(p) => Submitted1(p)',
           NoneSent(Submit2), NoneCame(Told2), UNCHANGED <<signed, commitments>>,
           session' # "completed" => session # "completed",
           \A p \in Participants : sign_shares'[p] \in {sign_shares[p], NoPackage}
    PROVE  SignsOnce' /\ \A p \in Participants : Submitted2(p) => Submitted2(p)'
<1>1. \A p \in Participants : Submitted2(p) => Submitted2(p)'
    BY NoneSentKeeps DEF Submitted2
<1>2. (\E p \in Participants : ~Submitted1(p)') =>
          \A p \in Participants : Free(toClient'[p], Told2) /\ signed'[p] = {}
    BY DEF SignsOnce, NoneCame, NoneNew
<1>3. session' # "completed" /\ commitments' # Ones =>
          \A p \in Participants : Free(toClient'[p], Told2) /\ signed'[p] = {}
    BY DEF SignsOnce, NoneCame, NoneNew
<1>4. \A p \in Participants :
          /\ Single(toClient'[p], Told2)
          /\ ~Free(toClient'[p], Told2) => signed'[p] = {}
          /\ Once(p, Submit2)'
          /\ signed'[p] = {} => Unsent(p, Submit2)'
          /\ sign_shares'[p] # NoPackage => Submitted2(p)'
    BY <1>1, NoneSentKeeps DEF SignsOnce, NoneCame, NoneNew
<1>. QED BY <1>1, <1>2, <1>3, <1>4 DEF SignsOnce, Ones

LEMMA SessionKept ==
    ASSUME SessionOnce, UNCHANGED <<session, session_file>>,
           session = "none" => NoneSent(Inside) /\ NoneCame(Opened),
           \A p \in Participants : Submitted2(p) => Submitted2(p)'
    PROVE  SessionOnce'
BY NoneSentKeeps DEF SessionOnce, NoneCame, NoneNew

LEMMA OnceTypes ==
    ASSUME TypeOK
    PROVE  /\ Queues(ClientMsg, ServerMsg) /\ ProcessesTypeOK
           /\ commitments \in Packages /\ sign_shares \in [Participants -> Packages]
           /\ joined \in SUBSET Participants
           /\ gen \in [Participants -> Nat] /\ my_nonces \in [Participants -> Nat]
           /\ signed = [p \in Participants |-> signed[p]]
BY NetQueues DEF TypeOK, ServerTypeOK, ClientTypeOK

LEMMA FirstFacts ==
    /\ Ones \in Packages /\ Ones \in SigningPackage /\ Ones # NoPackage
    /\ Present(Ones) = Participants
    /\ \A pkgs \in Bits : Present(pkgs) = Participants => pkgs = Ones
    /\ NoPackages \in Bits
    /\ FirstSubmit \subseteq ClientMsg /\ FirstRound \subseteq ServerMsg
    /\ \A t \in {"Login", "JoinSignSession", "Close"} : [type |-> t] \in FirstSubmit
    /\ \A t \in {"LoginOk", "SignSessionCreated", "SignReadyRound1"} : [type |-> t] \in FirstRound
<1>1. Ones \in Packages /\ Present(Ones) = Participants /\ NoPackages \in Bits
    BY DEF Ones, Packages, Bits, Present, NoPackages
<1>2. Ones \in SigningPackage /\ Ones # NoPackage
    BY <1>1, PackagesFacts DEF SigningPackage
<1>3. ASSUME NEW pkgs \in Bits, Present(pkgs) = Participants PROVE pkgs = Ones
    <2>1. \A q \in Participants : pkgs[q] = 1
        BY <1>3 DEF Present, Bits
    <2>. QED BY <2>1 DEF Bits, Ones
<1>4. /\ FirstSubmit \subseteq ClientMsg /\ FirstRound \subseteq ServerMsg
      /\ \A t \in {"Login", "JoinSignSession", "Close"} : [type |-> t] \in FirstSubmit
      /\ \A t \in {"LoginOk", "SignSessionCreated", "SignReadyRound1"} : [type |-> t] \in FirstRound
    BY ClientMsgFacts, ServerMsgFacts DEF FirstSubmit, FirstRound
<1>. QED BY <1>1, <1>2, <1>3, <1>4

-----------------------------------------------------------------------------
(***************************************************************************)
(* The coordinator's steps.                                                *)
(***************************************************************************)

LEMMA ReadFirst ==
    ASSUME TypeOK, OnceInv, NEW c \in Conns, NEW type, Reads(c, type)
    PROVE  /\ Queues(ClientMsg, ServerMsg) /\ ProcessesTypeOK
           /\ \A T : NoneSent(T)
           /\ \A T : type \in T => ~Unsent(c[1], T)
           /\ \A T : type \in T /\ Once(c[1], T) => Unsent(c[1], T)'
           /\ \A d \in Conns : toServer'[d] \in Seq(FirstSubmit)
           /\ Head(toServer[c]) \in FirstSubmit /\ Head(toServer[c]).type = type
           /\ UNCHANGED <<started, phase>>
           /\ c[1] \in Participants
<1>1. Queues(ClientMsg, ServerMsg) /\ ProcessesTypeOK
    BY OnceTypes
<1>2. /\ \A T : NoneSent(T)
      /\ \A T : type \in T => ~Unsent(c[1], T)
      /\ \A T : type \in T /\ Once(c[1], T) => Unsent(c[1], T)'
    BY <1>1, ReadsQueued
<1>3. /\ \A d \in Conns : toServer'[d] \in Seq(FirstSubmit)
      /\ Head(toServer[c]) \in FirstSubmit /\ Head(toServer[c]).type = type
    BY <1>1, SessionReads DEF OnceInv, ServerFirst
<1>. QED BY <1>1, <1>2, <1>3 DEF Reads, Conns

\* The coordinator says m, to all or to one.
LEMMA SaysFirst ==
    ASSUME TypeOK, OnceInv, NEW m \in FirstRound, NEW conn,
           toClient' = Sent(conn, [p \in Participants |-> <<m>>])
    PROVE  /\ \A T : m.type \notin T => NoneCame(T)
           /\ \A T : \A p \in Participants : Free(toClient[p], T) => Single(toClient'[p], T)
           /\ \A p \in Participants : toClient'[p] \in Seq(FirstRound)
<1>. DEFINE msgs == [p \in Participants |-> <<m>>]
<1>1. Queues(ClientMsg, ServerMsg)
    BY OnceTypes
<1>2. /\ msgs \in [Participants -> Seq(ServerMsg)]
      /\ \A p \in Participants : msgs[p] \in Seq(FirstRound)
      /\ \A p \in Participants : \A T : Single(msgs[p], T) /\ (m.type \notin T => Free(msgs[p], T))
    BY FirstFacts, FewMessages, FewQueued
<1>. HIDE DEF msgs
<1>3. toClient' = Sent(conn, msgs)
    BY DEF msgs
<1>4. /\ \A T : (\A p \in Participants : Free(msgs[p], T)) => NoneCame(T)
      /\ \A T : \A p \in Participants :
            Free(toClient[p], T) /\ Single(msgs[p], T) => Single(toClient'[p], T)
    BY <1>1, <1>2, <1>3, SentQueued
<1>5. \A p \in Participants : toClient'[p] \in Seq(FirstRound)
    BY <1>1, <1>2, <1>3, SessionSent DEF OnceInv, SignersFirst
<1>. QED BY <1>2, <1>4, <1>5

LEMMA SignersKept ==
    ASSUME OnceInv, UNCHANGED clientVars, UNCHANGED phase,
           \A p \in Participants : toClient'[p] \in Seq(FirstRound)
    PROVE  SignersFirst'
BY DEF OnceInv, SignersFirst, clientVars

\* A step in which nothing is sent, read messages apart.
LEMMA QuietStep ==
    ASSUME OnceInv, UNCHANGED clientVars,
           UNCHANGED <<started, phase, toClient, session, commitments, sign_shares>>,
           \A T : NoneSent(T), \A d \in Conns : toServer'[d] \in Seq(FirstSubmit),
           joined' \subseteq joined
    PROVE  OnceInv'
<1>1. UNCHANGED <<gen, signed, session_file>> /\ \A T : NoneCame(T)
    BY SilentStep DEF clientVars
<1>2. EntersOnce' /\ \A p \in Participants : Entered(p) => Entered(p)'
    BY <1>1, EntersKept DEF OnceInv
<1>3. DrawsOnce' /\ \A p \in Participants : Submitted1(p) => Submitted1(p)'
    BY <1>1, <1>2, DrawsKept DEF OnceInv
<1>4. SignsOnce' /\ \A p \in Participants : Submitted2(p) => Submitted2(p)'
    BY <1>1, <1>3, SignsKept DEF OnceInv
<1>5. SessionOnce'
    BY <1>1, <1>4, SessionKept DEF OnceInv
<1>6. ServerFirst' /\ SignersFirst'
    BY SignersKept DEF OnceInv, ServerFirst, SignersFirst
<1>. QED BY <1>2, <1>3, <1>4, <1>5, <1>6 DEF OnceInv

\* Login and AnnounceSignSession are answered with the next thing to do.
LEMMA TellOnce ==
    ASSUME TypeOK, OnceInv, NEW c \in Conns, NEW type \in AskIn, Reads(c, type),
           NEW m \in FirstRound, m.type \in TellIn, Reply(c, m),
           UNCHANGED <<joined, commitments, sign_shares>>, UNCHANGED clientVars,
           \/ UNCHANGED session /\ m.type \notin Opened
           \/ session = "none" /\ session' = "open"
    PROVE  OnceInv'
<1>. DEFINE p == c[1]
<1>1. /\ Queues(ClientMsg, ServerMsg) /\ ProcessesTypeOK
      /\ \A T : NoneSent(T)
      /\ \A T : type \in T => ~Unsent(c[1], T)
      /\ \A T : type \in T /\ Once(c[1], T) => Unsent(c[1], T)'
      /\ \A d \in Conns : toServer'[d] \in Seq(FirstSubmit)
      /\ Head(toServer[c]) \in FirstSubmit /\ Head(toServer[c]).type = type
      /\ UNCHANGED <<started, phase>>
      /\ c[1] \in Participants
    BY ReadFirst
<1>2. ~Unsent(p, AskIn) /\ Unsent(p, AskIn)' /\ Free(toClient[p], TellIn)
    BY <1>1 DEF OnceInv, EntersOnce
<1>3. /\ \A T : m.type \notin T => NoneCame(T)
      /\ \A T : \A q \in Participants : Free(toClient[q], T) => Single(toClient'[q], T)
      /\ \A q \in Participants : toClient'[q] \in Seq(FirstRound)
    BY SaysFirst DEF Reply
<1>4. \A q \in Participants : q # p => toClient'[q] = toClient[q]
    BY <1>1, FirstFacts, ReplyQueued
<1>5. ~Entered(p) /\ p \notin joined /\ started[p] # 0
    BY <1>1, <1>2 DEF OnceInv, EntersOnce, Entered
<1>6. UNCHANGED <<gen, signed, session_file>>
    BY DEF clientVars
<1>. HIDE DEF p
<1>7. \A q \in Participants : (Unsent(q, AskIn) => Unsent(q, AskIn)') /\ Once(q, AskIn)'
    BY <1>1, NoneSentKeeps DEF OnceInv, EntersOnce
<1>8. \A q \in Participants : Entered(q) => Entered(q)'
    BY <1>1, <1>4, <1>5, <1>7 DEF Entered
<1>9. EntersOnce'
    <2>1. ASSUME NEW q \in Participants
          PROVE  /\ Single(toClient'[q], TellIn)
                 /\ Unsent(q, AskIn)' \/ Free(toClient'[q], TellIn)
                 /\ started'[q] = 0 => Unsent(q, AskIn)' /\ Free(toClient'[q], TellIn)
                 /\ q \in joined' => Entered(q)'
        <3>1. CASE q = p
            BY <1>1, <1>2, <1>3, <1>5, <3>1
        <3>2. CASE q # p
            BY <1>1, <1>4, <1>7, <1>8, <3>2 DEF OnceInv, EntersOnce
        <3>. QED BY <3>1, <3>2
    <2>. QED BY <1>7, <2>1 DEF EntersOnce
<1>10. NoneCame(Ready1) /\ NoneCame(Told2)
    BY <1>3 DEF TellIn, Ready1, Told2
<1>11. DrawsOnce' /\ \A q \in Participants : Submitted1(q) => Submitted1(q)'
    BY <1>1, <1>6, <1>8, <1>10, DrawsKept DEF OnceInv
<1>12. SignsOnce' /\ \A q \in Participants : Submitted2(q) => Submitted2(q)'
    BY <1>1, <1>6, <1>10, <1>11, SignsKept DEF OnceInv
<1>13. SessionOnce'
    <2>1. CASE UNCHANGED session /\ m.type \notin Opened
        BY <1>1, <1>3, <1>6, <1>12, <2>1, SessionKept DEF OnceInv
    <2>2. CASE session' = "open"
        BY <2>2 DEF SessionOnce
    <2>. QED BY <2>1, <2>2
<1>14. ServerFirst' /\ SignersFirst'
    BY <1>1, <1>3, SignersKept DEF OnceInv, ServerFirst
<1>. QED BY <1>9, <1>11, <1>12, <1>13, <1>14 DEF OnceInv

\* The last signer joins: everybody has entered, and nobody has drawn nonces yet.
LEMMA JoinOnce ==
    ASSUME TypeOK, OnceInv, NEW c \in Conns, HandleJoinSign(c), UNCHANGED clientVars
    PROVE  OnceInv'
<1>. DEFINE p == c[1]
            m == [type |-> "SignReadyRound1"]
<1>1. /\ Queues(ClientMsg, ServerMsg) /\ ProcessesTypeOK
      /\ \A T : NoneSent(T)
      /\ \A T : "JoinSignSession" \in T => ~Unsent(c[1], T)
      /\ \A T : "JoinSignSession" \in T /\ Once(c[1], T) => Unsent(c[1], T)'
      /\ \A d \in Conns : toServer'[d] \in Seq(FirstSubmit)
      /\ Head(toServer[c]) \in FirstSubmit /\ Head(toServer[c]).type = "JoinSignSession"
      /\ UNCHANGED <<started, phase>>
      /\ c[1] \in Participants
    BY ReadFirst DEF HandleJoinSign
<1>2. ~Unsent(p, AskIn) /\ Unsent(p, AskIn)'
    <2>1. "JoinSignSession" \in AskIn /\ Once(p, AskIn)
        BY <1>1 DEF AskIn, OnceInv, EntersOnce
    <2>. QED BY <1>1, <2>1
<1>3. p \in Participants /\ ~Entered(p) /\ started[p] # 0 /\ Free(toClient[p], TellIn)
    BY <1>1, <1>2 DEF OnceInv, EntersOnce, Entered
<1>4. /\ joined' = joined \cup {p} /\ session = "open"
      /\ UNCHANGED <<session, commitments, sign_shares, gen, signed, session_file>>
    BY DEF HandleJoinSign, Admitted, clientVars
<1>5. m \in FirstRound /\ m.type = "SignReadyRound1"
    BY FirstFacts
<1>6. UNCHANGED toClient \/ (AllOf(joined') /\ toClient' = Sent(conns, [q \in Participants |-> <<m>>]))
    BY DEF HandleJoinSign, Broadcast, ToAll
<1>. HIDE DEF p, m
<1>7. /\ \A T : "SignReadyRound1" \notin T => NoneCame(T)
      /\ \A q \in Participants : toClient'[q] \in Seq(FirstRound)
    <2>1. CASE UNCHANGED toClient
        BY <2>1, SilentStep DEF OnceInv, SignersFirst
    <2>2. CASE toClient' = Sent(conns, [q \in Participants |-> <<m>>])
        BY <1>5, <2>2, SaysFirst
    <2>. QED BY <1>6, <2>1, <2>2
<1>8. NoneCame(TellIn) /\ NoneCame(Told2)
    BY <1>7 DEF TellIn, Told2
<1>9. \A q \in Participants : Entered(q) => Entered(q)'
    BY <1>1, <1>8, NoneSentKeeps DEF Entered, NoneCame, NoneNew
<1>10. Entered(p)'
    BY <1>1, <1>2, <1>3, <1>8 DEF Entered, NoneCame, NoneNew
<1>11. EntersOnce'
    <2>1. \A q \in Participants :
            /\ Once(q, AskIn)' /\ (Unsent(q, AskIn) => Unsent(q, AskIn)')
            /\ Single(toClient'[q], TellIn)
            /\ Free(toClient[q], TellIn) => Free(toClient'[q], TellIn)
        BY <1>1, <1>8, NoneSentKeeps DEF OnceInv, EntersOnce, NoneCame, NoneNew
    <2>2. \A q \in Participants : q \in joined' => Entered(q)'
        BY <1>4, <1>9, <1>10 DEF OnceInv, EntersOnce
    <2>. QED BY <1>1, <2>1, <2>2 DEF OnceInv, EntersOnce
<1>12. DrawsOnce' /\ \A q \in Participants : Submitted1(q) => Submitted1(q)'
    <2>1. CASE UNCHANGED toClient
        BY <1>1, <1>4, <1>9, <2>1, SilentStep, DrawsKept DEF OnceInv
    <2>2. CASE AllOf(joined') /\ toClient' = Sent(conns, [q \in Participants |-> <<m>>])
        <3>1. \A q \in Participants : Entered(q)'
            <4>1. joined' \in SUBSET Participants
                BY <1>3, <1>4, OnceTypes
            <4>. QED BY <1>11, <2>2, <4>1, EverybodyThere DEF EntersOnce
        <3>2. \A q \in Participants : Free(toClient[q], Ready1) /\ gen[q] = 0
            BY <1>3 DEF OnceInv, DrawsOnce
        <3>3. \A q \in Participants : Single(toClient'[q], Ready1)
            BY <1>5, <2>2, <3>2, SaysFirst
        <3>4. \A q \in Participants : ~Submitted1(q)
            BY <3>2 DEF Submitted1
        <3>5. \A q \in Participants :
                /\ Once(q, Submit1)' /\ (Unsent(q, Submit1) => Unsent(q, Submit1)')
                /\ commitments[q] = 0
            BY <1>1, <3>4, NoneSentKeeps DEF OnceInv, DrawsOnce
        <3>6. \A q \in Participants : gen'[q] = 0 /\ Unsent(q, Submit1)' /\ commitments'[q] = 0
            BY <1>4, <3>2, <3>5 DEF OnceInv, DrawsOnce
        <3>. QED BY <3>1, <3>3, <3>4, <3>5, <3>6 DEF DrawsOnce
    <2>. QED BY <1>6, <2>1, <2>2
<1>13. SignsOnce' /\ \A q \in Participants : Submitted2(q) => Submitted2(q)'
    BY <1>1, <1>4, <1>8, <1>12, SignsKept DEF OnceInv
<1>14. SessionOnce'
    BY <1>4, <1>13, SessionKept DEF OnceInv
<1>15. ServerFirst' /\ SignersFirst'
    BY <1>1, <1>4, <1>7, SignersKept DEF OnceInv, ServerFirst
<1>. QED BY <1>11, <1>12, <1>13, <1>14, <1>15 DEF OnceInv

\* The last commitment arrives: everybody has drawn nonces, and nobody has signed.
LEMMA Submit1Once ==
    ASSUME TypeOK, OnceInv, NEW c \in Conns, HandleSignRound1Submit(c), UNCHANGED clientVars
    PROVE  OnceInv'
<1>. DEFINE p == c[1]
            m == [type |-> "SignSigningPackage", pkg |-> Ones]
<1>1. /\ Queues(ClientMsg, ServerMsg) /\ ProcessesTypeOK
      /\ \A T : NoneSent(T)
      /\ \A T : "SignRound1Submit" \in T => ~Unsent(c[1], T)
      /\ \A T : "SignRound1Submit" \in T /\ Once(c[1], T) => Unsent(c[1], T)'
      /\ \A d \in Conns : toServer'[d] \in Seq(FirstSubmit)
      /\ Head(toServer[c]) \in FirstSubmit /\ Head(toServer[c]).type = "SignRound1Submit"
      /\ UNCHANGED <<started, phase>>
      /\ c[1] \in Participants
    BY ReadFirst DEF HandleSignRound1Submit
<1>2. ~Unsent(p, Submit1) /\ Unsent(p, Submit1)'
    <2>1. "SignRound1Submit" \in Submit1 /\ Once(p, Submit1)
        BY <1>1 DEF Submit1, OnceInv, DrawsOnce
    <2>. QED BY <1>1, <2>1
<1>3. p \in Participants /\ ~Submitted1(p) /\ gen[p] # 0
    BY <1>1, <1>2 DEF OnceInv, DrawsOnce, Submitted1
<1>4. /\ commitments' = [commitments EXCEPT ![p] = 1] /\ session = "open"
      /\ UNCHANGED <<session, joined, sign_shares, gen, signed, session_file>>
    BY <1>1 DEF HandleSignRound1Submit, Admitted, clientVars, FirstSubmit
<1>5. commitments' \in Bits /\ \A q \in Participants : q # p => commitments'[q] = commitments[q]
    BY <1>3, <1>4 DEF OnceInv, ServerFirst, Bits
<1>6. m \in FirstRound /\ m.type = "SignSigningPackage"
    <2>1. m \in ServerMsg
        BY FirstFacts, ServerMsgFacts
    <2>. QED BY <2>1 DEF FirstRound
<1>7. AllOf(Present(commitments')) => commitments' = Ones /\ Present(commitments') = Participants
    BY <1>5, FirstFacts, EverybodyThere DEF Present
<1>8. \/ UNCHANGED toClient
      \/ /\ AllOf(Present(commitments'))
         /\ toClient' = Sent(conns, [q \in Participants |-> <<m>>])
    BY <1>7 DEF HandleSignRound1Submit, Broadcast, ToAll
<1>. HIDE DEF p, m
<1>9. /\ \A T : "SignSigningPackage" \notin T => NoneCame(T)
      /\ \A q \in Participants : toClient'[q] \in Seq(FirstRound)
    <2>1. CASE UNCHANGED toClient
        BY <2>1, SilentStep DEF OnceInv, SignersFirst
    <2>2. CASE toClient' = Sent(conns, [q \in Participants |-> <<m>>])
        BY <1>6, <2>2, SaysFirst
    <2>. QED BY <1>8, <2>1, <2>2
<1>10. NoneCame(TellIn) /\ NoneCame(Ready1)
    BY <1>9 DEF TellIn, Ready1
<1>11. EntersOnce' /\ \A q \in Participants : Entered(q) => Entered(q)'
    BY <1>1, <1>4, <1>10, EntersKept DEF OnceInv
<1>12. \A q \in Participants : Submitted1(q) => Submitted1(q)'
    BY <1>1, <1>4, NoneSentKeeps DEF Submitted1
<1>13. Submitted1(p)'
    BY <1>2, <1>3, <1>4 DEF Submitted1
<1>14. DrawsOnce'
    <2>1. (\E q \in Participants : ~Entered(q)') =>
              \A q \in Participants : Free(toClient'[q], Ready1) /\ gen'[q] = 0
        BY <1>4, <1>10, <1>11 DEF OnceInv, DrawsOnce, NoneCame, NoneNew
    <2>2. \A q \in Participants :
              /\ Single(toClient'[q], Ready1)
              /\ ~Free(toClient'[q], Ready1) => gen'[q] = 0
              /\ Once(q, Submit1)'
              /\ gen'[q] = 0 => Unsent(q, Submit1)'
        BY <1>1, <1>4, <1>10, NoneSentKeeps DEF OnceInv, DrawsOnce, NoneCame, NoneNew
    <2>3. \A q \in Participants : commitments'[q] # 0 => Submitted1(q)'
        BY <1>5, <1>12, <1>13 DEF OnceInv, DrawsOnce
    <2>. QED BY <2>1, <2>2, <2>3 DEF DrawsOnce
<1>15. SignsOnce' /\ \A q \in Participants : Submitted2(q) => Submitted2(q)'
    <2>1. \A q \in Participants : Free(toClient[q], Told2) /\ signed[q] = {}
        BY <1>3 DEF OnceInv, SignsOnce
    <2>2. \A q \in Participants : ~Submitted2(q)
        BY <2>1 DEF Submitted2
    <2>3. \A q \in Participants :
            /\ Once(q, Submit2)' /\ Unsent(q, Submit2)'
            /\ signed'[q] = {} /\ sign_shares'[q] = NoPackage
        BY <1>1, <1>4, <2>1, <2>2, NoneSentKeeps DEF OnceInv, SignsOnce
    <2>4. CASE UNCHANGED toClient
        <3>1. \A q \in Participants : Free(toClient'[q], Told2) /\ Single(toClient'[q], Told2)
            BY <2>1, <2>4, FreeIsSingle
        <3>. QED BY <2>2, <2>3, <3>1 DEF SignsOnce
    <2>5. CASE /\ AllOf(Present(commitments'))
               /\ toClient' = Sent(conns, [q \in Participants |-> <<m>>])
        <3>1. \A q \in Participants : Submitted1(q)'
            BY <1>7, <1>14, <2>5 DEF DrawsOnce, Present
        <3>2. \A q \in Participants : Single(toClient'[q], Told2)
            BY <1>6, <2>1, <2>5, SaysFirst
        <3>3. commitments' = Ones'
            BY <1>7, <2>5 DEF Ones
        <3>. QED BY <2>2, <2>3, <3>1, <3>2, <3>3 DEF SignsOnce
    <2>. QED BY <1>8, <2>4, <2>5
<1>16. SessionOnce'
    BY <1>4, <1>15, SessionKept DEF OnceInv
<1>17. ServerFirst' /\ SignersFirst'
    BY <1>1, <1>4, <1>5, <1>9, SignersKept DEF OnceInv, ServerFirst
<1>. QED BY <1>11, <1>14, <1>15, <1>16, <1>17 DEF OnceInv

\* Everybody's share is there: they are on one package, and the signature verifies.
LEMMA SharesThere ==
    ASSUME NEW shares, \A q \in Participants : shares[q] \in {NoPackage, Ones},
           commitments = Ones, SharesComplete(shares)
    PROVE  (\A q \in Participants : shares[q] = Ones) /\ AggregateAccepts(commitments, shares)
<1>. DEFINE given == {q \in Participants : shares[q] # NoPackage}
<1>1. Cardinality(given) = Cardinality(Participants)
    BY FirstFacts DEF SharesComplete
<1>2. given = Participants
    BY <1>1, EverybodyThere DEF AllOf
<1>3. \A q \in Participants : shares[q] = Ones
    BY <1>2
<1>. QED BY <1>3, FirstFacts DEF AggregateAccepts

\* A share arrives: with everybody's the session is completed.
LEMMA Submit2Once ==
    ASSUME TypeOK, OnceInv, NEW c \in Conns, HandleSignRound2Submit(c), UNCHANGED clientVars
    PROVE  OnceInv'
<1>. DEFINE p == c[1]
            shares == [sign_shares EXCEPT ![p] = Ones]
            m == [type |-> "SignatureReady", signature |-> Ones]
<1>1. /\ Queues(ClientMsg, ServerMsg) /\ ProcessesTypeOK
      /\ \A T : NoneSent(T)
      /\ \A T : "SignRound2Submit" \in T => ~Unsent(c[1], T)
      /\ \A T : "SignRound2Submit" \in T /\ Once(c[1], T) => Unsent(c[1], T)'
      /\ \A d \in Conns : toServer'[d] \in Seq(FirstSubmit)
      /\ Head(toServer[c]) \in FirstSubmit /\ Head(toServer[c]).type = "SignRound2Submit"
      /\ UNCHANGED <<started, phase>>
      /\ c[1] \in Participants
    BY ReadFirst DEF HandleSignRound2Submit
<1>2. ~Unsent(p, Submit2) /\ Unsent(p, Submit2)'
    <2>1. "SignRound2Submit" \in Submit2 /\ Once(p, Submit2)
        BY <1>1 DEF Submit2, OnceInv, SignsOnce
    <2>. QED BY <1>1, <2>1
<1>3. p \in Participants /\ ~Submitted2(p) /\ signed[p] # {}
    BY <1>1, <1>2 DEF OnceInv, SignsOnce, Submitted2
<1>4. /\ session = "open" /\ commitments = Ones
      /\ UNCHANGED <<gen, signed, session_file>>
    BY <1>3 DEF HandleSignRound2Submit, Admitted, OnceInv, SignsOnce, clientVars
<1>5. Head(toServer[c]).share = Ones
    BY <1>1 DEF FirstSubmit
<1>6. \A q \in Participants :
        /\ shares[q] \in {NoPackage, Ones}
        /\ q # p => shares[q] = sign_shares[q]
    BY <1>3, OnceTypes DEF OnceInv, ServerFirst
<1>7. m \in FirstRound /\ m.type = "SignatureReady"
    <2>1. m \in ServerMsg
        BY FirstFacts, ServerMsgFacts
    <2>. QED BY <2>1 DEF FirstRound
<1>8. \/ /\ ~SharesComplete(shares)
         /\ sign_shares' = shares
         /\ UNCHANGED <<session, joined, commitments, toClient>>
      \/ /\ SharesComplete(shares) /\ AggregateAccepts(commitments, shares)
         /\ RemoveSession /\ session' = "completed"
         /\ toClient' = Sent(conns, [q \in Participants |-> <<m>>])
    <2>1. SharesComplete(shares) => AggregateAccepts(commitments, shares)
        BY <1>4, <1>6, SharesThere
    <2>. QED BY <1>4, <1>5, <2>1 DEF HandleSignRound2Submit, Broadcast, ToAll
<1>9. SharesComplete(shares) => \A q \in Participants : shares[q] = Ones
    BY <1>4, <1>6, SharesThere
<1>. HIDE DEF p, m, shares
<1>10. /\ \A T : "SignatureReady" \notin T => NoneCame(T)
       /\ \A q \in Participants : toClient'[q] \in Seq(FirstRound)
    <2>1. CASE UNCHANGED toClient
        BY <2>1, SilentStep DEF OnceInv, SignersFirst
    <2>2. CASE toClient' = Sent(conns, [q \in Participants |-> <<m>>])
        BY <1>7, <2>2, SaysFirst
    <2>. QED BY <1>8, <2>1, <2>2
<1>11. NoneCame(TellIn) /\ NoneCame(Ready1) /\ NoneCame(Told2)
    BY <1>10 DEF TellIn, Ready1, Told2
<1>12. joined' \subseteq joined /\ \A q \in Participants : commitments'[q] \in {commitments[q], 0}
    BY <1>8 DEF RemoveSession, NoPackages
<1>13. EntersOnce' /\ \A q \in Participants : Entered(q) => Entered(q)'
    BY <1>1, <1>11, <1>12, EntersKept DEF OnceInv
<1>14. DrawsOnce' /\ \A q \in Participants : Submitted1(q) => Submitted1(q)'
    BY <1>1, <1>4, <1>11, <1>12, <1>13, DrawsKept DEF OnceInv
<1>15. \A q \in Participants : Submitted2(q) => Submitted2(q)'
    BY <1>1, <1>4, NoneSentKeeps DEF Submitted2
<1>16. Submitted2(p)'
    BY <1>2, <1>3, <1>4 DEF Submitted2
<1>17. \A q \in Participants : shares[q] # NoPackage => Submitted2(q)'
    BY <1>6, <1>15, <1>16 DEF OnceInv, SignsOnce
<1>18. SignsOnce'
    <2>1. (\E q \in Participants : ~Submitted1(q)') =>
              \A q \in Participants : Free(toClient'[q], Told2) /\ signed'[q] = {}
        BY <1>4, <1>11, <1>14 DEF OnceInv, SignsOnce, NoneCame, NoneNew
    <2>2. session' = "completed" \/ commitments' = Ones'
        BY <1>4, <1>8 DEF Ones
    <2>3. \A q \in Participants :
              /\ Single(toClient'[q], Told2)
              /\ ~Free(toClient'[q], Told2) => signed'[q] = {}
              /\ Once(q, Submit2)'
              /\ signed'[q] = {} => Unsent(q, Submit2)'
        BY <1>1, <1>4, <1>11, NoneSentKeeps DEF OnceInv, SignsOnce, NoneCame, NoneNew
    <2>4. \A q \in Participants : sign_shares'[q] # NoPackage => Submitted2(q)'
        BY <1>8, <1>17 DEF RemoveSession, NoShares
    <2>. QED BY <2>1, <2>2, <2>3, <2>4 DEF SignsOnce
<1>19. SessionOnce'
    <2>1. CASE UNCHANGED session
        BY <1>4, <1>15, <2>1, SessionKept DEF OnceInv
    <2>2. CASE SharesComplete(shares) /\ session' = "completed"
        BY <1>9, <1>17, <2>2, FirstFacts DEF SessionOnce
    <2>. QED BY <1>8, <2>1, <2>2
<1>20. ServerFirst'
    <2>1. commitments' \in Bits
        BY <1>8, FirstFacts DEF RemoveSession, OnceInv, ServerFirst
    <2>2. \A q \in Participants : sign_shares'[q] \in {NoPackage, Ones}
        BY <1>6, <1>8 DEF RemoveSession, NoShares
    <2>. QED BY <1>1, <2>1, <2>2 DEF ServerFirst, Bits, Ones
<1>21. SignersFirst'
    BY <1>1, <1>10, SignersKept
<1>. QED BY <1>13, <1>14, <1>18, <1>19, <1>20, <1>21 DEF OnceInv

\* What is done in a later round was done in the earlier ones.
LEMMA RoundsInOrder ==
    ASSUME OnceInv
    PROVE  /\ (\E p \in Participants : gen[p] # 0) => \A p \in Participants : Entered(p)
           /\ (\E p \in Participants : signed[p] # {}) => \A p \in Participants : Submitted1(p)
BY DEF OnceInv, DrawsOnce, SignsOnce

\* Every message that comes is for the session as it is.
LEMMA NeverRefuses ==
    ASSUME TypeOK, SocketsInv, OnceInv, NEW c \in Conns, Refuse(c)
    PROVE  FALSE
<1>1. ASSUME NEW type \in Inside, Reads(c, type), ~Admitted(c)
      PROVE  FALSE
    <2>1. c[1] \in Participants /\ \A T : type \in T => ~Unsent(c[1], T)
        BY <1>1, ReadFirst
    <2>2. c \in logged_in
        BY <1>1, ReadSockets DEF Inside, Asked
    <2>3. session # "none"
        BY <2>1 DEF OnceInv, SessionOnce
    <2>4. session = "completed"
        BY <1>1, <2>2, <2>3 DEF Admitted, OnceInv, SessionOnce
    <2>5. \A p \in Participants : Submitted2(p) /\ Submitted1(p) /\ Entered(p)
        <3>1. \A p \in Participants : Submitted2(p)
            BY <2>4 DEF OnceInv, SessionOnce
        <3>2. \A p \in Participants : Submitted1(p)
            BY <2>1, <3>1, RoundsInOrder DEF Submitted2
        <3>3. \A p \in Participants : Entered(p)
            BY <2>1, <3>2, RoundsInOrder DEF Submitted1
        <3>. QED BY <3>1, <3>2, <3>3
    <2>6. Unsent(c[1], AskIn) /\ Unsent(c[1], Submit1) /\ Unsent(c[1], Submit2)
        BY <2>1, <2>5 DEF Entered, Submitted1, Submitted2
    <2>. QED BY <2>1, <2>6 DEF Inside, AskIn, Submit1, Submit2
<1>2. ASSUME Reads(c, "AnnounceSignSession"), ~Head(toServer[c]).hashed
      PROVE  FALSE
    <2>1. Head(toServer[c]) \in FirstSubmit /\ Head(toServer[c]).type = "AnnounceSignSession"
        BY <1>2, ReadFirst
    <2>. QED BY <1>2, <2>1 DEF FirstSubmit
<1>. QED BY <1>1, <1>2 DEF Refuse, Inside

LEMMA ServerStepOnce ==
    ASSUME TypeOK, SocketsInv, OnceInv, NEW c \in Conns, ServerStep(c)
    PROVE  OnceInv'
<1>1. UNCHANGED clientVars
    BY DEF ServerStep
<1>2. CASE HandleLogin(c)
    <2>1. /\ [type |-> "LoginOk"] \in FirstRound /\ "LoginOk" \in TellIn /\ "LoginOk" \notin Opened
          /\ "Login" \in AskIn
        BY FirstFacts DEF TellIn, Opened, AskIn
    <2>2. /\ Reads(c, "Login") /\ Reply(c, [type |-> "LoginOk"])
          /\ UNCHANGED <<session, joined, commitments, sign_shares>>
        BY <1>2 DEF HandleLogin, Register, sessionVars
    <2>. QED BY <1>1, <2>1, <2>2, TellOnce
<1>3. CASE HandleAnnounceSign(c)
    <2>1. /\ [type |-> "SignSessionCreated"] \in FirstRound /\ "SignSessionCreated" \in TellIn
          /\ "AnnounceSignSession" \in AskIn
        BY FirstFacts DEF TellIn, AskIn
    <2>2. /\ Reads(c, "AnnounceSignSession") /\ Reply(c, [type |-> "SignSessionCreated"])
          /\ UNCHANGED <<joined, commitments, sign_shares>>
          /\ session = "none" /\ session' = "open"
        BY <1>3 DEF HandleAnnounceSign, sessionVars
    <2>. QED BY <1>1, <2>1, <2>2, TellOnce
<1>4. CASE HandleDisconnect(c)
    <2>1. /\ Reads(c, "Close") /\ joined' \subseteq joined
          /\ UNCHANGED <<toClient, session, commitments, sign_shares>>
        BY <1>4 DEF HandleDisconnect
    <2>. QED BY <1>1, <2>1, ReadFirst, QuietStep
<1>. QED BY <1>1, <1>2, <1>3, <1>4, JoinOnce, Submit1Once, Submit2Once, NeverRefuses DEF ServerStep

-----------------------------------------------------------------------------
(***************************************************************************)
(* The signers' steps.                                                     *)
(***************************************************************************)

LEMMA SendsFirst ==
    ASSUME TypeOK, OnceInv, NEW p \in Participants, NEW type, Receives(p, type),
           NEW m \in FirstSubmit, Sends(p, <<m>>)
    PROVE  /\ \A d \in Conns : toServer'[d] \in Seq(FirstSubmit)
           /\ \A q \in Participants : toClient'[q] \in Seq(FirstRound)
           /\ UNCHANGED <<started, phase>>
           /\ \A T : NoneCame(T)
           /\ \A T : m.type \notin T => NoneSent(T)
           /\ \A T : \A q \in Participants : q # p =>
                 (Unsent(q, T) => Unsent(q, T)') /\ (Once(q, T) => Once(q, T)')
           /\ \A T : Unsent(p, T) => Once(p, T)'
           /\ \A T : type \in T => ~Free(toClient[p], T)
           /\ \A T : type \in T /\ Single(toClient[p], T) => Free(toClient'[p], T)
<1>1. /\ Queues(ClientMsg, ServerMsg) /\ ProcessesTypeOK
      /\ <<m>> \in Seq(ClientMsg) /\ <<m>> \in Seq(FirstSubmit)
    BY OnceTypes, FewMessages, FirstFacts
<1>2. toClient' = [toClient EXCEPT ![p] = Tail(@)] /\ UNCHANGED <<started, phase>>
    BY DEF Sends
<1>3. /\ \A T : Free(<<m>>, T) => NoneSent(T)
      /\ \A T : \A q \in Participants : q # p =>
            (Unsent(q, T) => Unsent(q, T)') /\ (Once(q, T) => Once(q, T)')
      /\ \A T : Unsent(p, T) /\ Single(<<m>>, T) => Once(p, T)'
    BY <1>1, SendsQueued
<1>4. \A T : Single(<<m>>, T) /\ (m.type \notin T => Free(<<m>>, T))
    BY FewQueued
<1>5. /\ \A T : NoneCame(T)
      /\ \A T : type \in T => ~Free(toClient[p], T)
      /\ \A T : type \in T /\ Single(toClient[p], T) => Free(toClient'[p], T)
    BY <1>1, <1>2, ReceivesQueued
<1>6. \A d \in Conns : toServer'[d] \in Seq(FirstSubmit)
    BY <1>1, SessionSends DEF OnceInv, ServerFirst
<1>7. \A q \in Participants : toClient'[q] \in Seq(FirstRound)
    BY <1>1, SessionSends DEF OnceInv, SignersFirst
<1>. QED BY <1>2, <1>3, <1>4, <1>5, <1>6, <1>7

\* Answering LoginOk or SignSessionCreated: the next thing p does to enter.
LEMMA AskOnce ==
    ASSUME TypeOK, OnceInv, NEW p \in Participants, NEW type \in TellIn, Receives(p, type),
           NEW m \in FirstSubmit, m.type \in AskIn, Sends(p, <<m>>), UNCHANGED serverVars,
           UNCHANGED <<my_nonces, gen, signed>>,
           session = "none" => m.type \notin Inside /\ UNCHANGED session_file
    PROVE  OnceInv'
<1>1. /\ \A d \in Conns : toServer'[d] \in Seq(FirstSubmit)
      /\ \A q \in Participants : toClient'[q] \in Seq(FirstRound)
      /\ UNCHANGED <<started, phase>>
      /\ \A T : NoneCame(T)
      /\ \A T : m.type \notin T => NoneSent(T)
      /\ \A T : \A q \in Participants : q # p =>
            (Unsent(q, T) => Unsent(q, T)') /\ (Once(q, T) => Once(q, T)')
      /\ \A T : Unsent(p, T) => Once(p, T)'
      /\ \A T : type \in T => ~Free(toClient[p], T)
      /\ \A T : type \in T /\ Single(toClient[p], T) => Free(toClient'[p], T)
    BY SendsFirst
<1>2. UNCHANGED <<joined, session, commitments, sign_shares>>
    BY DEF serverVars, sessionVars
<1>3. NoneSent(Submit1) /\ NoneSent(Submit2)
    BY <1>1 DEF AskIn, Submit1, Submit2
<1>4. ~Free(toClient[p], TellIn) /\ Single(toClient[p], TellIn)
    BY <1>1 DEF OnceInv, EntersOnce
<1>5. Unsent(p, AskIn) /\ ~Entered(p) /\ started[p] # 0 /\ p \notin joined
    BY <1>4 DEF OnceInv, EntersOnce, Entered
<1>6. Free(toClient'[p], TellIn) /\ Once(p, AskIn)'
    BY <1>1, <1>4, <1>5
<1>7. \A q \in Participants : Entered(q) => Entered(q)'
    BY <1>1, <1>5 DEF Entered, NoneCame, NoneNew
<1>8. EntersOnce'
    <2>1. ASSUME NEW q \in Participants
          PROVE  /\ Once(q, AskIn)' /\ Single(toClient'[q], TellIn)
                 /\ Unsent(q, AskIn)' \/ Free(toClient'[q], TellIn)
                 /\ started'[q] = 0 => Unsent(q, AskIn)' /\ Free(toClient'[q], TellIn)
                 /\ q \in joined' => Entered(q)'
        <3>1. CASE q = p
            BY <1>1, <1>2, <1>5, <1>6, <3>1, FreeIsSingle
        <3>2. CASE q # p
            BY <1>1, <1>2, <1>7, <3>2 DEF OnceInv, EntersOnce, NoneCame, NoneNew
        <3>. QED BY <3>1, <3>2
    <2>. QED BY <2>1 DEF EntersOnce
<1>9. DrawsOnce' /\ \A q \in Participants : Submitted1(q) => Submitted1(q)'
    BY <1>1, <1>2, <1>3, <1>7, DrawsKept DEF OnceInv
<1>10. SignsOnce' /\ \A q \in Participants : Submitted2(q) => Submitted2(q)'
    BY <1>1, <1>2, <1>3, <1>9, SignsKept DEF OnceInv
<1>11. SessionOnce'
    <2>1. CASE session = "none"
        BY <1>1, <1>2, <1>10, <2>1, SessionKept DEF OnceInv
    <2>2. CASE session # "none"
        BY <1>2, <1>10, <2>2 DEF OnceInv, SessionOnce
    <2>. QED BY <2>1, <2>2
<1>12. ServerFirst' /\ SignersFirst'
    BY <1>1, <1>2 DEF OnceInv, ServerFirst, SignersFirst, Bits, Ones
<1>. QED BY <1>8, <1>9, <1>10, <1>11, <1>12 DEF OnceInv

\* p draws its nonces, its first.
LEMMA DrawOnce ==
    ASSUME TypeOK, OnceInv, NEW p \in Participants, OnSignReadyRound1(p), UNCHANGED serverVars
    PROVE  OnceInv'
<1>. DEFINE m == [type |-> "SignRound1Submit", gen |-> gen[p] + 1]
<1>1. Receives(p, "SignReadyRound1") /\ Sends(p, <<m>>)
    BY DEF OnSignReadyRound1
<1>2. ~Free(toClient[p], Ready1) /\ Single(toClient[p], Ready1)
    <2>1. toClient' = [toClient EXCEPT ![p] = Tail(@)]
        BY <1>1 DEF Sends
    <2>. QED BY <1>1, <2>1, OnceTypes, ReceivesQueued DEF Ready1, OnceInv, DrawsOnce
<1>3. gen[p] = 0 /\ \A q \in Participants : Entered(q)
    BY <1>2 DEF OnceInv, DrawsOnce
<1>4. m \in FirstSubmit /\ m.type = "SignRound1Submit"
    <2>1. 1 \in Nat /\ 1 # 0 /\ gen[p] + 1 = 1
        BY <1>3
    <2>2. m \in ClientMsg /\ m.gen = 1
        BY <2>1, ClientMsgFacts
    <2>. QED BY <2>2 DEF FirstSubmit
<1>5. /\ \A q \in Participants :
            /\ gen'[q] = IF q = p THEN 1 ELSE gen[q]
            /\ my_nonces'[q] = IF q = p THEN 1 ELSE my_nonces[q]
      /\ UNCHANGED <<signed, session_file, joined, session, commitments, sign_shares>>
    BY <1>3, OnceTypes DEF OnSignReadyRound1, serverVars, sessionVars
<1>. HIDE DEF m
<1>6. /\ \A d \in Conns : toServer'[d] \in Seq(FirstSubmit)
      /\ \A q \in Participants : toClient'[q] \in Seq(FirstRound)
      /\ UNCHANGED <<started, phase>>
      /\ \A T : NoneCame(T)
      /\ \A T : m.type \notin T => NoneSent(T)
      /\ \A T : \A q \in Participants : q # p =>
            (Unsent(q, T) => Unsent(q, T)') /\ (Once(q, T) => Once(q, T)')
      /\ \A T : Unsent(p, T) => Once(p, T)'
      /\ \A T : "SignReadyRound1" \in T => ~Free(toClient[p], T)
      /\ \A T : "SignReadyRound1" \in T /\ Single(toClient[p], T) => Free(toClient'[p], T)
    BY <1>1, <1>4, SendsFirst
<1>7. NoneSent(AskIn) /\ NoneSent(Submit2)
    BY <1>4, <1>6 DEF AskIn, Submit2
<1>8. EntersOnce' /\ \A q \in Participants : Entered(q) => Entered(q)'
    BY <1>5, <1>6, <1>7, EntersKept DEF OnceInv
<1>9. \A q \in Participants : Submitted1(q) => Submitted1(q)'
    BY <1>3, <1>5, <1>6 DEF Submitted1
<1>10. DrawsOnce'
    <2>1. Free(toClient'[p], Ready1) /\ Once(p, Submit1)' /\ commitments'[p] = 0 /\ gen'[p] # 0
        <3>1. Unsent(p, Submit1) /\ commitments[p] = 0
            BY <1>3 DEF OnceInv, DrawsOnce, Submitted1
        <3>. QED BY <1>2, <1>5, <1>6, <3>1 DEF Ready1
    <2>2. \A q \in Participants : q # p =>
              /\ Single(toClient'[q], Ready1)
              /\ ~Free(toClient'[q], Ready1) => gen'[q] = 0
              /\ Once(q, Submit1)'
              /\ gen'[q] = 0 => Unsent(q, Submit1)'
              /\ commitments'[q] # 0 => Submitted1(q)'
        BY <1>5, <1>6, <1>9 DEF OnceInv, DrawsOnce, NoneCame, NoneNew
    <2>. QED BY <1>3, <1>8, <2>1, <2>2, FreeIsSingle DEF DrawsOnce
<1>11. SignsOnce' /\ \A q \in Participants : Submitted2(q) => Submitted2(q)'
    BY <1>5, <1>6, <1>7, <1>9, SignsKept DEF OnceInv
<1>12. session # "none"
    BY <1>1, <1>6 DEF OnceInv, SessionOnce, Opened
<1>13. SessionOnce'
    BY <1>5, <1>11, <1>12, SessionKept DEF OnceInv
<1>14. ServerFirst' /\ SignersFirst'
    BY <1>5, <1>6 DEF OnceInv, ServerFirst, SignersFirst, Bits, Ones
<1>. QED BY <1>8, <1>10, <1>11, <1>13, <1>14 DEF OnceInv

\* A package finds p with the nonces that are committed to in it.
LEMMA CanSignFirst ==
    ASSUME TypeOK, OnceInv, NEW p \in Participants, Receives(p, "SignSigningPackage")
    PROVE  /\ Head(toClient[p]).pkg = Ones /\ CanSign(p)
           /\ signed[p] = {} /\ my_nonces[p] = 1 /\ commitments = Ones /\ session = "open"
           /\ \A q \in Participants : Submitted1(q)
<1>1. /\ toClient[p] \in Seq(ServerMsg) /\ toClient[p] # <<>> /\ phase[p] = "running"
      /\ Head(toClient[p]).type = "SignSigningPackage"
    BY DEF Receives, TypeOK, NetTypeOK
<1>2. /\ Head(toClient[p]) \in FirstRound
      /\ ~Free(toClient[p], Told2) /\ ~Free(toClient[p], Opened)
    BY <1>1, HeadQueued, HeadTailProperties DEF OnceInv, SignersFirst, Told2, Opened
<1>3. Head(toClient[p]).pkg = Ones
    BY <1>1, <1>2 DEF FirstRound
<1>4. signed[p] = {} /\ \A q \in Participants : Submitted1(q)
    BY <1>2 DEF OnceInv, SignsOnce
<1>5. session = "open"
    BY <1>2, <1>4 DEF OnceInv, SessionOnce, Submitted2
<1>6. commitments = Ones
    BY <1>2, <1>5 DEF OnceInv, SignsOnce
<1>7. my_nonces[p] = 1
    BY <1>1, <1>4 DEF OnceInv, SignersFirst, Submitted1
<1>. QED BY <1>3, <1>4, <1>5, <1>6, <1>7 DEF CanSign, SignAccepts, Ones

\* p signs, once.
LEMMA SignOnce ==
    ASSUME TypeOK, OnceInv, NEW p \in Participants, OnSignSigningPackage(p), UNCHANGED serverVars
    PROVE  OnceInv'
<1>. DEFINE m == [type |-> "SignRound2Submit", share |-> Ones]
            new == [nonces |-> my_nonces[p], pkg |-> Ones]
<1>1. /\ Receives(p, "SignSigningPackage")
      /\ Head(toClient[p]).pkg = Ones
      /\ signed[p] = {} /\ my_nonces[p] = 1 /\ commitments = Ones /\ session = "open"
      /\ \A q \in Participants : Submitted1(q)
    BY CanSignFirst DEF OnSignSigningPackage
<1>2. Sends(p, <<m>>)
    BY <1>1 DEF OnSignSigningPackage
<1>3. m \in FirstSubmit /\ m.type = "SignRound2Submit"
    <2>1. m \in ClientMsg
        BY FirstFacts, ClientMsgFacts
    <2>. QED BY <2>1 DEF FirstSubmit
<1>4. /\ \A q \in Participants : signed'[q] = IF q = p THEN {new} ELSE signed[q]
      /\ \A q \in Participants : q # p => my_nonces'[q] = my_nonces[q]
      /\ UNCHANGED <<gen, session_file, joined, session, commitments, sign_shares>>
    BY <1>1, OnceTypes DEF OnSignSigningPackage, serverVars, sessionVars
<1>. HIDE DEF m, new
<1>5. /\ \A d \in Conns : toServer'[d] \in Seq(FirstSubmit)
      /\ \A q \in Participants : toClient'[q] \in Seq(FirstRound)
      /\ UNCHANGED <<started, phase>>
      /\ \A T : NoneCame(T)
      /\ \A T : m.type \notin T => NoneSent(T)
      /\ \A T : \A q \in Participants : q # p =>
            (Unsent(q, T) => Unsent(q, T)') /\ (Once(q, T) => Once(q, T)')
      /\ \A T : Unsent(p, T) => Once(p, T)'
      /\ \A T : "SignSigningPackage" \in T => ~Free(toClient[p], T)
      /\ \A T : "SignSigningPackage" \in T /\ Single(toClient[p], T) => Free(toClient'[p], T)
    BY <1>1, <1>2, <1>3, SendsFirst
<1>6. NoneSent(AskIn) /\ NoneSent(Submit1)
    BY <1>3, <1>5 DEF AskIn, Submit1
<1>7. EntersOnce' /\ \A q \in Participants : Entered(q) => Entered(q)'
    BY <1>4, <1>5, <1>6, EntersKept DEF OnceInv
<1>8. DrawsOnce' /\ \A q \in Participants : Submitted1(q) => Submitted1(q)'
    BY <1>4, <1>5, <1>6, <1>7, DrawsKept DEF OnceInv
<1>9. \A q \in Participants : Submitted2(q) => Submitted2(q)'
    BY <1>1, <1>4, <1>5 DEF Submitted2
<1>10. SignsOnce'
    <2>1. Free(toClient'[p], Told2) /\ Once(p, Submit2)' /\ sign_shares'[p] = NoPackage
          /\ signed'[p] # {}
        <3>1. Unsent(p, Submit2) /\ sign_shares[p] = NoPackage /\ Single(toClient[p], Told2)
            BY <1>1 DEF OnceInv, SignsOnce, Submitted2
        <3>. QED BY <1>4, <1>5, <3>1 DEF Told2
    <2>2. \A q \in Participants : q # p =>
              /\ Single(toClient'[q], Told2)
              /\ ~Free(toClient'[q], Told2) => signed'[q] = {}
              /\ Once(q, Submit2)'
              /\ signed'[q] = {} => Unsent(q, Submit2)'
              /\ sign_shares'[q] # NoPackage => Submitted2(q)'
        BY <1>4, <1>5, <1>9 DEF OnceInv, SignsOnce, NoneCame, NoneNew
    <2>3. commitments' = Ones'
        BY <1>1, <1>4 DEF Ones
    <2>. QED BY <1>1, <1>8, <2>1, <2>2, <2>3, FreeIsSingle DEF SignsOnce
<1>11. SessionOnce'
    BY <1>1, <1>4, <1>9, SessionKept DEF OnceInv
<1>12. ServerFirst' /\ SignersFirst'
    BY <1>4, <1>5 DEF OnceInv, ServerFirst, SignersFirst, Bits, Ones
<1>. QED BY <1>7, <1>8, <1>10, <1>11, <1>12 DEF OnceInv

\* p's process ends, other than by an error.
LEMMA ExitOnce ==
    ASSUME TypeOK, OnceInv, NEW p \in Participants, phase[p] = "running",
           NEW how \in {"finished", "crashed"}, NEW msgs \in Seq(FirstSubmit),
           Exits(p, how, msgs), \A T : NoneNew(Unread(p), msgs, T),
           UNCHANGED serverVars, UNCHANGED <<session_file, gen, signed>>
    PROVE  OnceInv'
<1>1. /\ Queues(ClientMsg, ServerMsg) /\ ProcessesTypeOK
      /\ [type |-> "Close"] \in ClientMsg /\ [type |-> "Close"] \in FirstSubmit
      /\ Ends(p, how, msgs) /\ how \in Phase \ {"running"} /\ msgs \in Seq(ClientMsg)
    BY OnceTypes, ClientMsgFacts, FirstFacts, SeqMonotone DEF Exits, Phase
<1>2. \A T : "Close" \notin T => NoneSent(T)
    BY <1>1, EndsQueued
<1>3. NoneSent(AskIn) /\ NoneSent(Submit1) /\ NoneSent(Submit2) /\ NoneSent(Inside)
    BY <1>2 DEF AskIn, Submit1, Submit2, Inside
<1>4. /\ UNCHANGED <<started, joined, session, commitments, sign_shares>>
      /\ \A q \in Participants :
            /\ toClient'[q] = IF q = p THEN <<>> ELSE toClient[q]
            /\ phase'[q] = IF q = p THEN how ELSE phase[q]
            /\ q # p => my_nonces'[q] = my_nonces[q]
    BY OnceTypes DEF Exits, Ends, serverVars, sessionVars, Queues, ProcessesTypeOK
<1>5. \A T : Free(<<>>, T)
    BY EmptySeq DEF Free
<1>6. \A T : NoneCame(T)
    BY <1>4, <1>5, FreeIsSingle DEF NoneCame, NoneNew
<1>7. EntersOnce' /\ \A q \in Participants : Entered(q) => Entered(q)'
    BY <1>3, <1>4, <1>6, EntersKept DEF OnceInv
<1>8. DrawsOnce' /\ \A q \in Participants : Submitted1(q) => Submitted1(q)'
    BY <1>3, <1>4, <1>6, <1>7, DrawsKept DEF OnceInv
<1>9. SignsOnce' /\ \A q \in Participants : Submitted2(q) => Submitted2(q)'
    BY <1>3, <1>4, <1>6, <1>8, SignsKept DEF OnceInv
<1>10. SessionOnce'
    BY <1>3, <1>4, <1>6, <1>9, SessionKept DEF OnceInv
<1>11. ServerFirst'
    <2>1. \A d \in Conns : toServer'[d] \in Seq(FirstSubmit)
        BY <1>1, SessionEnds DEF OnceInv, ServerFirst
    <2>. QED BY <1>4, <2>1 DEF OnceInv, ServerFirst, Bits, Ones
<1>12. SignersFirst'
    BY <1>4, EmptySeq DEF OnceInv, SignersFirst
<1>. QED BY <1>7, <1>8, <1>9, <1>10, <1>11, <1>12 DEF OnceInv

\* Every message that comes can be acted on.
LEMMA NeverAborts ==
    ASSUME TypeOK, OnceInv, NEW p \in Participants, Abort(p)
    PROVE  FALSE
<1>1. ASSUME Receives(p, "Error") PROVE FALSE
    <2>1. Head(toClient[p]) \in FirstRound /\ Head(toClient[p]).type = "Error"
        BY <1>1, OnceTypes, SessionReceives DEF OnceInv, SignersFirst
    <2>. QED BY <2>1 DEF FirstRound
<1>. QED BY <1>1, CanSignFirst DEF Abort

LEMMA ClientStepOnce ==
    ASSUME TypeOK, OnceInv, ~MessageIs32Bytes, NEW p \in Participants, ClientStep(p)
    PROVE  OnceInv'
<1>1. UNCHANGED serverVars
    BY DEF ClientStep
<1>2. CASE OnLoginOk(p)
    <2>. DEFINE m == IF session_file THEN [type |-> "JoinSignSession"] ELSE Announcement
    <2>1. [type |-> "JoinSignSession"] \in FirstSubmit /\ Announcement \in FirstSubmit
        <3>1. Announcement = [type |-> "AnnounceSignSession", hashed |-> TRUE]
            BY DEF Announcement
        <3>2. Announcement \in ClientMsg
            BY <3>1, ClientMsgFacts
        <3>. QED BY <3>1, <3>2, FirstFacts DEF FirstSubmit
    <2>2. /\ m \in FirstSubmit /\ m.type \in AskIn
          /\ ~session_file => m.type \notin Inside
        BY <2>1 DEF Announcement, AskIn, Inside
    <2>3. session = "none" => ~session_file
        BY DEF OnceInv, SessionOnce
    <2>4. Receives(p, "LoginOk") /\ Sends(p, <<m>>) /\ "LoginOk" \in TellIn
        BY <1>2 DEF OnLoginOk, TellIn
    <2>5. UNCHANGED <<my_nonces, gen, signed, session_file>>
        BY <1>2 DEF OnLoginOk, clientVars
    <2>. HIDE DEF m
    <2>. QED BY <1>1, <2>2, <2>3, <2>4, <2>5, AskOnce
<1>3. CASE OnSignSessionCreated(p)
    <2>. DEFINE m == [type |-> "JoinSignSession"]
    <2>1. m \in FirstSubmit /\ m.type \in AskIn
        BY FirstFacts DEF AskIn
    <2>2. /\ Receives(p, "SignSessionCreated") /\ Sends(p, <<m>>)
          /\ UNCHANGED <<my_nonces, gen, signed>>
        BY <1>3 DEF OnSignSessionCreated
    <2>3. session # "none"
        <3>1. \A T : "SignSessionCreated" \in T => ~Free(toClient[p], T)
            BY <2>1, <2>2, SendsFirst
        <3>. QED BY <3>1 DEF OnceInv, SessionOnce, Opened
    <2>4. "SignSessionCreated" \in TellIn
        BY DEF TellIn
    <2>. HIDE DEF m
    <2>. QED BY <1>1, <2>1, <2>2, <2>3, <2>4, AskOnce
<1>4. CASE OnSignatureReady(p)
    <2>1. /\ phase[p] = "running" /\ Exits(p, "finished", Unread(p))
          /\ UNCHANGED <<session_file, gen, signed>>
        BY <1>4 DEF OnSignatureReady, Receives
    <2>2. Unread(p) \in Seq(FirstSubmit) /\ \A T : NoneNew(Unread(p), Unread(p), T)
        BY <2>1, UnreadFacts DEF TypeOK, OnceInv, ServerFirst, Unread, NoneNew
    <2>. QED BY <1>1, <2>1, <2>2, ExitOnce
<1>5. ~Abort(p)
    BY NeverAborts
<1>. QED BY <1>1, <1>2, <1>3, <1>4, <1>5, DrawOnce, SignOnce DEF ClientStep

\* p dies: some of what it sent is lost.
LEMMA CrashOnce ==
    ASSUME TypeOK, OnceInv, NEW p \in Participants, Crash(p), UNCHANGED serverVars
    PROVE  OnceInv'
<1>1. /\ phase[p] = "running" /\ UNCHANGED <<session_file, gen, signed>>
      /\ \E n \in 0..Len(Unread(p)) : Exits(p, "crashed", SubSeq(Unread(p), 1, n))
    BY DEF Crash
<1>2. PICK n \in 0..Len(Unread(p)) : Exits(p, "crashed", SubSeq(Unread(p), 1, n))
    BY <1>1
<1>3. Unread(p) \in Seq(ClientMsg) /\ Unread(p) \in Seq(FirstSubmit)
    BY <1>1, UnreadFacts DEF TypeOK, OnceInv, ServerFirst, Unread
<1>4. SubSeq(Unread(p), 1, n) \in Seq(FirstSubmit)
    BY <1>3, QueueFacts, EmptySeq, FirstFacts
<1>5. \A T : NoneNew(Unread(p), SubSeq(Unread(p), 1, n), T)
    BY <1>3, PrefixQueued
<1>. QED BY <1>1, <1>2, <1>4, <1>5, ExitOnce

\* p is started for the first time: nobody has drawn nonces yet.
LEMMA StartOnce ==
    ASSUME TypeOK, OnceInv, NEW p \in Participants, Start(p), started[p] = 0, UNCHANGED serverVars
    PROVE  OnceInv'
<1>1. /\ Starts(p) /\ Queues(ClientMsg, ServerMsg) /\ ProcessesTypeOK
      /\ [type |-> "Login"] \in ClientMsg /\ [type |-> "Login"] \in FirstSubmit
    BY OnceTypes, ClientMsgFacts, FirstFacts DEF Start
<1>2. /\ \A T : "Login" \notin T => NoneSent(T)
      /\ \A T : NoneCame(T)
      /\ \A q \in Participants : q # p =>
            (Unsent(q, AskIn) => Unsent(q, AskIn)') /\ (Once(q, AskIn) => Once(q, AskIn)')
      /\ Unsent(p, AskIn) => Once(p, AskIn)'
    BY <1>1, StartsQueued
<1>3. NoneSent(Submit1) /\ NoneSent(Submit2) /\ NoneSent(Inside)
    BY <1>2 DEF Submit1, Submit2, Inside
<1>4. /\ UNCHANGED <<toClient, joined, session, commitments, sign_shares>>
      /\ UNCHANGED <<session_file, my_nonces, gen, signed>>
      /\ started' = [started EXCEPT ![p] = 1]
      /\ phase' = [phase EXCEPT ![p] = "running"]
    BY DEF Start, Starts, serverVars, sessionVars, clientVars
<1>5. \A q \in Participants :
        /\ started'[q] = IF q = p THEN 1 ELSE started[q]
        /\ phase'[q] = IF q = p THEN "running" ELSE phase[q]
    BY <1>1, <1>4 DEF ProcessesTypeOK
<1>6. ~Entered(p) /\ p \notin joined /\ Unsent(p, AskIn) /\ Free(toClient[p], TellIn)
    BY DEF OnceInv, EntersOnce, Entered
<1>7. \A q \in Participants : Entered(q) => Entered(q)'
    BY <1>2, <1>4, <1>5, <1>6 DEF Entered
<1>8. EntersOnce'
    <2>1. ASSUME NEW q \in Participants
          PROVE  /\ Once(q, AskIn)' /\ Single(toClient'[q], TellIn)
                 /\ Unsent(q, AskIn)' \/ Free(toClient'[q], TellIn)
                 /\ started'[q] = 0 => Unsent(q, AskIn)' /\ Free(toClient'[q], TellIn)
                 /\ q \in joined' => Entered(q)'
        <3>1. CASE q = p
            BY <1>2, <1>4, <1>5, <1>6, <3>1 DEF OnceInv, EntersOnce
        <3>2. CASE q # p
            BY <1>2, <1>4, <1>5, <1>7, <3>2 DEF OnceInv, EntersOnce
        <3>. QED BY <3>1, <3>2
    <2>. QED BY <2>1 DEF EntersOnce
<1>9. DrawsOnce' /\ \A q \in Participants : Submitted1(q) => Submitted1(q)'
    BY <1>2, <1>3, <1>4, <1>7, DrawsKept DEF OnceInv
<1>10. SignsOnce' /\ \A q \in Participants : Submitted2(q) => Submitted2(q)'
    BY <1>2, <1>3, <1>4, <1>9, SignsKept DEF OnceInv
<1>11. SessionOnce'
    BY <1>2, <1>3, <1>4, <1>10, SessionKept DEF OnceInv
<1>12. ServerFirst'
    <2>1. \A d \in Conns : toServer'[d] \in Seq(FirstSubmit)
        BY <1>1, SessionStarts DEF OnceInv, ServerFirst
    <2>. QED BY <1>4, <2>1 DEF OnceInv, ServerFirst, Bits, Ones
<1>13. SignersFirst'
    <2>1. gen[p] = 0
        BY <1>6 DEF OnceInv, DrawsOnce
    <2>. QED BY <1>4, <1>5, <2>1 DEF OnceInv, SignersFirst
<1>. QED BY <1>8, <1>9, <1>10, <1>11, <1>12, <1>13 DEF OnceInv

-----------------------------------------------------------------------------
CrashFreeInv == SocketsInv /\ (NobodyRestarted /\ session # "expired" => OnceInv)

LEMMA InitOnce == Init => CrashFreeInv
<1>. SUFFICES ASSUME Init PROVE OnceInv
    BY InitSockets DEF CrashFreeInv
<1>1. \A T : Free(<<>>, T) /\ Single(<<>>, T)
    BY EmptySeq DEF Free, Single
<1>2. \A T : \A p \in Participants :
        /\ Unsent(p, T) /\ Once(p, T) /\ Free(toClient[p], T) /\ Single(toClient[p], T)
    BY <1>1 DEF Init, NetInit, Unsent, Once
<1>3. \A p \in Participants :
        /\ started[p] = 0 /\ gen[p] = 0 /\ signed[p] = {}
        /\ commitments[p] = 0 /\ sign_shares[p] = NoPackage /\ phase[p] # "aborted"
    BY DEF Init, NetInit, ClientInit, ServerInit, NoPackages, NoShares
<1>4. joined = {} /\ session = "none" /\ ~session_file
    BY DEF Init, ServerInit, ClientInit
<1>5. EntersOnce /\ DrawsOnce /\ SignsOnce /\ SessionOnce
    BY <1>2, <1>3, <1>4 DEF EntersOnce, DrawsOnce, SignsOnce, SessionOnce
<1>6. ServerFirst
    BY <1>3, EmptySeq, FirstFacts DEF Init, NetInit, ServerInit, ServerFirst
<1>7. SignersFirst
    BY <1>3, EmptySeq DEF Init, NetInit, SignersFirst
<1>. QED BY <1>5, <1>6, <1>7 DEF OnceInv

\* Signers are started, never unstarted, and an expired session stays expired.
LEMMA CrashFreeBefore ==
    ASSUME TypeOK, [Next]_vars, NobodyRestarted', session' # "expired"
    PROVE  NobodyRestarted /\ session # "expired"
<1>1. \A p \in Participants : started'[p] = started[p] \/ started'[p] = started[p] + 1
    <2>1. CASE UNCHANGED started
        BY <2>1
    <2>2. ASSUME NEW p \in Participants, Start(p) PROVE started' = [started EXCEPT ![p] = @ + 1]
        BY <2>2 DEF Start, Starts
    <2>3. UNCHANGED started \/ \E p \in Participants : Start(p)
        BY DEF Next, vars, netVars, ServerStep, HandleLogin, Register, HandleAnnounceSign,
               HandleJoinSign, HandleSignRound1Submit, HandleSignRound2Submit, Refuse,
               HandleDisconnect, Reads, Expire, ClientStep, OnLoginOk, OnSignSessionCreated,
               OnSignReadyRound1, OnSignSigningPackage, Sends, OnSignatureReady, Abort, Crash,
               Exits, Ends
    <2>. QED BY <2>1, <2>2, <2>3, OnceTypes DEF ProcessesTypeOK
<1>2. \A p \in Participants : started[p] \in Nat
    BY MaxStartsAssumption, OnceTypes DEF ProcessesTypeOK
<1>3. NobodyRestarted
    BY <1>1, <1>2 DEF NobodyRestarted
<1>4. session = "expired" => session' = "expired"
    BY DEF Next, vars, serverVars, ServerStep, HandleLogin, HandleAnnounceSign, HandleJoinSign,
           HandleSignRound1Submit, HandleSignRound2Submit, Admitted, Refuse, HandleDisconnect,
           Expire, ClientStep
<1>. QED BY <1>3, <1>4

LEMMA NextOnce == ~MessageIs32Bytes /\ TypeOK /\ CrashFreeInv /\ [Next]_vars => CrashFreeInv'
<1>. SUFFICES ASSUME ~MessageIs32Bytes, TypeOK, CrashFreeInv, [Next]_vars,
                     NobodyRestarted', session' # "expired"
              PROVE  OnceInv'
    BY StepSockets DEF CrashFreeInv
<1>1. SocketsInv /\ OnceInv
    BY CrashFreeBefore DEF CrashFreeInv
<1>2. CASE UNCHANGED vars
    <2>1. /\ UNCHANGED <<started, phase, toClient, session, commitments, sign_shares>>
          /\ UNCHANGED clientVars /\ UNCHANGED <<toServer, joined>>
        BY <1>2 DEF vars, netVars, serverVars, sessionVars
    <2>2. (\A T : NoneSent(T)) /\ \A d \in Conns : toServer'[d] \in Seq(FirstSubmit)
        BY <1>1, <2>1, SilentStep DEF OnceInv, ServerFirst
    <2>. QED BY <1>1, <2>1, <2>2, QuietStep
<1>3. ASSUME NEW p \in Participants, Start(p), UNCHANGED serverVars PROVE OnceInv'
    <2>1. started'[p] <= 1 /\ started'[p] = started[p] + 1 /\ started[p] \in Nat
        BY <1>3, MaxStartsAssumption, OnceTypes
           DEF NobodyRestarted, Start, Starts, ProcessesTypeOK
    <2>2. started[p] = 0
        BY <2>1
    <2>. QED BY <1>1, <1>3, <2>2, StartOnce
<1>4. ~Expire
    BY DEF Expire
<1>. QED BY <1>1, <1>2, <1>3, <1>4, ServerStepOnce, ClientStepOnce, CrashOnce DEF Next

\* Unless some signer is started a second time, every message finds its signer
\* ready for it: no signer of a session that has not expired ends with an error,
\* also when others have crashed.  The message must not be 32 bytes long: the
\* announcement of such a message is refused, which ends the creator.
THEOREM SignersNeverAbort ==
    ASSUME ~MessageIs32Bytes
    PROVE  Spec => [](NobodyRestarted => NoSignerAborts)
<1>1. TypeOK /\ CrashFreeInv /\ [Next]_vars => (TypeOK /\ CrashFreeInv)'
    BY NextOnce, StepTypeOK
<1>2. CrashFreeInv => (NobodyRestarted => NoSignerAborts)
    BY DEF CrashFreeInv, OnceInv, SignersFirst, NoSignerAborts
<1>. QED BY <1>1, <1>2, InitOnce, InitTypeOK, PTL DEF Spec
=============================================================================
