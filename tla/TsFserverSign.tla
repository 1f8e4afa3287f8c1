---------------------------- MODULE TsFserverSign ----------------------------
(***************************************************************************)
(* The TypeScript coordinator, packages/ts/ts-fserver/src/server.ts, as it *)
(* serves signing sessions; as for DKG sessions each handler is one atomic *)
(* action.                                                                 *)
(*                                                                         *)
(* A session is signed by the participants it lists, all of which hold a   *)
(* share, so the signer identifier of p is p itself.  The announced hash   *)
(* is a Keccak-256 hash the page computes: compute_signing_package, which  *)
(* wants 32 bytes, does not fail.  Info is left out.                       *)
(***************************************************************************)
EXTENDS WebNet, FrostSign

ClientMsg ==
    [type : {"RequestChallenge", "Login", "AnnounceSignSession", "ListPendingSigningSessions",
             "Close"}]
      \cup [type : {"JoinSignSession"}, session : Sessions]
      \cup [type : {"SignRound1Submit"}, session : Sessions, gen : Generation]
      \cup [type : {"SignRound2Submit"}, session : Sessions, share : SigningPackage]

ServerMsg ==
    [type : {"Challenge", "LoginOk", "SignReadyRound1", "SessionAborted", "Error"}]
      \cup [type : {"SignSessionCreated", "NewSignSession"}, session : Sessions]
      \cup [type : {"PendingSigningSessions"}, sessions : SUBSET Sessions]
      \cup [type : {"SignSigningPackage"}, pkg : SigningPackage]
      \cup [type : {"SignatureReady"}, signature : SigningPackage]

NetTypeOK ==
    /\ SocketsTypeOK
    /\ toServer \in [Conns -> Seq(ClientMsg)]
    /\ toClient \in [Participants -> Seq(ServerMsg)]

VARIABLES
    state,              \* SignSession.state, "none" before the session is announced
    joined,             \* joined_participants: socket number by participant, 0 for none
    round1_commitments, \* nonce generation by signer
    round2_shares,      \* by signer, NoPackage for none
    signing_package,    \* NoPackage while undefined
    completed           \* the signature in completedSignSessions, NoPackage for none

roundVars == <<round1_commitments, round2_shares, signing_package, completed>>
sessionVars == <<state, joined, roundVars>>
serverVars == <<challenged, logged_in, sessionVars>>

NoShares == [p \in Participants |-> NoPackage]

ServerInit ==
    /\ state = [s \in Sessions |-> "none"]
    /\ joined = [s \in Sessions |-> [p \in Participants |-> 0]]
    /\ round1_commitments = [s \in Sessions |-> NoPackages]
    /\ round2_shares = [s \in Sessions |-> NoShares]
    /\ signing_package = [s \in Sessions |-> NoPackage]
    /\ completed = [s \in Sessions |-> NoPackage]

ServerTypeOK ==
    /\ state \in [Sessions -> {"none", "Pending", "Round1", "Round2", "Complete", "Failed"}]
    /\ joined \in [Sessions -> [Participants -> 0..MaxSockets]]
    /\ round1_commitments \in [Sessions -> Packages]
    /\ round2_shares \in [Sessions -> [Participants -> Packages]]
    /\ signing_package \in [Sessions -> Packages]
    /\ completed \in [Sessions -> Packages]

-----------------------------------------------------------------------------
\* Mutant of AllOf: one participant is not waited for.
AllButOne(S) == Cardinality(S) + 1 >= Cardinality(Participants)

\* <x>.size === session.participants_config.length
AllOf(S) == Cardinality(S) = Cardinality(Participants)

\* joined_participants.find(p => p.socketId === socket.id)
IsParticipant(c, s) == joined[s][c[1]] = c[2]

\* A round's message from a socket that is not a participant's: "Unauthorized".
Refuse(c) ==
    /\ Reply(c, [type |-> "Error"])
    /\ UNCHANGED serverVars

HandleRequestChallengeSign(c) == HandleRequestChallenge(c) /\ UNCHANGED sessionVars

HandleLoginSign(c) == HandleLogin(c) /\ UNCHANGED sessionVars

\* The socket itself and the listed participants' other logged-in sockets.
AnnouncedTo(c) ==
    [p \in Participants |-> IF Conn(p) \in logged_in \cup {c} THEN socket[p] ELSE 0]

HandleAnnounceSign(c) ==
    /\ Reads(c, "AnnounceSignSession")
    /\ \E s \in Sessions :
          /\ state[s] = "none"
          /\ state' = [state EXCEPT ![s] = "Pending"]
          /\ Broadcast(AnnouncedTo(c), [p \in Participants |->
                <<[type |-> IF Conn(p) = c THEN "SignSessionCreated" ELSE "NewSignSession",
                   session |-> s]>>])
    /\ UNCHANGED <<challenged, logged_in, joined, roundVars>>

\* The commitments, the package and the shares of an earlier attempt are kept.
StartSignRound1(s, members) ==
    /\ state' = [state EXCEPT ![s] = "Round1"]
    /\ Broadcast(members, ToAll([type |-> "SignReadyRound1"]))

\* Whatever state the session is in.
HandleJoinSign(c) ==
    /\ Reads(c, "JoinSignSession")
    /\ LET s == Head(toServer[c]).session IN
       /\ joined' = [joined EXCEPT ![s][c[1]] = c[2]]
       /\ IF AllOf(Present(joined'[s]))
          THEN StartSignRound1(s, joined'[s])
          ELSE UNCHANGED <<state, toClient>>
    /\ UNCHANGED <<challenged, logged_in, roundVars>>

HandleListPendingSign(c) ==
    /\ Reads(c, "ListPendingSigningSessions")
    /\ Reply(c, [type |-> "PendingSigningSessions",
                 sessions |-> {s \in Sessions : state[s] \notin {"none", "Complete", "Failed"}}])
    /\ UNCHANGED serverVars

FinishSignRound1(s, commitments) ==
    /\ state' = [state EXCEPT ![s] = "Round2"]
    /\ signing_package' = [signing_package EXCEPT ![s] = commitments]
    /\ Broadcast(joined[s], ToAll([type |-> "SignSigningPackage", pkg |-> commitments]))

\* Whatever state the session is in; every commitment that comes after the last
\* one finishes the round again.
HandleSignRound1Submit(c) ==
    /\ Reads(c, "SignRound1Submit")
    /\ LET m == Head(toServer[c])  s == m.session IN
       IF ~IsParticipant(c, s) THEN Refuse(c)
       ELSE /\ round1_commitments' = [round1_commitments EXCEPT ![s][c[1]] = m.gen]
            /\ IF AllOf(Present(round1_commitments'[s]))
               THEN FinishSignRound1(s, round1_commitments'[s])
               ELSE UNCHANGED <<state, signing_package, toClient>>
            /\ UNCHANGED <<challenged, logged_in, joined, round2_shares, completed>>

\* aggregate_signatures also wants the verifying share of every signer, which the
\* record of a joined participant holds.
Aggregates(s, shares) ==
    /\ signing_package[s] # NoPackage
    /\ AggregateAccepts(signing_package[s], shares)
    /\ Present(signing_package[s]) \subseteq Present(joined[s])

\* When the aggregation fails the session stays as it is and all are told.
FinishSignRound2(s, shares) ==
    \/ /\ Aggregates(s, shares)
       /\ state' = [state EXCEPT ![s] = "Complete"]
       /\ completed' = [completed EXCEPT ![s] = signing_package[s]]
       /\ Broadcast(joined[s], ToAll([type |-> "SignatureReady",
                                      signature |-> signing_package[s]]))
    \/ /\ ~Aggregates(s, shares)
       /\ Broadcast(joined[s], ToAll([type |-> "Error"]))
       /\ UNCHANGED <<state, completed>>

HandleSignRound2Submit(c) ==
    /\ Reads(c, "SignRound2Submit")
    /\ LET m == Head(toServer[c])  s == m.session
           shares == [round2_shares[s] EXCEPT ![c[1]] = m.share]
       IN
       IF ~IsParticipant(c, s) THEN Refuse(c)
       ELSE /\ round2_shares' = [round2_shares EXCEPT ![s] = shares]
            /\ IF AllOf({p \in Participants : shares[p] # NoPackage})
               THEN FinishSignRound2(s, shares)
               ELSE UNCHANGED <<state, completed, toClient>>
            /\ UNCHANGED <<challenged, logged_in, joined, round1_commitments, signing_package>>

\* Mutant of HandleSignDisconnect: nobody is told.
SignDisconnectUnnoticed(c) ==
    /\ Reads(c, "Close")
    /\ Forget(c)
    /\ joined' = [s \in Sessions |->
                    IF IsParticipant(c, s) THEN [joined[s] EXCEPT ![c[1]] = 0] ELSE joined[s]]
    /\ state' = [s \in Sessions |->
                    IF IsParticipant(c, s) /\ state[s] \in {"Round1", "Round2"}
                    THEN "Failed" ELSE state[s]]
    /\ UNCHANGED <<toClient, roundVars>>

\* The sessions in which c is the participant's socket lose the participant, and
\* those that run are aborted.
HandleSignDisconnect(c) ==
    /\ Reads(c, "Close")
    /\ Forget(c)
    /\ LET left == {s \in Sessions : IsParticipant(c, s)}
           aborted == {s \in left : state[s] \in {"Round1", "Round2"}}
       IN
       /\ joined' = [s \in Sessions |->
                       IF s \in left THEN [joined[s] EXCEPT ![c[1]] = 0] ELSE joined[s]]
       /\ state' = [s \in Sessions |-> IF s \in aborted THEN "Failed" ELSE state[s]]
       /\ Broadcast(AllBut(c), [p \in Participants |->
             [i \in 1..Cardinality(aborted) |-> [type |-> "SessionAborted"]]])
    /\ UNCHANGED roundVars
=============================================================================
