---------------------------- MODULE TsFserverDkg ----------------------------
(***************************************************************************)
(* The TypeScript coordinator, packages/ts/ts-fserver/src/server.ts, as it *)
(* serves DKG sessions.  handleMessage and handleDisconnect run to their   *)
(* end without awaiting anything, so each handler is one atomic action.    *)
(*                                                                         *)
(* All sessions have the same roster, so a participant's uid and FROST     *)
(* identifier, which is derived from the uid, are p itself.  The pages do  *)
(* not act before they are logged in and know only sessions that exist:    *)
(* the early returns for neither are left out.  Info is left out.          *)
(***************************************************************************)
EXTENDS WebNet, FrostDkg

\* A package of round 2.
Submit == [from : Participants, gen : Generation]

ClientMsg ==
    [type : {"RequestChallenge", "Login", "AnnounceDKGSession", "ListPendingDKGSessions", "Close"}]
      \cup [type : {"JoinDKGSession"}, session : Sessions]
      \cup [type : {"Round1Submit", "Round2Submit"}, session : Sessions, gen : Generation]
      \cup [type : {"FinalizeSubmit"}, session : Sessions, vk : Key]

ServerMsg ==
    [type : {"Challenge", "LoginOk", "ReadyRound1", "ReadyRound2", "Finalized",
             "SessionAborted", "Error"}]
      \cup [type : {"DKGSessionCreated", "NewDKGSession"}, session : Sessions]
      \cup [type : {"PendingDKGSessions"}, sessions : SUBSET Sessions]
      \cup [type : {"Round1All"}, pkgs : Packages]
      \cup [type : {"Round2All"}, pkgs : Seq(Submit)]

NetTypeOK ==
    /\ SocketsTypeOK
    /\ toServer \in [Conns -> Seq(ClientMsg)]
    /\ toClient \in [Participants -> Seq(ServerMsg)]

VARIABLES
    state,            \* DKGSession.state, "none" before the session is announced
    joined,           \* joined_participants: socket number by participant, 0 for none
    identified,       \* the joined participants with a frostIdHex
    round1_packages,  \* generation by sender
    round2_packages,  \* by recipient: what was pushed, in order
    final_group_key,  \* NoKey while undefined
    finalized_uids,
    completed         \* group_vk_sec1_hex in completedDKGSessions, NoKey for none

sessionVars == <<state, joined, identified, round1_packages, round2_packages,
                 final_group_key, finalized_uids, completed>>
serverVars == <<challenged, logged_in, sessionVars>>

ServerInit ==
    /\ state = [s \in Sessions |-> "none"]
    /\ joined = [s \in Sessions |-> [p \in Participants |-> 0]]
    /\ identified = [s \in Sessions |-> {}]
    /\ round1_packages = [s \in Sessions |-> NoPackages]
    /\ round2_packages = [s \in Sessions |-> [p \in Participants |-> <<>>]]
    /\ final_group_key = [s \in Sessions |-> NoKey]
    /\ finalized_uids = [s \in Sessions |-> {}]
    /\ completed = [s \in Sessions |-> NoKey]

ServerTypeOK ==
    /\ state \in [Sessions -> {"none", "Pending", "Round1", "Round2", "Finalized", "Failed"}]
    /\ joined \in [Sessions -> [Participants -> 0..MaxSockets]]
    /\ identified \in [Sessions -> SUBSET Participants]
    /\ round1_packages \in [Sessions -> Packages]
    /\ round2_packages \in [Sessions -> [Participants -> Seq(Submit)]]
    /\ final_group_key \in [Sessions -> Packages]
    /\ finalized_uids \in [Sessions -> SUBSET Participants]
    /\ completed \in [Sessions -> Packages]

-----------------------------------------------------------------------------
\* Mutant of AllOf: one participant is not waited for.
AllButOne(S) == Cardinality(S) + 1 >= Cardinality(Participants)

\* <x>.size === session.max_signers
AllOf(S) == Cardinality(S) = Cardinality(Participants)

\* joined_participants.find(p => p.socketId === socket.id)
IsParticipant(c, s) == joined[s][c[1]] = c[2]

\* A round's message from a socket that is not a participant's.
Refuse(c) ==
    /\ Reply(c, [type |-> "Error"])
    /\ UNCHANGED serverVars

HandleRequestChallengeDkg(c) == HandleRequestChallenge(c) /\ UNCHANGED sessionVars

HandleLoginDkg(c) == HandleLogin(c) /\ UNCHANGED sessionVars

\* The socket itself and the roster's other logged-in sockets.
AnnouncedTo(c) ==
    [p \in Participants |-> IF Conn(p) \in logged_in \cup {c} THEN socket[p] ELSE 0]

HandleAnnounce(c) ==
    /\ Reads(c, "AnnounceDKGSession")
    /\ \E s \in Sessions :
          /\ state[s] = "none"
          /\ state' = [state EXCEPT ![s] = "Pending"]
          /\ Broadcast(AnnouncedTo(c), [p \in Participants |->
                <<[type |-> IF Conn(p) = c THEN "DKGSessionCreated" ELSE "NewDKGSession",
                   session |-> s]>>])
    /\ UNCHANGED <<challenged, logged_in, joined, identified, round1_packages,
                   round2_packages, final_group_key, finalized_uids, completed>>

\* Everybody gets an identifier; the packages of an earlier attempt are kept.
StartDKGRound1(s, members) ==
    /\ state' = [state EXCEPT ![s] = "Round1"]
    /\ identified' = [identified EXCEPT ![s] = Participants]
    /\ Broadcast(members, ToAll([type |-> "ReadyRound1"]))

\* Whatever state the session is in; a participant who joins again gets a new
\* record, without identifier.
HandleJoin(c) ==
    /\ Reads(c, "JoinDKGSession")
    /\ LET s == Head(toServer[c]).session IN
       /\ joined' = [joined EXCEPT ![s][c[1]] = c[2]]
       /\ IF AllOf(Present(joined'[s]))
          THEN StartDKGRound1(s, joined'[s])
          ELSE /\ identified' = [identified EXCEPT ![s] = @ \ {c[1]}]
               /\ UNCHANGED <<state, toClient>>
    /\ UNCHANGED <<challenged, logged_in, round1_packages, round2_packages,
                   final_group_key, finalized_uids, completed>>

HandleListPending(c) ==
    /\ Reads(c, "ListPendingDKGSessions")
    /\ Reply(c, [type |-> "PendingDKGSessions",
                 sessions |-> {s \in Sessions : state[s] \notin {"none", "Finalized", "Failed"}}])
    /\ UNCHANGED serverVars

FinishDKGRound1(s, pkgs) ==
    /\ state' = [state EXCEPT ![s] = "Round2"]
    /\ Broadcast(joined[s], [p \in Participants |->
          <<[type |-> "Round1All", pkgs |-> pkgs], [type |-> "ReadyRound2"]>>])

\* Whatever state the session is in.
HandleRound1Submit(c) ==
    /\ Reads(c, "Round1Submit")
    /\ LET m == Head(toServer[c])  s == m.session IN
       IF ~IsParticipant(c, s) THEN Refuse(c)
       ELSE /\ identified' = [identified EXCEPT ![s] = @ \cup {c[1]}]
            /\ round1_packages' = [round1_packages EXCEPT ![s][c[1]] = m.gen]
            /\ IF AllOf(Present(round1_packages'[s]))
               THEN FinishDKGRound1(s, round1_packages'[s])
               ELSE UNCHANGED <<state, toClient>>
            /\ UNCHANGED <<challenged, logged_in, joined, round2_packages,
                           final_group_key, finalized_uids, completed>>

Slots(pkgs) == UNION {{<<p, i>> : i \in DOMAIN pkgs[p]} : p \in Participants}

\* totalPackages, the sum of the lists' lengths
Total(pkgs) == Cardinality(Slots(pkgs))

\* Mutants of AllPackagesCame: one submission less is enough;
\* everybody sends a package to itself too.
PackagesCameButOne(pkgs) == Total(pkgs) >= (Cardinality(Participants) - 1) * (Cardinality(Participants) - 1)
PackagesCameWithOwn(pkgs) == Total(pkgs) = Cardinality(Participants) * Cardinality(Participants)

\* Exactly N * (N - 1) packages, whoever sent them.
AllPackagesCame(pkgs) == Total(pkgs) = Cardinality(Participants) * (Cardinality(Participants) - 1)

\* A participant without an identifier is passed over.
FinishDKGRound2(s, pkgs) ==
    Broadcast([p \in Participants |-> IF p \in identified[s] THEN joined[s][p] ELSE 0],
              [p \in Participants |-> <<[type |-> "Round2All", pkgs |-> pkgs[p]]>>])

\* A submission holds a package for everybody else.
Distributed(pkgs, pkg) ==
    [p \in Participants |-> IF p = pkg.from THEN pkgs[p] ELSE Append(pkgs[p], pkg)]

HandleRound2Submit(c) ==
    /\ Reads(c, "Round2Submit")
    /\ LET m == Head(toServer[c])  s == m.session IN
       IF ~IsParticipant(c, s) THEN Refuse(c)
       ELSE /\ round2_packages' =
                  [round2_packages EXCEPT ![s] = Distributed(@, [from |-> c[1], gen |-> m.gen])]
            /\ IF AllPackagesCame(round2_packages'[s])
               THEN FinishDKGRound2(s, round2_packages'[s])
               ELSE UNCHANGED toClient
            /\ UNCHANGED <<challenged, logged_in, state, joined, identified, round1_packages,
                           final_group_key, finalized_uids, completed>>

\* Mutant of Mismatch: every group key is accepted.
NoMismatch(s, vk) == FALSE

\* "Group key mismatch"; the first group key submitted sets the expected one.
Mismatch(s, vk) == final_group_key[s] \notin {NoKey, vk}

\* Whatever state the session is in.  Unless it is the last one, a submission is
\* acknowledged to its sender alone, with the message that also ends the session.
HandleFinalizeSubmit(c) ==
    /\ Reads(c, "FinalizeSubmit")
    /\ LET m == Head(toServer[c])  s == m.session IN
       IF ~IsParticipant(c, s) \/ Mismatch(s, m.vk) THEN Refuse(c)
       ELSE /\ final_group_key' = [final_group_key EXCEPT ![s] = m.vk]
            /\ finalized_uids' = [finalized_uids EXCEPT ![s] = @ \cup {c[1]}]
            /\ IF AllOf(finalized_uids'[s])
               THEN /\ state' = [state EXCEPT ![s] = "Finalized"]
                    /\ completed' = [completed EXCEPT ![s] = m.vk]
                    /\ Broadcast(joined[s], ToAll([type |-> "Finalized"]))
               ELSE UNCHANGED <<state, completed>> /\ Reply(c, [type |-> "Finalized"])
            /\ UNCHANGED <<challenged, logged_in, joined, identified, round1_packages,
                           round2_packages>>

\* Mutant of HandleDisconnect: nobody is told.
DisconnectUnnoticed(c) ==
    /\ Reads(c, "Close")
    /\ Forget(c)
    /\ joined' = [s \in Sessions |->
                    IF IsParticipant(c, s) THEN [joined[s] EXCEPT ![c[1]] = 0] ELSE joined[s]]
    /\ state' = [s \in Sessions |->
                    IF IsParticipant(c, s) /\ state[s] \in {"Round1", "Round2"}
                    THEN "Failed" ELSE state[s]]
    /\ UNCHANGED <<toClient, identified, round1_packages, round2_packages, final_group_key,
                   finalized_uids, completed>>

\* The sessions in which c is the participant's socket lose the participant, and
\* those that run are aborted.
HandleDisconnect(c) ==
    /\ Reads(c, "Close")
    /\ Forget(c)
    /\ LET left == {s \in Sessions : IsParticipant(c, s)}
           aborted == {s \in left : state[s] \in {"Round1", "Round2"}}
       IN
       /\ joined' = [s \in Sessions |->
                       IF s \in left THEN [joined[s] EXCEPT ![c[1]] = 0] ELSE joined[s]]
       /\ identified' = [s \in Sessions |->
                           IF s \in left THEN identified[s] \ {c[1]} ELSE identified[s]]
       /\ state' = [s \in Sessions |-> IF s \in aborted THEN "Failed" ELSE state[s]]
       /\ Broadcast(AllBut(c), [p \in Participants |->
             [i \in 1..Cardinality(aborted) |-> [type |-> "SessionAborted"]]])
    /\ UNCHANGED <<round1_packages, round2_packages, final_group_key, finalized_uids, completed>>
=============================================================================
