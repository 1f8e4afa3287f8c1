---------------------------- MODULE WebDkgClient ----------------------------
(***************************************************************************)
(* The web client of a DKG: the page packages/ts/web/src/pages/DkgPage.tsx *)
(* and its message handler handleServerMessage in packages/ts/web/src/     *)
(* lib.ts.  The page does not await the handler: while a handler sleeps,   *)
(* 1 second before each round, later messages are handled and the user     *)
(* clicks, and then it goes on with what dkgState, sessionIdRef and ws     *)
(* hold by then.  Handlers that sleep equally long wake up in order.       *)
(***************************************************************************)
EXTENDS TsFserverDkg

CONSTANT IsCreator   \* participants who had checked isCreator when they connected
ASSUME IsCreatorAssumption == IsCreator \subseteq Participants

VARIABLES
    sessionIdRef,     \* sessionIdRef.current, NoSession for ''
    joining,          \* joiningSessionId
    listed,           \* pendingSessions
    connected,        \* isServerConnected
    sleeping,         \* the messages whose handlers sleep, in order
    r1_secret,        \* dkgState: generation, 0 for undefined
    all_r1_packages,  \* dkgState
    r2_secret,        \* dkgState: generation, 0 for undefined
    finalKey,         \* finalShare and finalGroupKey, which change together
    announced,        \* bound: how many sessions were announced
    joins,            \* bound: how often p clicked Join
    gen,              \* history: generations p has drawn
    derived           \* history: group keys p has derived

pageVars == <<joining, listed, connected>>
dkgState == <<sleeping, r1_secret, all_r1_packages, r2_secret>>
clickVars == <<announced, joins>>
history == <<gen, derived>>
clientVars == <<sessionIdRef, pageVars, dkgState, finalKey, clickVars, history>>

Sleeper ==
    [type : {"ReadyRound1", "ReadyRound2"}]
      \cup [type : {"Round2All"}, pkgs : Seq(Submit)]

ClientTypeOK ==
    /\ sessionIdRef \in [Participants -> Sessions \cup {NoSession}]
    /\ joining \in [Participants -> Sessions \cup {NoSession}]
    /\ listed \in [Participants -> SUBSET Sessions]
    /\ connected \in [Participants -> BOOLEAN]
    /\ sleeping \in [Participants -> Seq(Sleeper)]
    /\ r1_secret \in Packages
    /\ all_r1_packages \in [Participants -> Packages]
    /\ r2_secret \in Packages
    /\ finalKey \in [Participants -> Packages]
    /\ announced \in 0..Cardinality(Sessions)
    /\ joins \in [Participants -> Nat]
    /\ \A p \in Participants : joins[p] <= MaxJoins[p]
    /\ gen \in [Participants -> Nat]
    /\ derived \in [Participants -> SUBSET Key]

ClientInit ==
    /\ sessionIdRef = [p \in Participants |-> NoSession]
    /\ joining = [p \in Participants |-> NoSession]
    /\ listed = [p \in Participants |-> {}]
    /\ connected = [p \in Participants |-> FALSE]
    /\ sleeping = [p \in Participants |-> <<>>]
    /\ r1_secret = NoPackages
    /\ all_r1_packages = [p \in Participants |-> NoPackages]
    /\ r2_secret = NoPackages
    /\ finalKey = [p \in Participants |-> NoKey]
    /\ announced = 0
    /\ joins = [p \in Participants |-> 0]
    /\ gen = [p \in Participants |-> 0]
    /\ derived = [p \in Participants |-> {}]

ListPending == [type |-> "ListPendingDKGSessions"]

-----------------------------------------------------------------------------
(***************************************************************************)
(* The user and the socket.                                                *)
(***************************************************************************)

\* handleConnect and socket.onopen
Connect(p) == OpenSocket(p) /\ UNCHANGED clientVars

\* socket.onclose, after handleDisconnect or by itself.  The page's memory stays,
\* and so do the handlers that sleep.
Disconnect(p) ==
    /\ CloseSocket(p)
    /\ connected' = [connected EXCEPT ![p] = FALSE]
    /\ listed' = [listed EXCEPT ![p] = {}]
    /\ joining' = [joining EXCEPT ![p] = NoSession]
    /\ UNCHANGED <<sessionIdRef, dkgState, finalKey, clickVars, history>>

\* The page is loaded anew, with the keys entered again.
Reload(p) ==
    /\ CloseSocket(p)
    /\ connected' = [connected EXCEPT ![p] = FALSE]
    /\ listed' = [listed EXCEPT ![p] = {}]
    /\ joining' = [joining EXCEPT ![p] = NoSession]
    /\ sessionIdRef' = [sessionIdRef EXCEPT ![p] = NoSession]
    /\ sleeping' = [sleeping EXCEPT ![p] = <<>>]
    /\ r1_secret' = [r1_secret EXCEPT ![p] = 0]
    /\ all_r1_packages' = [all_r1_packages EXCEPT ![p] = NoPackages]
    /\ r2_secret' = [r2_secret EXCEPT ![p] = 0]
    /\ finalKey' = [finalKey EXCEPT ![p] = NoKey]
    /\ UNCHANGED <<clickVars, history>>

\* handleAnnounceDKG; its button is enabled whatever else the page is doing.
Announce(p) ==
    /\ p = Creator
    /\ connected[p]
    /\ announced < Cardinality(Sessions)
    /\ announced' = announced + 1
    /\ finalKey' = [finalKey EXCEPT ![p] = NoKey]
    /\ Acts(p)
    /\ Sends(p, [type |-> "AnnounceDKGSession"])
    /\ UNCHANGED <<sessionIdRef, pageVars, dkgState, joins, history>>

\* handleJoinSession; its buttons are disabled while joiningSessionId is set.
Join(p, s) ==
    /\ s \in listed[p]
    /\ joining[p] = NoSession
    /\ joins[p] < MaxJoins[p]
    /\ joins' = [joins EXCEPT ![p] = @ + 1]
    /\ joining' = [joining EXCEPT ![p] = s]
    /\ sessionIdRef' = [sessionIdRef EXCEPT ![p] = s]
    /\ finalKey' = [finalKey EXCEPT ![p] = NoKey]
    /\ Acts(p)
    /\ Sends(p, [type |-> "JoinDKGSession", session |-> s])
    /\ UNCHANGED <<listed, connected, dkgState, announced, history>>

\* handleRefreshSessions; bound: only when the socket is quiet.
Refresh(p) ==
    /\ MayRefresh
    /\ connected[p]
    /\ toClient[p] = <<>> /\ toServer[Conn(p)] = <<>>
    /\ Acts(p)
    /\ Sends(p, ListPending)
    /\ UNCHANGED clientVars

-----------------------------------------------------------------------------
(***************************************************************************)
(* handleServerMessage.                                                    *)
(***************************************************************************)
OnChallenge(p) == AnswersChallenge(p) /\ UNCHANGED clientVars

OnLoginOk(p) ==
    /\ Receives(p, "LoginOk")
    /\ connected' = [connected EXCEPT ![p] = TRUE]
    /\ Sends(p, ListPending)
    /\ UNCHANGED <<sessionIdRef, joining, listed, dkgState, finalKey, clickVars, history>>

\* sessionIdRef is set although the page may be in the rounds of another session.
OnSessionCreated(p) ==
    /\ Receives(p, "DKGSessionCreated")
    /\ sessionIdRef' = [sessionIdRef EXCEPT ![p] = Head(toClient[p]).session]
    /\ Sends(p, [type |-> "RequestChallenge"])
    /\ UNCHANGED <<pageVars, dkgState, finalKey, clickVars, history>>

OnPendingSessions(p) ==
    /\ Receives(p, "PendingDKGSessions")
    /\ listed' = [listed EXCEPT ![p] = Head(toClient[p]).sessions]
    /\ UNCHANGED <<toServer, sessionIdRef, joining, connected, dkgState, finalKey,
                   clickVars, history>>

OnNewSession(p) ==
    /\ Receives(p, "NewDKGSession")
    /\ listed' = [listed EXCEPT ![p] = @ \cup {Head(toClient[p]).session}]
    /\ UNCHANGED <<toServer, sessionIdRef, joining, connected, dkgState, finalKey,
                   clickVars, history>>

\* The page leaves the session it has joined, whichever one the message is about.
LeavesSession(p) ==
    /\ joining' = [joining EXCEPT ![p] = NoSession]
    /\ UNCHANGED <<sessionIdRef, listed, connected, dkgState, finalKey, clickVars, history>>

OnSessionAborted(p) ==
    /\ Receives(p, "SessionAborted")
    /\ LeavesSession(p)
    /\ Sends(p, ListPending)

RelistsUnlessCreator(p) ==
    IF p \in IsCreator THEN UNCHANGED toServer ELSE Sends(p, ListPending)

OnFinalized(p) ==
    /\ Receives(p, "Finalized")
    /\ LeavesSession(p)
    /\ RelistsUnlessCreator(p)

OnError(p) ==
    /\ Receives(p, "Error")
    /\ LeavesSession(p)
    /\ RelistsUnlessCreator(p)

\* ReadyRound1, ReadyRound2 and Round2All, up to the await.
OnRound(p) ==
    /\ \E type \in {"ReadyRound1", "ReadyRound2", "Round2All"} : Receives(p, type)
    /\ sleeping' = [sleeping EXCEPT ![p] = Append(@, Head(toClient[p]))]
    /\ UNCHANGED <<toServer, sessionIdRef, pageVars, r1_secret, all_r1_packages, r2_secret,
                   finalKey, clickVars, history>>

OnRound1All(p) ==
    /\ Receives(p, "Round1All")
    /\ all_r1_packages' = [all_r1_packages EXCEPT ![p] = Head(toClient[p]).pkgs]
    /\ UNCHANGED <<toServer, sessionIdRef, pageVars, sleeping, r1_secret, r2_secret,
                   finalKey, clickVars, history>>

\* The handler that has slept longest wakes up, for a message of the given type.
Wakes(p, type) ==
    /\ sleeping[p] # <<>>
    /\ Head(sleeping[p]).type = type
    /\ sleeping' = [sleeping EXCEPT ![p] = Tail(@)]
    /\ Acts(p)

\* ReadyRound1 after the await: dkg_part1 draws a new polynomial.
Round1(p) ==
    /\ Wakes(p, "ReadyRound1")
    /\ gen' = [gen EXCEPT ![p] = @ + 1]
    /\ r1_secret' = [r1_secret EXCEPT ![p] = gen'[p]]
    /\ Sends(p, [type |-> "Round1Submit", session |-> sessionIdRef[p], gen |-> gen'[p]])
    /\ UNCHANGED <<sessionIdRef, pageVars, all_r1_packages, r2_secret, finalKey, clickVars,
                   derived>>

\* ReadyRound2 after the await; an error is only logged.
Round2(p) ==
    /\ Wakes(p, "ReadyRound2")
    /\ IF r1_secret[p] # 0 /\ Part2Accepts(p, all_r1_packages[p])
       THEN /\ r2_secret' = [r2_secret EXCEPT ![p] = r1_secret[p]]
            /\ Sends(p, [type |-> "Round2Submit", session |-> sessionIdRef[p],
                         gen |-> r1_secret[p]])
       ELSE UNCHANGED <<r2_secret, toServer>>
    /\ UNCHANGED <<sessionIdRef, pageVars, r1_secret, all_r1_packages, finalKey, clickVars,
                   history>>

\* decrypted_packages: of several packages of a sender the last one counts.
Decrypted(pkgs) ==
    [q \in Participants |->
        LET sent == {i \in DOMAIN pkgs : pkgs[i].from = q} IN
        IF sent = {} THEN 0
        ELSE pkgs[CHOOSE i \in sent : \A j \in sent : j <= i].gen]

\* Round2All after the await; an error is only logged.
Finalize(p) ==
    /\ Wakes(p, "Round2All")
    /\ LET vk == Part3Key(p, r2_secret[p], all_r1_packages[p])
           accepted == /\ r2_secret[p] # 0
                       /\ Part3Accepts(p, all_r1_packages[p], Decrypted(Head(sleeping[p]).pkgs))
       IN
       IF accepted
       THEN /\ finalKey' = [finalKey EXCEPT ![p] = vk]
            /\ derived' = [derived EXCEPT ![p] = @ \cup {vk}]
            /\ Sends(p, [type |-> "FinalizeSubmit", session |-> sessionIdRef[p], vk |-> vk])
       ELSE UNCHANGED <<finalKey, derived, toServer>>
    /\ UNCHANGED <<sessionIdRef, pageVars, r1_secret, all_r1_packages, r2_secret, clickVars, gen>>
=============================================================================
