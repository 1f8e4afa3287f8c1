------------------------------ MODULE WebSigner ------------------------------
(***************************************************************************)
(* The web client of a signing session: the page packages/ts/web/src/      *)
(* pages/SigningPage.tsx and its message handler                           *)
(* handleSigningServerMessage in packages/ts/web/src/lib.ts, which awaits  *)
(* nothing.  The page has a key package for its participant throughout.    *)
(***************************************************************************)
EXTENDS TsFserverSign

VARIABLES
    sessionIdRef,    \* sessionIdRef.current, NoSession for ''
    joining,         \* joiningSessionId
    listed,          \* pendingSessions
    connected,       \* isServerConnected
    signingStatus,
    nonces,          \* signingState.nonces: generation, 0 for undefined
    finalSignature,  \* NoPackage before
    announced,       \* bound: how many sessions were announced
    joins,           \* bound: how often p clicked Join
    gen,             \* history: generations p has drawn
    signed           \* history: the nonces and packages p has signed with

pageVars == <<joining, listed, connected>>
clickVars == <<announced, joins>>
history == <<gen, signed>>
clientVars == <<sessionIdRef, pageVars, signingStatus, nonces, finalSignature,
                clickVars, history>>

\* Connecting is Idle: the page may do the same in both.
SigningStatus == {"Idle", "Connected", "SessionCreated", "Round1", "Round2", "Complete", "Failed"}

ClientTypeOK ==
    /\ sessionIdRef \in [Participants -> Sessions \cup {NoSession}]
    /\ joining \in [Participants -> Sessions \cup {NoSession}]
    /\ listed \in [Participants -> SUBSET Sessions]
    /\ connected \in [Participants -> BOOLEAN]
    /\ signingStatus \in [Participants -> SigningStatus]
    /\ nonces \in Packages
    /\ finalSignature \in [Participants -> Packages]
    /\ announced \in 0..Cardinality(Sessions)
    /\ joins \in [Participants -> Nat]
    /\ \A p \in Participants : joins[p] <= MaxJoins[p]
    /\ gen \in [Participants -> Nat]
    /\ signed \in [Participants -> SUBSET [nonces : Generation, pkg : SigningPackage]]

ClientInit ==
    /\ sessionIdRef = [p \in Participants |-> NoSession]
    /\ joining = [p \in Participants |-> NoSession]
    /\ listed = [p \in Participants |-> {}]
    /\ connected = [p \in Participants |-> FALSE]
    /\ signingStatus = [p \in Participants |-> "Idle"]
    /\ nonces = NoPackages
    /\ finalSignature = [p \in Participants |-> NoPackage]
    /\ announced = 0
    /\ joins = [p \in Participants |-> 0]
    /\ gen = [p \in Participants |-> 0]
    /\ signed = [p \in Participants |-> {}]

ListPending == [type |-> "ListPendingSigningSessions"]

Shows(p, status) == signingStatus' = [signingStatus EXCEPT ![p] = status]

-----------------------------------------------------------------------------
(***************************************************************************)
(* The user and the socket.                                                *)
(***************************************************************************)

\* handleConnect and socket.onopen
Connect(p) ==
    /\ OpenSocket(p)
    /\ Shows(p, "Idle")
    /\ UNCHANGED <<sessionIdRef, pageVars, nonces, finalSignature, clickVars, history>>

\* socket.onclose, after handleDisconnect or by itself.  The list stays, and so
\* do the nonces.
Disconnect(p) ==
    /\ CloseSocket(p)
    /\ connected' = [connected EXCEPT ![p] = FALSE]
    /\ joining' = [joining EXCEPT ![p] = NoSession]
    /\ Shows(p, "Idle")
    /\ UNCHANGED <<sessionIdRef, listed, nonces, finalSignature, clickVars, history>>

\* The page is loaded anew, with the keys entered again.
Reload(p) ==
    /\ CloseSocket(p)
    /\ connected' = [connected EXCEPT ![p] = FALSE]
    /\ joining' = [joining EXCEPT ![p] = NoSession]
    /\ Shows(p, "Idle")
    /\ listed' = [listed EXCEPT ![p] = {}]
    /\ sessionIdRef' = [sessionIdRef EXCEPT ![p] = NoSession]
    /\ nonces' = [nonces EXCEPT ![p] = 0]
    /\ finalSignature' = [finalSignature EXCEPT ![p] = NoPackage]
    /\ UNCHANGED <<clickVars, history>>

\* handleAnnounceSigning
Announce(p) ==
    /\ p = Creator
    /\ connected[p]
    /\ signingStatus[p] \in {"Connected", "Complete"}
    /\ announced < Cardinality(Sessions)
    /\ announced' = announced + 1
    /\ Acts(p)
    /\ Sends(p, [type |-> "AnnounceSignSession"])
    /\ UNCHANGED <<sessionIdRef, pageVars, signingStatus, nonces, finalSignature, joins, history>>

\* handleJoinSession; only the loss of the socket clears joiningSessionId again,
\* and the page may be offline.
Join(p, s) ==
    /\ s \in listed[p]
    /\ joining[p] = NoSession
    /\ joins[p] < MaxJoins[p]
    /\ joins' = [joins EXCEPT ![p] = @ + 1]
    /\ joining' = [joining EXCEPT ![p] = s]
    /\ sessionIdRef' = [sessionIdRef EXCEPT ![p] = s]
    /\ Acts(p)
    /\ Sends(p, [type |-> "JoinSignSession", session |-> s])
    /\ UNCHANGED <<listed, connected, signingStatus, nonces, finalSignature, announced, history>>

\* Refresh Sessions; bound: only when nothing is listed and the socket is quiet.
Refresh(p) ==
    /\ MayRefresh
    /\ connected[p]
    /\ listed[p] = {}
    /\ toClient[p] = <<>> /\ toServer[Conn(p)] = <<>>
    /\ Acts(p)
    /\ Sends(p, ListPending)
    /\ UNCHANGED clientVars

-----------------------------------------------------------------------------
(***************************************************************************)
(* handleSigningServerMessage.                                             *)
(***************************************************************************)
OnChallenge(p) == AnswersChallenge(p) /\ UNCHANGED clientVars

OnLoginOk(p) ==
    /\ Receives(p, "LoginOk")
    /\ connected' = [connected EXCEPT ![p] = TRUE]
    /\ Shows(p, "Connected")
    /\ Sends(p, ListPending)
    /\ UNCHANGED <<sessionIdRef, joining, listed, nonces, finalSignature, clickVars, history>>

\* sessionIdRef is set although the page may have joined another session.
OnSignSessionCreated(p) ==
    /\ Receives(p, "SignSessionCreated")
    /\ sessionIdRef' = [sessionIdRef EXCEPT ![p] = Head(toClient[p]).session]
    /\ Shows(p, "SessionCreated")
    /\ Sends(p, ListPending)
    /\ UNCHANGED <<pageVars, nonces, finalSignature, clickVars, history>>

OnPendingSessions(p) ==
    /\ Receives(p, "PendingSigningSessions")
    /\ listed' = [listed EXCEPT ![p] = Head(toClient[p]).sessions]
    /\ UNCHANGED <<toServer, sessionIdRef, joining, connected, signingStatus, nonces,
                   finalSignature, clickVars, history>>

OnNewSession(p) ==
    /\ Receives(p, "NewSignSession")
    /\ listed' = [listed EXCEPT ![p] = @ \cup {Head(toClient[p]).session}]
    /\ UNCHANGED <<toServer, sessionIdRef, joining, connected, signingStatus, nonces,
                   finalSignature, clickVars, history>>

\* Whichever session it is about.
OnSessionAborted(p) ==
    /\ Receives(p, "SessionAborted")
    /\ Shows(p, "Failed")
    /\ Sends(p, ListPending)
    /\ UNCHANGED <<sessionIdRef, pageVars, nonces, finalSignature, clickVars, history>>

OnError(p) ==
    /\ Receives(p, "Error")
    /\ Shows(p, "Failed")
    /\ UNCHANGED <<toServer, sessionIdRef, pageVars, nonces, finalSignature, clickVars, history>>

\* sign_part1_commit draws new nonces.
OnSignReadyRound1(p) ==
    /\ Receives(p, "SignReadyRound1")
    /\ Shows(p, "Round1")
    /\ gen' = [gen EXCEPT ![p] = @ + 1]
    /\ nonces' = [nonces EXCEPT ![p] = gen'[p]]
    /\ Sends(p, [type |-> "SignRound1Submit", session |-> sessionIdRef[p], gen |-> gen'[p]])
    /\ UNCHANGED <<sessionIdRef, pageVars, finalSignature, clickVars, signed>>

\* sign_part2_sign; the nonces are kept.  An error is only logged.
OnSignSigningPackage(p) ==
    /\ Receives(p, "SignSigningPackage")
    /\ Shows(p, "Round2")
    /\ LET pkg == Head(toClient[p]).pkg IN
       IF nonces[p] # 0 /\ SignAccepts(p, nonces[p], pkg)
       THEN /\ signed' = [signed EXCEPT ![p] = @ \cup {[nonces |-> nonces[p], pkg |-> pkg]}]
            /\ Sends(p, [type |-> "SignRound2Submit", session |-> sessionIdRef[p],
                         share |-> pkg])
       ELSE UNCHANGED <<signed, toServer>>
    /\ UNCHANGED <<sessionIdRef, pageVars, nonces, finalSignature, clickVars, gen>>

OnSignatureReady(p) ==
    /\ Receives(p, "SignatureReady")
    /\ Shows(p, "Complete")
    /\ finalSignature' = [finalSignature EXCEPT ![p] = Head(toClient[p]).signature]
    /\ UNCHANGED <<toServer, sessionIdRef, pageVars, nonces, clickVars, history>>
=============================================================================
