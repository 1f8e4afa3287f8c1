----------------------------- MODULE DkgCeremony -----------------------------
(***************************************************************************)
(* One DKG session: the coordinator and the clients of its participants.   *)
(***************************************************************************)
EXTENDS FserverDkg, DkgClient

vars == <<netVars, serverVars, clientVars>>

Init == NetInit /\ ServerInit /\ ClientInit

\* The coordinator handles the next message of socket c.
ServerStep(c) ==
    \/ HandleLogin(c)          /\ UNCHANGED clientVars
    \/ HandleAnnounce(c)       /\ UNCHANGED clientVars
    \/ HandleJoin(c)           /\ UNCHANGED clientVars
    \/ HandleRound1Submit(c)   /\ UNCHANGED clientVars
    \/ HandleRound2Submit(c)   /\ UNCHANGED clientVars
    \/ HandleFinalizeSubmit(c) /\ UNCHANGED clientVars
    \/ Refuse(c)               /\ UNCHANGED clientVars
    \/ HandleLogout(c)         /\ UNCHANGED clientVars
    \/ HandleDisconnect(c)     /\ UNCHANGED clientVars

\* The client of p acts on the next message it was sent.
ClientStep(p) ==
    \/ OnLoginOk(p)            /\ UNCHANGED serverVars
    \/ OnSessionCreated(p)     /\ UNCHANGED serverVars
    \/ OnReadyRound1(p)        /\ UNCHANGED serverVars
    \/ OnRound1All(p)          /\ UNCHANGED serverVars
    \/ OnReadyRound2(p)        /\ UNCHANGED serverVars
    \/ OnRound2All(p)          /\ UNCHANGED serverVars
    \/ OnFinalized(p)          /\ UNCHANGED serverVars
    \/ Abort(p)                /\ UNCHANGED serverVars
    \/ OnClose(p)              /\ UNCHANGED serverVars

Next ==
    \/ \E c \in Conns : ServerStep(c)
    \/ Expire /\ UNCHANGED clientVars
    \/ \E p \in Participants :
          \/ Start(p) /\ UNCHANGED serverVars
          \/ ClientStep(p)
          \/ Crash(p) /\ UNCHANGED serverVars

Spec == Init /\ [][Next]_vars

(***************************************************************************)
(* The coordinator's tasks and a client's loop run until there is nothing  *)
(* to do: every message on a socket is eventually read.  Every participant *)
(* is started once.  Nothing makes a process crash, a user start it again  *)
(* or the session outlive the protocol.                                    *)
(***************************************************************************)
Fairness ==
    /\ \A c \in Conns : WF_vars(ServerStep(c))
    /\ \A p \in Participants :
          /\ WF_vars(ClientStep(p))
          /\ WF_vars(started[p] = 0 /\ Start(p) /\ UNCHANGED serverVars)

FairSpec == Spec /\ Fairness

-----------------------------------------------------------------------------
TypeOK == NetTypeOK /\ ServerTypeOK /\ ClientTypeOK

HasShare(p) == share[p] # NoShare

\* A session completes only for a group key that every participant's client has
\* derived in part3: whatever the coordinator mixes up after a restart, it does
\* not announce a key somebody has no share of (FinalizeSubmit, main.rs:1235).
CompletedKeyDerivedByAll ==
    session = "completed" => \A p \in Participants : completed_vk \in derived[p]

\* Artifacts are written for a completed session only, never for an expired one,
\* and all of them name the coordinator's group key.
ArtifactsNameCompletedKey ==
    \A p \in Participants :
        HasShare(p) => session = "completed" /\ share[p].group_vk = completed_vk

\* The packages on their way to a client are complete: Round1All holds everyone's
\* and Round2All one from everybody else, so part2 and part3 are not called early.
RoundsComplete ==
    \A p \in Participants : \A i \in 1..Len(toClient[p]) :
        LET m == toClient[p][i] IN
        /\ m.type = "Round1All" => Present(m.pkgs) = Participants
        /\ m.type = "Round2All" => Present(m.pkgs) = Participants \ {p}

\* Every polynomial in a derived group key was dealt by its owner in round 2: the
\* round-1 package of a process that died before round 2, which the coordinator
\* keeps and rebroadcasts after a restart, never gets into anybody's key.
DerivedKeysFullyDealt ==
    \A p, q \in Participants : \A vk \in derived[p] : vk[q] \in dealt[q]

\* The artifacts belong together: the secret share is a share of the group key
\* that the file names, and the stored commitment is the one it was dealt under.
\* README.md:346 promises that "Each participant derives their key share".
WrittenShareBelongsToGroup ==
    \A p \in Participants :
        HasShare(p) => /\ share[p].key = share[p].group_vk
                       /\ share[p].commitment = share[p].key

\* No client is ended by an error of its own protocol handling.
NoClientAborts == \A p \in Participants : phase[p] # "aborted"

\* Inner.conns holds the "active connections by principal" (main.rs:314): the
\* socket of a running, logged-in client is the registered one.
ActiveConnectionRegistered ==
    \A p \in Participants :
        phase[p] = "running" /\ Conn(p) \in logged_in => conns[p] = started[p]

\* Unless the session expires, every participant ends up with a share.
AllFinish == <>(session = "expired" \/ \A p \in Participants : HasShare(p))

\* Nobody who has joined waits forever: the client ends with its share or is
\* closed when the session expires.
JoinedClientEnds ==
    \A p \in Participants :
        session = "open" /\ p \in joined ~> phase[p] \in {"finished", "closed"}

\* The refinement mapping.
status ==
    IF session = "completed" THEN "decided"
    ELSE IF session = "expired" THEN "expired" ELSE "undecided"
named == [p \in Participants |-> share[p].group_vk]

Outcome == INSTANCE DkgOutcome WITH group_vk <- completed_vk

\* The session implements its abstract specification: it is decided at most once,
\* for a key that every participant derived, or expires (main.rs:416, 1260).

ImplementsOutcome == Outcome!Spec
=============================================================================
