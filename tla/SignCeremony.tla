---------------------------- MODULE SignCeremony ----------------------------
(***************************************************************************)
(* One signing session: the coordinator and its signers.                   *)
(***************************************************************************)
EXTENDS FserverSign, SignClient

vars == <<netVars, serverVars, clientVars>>

Init == NetInit /\ ServerInit /\ ClientInit

\* The coordinator handles the next message of socket c.
ServerStep(c) ==
    /\ \/ HandleLogin(c)
       \/ HandleAnnounceSign(c)
       \/ HandleJoinSign(c)
       \/ HandleSignRound1Submit(c)
       \/ HandleSignRound2Submit(c)
       \/ Refuse(c)
       \/ HandleDisconnect(c)
    /\ UNCHANGED clientVars

\* The signer of p acts on the next message it was sent.
ClientStep(p) ==
    /\ \/ OnLoginOk(p)
       \/ OnSignSessionCreated(p)
       \/ OnSignReadyRound1(p)
       \/ OnSignSigningPackage(p)
       \/ OnSignatureReady(p)
       \/ Abort(p)
    /\ UNCHANGED serverVars

Next ==
    \/ \E c \in Conns : ServerStep(c)
    \/ Expire /\ UNCHANGED clientVars
    \/ \E p \in Participants :
          \/ Start(p) /\ UNCHANGED serverVars
          \/ ClientStep(p)
          \/ Crash(p) /\ UNCHANGED serverVars

Spec == Init /\ [][Next]_vars

(***************************************************************************)
(* The coordinator's tasks and a signer's loop run until there is nothing  *)
(* to do, every participant is started once, and a timer that may go off   *)
(* does.  Nothing makes a process crash or a user start it again.          *)
(***************************************************************************)
Fairness ==
    /\ \A c \in Conns : WF_vars(ServerStep(c))
    /\ \A p \in Participants :
          /\ WF_vars(ClientStep(p))
          /\ WF_vars(started[p] = 0 /\ Start(p) /\ UNCHANGED serverVars)
    /\ WF_vars(Expire /\ UNCHANGED clientVars)

FairSpec == Spec /\ Fairness

-----------------------------------------------------------------------------
TypeOK == NetTypeOK /\ ServerTypeOK /\ ClientTypeOK

\* Nonces that sign two packages give the secret share away.  A signer may be
\* sent several packages holding its commitment to the same nonces, because the
\* coordinator sends a package again whenever somebody commits again.
NoncesSignOnce ==
    \A p \in Participants : \A s, t \in signed[p] : s.nonces = t.nonces => s = t

\* A signature is over a package that every participant has signed: shares from
\* before and after somebody's restart are not combined (main.rs:1604).
SignatureSignedByAll ==
    session = "completed" =>
        \A p \in Participants : \E s \in signed[p] : s.pkg = signature

\* No signer fails unless the session expires.
NoSignerAborts ==
    (\E p \in Participants : phase[p] = "aborted") => session = "expired"

\* Every signer of a session that does not expire stores the signature.
AllSign ==
    <>(session = "expired" \/ \A p \in Participants : signature_file[p] # NoPackage)

\* Nobody who has joined waits for ever.
JoinedSignerEnds ==
    \A p \in Participants :
        session = "open" /\ p \in joined ~> phase[p] # "running"

\* The refinement mapping.
status ==
    IF session = "completed" THEN "decided"
    ELSE IF session \in {"failed", "expired"} THEN "lost" ELSE "undecided"

Outcome == INSTANCE SignOutcome WITH Nonces <- Generation, stored <- signature_file

\* The session implements its abstract specification.
ImplementsOutcome == Outcome!Spec
=============================================================================
