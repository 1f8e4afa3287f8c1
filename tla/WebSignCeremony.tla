--------------------------- MODULE WebSignCeremony ---------------------------
(***************************************************************************)
(* Signing sessions of one roster over the web: the TypeScript coordinator *)
(* and the participants' pages.                                            *)
(***************************************************************************)
EXTENDS WebSigner

vars == <<socket, online, toServer, toClient, serverVars, clientVars>>

Init == NetInit /\ ServerInit /\ ClientInit

\* The coordinator handles the next message of socket c.
ServerStep(c) ==
    /\ \/ HandleRequestChallengeSign(c)
       \/ HandleLoginSign(c)
       \/ HandleAnnounceSign(c)
       \/ HandleJoinSign(c)
       \/ HandleListPendingSign(c)
       \/ HandleSignRound1Submit(c)
       \/ HandleSignRound2Submit(c)
       \/ HandleSignDisconnect(c)
    /\ UNCHANGED clientVars

\* The page of p handles a message.
PageStep(p) ==
    /\ \/ OnChallenge(p)
       \/ OnLoginOk(p)
       \/ OnSignSessionCreated(p)
       \/ OnPendingSessions(p)
       \/ OnNewSession(p)
       \/ OnSessionAborted(p)
       \/ OnError(p)
       \/ OnSignReadyRound1(p)
       \/ OnSignSigningPackage(p)
       \/ OnSignatureReady(p)
    /\ UNCHANGED sessionVars

UserStep(p) ==
    /\ \/ Connect(p)
       \/ Announce(p)
       \/ \E s \in Sessions : Join(p, s)
       \/ Refresh(p)
    /\ UNCHANGED sessionVars

Next ==
    \/ \E c \in Conns : ServerStep(c)
    \/ \E p \in Participants :
          \/ PageStep(p)
          \/ UserStep(p)
          \/ Disconnect(p) /\ UNCHANGED sessionVars
          \/ Reload(p) /\ UNCHANGED sessionVars

Spec == Init /\ [][Next]_vars

(***************************************************************************)
(* The coordinator reads every socket and a page handles its messages.     *)
(* Users connect, and connect again after a loss, the creator announces    *)
(* sessions and everybody joins one that is listed.  Nothing obliges       *)
(* anyone to refresh the list, or a socket to be lost.                     *)
(***************************************************************************)
Fairness ==
    /\ \A c \in Conns : WF_vars(ServerStep(c))
    /\ \A p \in Participants :
          /\ WF_vars(PageStep(p))
          /\ WF_vars(Connect(p) /\ UNCHANGED sessionVars)
          /\ WF_vars(Announce(p) /\ UNCHANGED sessionVars)
          /\ WF_vars(\E s \in Sessions : Join(p, s) /\ UNCHANGED sessionVars)

FairSpec == Spec /\ Fairness

-----------------------------------------------------------------------------
TypeOK == NetTypeOK /\ ServerTypeOK /\ ClientTypeOK

NobodyRejoined == \A p \in Participants : joins[p] <= 1

\* Nonces that sign two packages give the secret share away.  The page keeps its
\* nonces after signing (lib.ts:613), and the coordinator sends a package again for
\* every commitment after the last one (server.ts:937): this is safe unless
\* somebody joins a session a second time.
NoncesSignOnce ==
    NobodyRejoined =>
        \A p \in Participants : \A a, b \in signed[p] : a.nonces = b.nonces => a = b

\* A signature, published or on a page, is over a package that everybody has
\* signed, also when shares of an earlier attempt are still kept (server.ts:967).
SignatureSignedByAll ==
    \A sig \in {completed[s] : s \in Sessions} \cup {finalSignature[p] : p \in Participants} :
        sig # NoPackage => \A p \in Participants : \E a \in signed[p] : a.pkg = sig

\* A signature the session has published is not replaced by another, although the
\* session goes on taking commitments and shares (server.ts:1197), unless somebody
\* joins a second time.
SignatureStays ==
    [][NobodyRejoined' =>
         \A s \in Sessions : completed[s] # NoPackage => completed'[s] = completed[s]]_vars

Faulted == \E p \in Participants : socket[p] > 1 \/ (socket[p] = 1 /\ ~online[p])

\* Unless a socket is lost, every page gets the session's signature.
AllSigned == <>(Faulted \/ \A p \in Participants : finalSignature[p] # NoPackage)

\* No page goes on showing the rounds of an aborted session.
AbortNoticed ==
    \A p \in Participants : \A s \in Sessions :
        signingStatus[p] \in {"Round1", "Round2"} /\ sessionIdRef[p] = s /\ state[s] = "Failed"
            ~> state[s] # "Failed" \/ signingStatus[p] \notin {"Round1", "Round2"}
=============================================================================
