--------------------------- MODULE WebDkgCeremony ---------------------------
(***************************************************************************)
(* DKG sessions of one roster over the web: the TypeScript coordinator and *)
(* the participants' pages.                                                *)
(***************************************************************************)
EXTENDS WebDkgClient

vars == <<socket, online, toServer, toClient, serverVars, clientVars>>

Init == NetInit /\ ServerInit /\ ClientInit

\* The coordinator handles the next message of socket c.
ServerStep(c) ==
    /\ \/ HandleRequestChallengeDkg(c)
       \/ HandleLoginDkg(c)
       \/ HandleAnnounce(c)
       \/ HandleJoin(c)
       \/ HandleListPending(c)
       \/ HandleRound1Submit(c)
       \/ HandleRound2Submit(c)
       \/ HandleFinalizeSubmit(c)
       \/ HandleDisconnect(c)
    /\ UNCHANGED clientVars

\* The page of p handles a message.
PageStep(p) ==
    /\ \/ OnChallenge(p)
       \/ OnLoginOk(p)
       \/ OnSessionCreated(p)
       \/ OnPendingSessions(p)
       \/ OnNewSession(p)
       \/ OnSessionAborted(p)
       \/ OnFinalized(p)
       \/ OnError(p)
       \/ OnRound(p)
       \/ OnRound1All(p)
    /\ UNCHANGED sessionVars

\* The handler of p's page that has slept longest goes on.
WakeUp(p) ==
    /\ \/ Round1(p)
       \/ Round2(p)
       \/ Finalize(p)
    /\ UNCHANGED sessionVars

UserStep(p) ==
    /\ \/ Connect(p)
       \/ Announce(p)
       \/ \E s \in Sessions : Join(p, s)
       \/ Refresh(p)
    /\ UNCHANGED sessionVars

Next ==
    \/ \E c \in Conns : ServerStep(c)
    \/ \E p \in Participants :
          \/ PageStep(p)
          \/ WakeUp(p)
          \/ UserStep(p)
          \/ Disconnect(p) /\ UNCHANGED sessionVars
          \/ Reload(p) /\ UNCHANGED sessionVars

Spec == Init /\ [][Next]_vars

(***************************************************************************)
(* The coordinator reads every socket and a page's event loop runs: it     *)
(* handles messages and its timers go off.  Users do their part: they      *)
(* connect, and connect again after a loss, the creator announces sessions *)
(* and everybody joins one that is listed.  Nothing obliges anyone to      *)
(* refresh the list, or a socket to be lost.                               *)
(***************************************************************************)
Fairness ==
    /\ \A c \in Conns : WF_vars(ServerStep(c))
    /\ \A p \in Participants :
          /\ WF_vars(PageStep(p))
          /\ WF_vars(WakeUp(p))
          /\ WF_vars(Connect(p) /\ UNCHANGED sessionVars)
          /\ WF_vars(Announce(p) /\ UNCHANGED sessionVars)
          /\ WF_vars(\E s \in Sessions : Join(p, s) /\ UNCHANGED sessionVars)

FairSpec == Spec /\ Fairness

-----------------------------------------------------------------------------
TypeOK == NetTypeOK /\ ServerTypeOK /\ ClientTypeOK

\* A session is finalized only for a group key that every participant's page has
\* derived, also when the rounds are repeated (server.ts:669).  A page that was
\* reloaded since may have lost its share again.
FinalizedKeyDerivedByAll ==
    \A s \in Sessions : completed[s] # NoKey =>
        \A p \in Participants : completed[s] \in derived[p]

NobodyRejoined == \A p \in Participants : joins[p] <= 1

\* The packages on their way to a page are complete, "(N-1) packages for EVERY
\* recipient" (server.ts:594): Round1All holds everyone's and Round2All one of
\* everybody else.  The coordinator counts round-2 packages whoever sent them: the
\* count tells that they are complete unless somebody joins a second time.
RoundsComplete ==
    \A p \in Participants : \A i \in 1..Len(toClient[p]) :
        LET m == toClient[p][i] IN
        /\ m.type = "Round1All" => Present(m.pkgs) = Participants
        /\ NobodyRejoined /\ m.type = "Round2All" =>
              {m.pkgs[j].from : j \in 1..Len(m.pkgs)} = Participants \ {p}

\* Pages that join once do not derive different keys, whatever is lost.
DerivedKeysAgree ==
    NobodyRejoined =>
        \A p, q \in Participants : \A vk \in derived[p], other \in derived[q] : vk = other

\* "Session already started - must abort since protocol cannot recover"
\* (server.ts:168): an aborted session is not taken up again.
AbortedStaysAborted ==
    [][\A s \in Sessions : state[s] = "Failed" => state'[s] = "Failed"]_vars

Faulted == \E p \in Participants : socket[p] > 1 \/ (socket[p] = 1 /\ ~online[p])

\* Unless a socket is lost, every announced session is finalized.
AllFinalized == <>(Faulted \/ \A s \in Sessions : completed[s] # NoKey)

\* A page that joins once is not left waiting in an aborted session: it can join
\* another one (server.ts:169, lib.ts:202).  A page that joins the aborted session
\* again, from a list it has not refreshed, is: the coordinator takes the join in any
\* state (server.ts:384), and nobody is told of the abort a second time.
AbortReleases ==
    \A p \in Participants : \A s \in Sessions :
        joins[p] <= 1 /\ joining[p] = s /\ state[s] = "Failed" ~> joining[p] # s

\* While a page's socket is open, the coordinator keeps its login and, unless somebody
\* joins a second time, the place it has in a session: the end of the page's earlier
\* socket and what is still unread on that one, whenever they come, take neither
\* (server.ts:103, 110, 410).
OpenSocketKept ==
    [][\A p \in Participants : online[p] /\ online'[p] =>
          /\ Conn(p) \in logged_in => Conn(p) \in logged_in'
          /\ NobodyRejoined' => \A s \in Sessions :
                joined[s][p] = socket[p] => joined'[s][p] = socket[p]]_vars

\* The refinement mapping, for session s.
Status(s) == IF completed[s] = NoKey THEN "undecided" ELSE "decided"
NothingNamed == [p \in Participants |-> NoKey]

Outcome(s) == INSTANCE DkgOutcome WITH
    status <- Status(s), group_vk <- completed[s], named <- NothingNamed

\* Every session implements the abstract specification (Outcome(s)!Spec, for all s
\* at once): it is decided at most once, for a key that every participant derived
\* (server.ts:649, 678).
ImplementsOutcome ==
    /\ \A s \in Sessions : Outcome(s)!Init
    /\ [][\A s \in Sessions : [Outcome(s)!Next]_(Outcome(s)!vars)]_vars
=============================================================================
