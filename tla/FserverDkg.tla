----------------------------- MODULE FserverDkg -----------------------------
(***************************************************************************)
(* The Rust coordinator, packages/rust/fserver/src/main.rs, as it serves   *)
(* one DKG session.  Each handler of handle_client_text holds the one      *)
(* mutex over Inner from its first read to its last send, so a handler is  *)
(* one atomic action; the messages of one socket are handled in order and  *)
(* those of different sockets in any order.                                *)
(***************************************************************************)
EXTENDS DkgNet

VARIABLES
    session,        \* where the session is: in Inner.sessions when "open"
    joined,         \* DKGSession.joined
    r1_pkgs,        \* DKGSession.r1_pkgs: generation by sender
    r2_inbox,       \* DKGSession.r2_inbox: by recipient, then by sender
    finalized_uids, \* DKGSession.finalized_uids
    agreed_vk,      \* DKGSession.agreed_vk, NoKey for None
    completed_vk    \* group_vk_sec1_hex in Inner.completed_dkg_sessions

sessionVars == <<joined, r1_pkgs, r2_inbox, finalized_uids, agreed_vk>>
serverVars == <<conns, logged_in, session, completed_vk, sessionVars>>

ServerTypeOK ==
    /\ conns \in [Participants -> 0..MaxStarts]
    /\ logged_in \subseteq Conns
    /\ session \in {"none", "open", "completed", "expired"}
    /\ joined \subseteq Participants
    /\ r1_pkgs \in Packages
    /\ r2_inbox \in [Participants -> Packages]
    /\ finalized_uids \subseteq Participants
    /\ agreed_vk \in Packages
    /\ completed_vk \in Packages

ServerInit ==
    /\ RegistryInit
    /\ session = "none"
    /\ completed_vk = NoKey
    /\ joined = {}
    /\ r1_pkgs = NoPackages
    /\ r2_inbox = [p \in Participants |-> NoPackages]
    /\ finalized_uids = {}
    /\ agreed_vk = NoKey

-----------------------------------------------------------------------------
\* The early returns every session handler starts with.
Admitted(c) == c \in logged_in /\ session = "open"

-----------------------------------------------------------------------------
HandleLogin(c) ==
    /\ Register(c)
    /\ UNCHANGED <<session, completed_vk, sessionVars>>

HandleAnnounce(c) ==
    /\ Reads(c, "AnnounceDKGSession")
    /\ c \in logged_in
    /\ session = "none"
    /\ session' = "open"
    /\ Reply(c, [type |-> "DKGSessionCreated"])
    /\ UNCHANGED <<conns, logged_in, completed_vk, sessionVars>>

\* ReadyRound1 goes out whenever a join leaves everyone joined, also when it
\* repeats one.
HandleJoin(c) ==
    /\ Reads(c, "JoinDKGSession")
    /\ Admitted(c)
    /\ joined' = joined \cup {c[1]}
    /\ IF AllOf(joined')
       THEN Broadcast(ToAll(<<[type |-> "ReadyRound1"]>>))
       ELSE UNCHANGED toClient
    /\ UNCHANGED <<conns, logged_in, session, completed_vk, r1_pkgs, r2_inbox,
                   finalized_uids, agreed_vk>>

HandleRound1Submit(c) ==
    /\ Reads(c, "Round1Submit")
    /\ Admitted(c)
    /\ r1_pkgs' = [r1_pkgs EXCEPT ![c[1]] = Head(toServer[c]).gen]
    /\ IF AllOf(Present(r1_pkgs'))
       THEN Broadcast(ToAll(<<[type |-> "Round1All", pkgs |-> r1_pkgs'],
                              [type |-> "ReadyRound2"]>>))
       ELSE UNCHANGED toClient
    /\ UNCHANGED <<conns, logged_in, session, completed_vk, joined, r2_inbox,
                   finalized_uids, agreed_vk>>

\* Mutants of InboxesFull: one full inbox is enough; an inbox waits for its
\* owner's package too.
SomeInboxFull(inbox) ==
    \E q \in Participants :
        Cardinality(Present(inbox[q])) = Cardinality(Participants) - 1
InboxesFullWithOwn(inbox) ==
    \A q \in Participants : Cardinality(Present(inbox[q])) = Cardinality(Participants)

\* Every inbox holds a package from everyone but its owner.
InboxesFull(inbox) ==
    \A q \in Participants :
        Cardinality(Present(inbox[q])) = Cardinality(Participants) - 1

HandleRound2Submit(c) ==
    /\ Reads(c, "Round2Submit")
    /\ Admitted(c)
    /\ r2_inbox' = [q \in Participants |->
                      IF q = c[1] THEN r2_inbox[q]
                      ELSE [r2_inbox[q] EXCEPT ![c[1]] = Head(toServer[c]).gen]]
    /\ IF InboxesFull(r2_inbox')
       THEN Broadcast([q \in Participants |->
                         <<[type |-> "Round2All", pkgs |-> r2_inbox'[q]]>>])
       ELSE UNCHANGED toClient
    /\ UNCHANGED <<conns, logged_in, session, completed_vk, joined, r1_pkgs,
                   finalized_uids, agreed_vk>>

\* Mutant of VkMismatch: every group key is accepted.
AnyVkMatches(vk) == FALSE

\* "group VK mismatch": the submission is refused.
VkMismatch(vk) == agreed_vk # NoKey /\ agreed_vk # vk

\* The first group key submitted is the one agreed on.
Agreed(vk) == IF agreed_vk = NoKey THEN vk ELSE agreed_vk

\* inner.sessions.remove(&session)
RemoveSession ==
    /\ joined' = {}
    /\ r1_pkgs' = NoPackages
    /\ r2_inbox' = [p \in Participants |-> NoPackages]
    /\ finalized_uids' = {}
    /\ agreed_vk' = NoKey

HandleFinalizeSubmit(c) ==
    /\ Reads(c, "FinalizeSubmit")
    /\ Admitted(c)
    /\ ~VkMismatch(Head(toServer[c]).vk)
    /\ LET vk == Agreed(Head(toServer[c]).vk) IN
       IF AllOf(finalized_uids \cup {c[1]})
          THEN /\ session' = "completed"
               /\ completed_vk' = vk
               /\ RemoveSession
               /\ Broadcast(ToAll(<<[type |-> "Finalized", vk |-> vk]>>))
          ELSE /\ agreed_vk' = vk
               /\ finalized_uids' = finalized_uids \cup {c[1]}
               /\ UNCHANGED <<session, completed_vk, joined, r1_pkgs, r2_inbox, toClient>>
    /\ UNCHANGED <<conns, logged_in>>

\* An early return of a session handler: nothing changes, and the Error sent
\* back is only printed by the client.
Refuse(c) ==
    /\ \/ /\ \E type \in {"JoinDKGSession", "Round1Submit", "Round2Submit", "FinalizeSubmit"} :
                Reads(c, type)
          /\ ~Admitted(c)
       \/ /\ Reads(c, "FinalizeSubmit")
          /\ VkMismatch(Head(toServer[c]).vk)
    /\ UNCHANGED <<toClient, serverVars>>

HandleLogout(c) ==
    /\ Reads(c, "Logout")
    /\ c \in logged_in
    /\ Unregister(c)
    /\ UNCHANGED <<toClient, session, completed_vk, sessionVars>>

\* The end of handle_socket.
HandleDisconnect(c) ==
    /\ Reads(c, "Close")
    /\ IF c \in logged_in
       THEN joined' = joined \ {c[1]} /\ Unregister(c)
       ELSE UNCHANGED <<joined, conns, logged_in>>
    /\ UNCHANGED <<toClient, session, completed_vk, r1_pkgs, r2_inbox,
                   finalized_uids, agreed_vk>>

\* Mutants of Expire: the timer does not look whether the session is still
\* there; the participants' connections stay open.
ExpireUnchecked ==
    /\ MayExpire
    /\ session # "expired"
    /\ session' = "expired"
    /\ RemoveSession
    /\ Broadcast(ToAll(<<[type |-> "Close"]>>))
    /\ UNCHANGED <<started, phase, toServer, conns, logged_in, completed_vk>>
ExpireSilently ==
    /\ MayExpire
    /\ session = "open"
    /\ session' = "expired"
    /\ RemoveSession
    /\ UNCHANGED <<netVars, conns, logged_in, completed_vk>>

\* start_session_timeout: 15 minutes after the announcement a session still in
\* the table is removed and its participants' connections are closed.
Expire ==
    /\ MayExpire
    /\ session = "open"
    /\ session' = "expired"
    /\ RemoveSession
    /\ Broadcast(ToAll(<<[type |-> "Close"]>>))
    /\ UNCHANGED <<started, phase, toServer, conns, logged_in, completed_vk>>
=============================================================================
