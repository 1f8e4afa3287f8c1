----------------------------- MODULE FserverSign -----------------------------
(***************************************************************************)
(* The Rust coordinator as it serves one signing session.  As for a DKG    *)
(* session, a handler holds the mutex over Inner throughout and is one     *)
(* atomic action.  A handler that fails answers Error, which ends the      *)
(* signer that gets it.                                                    *)
(***************************************************************************)
EXTENDS SignNet

VARIABLES
    session,      \* where the session is: in Inner.sign_sessions when "open"
    joined,       \* SignSession.joined
    commitments,  \* SignSession.commitments: nonce generation by signer
    sign_shares,  \* SignSession.sign_shares: by signer, NoPackage for none
    signature     \* in Inner.completed_sign_sessions, NoPackage for none

sessionVars == <<joined, commitments, sign_shares>>
serverVars == <<conns, logged_in, session, signature, sessionVars>>

ServerTypeOK ==
    /\ conns \in [Participants -> 0..MaxStarts]
    /\ logged_in \subseteq Conns
    /\ session \in {"none", "open", "completed", "failed", "expired"}
    /\ joined \subseteq Participants
    /\ commitments \in Packages
    /\ sign_shares \in [Participants -> Packages]
    /\ signature \in Packages

NoShares == [p \in Participants |-> NoPackage]

ServerInit ==
    /\ RegistryInit
    /\ session = "none"
    /\ signature = NoPackage
    /\ joined = {}
    /\ commitments = NoPackages
    /\ sign_shares = NoShares

-----------------------------------------------------------------------------
\* The early returns every session handler starts with.
Admitted(c) == c \in logged_in /\ session = "open"

HandleLogin(c) ==
    /\ Register(c)
    /\ UNCHANGED <<session, signature, sessionVars>>

\* The announced hash must be the Keccak-256 of the announced message.
HandleAnnounceSign(c) ==
    /\ Reads(c, "AnnounceSignSession")
    /\ c \in logged_in
    /\ session = "none"
    /\ Head(toServer[c]).hashed
    /\ session' = "open"
    /\ Reply(c, [type |-> "SignSessionCreated"])
    /\ UNCHANGED <<conns, logged_in, signature, sessionVars>>

\* SignReadyRound1 goes out whenever a join leaves everyone joined, also when it
\* repeats one.
HandleJoinSign(c) ==
    /\ Reads(c, "JoinSignSession")
    /\ Admitted(c)
    /\ joined' = joined \cup {c[1]}
    /\ IF AllOf(joined')
       THEN Broadcast(ToAll(<<[type |-> "SignReadyRound1"]>>))
       ELSE UNCHANGED toClient
    /\ UNCHANGED <<conns, logged_in, session, signature, commitments, sign_shares>>

HandleSignRound1Submit(c) ==
    /\ Reads(c, "SignRound1Submit")
    /\ Admitted(c)
    /\ commitments' = [commitments EXCEPT ![c[1]] = Head(toServer[c]).gen]
    /\ IF AllOf(Present(commitments'))
       THEN Broadcast(ToAll(<<[type |-> "SignSigningPackage", pkg |-> commitments']>>))
       ELSE UNCHANGED toClient
    /\ UNCHANGED <<conns, logged_in, session, signature, joined, sign_shares>>

\* inner.sign_sessions.remove(&session)
RemoveSession ==
    /\ joined' = {}
    /\ commitments' = NoPackages
    /\ sign_shares' = NoShares

\* Mutant of SharesComplete: one share is not waited for.
SharesAllButOne(shares) ==
    Cardinality({p \in Participants : shares[p] # NoPackage}) + 1 >= Cardinality(Present(commitments))

\* s.sign_shares.len() == s.commitments.len()
SharesComplete(shares) ==
    Cardinality({p \in Participants : shares[p] # NoPackage}) = Cardinality(Present(commitments))

\* With the last share the session is removed, and only then aggregated: if that
\* fails, the sender of the last share alone is told.
HandleSignRound2Submit(c) ==
    /\ Reads(c, "SignRound2Submit")
    /\ Admitted(c)
    /\ LET shares == [sign_shares EXCEPT ![c[1]] = Head(toServer[c]).share] IN
       \/ /\ ~SharesComplete(shares)
          /\ sign_shares' = shares
          /\ UNCHANGED <<session, signature, joined, commitments, toClient>>
       \/ /\ SharesComplete(shares)
          /\ RemoveSession
          /\ \/ /\ AggregateAccepts(commitments, shares)
                /\ session' = "completed"
                /\ signature' = commitments
                /\ Broadcast(ToAll(<<[type |-> "SignatureReady", signature |-> commitments]>>))
             \/ /\ ~AggregateAccepts(commitments, shares)
                /\ session' = "failed"
                /\ Reply(c, [type |-> "Error"])
                /\ UNCHANGED signature
    /\ UNCHANGED <<conns, logged_in>>

\* An early return of a handler.
Refuse(c) ==
    /\ \/ /\ \E type \in {"JoinSignSession", "SignRound1Submit", "SignRound2Submit"} : Reads(c, type)
          /\ ~Admitted(c)
       \/ /\ Reads(c, "AnnounceSignSession")
          /\ ~Head(toServer[c]).hashed
    /\ Reply(c, [type |-> "Error"])
    /\ UNCHANGED serverVars

\* The end of handle_socket.
HandleDisconnect(c) ==
    /\ Reads(c, "Close")
    /\ IF c \in logged_in
       THEN joined' = joined \ {c[1]} /\ Unregister(c)
       ELSE UNCHANGED <<joined, conns, logged_in>>
    /\ UNCHANGED <<toClient, session, signature, commitments, sign_shares>>

\* Mutant of Expire: the participants are not told.
ExpireSilently ==
    /\ MayExpire
    /\ session = "open"
    /\ session' = "expired"
    /\ RemoveSession
    /\ UNCHANGED <<netVars, conns, logged_in, signature>>

\* Mutant of Expire: whether the session is still there is not looked up.
ExpireUnchecked ==
    /\ MayExpire
    /\ session \in {"open", "completed"}
    /\ session' = "expired"
    /\ RemoveSession
    /\ Broadcast(ToAll(<<[type |-> "Error"], [type |-> "Close"]>>))
    /\ UNCHANGED <<started, phase, toServer, conns, logged_in, signature>>

\* start_session_timeout: 15 minutes after the announcement a session still in
\* the table is removed, and its participants get an Error and a Close.
Expire ==
    /\ MayExpire
    /\ session = "open"
    /\ session' = "expired"
    /\ RemoveSession
    /\ Broadcast(ToAll(<<[type |-> "Error"], [type |-> "Close"]>>))
    /\ UNCHANGED <<started, phase, toServer, conns, logged_in, signature>>
=============================================================================
