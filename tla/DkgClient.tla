------------------------------ MODULE DkgClient ------------------------------
(***************************************************************************)
(* The command-line DKG participant, packages/rust/dkg/src/main.rs: one    *)
(* loop that reads a message, acts on it and sends the answer.  Every `?`  *)
(* in the loop ends the process.  What it keeps is in memory until the     *)
(* Finalized message, when the key share is written.                       *)
(***************************************************************************)
EXTENDS DkgNet

VARIABLES
    session_file,  \* the session id is in the file participants read it from
    my_id,         \* my_id[p]: ReadyRound1 was received, so id and roster are known
    r1_secret,     \* r1_secret[p]: generation whose secret p holds, 0 for None
    r1_cache,      \* r1_pkgs of the client: the last Round1All
    r2_secret,     \* r2_secret[p]: generation whose round-2 secret p holds, 0 for None
    final_kp,      \* group key of the key package p holds, NoKey for None
    gen,           \* gen[p]: generations p has drawn (over all its processes)
    dealt,         \* dealt[p]: generations p has sent round-2 packages of (history)
    derived,       \* derived[p]: group keys p has derived (history)
    share          \* share[p]: the artifacts p wrote

memoryVars == <<my_id, r1_secret, r1_cache, r2_secret, final_kp>>
clientVars == <<session_file, gen, dealt, derived, share, memoryVars>>

\* share_*.json: the key its secret belongs to, the group key it names and the
\* commitment stored with it.  One write stands for group.json and the share.
Share == [key : Packages, group_vk : Packages, commitment : Packages]
NoShare == [key |-> NoKey, group_vk |-> NoKey, commitment |-> NoPackages]

ClientTypeOK ==
    /\ session_file \in BOOLEAN
    /\ my_id \in [Participants -> BOOLEAN]
    /\ r1_secret \in [Participants -> Nat]
    /\ r1_cache \in [Participants -> Packages]
    /\ r2_secret \in [Participants -> Nat]
    /\ final_kp \in [Participants -> Packages]
    /\ gen \in [Participants -> Nat]
    /\ dealt \in [Participants -> SUBSET Generation]
    /\ derived \in [Participants -> SUBSET Key]
    /\ share \in [Participants -> Share]

ClientInit ==
    /\ session_file = FALSE
    /\ my_id = [p \in Participants |-> FALSE]
    /\ r1_secret = [p \in Participants |-> 0]
    /\ r1_cache = [p \in Participants |-> NoPackages]
    /\ r2_secret = [p \in Participants |-> 0]
    /\ final_kp = [p \in Participants |-> NoKey]
    /\ gen = [p \in Participants |-> 0]
    /\ dealt = [p \in Participants |-> {}]
    /\ derived = [p \in Participants |-> {}]
    /\ share = [p \in Participants |-> NoShare]

-----------------------------------------------------------------------------
\* p's process ends: its memory is gone.
Exits(p, how, msgs) ==
    /\ Ends(p, how, msgs)
    /\ my_id' = [my_id EXCEPT ![p] = FALSE]
    /\ r1_secret' = [r1_secret EXCEPT ![p] = 0]
    /\ r1_cache' = [r1_cache EXCEPT ![p] = NoPackages]
    /\ r2_secret' = [r2_secret EXCEPT ![p] = 0]
    /\ final_kp' = [final_kp EXCEPT ![p] = NoKey]

-----------------------------------------------------------------------------
\* The creator is started with --create, the others (and a restarted creator)
\* with the session id.
Start(p) ==
    /\ p = Creator \/ session_file
    /\ Starts(p)
    /\ UNCHANGED clientVars

OnLoginOk(p) ==
    /\ Receives(p, "LoginOk")
    /\ Sends(p, <<[type |-> IF session_file THEN "JoinDKGSession"
                                            ELSE "AnnounceDKGSession"]>>)
    /\ UNCHANGED clientVars

OnSessionCreated(p) ==
    /\ Receives(p, "DKGSessionCreated")
    /\ session_file' = TRUE
    /\ Sends(p, <<[type |-> "JoinDKGSession"]>>)
    /\ UNCHANGED <<gen, dealt, derived, share, memoryVars>>

\* Draws a new polynomial each time; a round-1 secret still held is replaced.
OnReadyRound1(p) ==
    /\ Receives(p, "ReadyRound1")
    /\ my_id' = [my_id EXCEPT ![p] = TRUE]
    /\ gen' = [gen EXCEPT ![p] = @ + 1]
    /\ r1_secret' = [r1_secret EXCEPT ![p] = gen[p] + 1]
    /\ Sends(p, <<[type |-> "Round1Submit", gen |-> gen[p] + 1]>>)
    /\ UNCHANGED <<session_file, dealt, derived, share, r1_cache, r2_secret, final_kp>>

\* Without a roster the packages' signatures cannot be checked: the client gives up.
OnRound1All(p) ==
    /\ Receives(p, "Round1All")
    /\ my_id[p]
    /\ r1_cache' = [r1_cache EXCEPT ![p] = Head(toClient[p]).pkgs]
    /\ Sends(p, <<>>)
    /\ UNCHANGED <<session_file, gen, dealt, derived, share, my_id, r1_secret, r2_secret, final_kp>>

\* Mutant of Round2Possible: a secret already taken is used again.
Round2WithoutSecret(p) == my_id[p] /\ Part2Accepts(p, r1_cache[p])

\* r1_secret.take(): the secret serves one round 2.
Round2Possible(p) ==
    my_id[p] /\ r1_secret[p] # 0 /\ Part2Accepts(p, r1_cache[p])

OnReadyRound2(p) ==
    /\ Receives(p, "ReadyRound2")
    /\ Round2Possible(p)
    /\ r1_secret' = [r1_secret EXCEPT ![p] = 0]
    /\ r2_secret' = [r2_secret EXCEPT ![p] = r1_secret[p]]
    /\ dealt' = [dealt EXCEPT ![p] = @ \cup {r1_secret[p]}]
    /\ Sends(p, <<[type |-> "Round2Submit", gen |-> r1_secret[p]]>>)
    /\ UNCHANGED <<session_file, gen, derived, share, my_id, r1_cache, final_kp>>

Round3Possible(p) ==
    /\ my_id[p]
    /\ r2_secret[p] # 0
    /\ Part3Accepts(p, r1_cache[p], Head(toClient[p]).pkgs)

\* The key package replaces an earlier one before the coordinator has accepted
\* the group key.
OnRound2All(p) ==
    /\ Receives(p, "Round2All")
    /\ Round3Possible(p)
    /\ LET vk == Part3Key(p, r2_secret[p], r1_cache[p]) IN
       /\ final_kp' = [final_kp EXCEPT ![p] = vk]
       /\ derived' = [derived EXCEPT ![p] = @ \cup {vk}]
       /\ Sends(p, <<[type |-> "FinalizeSubmit", vk |-> vk]>>)
    /\ r2_secret' = [r2_secret EXCEPT ![p] = 0]
    /\ UNCHANGED <<session_file, gen, dealt, share, my_id, r1_secret, r1_cache>>

\* Mutants of Artifacts: the client's own group key is named; its own
\* commitment is skipped.
ArtifactsOfOwnKey(p, vk) ==
    [key |-> final_kp[p], group_vk |-> final_kp[p], commitment |-> r1_cache[p]]
ArtifactsWithoutOwn(p, vk) ==
    [key |-> final_kp[p], group_vk |-> vk, commitment |-> [r1_cache[p] EXCEPT ![p] = 0]]

\* The key package in memory, under the coordinator's group key and with the
\* commitments of the last Round1All.
Artifacts(p, vk) == [key |-> final_kp[p], group_vk |-> vk, commitment |-> r1_cache[p]]

\* Writes the artifacts, logs out and ends.
OnFinalized(p) ==
    /\ Receives(p, "Finalized")
    /\ final_kp[p] # NoKey
    /\ share' = [share EXCEPT ![p] = Artifacts(p, Head(toClient[p]).vk)]
    /\ Exits(p, "finished", Append(Unread(p), [type |-> "Logout"]))
    /\ UNCHANGED <<session_file, gen, dealt, derived>>

\* A message the client cannot act on ends it with an error.
Abort(p) ==
    /\ \/ Receives(p, "Round1All") /\ ~my_id[p]
       \/ Receives(p, "ReadyRound2") /\ ~Round2Possible(p)
       \/ Receives(p, "Round2All") /\ ~Round3Possible(p)
       \/ Receives(p, "Finalized") /\ final_kp[p] = NoKey
    /\ Exits(p, "aborted", Unread(p))
    /\ UNCHANGED <<session_file, gen, dealt, derived, share>>

\* The coordinator closed the socket: the read loop ends.
OnClose(p) ==
    /\ Receives(p, "Close")
    /\ Exits(p, "closed", Unread(p))
    /\ UNCHANGED <<session_file, gen, dealt, derived, share>>

\* The process dies, once the session id is known; the network delivers some
\* prefix of what it sent.
Crash(p) ==
    /\ p \in Faulty
    /\ phase[p] = "running"
    /\ session_file
    /\ \E n \in 0..Len(Unread(p)) : Exits(p, "crashed", SubSeq(Unread(p), 1, n))
    /\ UNCHANGED <<session_file, gen, dealt, derived, share>>
=============================================================================
