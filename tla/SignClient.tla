------------------------------ MODULE SignClient ------------------------------
(***************************************************************************)
(* The WebSocket signer, the ws command of packages/rust/signing: one loop *)
(* that reads a message, acts on it and sends the answer.  An Error from   *)
(* the coordinator and every `?` in the loop end the process.              *)
(***************************************************************************)
EXTENDS SignNet

CONSTANT MessageIs32Bytes    \* whether the message to sign is 32 bytes long

ASSUME MessageAssumption == MessageIs32Bytes \in BOOLEAN

VARIABLES
    session_file,  \* the session id is in the file participants read it from
    my_nonces,     \* my_nonces_opt[p]: generation of the nonces p holds, 0 for None
    gen,           \* gen[p]: nonces p has drawn (over all its processes)
    signed,        \* signed[p]: the nonces and packages p has signed with (history)
    signature_file \* signature.json of p: its signature, NoPackage for none

clientVars == <<session_file, my_nonces, gen, signed, signature_file>>

ClientTypeOK ==
    /\ session_file \in BOOLEAN
    /\ my_nonces \in [Participants -> Nat]
    /\ gen \in [Participants -> Nat]
    /\ signed \in [Participants -> SUBSET [nonces : Generation, pkg : SigningPackage]]
    /\ signature_file \in [Participants -> Packages]

ClientInit ==
    /\ session_file = FALSE
    /\ my_nonces = [p \in Participants |-> 0]
    /\ gen = [p \in Participants |-> 0]
    /\ signed = [p \in Participants |-> {}]
    /\ signature_file = [p \in Participants |-> NoPackage]

-----------------------------------------------------------------------------
\* p's process ends: the nonces in its memory are gone.
Exits(p, how, msgs) ==
    /\ Ends(p, how, msgs)
    /\ my_nonces' = [my_nonces EXCEPT ![p] = 0]

\* The creator is started with --create, the others (and a restarted creator)
\* with the session id, which they wait a while for.
Start(p) ==
    /\ p = Creator \/ session_file
    /\ Starts(p)
    /\ UNCHANGED clientVars

\* message_hex: 32 bytes are taken for a hash already, anything else is hashed.
Announcement == [type |-> "AnnounceSignSession", hashed |-> ~MessageIs32Bytes]

OnLoginOk(p) ==
    /\ Receives(p, "LoginOk")
    /\ Sends(p, <<IF session_file THEN [type |-> "JoinSignSession"] ELSE Announcement>>)
    /\ UNCHANGED clientVars

OnSignSessionCreated(p) ==
    /\ Receives(p, "SignSessionCreated")
    /\ session_file' = TRUE
    /\ Sends(p, <<[type |-> "JoinSignSession"]>>)
    /\ UNCHANGED <<my_nonces, gen, signed, signature_file>>

\* Draws new nonces each time; nonces still held are dropped.
OnSignReadyRound1(p) ==
    /\ Receives(p, "SignReadyRound1")
    /\ gen' = [gen EXCEPT ![p] = @ + 1]
    /\ my_nonces' = [my_nonces EXCEPT ![p] = gen[p] + 1]
    /\ Sends(p, <<[type |-> "SignRound1Submit", gen |-> gen[p] + 1]>>)
    /\ UNCHANGED <<session_file, signed, signature_file>>

\* Mutant of CanSign: whether nonces are held is not looked at.
CanAlwaysSign(p) == TRUE

\* round2::sign needs nonces, and a package they are committed to in.
CanSign(p) ==
    my_nonces[p] # 0 /\ SignAccepts(p, my_nonces[p], Head(toClient[p]).pkg)

\* Mutant of NoncesAfterSigning: the nonces stay.
NoncesKept(p) == my_nonces[p]

\* my_nonces_opt.take(): nonces serve one package.
NoncesAfterSigning(p) == 0

OnSignSigningPackage(p) ==
    /\ Receives(p, "SignSigningPackage")
    /\ CanSign(p)
    /\ LET pkg == Head(toClient[p]).pkg IN
       /\ signed' = [signed EXCEPT ![p] = @ \cup {[nonces |-> my_nonces[p], pkg |-> pkg]}]
       /\ Sends(p, <<[type |-> "SignRound2Submit", share |-> pkg]>>)
    /\ my_nonces' = [my_nonces EXCEPT ![p] = NoncesAfterSigning(p)]
    /\ UNCHANGED <<session_file, gen, signature_file>>

\* Writes signature.json and ends.
OnSignatureReady(p) ==
    /\ Receives(p, "SignatureReady")
    /\ signature_file' = [signature_file EXCEPT ![p] = Head(toClient[p]).signature]
    /\ Exits(p, "finished", Unread(p))
    /\ UNCHANGED <<session_file, gen, signed>>

\* An Error, or a package p cannot sign, ends the signer.
Abort(p) ==
    /\ \/ Receives(p, "Error")
       \/ Receives(p, "SignSigningPackage") /\ ~CanSign(p)
    /\ Exits(p, "aborted", Unread(p))
    /\ UNCHANGED <<session_file, gen, signed, signature_file>>

\* The process dies, once the session id is known; the network delivers some
\* prefix of what it sent.
Crash(p) ==
    /\ p \in Faulty
    /\ phase[p] = "running"
    /\ session_file
    /\ \E n \in 0..Len(Unread(p)) : Exits(p, "crashed", SubSeq(Unread(p), 1, n))
    /\ UNCHANGED <<session_file, gen, signed, signature_file>>
=============================================================================
