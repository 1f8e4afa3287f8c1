--------------------------- MODULE OnchainVerify ---------------------------
(***************************************************************************)
(* The use of AppManager: somebody reads an app's key, has a message       *)
(* signed for it and submits the signature, while others send              *)
(* transactions.                                                           *)
(***************************************************************************)
EXTENDS AppManager

CONSTANTS
    Secrets,   \* the group secrets there are
    Messages

Encodings == {2, 3} \X (0..(FieldPrime - 1))

ASSUME SigningAssumption ==
    /\ Secrets \subseteq Scalars \ {0} /\ Messages # {}
    /\ \A R, pk \in Encodings, m \in Messages : H2(R, pk, m) \in Scalars

VARIABLES
    stage,     \* "idle", "read", "signed" or "answered"
    asked,     \* the app, what was read of it and the verifier there was
    silent,    \* history: neither the app's owner nor the admin sent anything since
    signature, \* what is submitted: message, R, z, and whether it is as signed
    answer     \* what verify returned or reverted with, from what app and verifier

vars == <<apps, zecFrost, stage, asked, silent, signature, answer>>

NotAsked == [app |-> CHOOSE a \in Apps : TRUE, info |-> NoApp, verifier |-> "ZecFrost"]
NoSignature ==
    [message |-> CHOOSE m \in Messages : TRUE, R |-> <<0, 0>>, z |-> 0, asSigned |-> FALSE]
NoAnswer == [result |-> "none", info |-> NoApp, verifier |-> "ZecFrost"]

Init ==
    /\ AppManagerInit
    /\ stage = "idle" /\ asked = NotAsked /\ silent = TRUE
    /\ signature = NoSignature /\ answer = NoAnswer

\* A transaction that is not reverted; bound: none between an answer and the next
\* question.
Transaction(sender) ==
    /\ \/ \E contract \in Verifiers \cup {ZeroContract} : setZecFrost(sender, contract)
       \/ \E a \in Apps, key \in PublicKeys : addApp(sender, a, key)
       \/ \E a \in Apps, key \in PublicKeys : updateApp(sender, a, key)
       \/ \E a \in Apps : removeApp(sender, a)
    /\ stage # "answered"
    /\ silent' = (silent /\ ~(asked.info.exists /\ sender \in {asked.info.appOwner, Admin}))
    /\ UNCHANGED <<stage, asked, signature, answer>>

\* getApp and the getter of zecFrost
Read(a) ==
    /\ stage \in {"idle", "answered"}
    /\ apps[a].exists
    /\ stage' = "read"
    /\ asked' = [app |-> a, info |-> apps[a], verifier |-> zecFrost]
    /\ silent' = TRUE
    /\ signature' = NoSignature /\ answer' = NoAnswer
    /\ UNCHANGED appVars

\* The key that was read is the one of secret x.
SignsFor(x) == stage = "read" /\ asked.info.key = Times(x, Generator)

Submitted(message, sig) ==
    /\ stage' = "signed"
    /\ signature' = [message |-> message, R |-> sig.R, z |-> sig.s, asSigned |-> TRUE]
    /\ UNCHANGED <<apps, zecFrost, asked, silent, answer>>

\* The group, or one holder of the whole secret, signs for the key that was read.
SignByGroup(x, k, message) ==
    /\ SignsFor(x)
    /\ Submitted(message, SignedWith(k, x, message))

\* helper.ts sign: the nonce is negated if R.y is odd, and drawn again if s = 0.
SignByScript(x, k, message) ==
    /\ SignsFor(x)
    /\ LET sig == SignedWith(HelperNonce(k), x, message)
       IN sig.s # 0 /\ Submitted(message, sig)

\* Other numbers are submitted than were signed: another z, possibly none below the
\* order, or another y.
Alter(z, ry) ==
    /\ stage = "signed" /\ signature.asSigned
    /\ z = signature.z \/ ry = signature.R[2]
    /\ signature' = [signature EXCEPT !.z = z, !.R[2] = ry, !.asSigned = FALSE]
    /\ UNCHANGED <<apps, zecFrost, stage, asked, silent, answer>>

\* verify is called; an app that is gone reverts.
Call ==
    /\ stage = "signed" /\ stage' = "answered"
    /\ LET s == signature
           info == apps[asked.app]
       IN \E result \in IF info.exists
                        THEN {IF ok THEN "accepted" ELSE "rejected" :
                                 ok \in verify(s.message, asked.app, s.R[1], s.R[2], s.z)}
                        ELSE {"AppNotFound"} :
             answer' = [result |-> result, info |-> info, verifier |-> zecFrost]
    /\ UNCHANGED <<apps, zecFrost, asked, silent, signature>>

Next ==
    \/ \E sender \in Accounts : Transaction(sender)
    \/ \E a \in Apps : Read(a)
    \/ \E x \in Secrets, k \in 1..(Order - 1), m \in Messages :
          SignByGroup(x, k, m) \/ SignByScript(x, k, m)
    \/ \E z \in {0, signature.z, signature.z + 1, signature.z + Order},
          ry \in {signature.R[2], FieldPrime - signature.R[2], signature.R[2] + 2} : Alter(z, ry)
    \/ Call

Spec == Init /\ [][Next]_vars

-----------------------------------------------------------------------------
TypeOK ==
    /\ AppManagerTypeOK
    /\ stage \in {"idle", "read", "signed", "answered"}
    /\ asked \in [app: Apps, info: {NoApp} \cup AppInfos, verifier: Verifiers]
    /\ silent \in BOOLEAN
    /\ signature \in [message: Messages, R: (0..(FieldPrime - 1)) \X Nat, z: Nat,
                      asSigned: BOOLEAN]
    /\ answer \in [result: {"accepted", "rejected", "AppNotFound", "none"},
                   info: {NoApp} \cup AppInfos, verifier: Verifiers]

Challenge(key) ==
    challenge(signature.R[1], signature.R[2], key[1], key[2], signature.message)

\* Keys whose x the precompile takes as its r: a larger x it rejects.
Usable(key) == isValidPublicKey(key[1], key[2]) /\ key[1] < Order

\* The contract accepts nothing for an app's current key that one of the verifiers
\* off the chain rejects, and where the key is usable, the point R is one and neither
\* z nor the challenge is zero it accepts what one of them does
\* (ZecFrost.sol:167-190, helper.ts:208-245, offchain-verify main.rs:102).
VerifiersAgree ==
    stage = "answered" /\ answer.info.exists /\ answer.verifier = "ZecFrost" =>
        LET key == answer.info.key
            s == signature
            script == verifyFrost(key[1], key[2], s.R[1], s.R[2], s.z, s.message)
            rust == OffchainVerify(key[1], key[2], s.R[1], s.R[2], s.z, s.message)
            accepted == answer.result = "accepted"
        IN /\ accepted => script /\ rust
           /\ Usable(key) /\ OnCurve(s.R[1], s.R[2]) =>
                 /\ script => accepted
                 /\ rust /\ s.z # 0 /\ Challenge(key) # 0 => accepted

\* Whatever other accounts do between the reading of an app's key and the call: if
\* the app's owner and the admin send nothing, what was signed for the key is accepted,
\* given that the key is usable and neither z nor the challenge is zero
\* (AppManager.sol:44-49, 122-141).
SilentOwnerAccepted ==
    /\ stage = "answered" /\ signature.asSigned
    /\ asked.verifier = "ZecFrost"
    /\ silent
    /\ Usable(asked.info.key)
    /\ signature.z # 0 /\ Challenge(asked.info.key) # 0
    => answer.result = "accepted"
=============================================================================
