----------------------------- MODULE SignOutcome -----------------------------
(***************************************************************************)
(* What a signing session promises, without messages, connections or       *)
(* rounds: nonces sign one package each; the session yields at most one    *)
(* signature, over a package that every participant has signed; and it is  *)
(* the signature that participants store.                                  *)
(***************************************************************************)
CONSTANTS Participants, Nonces, NoPackage

VARIABLES
    signed,     \* signed[p]: the nonces and packages p has signed with
    status,     \* "undecided", "decided" or "lost"
    signature,  \* the signature, named by its package
    stored      \* stored[p]: what p stored, NoPackage before

vars == <<signed, status, signature, stored>>

Init ==
    /\ signed = [p \in Participants |-> {}]
    /\ status = "undecided"
    /\ signature = NoPackage
    /\ stored = [p \in Participants |-> NoPackage]

Sign(p) ==
    /\ \E s \in signed'[p] :
          /\ s.nonces \in Nonces /\ s.pkg # NoPackage
          /\ \A earlier \in signed[p] : earlier.nonces # s.nonces
          /\ signed' = [signed EXCEPT ![p] = @ \cup {s}]
    /\ UNCHANGED <<status, signature, stored>>

Decide ==
    /\ status = "undecided"
    /\ status' = "decided"
    /\ signature' # NoPackage
    /\ \A p \in Participants : \E s \in signed[p] : s.pkg = signature'
    /\ UNCHANGED <<signed, stored>>

Lose ==
    /\ status = "undecided"
    /\ status' = "lost"
    /\ UNCHANGED <<signed, signature, stored>>

Store(p) ==
    /\ status = "decided"
    /\ stored[p] = NoPackage
    /\ stored' = [stored EXCEPT ![p] = signature]
    /\ UNCHANGED <<signed, status, signature>>

Next ==
    \/ Decide
    \/ Lose
    \/ \E p \in Participants : Sign(p) \/ Store(p)

Spec == Init /\ [][Next]_vars
=============================================================================
