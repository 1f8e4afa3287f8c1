----------------------------- MODULE DkgOutcome -----------------------------
(***************************************************************************)
(* What a DKG session promises, without messages, connections or rounds:   *)
(* participants derive group keys; the session is decided at most once,    *)
(* for a key that every participant has derived, or it expires undecided;  *)
(* and a participant's artifacts name the decided key.                     *)
(***************************************************************************)
CONSTANTS Participants, NoKey

VARIABLES
    derived,   \* derived[p]: group keys p has derived
    status,    \* "undecided", "decided" or "expired"
    group_vk,  \* the decided key
    named      \* named[p]: the group key in p's artifacts, NoKey before there are any

vars == <<derived, status, group_vk, named>>

Init ==
    /\ derived = [p \in Participants |-> {}]
    /\ status = "undecided"
    /\ group_vk = NoKey
    /\ named = [p \in Participants |-> NoKey]

Derive(p) ==
    /\ \E vk \in derived'[p] :
          /\ vk # NoKey
          /\ derived' = [derived EXCEPT ![p] = @ \cup {vk}]
    /\ UNCHANGED <<status, group_vk, named>>

Decide ==
    /\ status = "undecided"
    /\ status' = "decided"
    /\ group_vk' # NoKey
    /\ \A p \in Participants : group_vk' \in derived[p]
    /\ UNCHANGED <<derived, named>>

Expire ==
    /\ status = "undecided"
    /\ status' = "expired"
    /\ UNCHANGED <<derived, group_vk, named>>

Write(p) ==
    /\ status = "decided"
    /\ named[p] = NoKey
    /\ named' = [named EXCEPT ![p] = group_vk]
    /\ UNCHANGED <<derived, status, group_vk>>

Next ==
    \/ Decide
    \/ Expire
    \/ \E p \in Participants : Derive(p) \/ Write(p)

Spec == Init /\ [][Next]_vars
=============================================================================
