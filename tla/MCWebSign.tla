------------------------------ MODULE MCWebSign ------------------------------
(***************************************************************************)
(* Instances of WebSignCeremony for TLC.                                   *)
(***************************************************************************)
EXTENDS WebSignCeremony

CONSTANTS p1, p2, s1

Two == {p1, p2}
OneSession == {s1}

\* MaxJoins
Twice == [p \in Two |-> 2]
=============================================================================
