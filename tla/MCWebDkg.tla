------------------------------ MODULE MCWebDkg ------------------------------
(***************************************************************************)
(* Instances of WebDkgCeremony for TLC.                                    *)
(***************************************************************************)
EXTENDS WebDkgCeremony

CONSTANTS p1, p2, s1

Two == {p1, p2}
OneSession == {s1}

\* MaxJoins
Once == [p \in Two |-> 1]
OtherTwice == [p \in Two |-> IF p = Creator THEN 1 ELSE 2]
=============================================================================
