---------------------------- MODULE MCDkgCeremony ----------------------------
(***************************************************************************)
(* Instances of DkgCeremony for TLC.  The participants are model values.   *)
(***************************************************************************)
EXTENDS DkgCeremony

CONSTANTS p1, p2, p3

Two == {p1, p2}
Three == {p1, p2, p3}
=============================================================================
