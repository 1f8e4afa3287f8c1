--------------------------- MODULE MCSignCeremony ---------------------------
(***************************************************************************)
(* Instances of SignCeremony for TLC.  The participants are model values.  *)
(***************************************************************************)
EXTENDS SignCeremony

CONSTANTS p1, p2, p3

Two == {p1, p2}
Three == {p1, p2, p3}
=============================================================================
