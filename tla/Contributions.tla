---------------------------- MODULE Contributions ----------------------------
(***************************************************************************)
(* What the participants of a session contribute to it.  Both coordinators *)
(* and all clients use these: a session's rounds collect one contribution  *)
(* of every participant.                                                   *)
(***************************************************************************)
EXTENDS Naturals, FiniteSets

CONSTANT Participants    \* the roster of the session

\* What a participant draws at random and contributes is named by a generation
\* 1, 2, ... of its own; 0 stands for nothing.  A map from identifiers to
\* packages is then a function.
Generation == Nat \ {0}
Packages == [Participants -> Nat]
NoPackages == [p \in Participants |-> 0]
Present(pkgs) == {p \in Participants : pkgs[p] # 0}
=============================================================================
