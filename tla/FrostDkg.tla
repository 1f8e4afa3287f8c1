------------------------------ MODULE FrostDkg ------------------------------
EXTENDS Contributions

(***************************************************************************)
(* FROST key generation (crate frost-secp256k1).  Each call of dkg::part1  *)
(* draws a fresh polynomial, a generation of its owner.  The round-1       *)
(* package is that polynomial's commitment and the round-2 package for q   *)
(* its value at q, so both are the generation.  The group verifying key is *)
(* the sum of the commitments it was derived from: a function giving each  *)
(* participant's generation.                                               *)
(***************************************************************************)
NoKey == NoPackages
Key == Packages \ {NoKey}

\* dkg::part2 checks the number of the other participants' packages and each
\* proof of knowledge; packages of this roster carry valid proofs.
Part2Accepts(p, r1_pkgs) ==
    Cardinality(Present(r1_pkgs) \ {p}) = Cardinality(Participants) - 1

\* Mutant of Part3Accepts: the packages are counted, not checked.
Part3Counts(p, r1_pkgs, r2_pkgs) ==
    Present(r1_pkgs) \cup {p} = Participants /\ Present(r2_pkgs) \cup {p} = Participants

\* dkg::part3 wants a round-2 package from every other participant and checks
\* each against the commitment in the round-1 package of its sender.
Part3Accepts(p, r1_pkgs, r2_pkgs) ==
    \A q \in Participants \ {p} : r1_pkgs[q] # 0 /\ r2_pkgs[q] = r1_pkgs[q]

\* The group key dkg::part3 returns: the others' commitments and its own.
Part3Key(p, own, r1_pkgs) == [r1_pkgs EXCEPT ![p] = own]
=============================================================================
