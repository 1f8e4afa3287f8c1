----------------------------- MODULE MCOnchain -----------------------------
(***************************************************************************)
(* An instance of OnchainVerify for TLC: y^2 = x^3 + 7 over the field of   *)
(* 43 elements has 31 points, and some of them have an x above 31.         *)
(***************************************************************************)
EXTENDS OnchainVerify, TLC

CONSTANTS alice, bob, admin, app1

\* A hash into the scalars that tells its arguments apart.
ToyH2(R, pk, message) ==
    (R[1] + 3 * R[2] + 5 * pk[1] + 7 * pk[2] + 11 * message) % Order

\* Two secrets whose keys have an x below the order, with an even and an odd y, and
\* one whose key has a larger x.
SomeSecrets == {1, 2, 3}

\* Their keys, and the x of the first with a wrong y of the same parity.
Keys == {Times(x, Generator) : x \in SomeSecrets} \cup {<<2, 14>>}

UsersAlike == Permutations({alice, bob})
=============================================================================
