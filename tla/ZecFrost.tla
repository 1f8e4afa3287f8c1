------------------------------ MODULE ZecFrost ------------------------------
(***************************************************************************)
(* The contract ZecFrost: a FROST signature checked with the ecrecover     *)
(* precompile.                                                             *)
(***************************************************************************)
EXTENDS Secp256k1

\* hash_to_field of SEC1(R), SEC1(P) and the message: a scalar
CONSTANT H2(_, _, _)

NonNegative(a) == 0 <= a /\ a < Order

isScalar(a) == 0 < a /\ a < Order

isValidPublicKey(x, y) == OnCurve(x, y) /\ x % Order > 0

challenge(rx, ry, px, py, message) == H2(SEC1(rx, ry), SEC1(px, py), message)

\* address(-z*G + e*P).  A precompile that returns no data leaves the word that was
\* in memory before: the x of R.
ecmulmuladd(z, x, y, e, scratch) ==
    LET recovered == ECRecovers((z * x) % Order, 27 + (y % 2), x, (e * x) % Order)
    IN IF recovered = {} THEN scratch
       ELSE LET pt == CHOOSE pt \in recovered : TRUE IN Address(pt[1], pt[2])

\* The address of P, or the zero address.
ZecFrostVerify(message, px, py, rx, ry, z) ==
    LET e == challenge(rx, ry, px, py, message)
        minusR == Address(rx, FieldPrime - ry)
    IN IF /\ isValidPublicKey(px, py) /\ OnCurve(rx, ry) /\ isScalar(z)
          /\ minusR = ecmulmuladd(z, px, py, e, Word(rx))
       THEN Address(px, py)
       ELSE ZeroAddress
=============================================================================
