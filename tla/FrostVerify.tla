---------------------------- MODULE FrostVerify ----------------------------
(***************************************************************************)
(* FROST signatures off the chain: the signer and verifier of the          *)
(* contracts' scripts, and the Rust verifier.                              *)
(***************************************************************************)
EXTENDS ZecFrost

\* z*G = R + c*P
Equation(z, R, c, pk) == Times(z, Generator) = Plus(R, Times(c, pk))

\* helper.ts verifyFrost: the points are decoded from their compressed form, so of
\* the y only the parity counts, and the library throws at a scalar that is 0 or too
\* large.
verifyFrost(px, py, rx, ry, s, message) ==
    LET c == challenge(rx, ry, px, py, message) IN
    /\ {s, c} \subseteq Scalars \ {0}
    /\ \E R \in Decoded(SEC1(rx, ry)), pk \in Decoded(SEC1(px, py)) : Equation(s, R, c, pk)

\* offchain-verify: the points are read uncompressed.
OffchainVerify(px, py, rx, ry, s, message) ==
    /\ OnCurve(px, py) /\ OnCurve(rx, ry)
    /\ s \in Scalars
    /\ Equation(s, <<rx, ry>>, challenge(rx, ry, px, py, message), <<px, py>>)

\* helper.ts sign, with secret x and the nonce it draws: one that gives s = 0 is
\* drawn again.
HelperNonce(k) == IF Times(k, Generator)[2] % 2 = 1 THEN Order - k ELSE k

\* A signature with nonce k, as helper.ts and as the FROST aggregation make it:
\* R = k*G and s = k + x*e.
SignedWith(k, x, message) ==
    LET R == Times(k, Generator)
        pk == Times(x, Generator)
        e == challenge(R[1], R[2], pk[1], pk[2], message)
    IN [R |-> R, s |-> (k + ((x * e) % Order)) % Order]
=============================================================================
