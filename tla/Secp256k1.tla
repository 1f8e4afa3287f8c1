----------------------------- MODULE Secp256k1 -----------------------------
(***************************************************************************)
(* What the verifiers take from their libraries and from the EVM: the      *)
(* group of a curve y^2 = x^3 + 7 over a prime field, addresses, and the   *)
(* ecrecover precompile.  secp256k1 is one such curve; a small one of      *)
(* prime order below the field's prime has every case secp256k1 has.       *)
(***************************************************************************)
EXTENDS Integers

CONSTANTS FieldPrime, Order, GeneratorX, GeneratorY

OnCurve(x, y) ==
    /\ {x, y} \subseteq 0..(FieldPrime - 1)
    /\ (y * y) % FieldPrime = (x * x * x + 7) % FieldPrime

Infinity == <<>>
Generator == <<GeneratorX, GeneratorY>>
Scalars == 0..(Order - 1)
Points == {pt \in (0..(FieldPrime - 1)) \X (0..(FieldPrime - 1)) : OnCurve(pt[1], pt[2])}
Group == Points \cup {Infinity}

InverseMod(m) == [a \in 1..(m - 1) |-> CHOOSE b \in 1..(m - 1) : (a * b) % m = 1]
FieldInverse == InverseMod(FieldPrime)
ScalarInverse == InverseMod(Order)

Minus(pt) == IF pt = Infinity THEN Infinity ELSE <<pt[1], FieldPrime - pt[2]>>

\* The third point of the chord, or tangent, of the given slope, mirrored.
Third(pt, other, slope) ==
    LET m == slope % FieldPrime
        x == (m * m - pt[1] - other[1]) % FieldPrime
    IN <<x, (m * (pt[1] - x) - pt[2]) % FieldPrime>>

Plus(pt, other) ==
    CASE pt = Infinity -> other
      [] other = Infinity -> pt
      [] pt = Minus(other) -> Infinity
      [] pt = other -> Third(pt, pt, 3 * pt[1] * pt[1] * FieldInverse[(2 * pt[2]) % FieldPrime])
      [] OTHER -> Third(pt, other, (other[2] - pt[2]) *
                                   FieldInverse[(other[1] - pt[1]) % FieldPrime])

Multiples ==
    [pt \in Points |->
        LET multiple[k \in 0..(Order - 1)] ==
                IF k = 0 THEN Infinity ELSE Plus(multiple[k - 1], pt)
        IN multiple]
Times(k, pt) == IF pt = Infinity THEN Infinity ELSE Multiples[pt][k % Order]

\* SEC1 compression, and the points an encoding decodes to: one or none.
SEC1(x, y) == <<2 + (y % 2), x>>
Decoded(encoding) == {pt \in Points : SEC1(pt[1], pt[2]) = encoding}

\* keccak256(x || y), truncated, taken as injective; numbers and words are no
\* addresses.
Address(x, y) == <<"address", x, y>>
ZeroAddress == <<"zero", 0, 0>>
Word(n) == <<"word", n, 0>>

\* The points whose address ecrecover(hash, v, r, s) returns: none where it returns
\* no data, because r or s is no scalar but 0 or no point has this r.
ECRecovers(hash, v, r, s) ==
    IF {r, s} \subseteq 1..(Order - 1)
    THEN {Times(ScalarInverse[r], Plus(Times(s, pt), Minus(Times(hash, Generator)))) :
             pt \in Decoded(<<v - 25, r>>)} \ {Infinity}
    ELSE {}

-----------------------------------------------------------------------------
\* What holds of secp256k1, and of the curve the runs use.
ASSUME CurveAssumption ==
    /\ {FieldPrime, Order} \subseteq Nat /\ 1 < Order /\ Order < FieldPrime
    /\ Generator \in Points

\* The points with Infinity are a commutative group,
ASSUME GroupAssumption ==
    \A pt, qt \in Group :
        /\ Plus(pt, qt) \in Group /\ Minus(pt) \in Group
        /\ Plus(pt, Infinity) = pt /\ Plus(pt, Minus(pt)) = Infinity
        /\ Plus(pt, qt) = Plus(qt, pt)
        /\ \A rt \in Group : Plus(Plus(pt, qt), rt) = Plus(pt, Plus(qt, rt))

\* on which the scalars act; the order is prime: every scalar but 0 has an inverse
\* and takes no point to Infinity.
ASSUME ScalarAssumption ==
    /\ \A k \in Scalars \ {0} :
          ScalarInverse[k] \in Scalars /\ (ScalarInverse[k] * k) % Order = 1
    /\ \A k \in Scalars, pt \in Group :
          /\ Times(k, pt) \in Group
          /\ k # 0 /\ pt # Infinity => Times(k, pt) # Infinity
          /\ Times(0, pt) = Infinity /\ Times(1, pt) = pt
    /\ \A k \in Scalars, pt, qt \in Group :
          Times(k, Plus(pt, qt)) = Plus(Times(k, pt), Times(k, qt))
    /\ \A k, l \in Scalars, pt \in Group :
          /\ Times((k + l) % Order, pt) = Plus(Times(k, pt), Times(l, pt))
          /\ Times((k * l) % Order, pt) = Times(k, Times(l, pt))

\* A point is determined by its x and the parity of its y.
ASSUME CompressionAssumption ==
    \A pt \in Points : Decoded(SEC1(pt[1], pt[2])) = {pt}
=============================================================================
