--------------------------- MODULE OnchainProofs ---------------------------
(***************************************************************************)
(* The verifiers agree and an app whose owner is silent stays usable, for  *)
(* every curve with the group laws.                                        *)
(***************************************************************************)
EXTENDS OnchainVerify, TLAPS

LEMMA Moduli == \A a \in Int : a % Order \in Scalars
BY CurveAssumption DEF Scalars

LEMMA InfinityApart == Infinity \notin Points /\ Infinity \in Group
BY DEF Infinity, Points, Group

LEMMA AddressesApart ==
    ASSUME NEW x, NEW y, NEW n
    PROVE  Address(x, y) # ZeroAddress /\ Address(x, y) # Word(n)
<1>1. Address(x, y)[1] # Word(n)[1]
    BY DEF Address, Word
<1>2. Address(x, y)[1] # ZeroAddress[1]
    BY DEF Address, ZeroAddress
<1>. QED BY <1>1, <1>2

LEMMA PointsArePairs ==
    ASSUME NEW pt \in Points
    PROVE  pt = <<pt[1], pt[2]>> /\ OnCurve(pt[1], pt[2])
BY DEF Points

LEMMA OnCurvePoint ==
    ASSUME NEW x, NEW y, OnCurve(x, y)
    PROVE  <<x, y>> \in Points /\ x \in 0..(FieldPrime - 1) /\ y \in 0..(FieldPrime - 1)
BY DEF OnCurve, Points

\* The parts of ScalarAssumption.
LEMMA ScalarsAct ==
    ASSUME NEW k \in Scalars, NEW pt \in Group
    PROVE  /\ Times(k, pt) \in Group
           /\ k # 0 /\ pt # Infinity => Times(k, pt) # Infinity
           /\ Times(0, pt) = Infinity /\ Times(1, pt) = pt
BY ScalarAssumption, Zenon

LEMMA ScalarsInvert ==
    ASSUME NEW k \in Scalars \ {0}
    PROVE  ScalarInverse[k] \in Scalars /\ (ScalarInverse[k] * k) % Order = 1
BY ScalarAssumption, Zenon

LEMMA ScalarsDistribute ==
    ASSUME NEW k \in Scalars, NEW pt \in Group, NEW qt \in Group
    PROVE  Times(k, Plus(pt, qt)) = Plus(Times(k, pt), Times(k, qt))
BY ScalarAssumption, Zenon

LEMMA ScalarsCompose ==
    ASSUME NEW k \in Scalars, NEW l \in Scalars, NEW pt \in Group
    PROVE  /\ Times((k + l) % Order, pt) = Plus(Times(k, pt), Times(l, pt))
           /\ Times((k * l) % Order, pt) = Times(k, Times(l, pt))
BY ScalarAssumption, Zenon

LEMMA MinusUnique ==
    ASSUME NEW pt \in Group, NEW qt \in Group, Plus(pt, qt) = Infinity
    PROVE  qt = Minus(pt)
<1>1. qt = Plus(qt, Plus(pt, Minus(pt)))
    BY GroupAssumption
<1>2. @ = Plus(Plus(qt, pt), Minus(pt))
    BY GroupAssumption
<1>3. @ = Plus(Minus(pt), Infinity)
    BY GroupAssumption, InfinityApart
<1>. QED BY <1>1, <1>2, <1>3, GroupAssumption

LEMMA TimesInfinity == \A k : Times(k, Infinity) = Infinity
BY DEF Times

LEMMA TimesMinus ==
    ASSUME NEW k \in Scalars, NEW pt \in Group
    PROVE  Times(k, Minus(pt)) = Minus(Times(k, pt))
<1>1. Minus(pt) \in Group /\ Times(k, pt) \in Group /\ Times(k, Minus(pt)) \in Group
    BY GroupAssumption, ScalarsAct
<1>2. Plus(Times(k, pt), Times(k, Minus(pt))) = Times(k, Plus(pt, Minus(pt)))
    BY <1>1, ScalarsDistribute
<1>3. @ = Infinity
    BY GroupAssumption, TimesInfinity
<1>. QED BY <1>1, <1>2, <1>3, MinusUnique

\* qt - z = r just when z = r' + qt, for r the opposite of r'.
LEMMA Transposed ==
    ASSUME NEW pt \in Group, NEW qt \in Group, NEW rt \in Group
    PROVE  Plus(qt, Minus(pt)) = Minus(rt) <=> pt = Plus(rt, qt)
<1>0. Minus(pt) \in Group /\ Minus(rt) \in Group /\ Plus(qt, Minus(pt)) \in Group
    BY GroupAssumption
<1>1. ASSUME Plus(qt, Minus(pt)) = Minus(rt) PROVE pt = Plus(rt, qt)
    <2>1. Plus(Plus(rt, qt), Minus(pt)) = Plus(rt, Plus(qt, Minus(pt)))
        BY <1>0, GroupAssumption
    <2>2. @ = Infinity
        BY <1>1, GroupAssumption
    <2>3. Plus(Minus(pt), Plus(rt, qt)) = Infinity /\ Plus(rt, qt) \in Group
        BY <1>0, <2>1, <2>2, GroupAssumption
    <2>4. Plus(Minus(pt), pt) = Infinity
        BY <1>0, GroupAssumption
    <2>. QED BY <1>0, <2>3, <2>4, MinusUnique
<1>2. ASSUME pt = Plus(rt, qt) PROVE Plus(qt, Minus(pt)) = Minus(rt)
    <2>1. Plus(rt, Plus(qt, Minus(pt))) = Plus(Plus(rt, qt), Minus(pt))
        BY <1>0, GroupAssumption
    <2>2. @ = Infinity
        BY <1>2, GroupAssumption
    <2>. QED BY <1>0, <2>1, <2>2, MinusUnique
<1>. QED BY <1>1, <1>2

-----------------------------------------------------------------------------
\* ecrecover, given r = x, s = e*x and the hash z*x, undoes the factor x.
LEMMA FactorUndone ==
    ASSUME NEW x \in Scalars \ {0}, NEW e \in Scalars, NEW z \in Scalars,
           NEW pt \in Group, NEW qt \in Group
    PROVE  Times(ScalarInverse[x],
                 Plus(Times((e * x) % Order, pt), Minus(Times((z * x) % Order, qt))))
              = Plus(Times(e, pt), Minus(Times(z, qt)))
<1>. DEFINE sum == Plus(Times(e, pt), Minus(Times(z, qt)))
<1>0. e \in Int /\ x \in Int /\ z \in Int /\ e * x = x * e /\ z * x = x * z
    BY CurveAssumption DEF Scalars
<1>1. /\ Times(e, pt) \in Group /\ Times(z, qt) \in Group
      /\ Minus(Times(z, qt)) \in Group /\ sum \in Group
    BY ScalarsAct, GroupAssumption
<1>2. Times((x * e) % Order, pt) = Times(x, Times(e, pt))
    BY ScalarsCompose
<1>3. Minus(Times((x * z) % Order, qt)) = Times(x, Minus(Times(z, qt)))
    <2>1. Times((x * z) % Order, qt) = Times(x, Times(z, qt))
        BY ScalarsCompose
    <2>. QED BY <1>1, <2>1, TimesMinus
<1>4. Plus(Times(x, Times(e, pt)), Times(x, Minus(Times(z, qt)))) = Times(x, sum)
    BY <1>1, ScalarsDistribute
<1>5. Times(ScalarInverse[x], Times(x, sum)) = sum
    <2>1. ScalarInverse[x] \in Scalars /\ (ScalarInverse[x] * x) % Order = 1
        BY ScalarsInvert
    <2>2. Times((ScalarInverse[x] * x) % Order, sum) = Times(ScalarInverse[x], Times(x, sum))
        BY <1>1, <2>1, ScalarsCompose
    <2>. QED BY <1>1, <2>1, <2>2, ScalarsAct
<1>. HIDE DEF sum
<1>6. Times((e * x) % Order, pt) = Times(x, Times(e, pt))
    BY <1>0, <1>2
<1>7. Minus(Times((z * x) % Order, qt)) = Times(x, Minus(Times(z, qt)))
    BY <1>0, <1>3
<1>8. Times(ScalarInverse[x],
            Plus(Times((e * x) % Order, pt), Minus(Times((z * x) % Order, qt)))) = sum
    BY <1>4, <1>5, <1>6, <1>7
<1>. QED BY <1>8 DEF sum

\* What ecrecover returns for a public key whose x is a scalar: e*P - z*G.
LEMMA Recovered ==
    ASSUME NEW pt \in Points, pt[1] \in Scalars \ {0}, NEW e \in Scalars, NEW z \in Scalars
    PROVE  ECRecovers((z * pt[1]) % Order, 27 + (pt[2] % 2), pt[1], (e * pt[1]) % Order)
              = IF e = 0 THEN {}
                ELSE {Plus(Times(e, pt), Minus(Times(z, Generator)))} \ {Infinity}
<1>. DEFINE s == (e * pt[1]) % Order
            hash == (z * pt[1]) % Order
            point(qt) == Times(ScalarInverse[pt[1]],
                               Plus(Times(s, qt), Minus(Times(hash, Generator))))
<1>1. s \in Scalars /\ (e = 0 => s = 0)
    <2>1. e * pt[1] \in Int /\ (e = 0 => e * pt[1] = 0)
        BY CurveAssumption DEF Scalars
    <2>. HIDE DEF s
    <2>2. 0 % Order = 0
        BY CurveAssumption
    <2>. QED BY <2>1, <2>2, Moduli DEF s
<1>2. e # 0 => s # 0
    <2>. SUFFICES ASSUME e # 0, s = 0 PROVE FALSE
        OBVIOUS
    <2>1. Generator \in Group /\ Generator # Infinity
        BY CurveAssumption, InfinityApart DEF Group
    <2>2. Times(s, Generator) = Times(e, Times(pt[1], Generator))
        BY <2>1, ScalarsCompose
    <2>3. Times(pt[1], Generator) \in Group /\ Times(pt[1], Generator) # Infinity
        BY <2>1, ScalarsAct
    <2>4. Times(e, Times(pt[1], Generator)) # Infinity
        BY <2>3, ScalarsAct
    <2>5. Times(0, Generator) = Infinity
        BY <2>1, ScalarsAct, CurveAssumption DEF Scalars
    <2>. QED BY <2>2, <2>4, <2>5
<1>3. Decoded(<<(27 + (pt[2] % 2)) - 25, pt[1]>>) = {pt}
    <2>1. pt[2] \in Int
        BY PointsArePairs, CurveAssumption DEF OnCurve
    <2>2. (27 + (pt[2] % 2)) - 25 = 2 + (pt[2] % 2)
        BY <2>1
    <2>. QED BY <2>2, CompressionAssumption DEF SEC1
<1>4. point(pt) = Plus(Times(e, pt), Minus(Times(z, Generator)))
    BY FactorUndone, CurveAssumption DEF Group
<1>5. {pt[1], s} \subseteq 1..(Order - 1) <=> e # 0
    BY <1>1, <1>2, CurveAssumption DEF Scalars
<1>6. ECRecovers(hash, 27 + (pt[2] % 2), pt[1], s)
        = IF {pt[1], s} \subseteq 1..(Order - 1) THEN {point(qt) : qt \in {pt}} \ {Infinity} ELSE {}
    BY <1>3 DEF ECRecovers
<1>. HIDE DEF point, s
<1>. QED BY <1>4, <1>5, <1>6 DEF s

LEMMA MinusOfPoint ==
    ASSUME NEW rx, NEW ry, OnCurve(rx, ry)
    PROVE  /\ <<rx, ry>> \in Group
           /\ Minus(<<rx, ry>>) = <<rx, FieldPrime - ry>>
           /\ Minus(<<rx, ry>>) # Infinity
<1>1. <<rx, ry>> \in Points
    BY OnCurvePoint
<1>2. <<rx, ry>> # Infinity
    BY <1>1, InfinityApart
<1>. QED BY <1>1, <1>2 DEF Minus, Infinity, Group

LEMMA Challenges ==
    ASSUME NEW px, NEW py, NEW rx, NEW ry, NEW m \in Messages, OnCurve(px, py), OnCurve(rx, ry)
    PROVE  challenge(rx, ry, px, py, m) \in Scalars
<1>1. \A x, y : OnCurve(x, y) => SEC1(x, y) \in Encodings
    <2>. SUFFICES ASSUME NEW x, NEW y, OnCurve(x, y) PROVE SEC1(x, y) \in Encodings
        OBVIOUS
    <2>1. x \in 0..(FieldPrime - 1) /\ y \in Int
        BY CurveAssumption DEF OnCurve
    <2>2. 2 + (y % 2) \in {2, 3}
        BY <2>1
    <2>. QED BY <2>1, <2>2 DEF SEC1, Encodings
<1>. QED BY <1>1, SigningAssumption DEF challenge

\* The contract accepts just what satisfies the equation, for a usable key, a point R,
\* and z and challenge other than 0.
LEMMA ContractAccepts ==
    ASSUME NEW px \in Nat, NEW py \in Nat, NEW rx, NEW ry, NEW z \in Nat, NEW m \in Messages
    PROVE  ZecFrostVerify(m, px, py, rx, ry, z) = Address(px, py) <=>
              /\ Usable(<<px, py>>) /\ OnCurve(rx, ry)
              /\ z \in Scalars \ {0} /\ challenge(rx, ry, px, py, m) # 0
              /\ Equation(z, <<rx, ry>>, challenge(rx, ry, px, py, m), <<px, py>>)
<1>. DEFINE e == challenge(rx, ry, px, py, m)
            combo == ecmulmuladd(z, px, py, e, Word(rx))
            recovered == ECRecovers((z * px) % Order, 27 + (py % 2), px, (e * px) % Order)
            sum == Plus(Times(e, <<px, py>>), Minus(Times(z, Generator)))
<1>1. isScalar(z) <=> z \in Scalars \ {0}
    BY CurveAssumption DEF isScalar, Scalars
<1>2. ZecFrostVerify(m, px, py, rx, ry, z) = Address(px, py) <=>
        /\ isValidPublicKey(px, py) /\ OnCurve(rx, ry) /\ isScalar(z)
        /\ Address(rx, FieldPrime - ry) = combo
    BY AddressesApart DEF ZecFrostVerify
<1>3. ASSUME isValidPublicKey(px, py), px >= Order PROVE Address(rx, FieldPrime - ry) # combo
    <2>1. recovered = {}
        BY <1>3, CurveAssumption DEF ECRecovers
    <2>. QED BY <2>1, AddressesApart DEF ecmulmuladd
<1>4. Usable(<<px, py>>) <=> isValidPublicKey(px, py) /\ px < Order
    BY DEF Usable
<1>5. ASSUME isValidPublicKey(px, py), px < Order, OnCurve(rx, ry), z \in Scalars
      PROVE  Address(rx, FieldPrime - ry) = combo <=>
                e # 0 /\ Equation(z, <<rx, ry>>, e, <<px, py>>)
    <2>0. e \in Scalars
        BY <1>5, Challenges DEF isValidPublicKey
    <2>1. <<px, py>> \in Points /\ px \in Scalars \ {0}
        <3>1. px % Order = px
            BY <1>5, CurveAssumption
        <3>. QED BY <1>5, <3>1, OnCurvePoint, CurveAssumption DEF isValidPublicKey, Scalars
    <2>2. recovered = IF e = 0 THEN {} ELSE {sum} \ {Infinity}
        <3>. HIDE DEF e
        <3>. QED BY <1>5, <2>0, <2>1, Recovered DEF e
    <2>3. /\ Times(e, <<px, py>>) \in Group /\ Times(z, Generator) \in Group
          /\ Minus(Times(z, Generator)) \in Group /\ sum \in Group
        BY <1>5, <2>0, <2>1, CurveAssumption, ScalarsAct, GroupAssumption DEF Group
    <2>4. sum = Minus(<<rx, ry>>) <=> Equation(z, <<rx, ry>>, e, <<px, py>>)
        BY <1>5, <2>3, MinusOfPoint, Transposed DEF Equation
    <2>5. combo = IF recovered = {} THEN Word(rx)
                  ELSE Address((CHOOSE pt \in recovered : TRUE)[1],
                               (CHOOSE pt \in recovered : TRUE)[2])
        BY DEF ecmulmuladd
    <2>. HIDE DEF sum, recovered, combo
    <2>6. CASE e = 0 \/ sum = Infinity
        BY <1>5, <2>2, <2>4, <2>5, <2>6, AddressesApart, MinusOfPoint
    <2>7. CASE e # 0 /\ sum # Infinity
        <3>1. recovered = {sum}
            BY <2>2, <2>7
        <3>2. combo = Address(sum[1], sum[2])
            BY <2>5, <3>1
        <3>3. sum = <<sum[1], sum[2]>>
            BY <2>3, <2>7, PointsArePairs DEF Group
        <3>4. Address(rx, FieldPrime - ry) = Address(sum[1], sum[2]) <=>
                 rx = sum[1] /\ FieldPrime - ry = sum[2]
            BY DEF Address
        <3>. QED BY <1>5, <2>4, <2>7, <3>2, <3>3, <3>4, MinusOfPoint
    <2>. QED BY <2>6, <2>7
<1>. HIDE DEF e, combo, recovered, sum
<1>6. px < Order \/ px >= Order
    BY CurveAssumption
<1>. QED BY <1>1, <1>2, <1>3, <1>4, <1>5, <1>6 DEF e

\* What is signed satisfies the equation for the secret's key.
LEMMA SignedSatisfies ==
    ASSUME NEW k \in Scalars \ {0}, NEW x \in Secrets, NEW m \in Messages
    PROVE  LET sig == SignedWith(k, x, m)
               pk == Times(x, Generator)
           IN /\ pk \in Points /\ sig.R \in Points /\ sig.s \in Scalars
              /\ Equation(sig.s, sig.R, challenge(sig.R[1], sig.R[2], pk[1], pk[2], m), pk)
<1>. DEFINE R == Times(k, Generator)
            pk == Times(x, Generator)
            e == challenge(R[1], R[2], pk[1], pk[2], m)
            s == (k + ((x * e) % Order)) % Order
<1>1. Generator \in Group /\ Generator # Infinity /\ x \in Scalars \ {0}
    BY CurveAssumption, InfinityApart, SigningAssumption DEF Group
<1>2. R \in Points /\ pk \in Points
    BY <1>1, ScalarsAct DEF Group
<1>3. e \in Scalars
    BY <1>2, PointsArePairs, Challenges
<1>. HIDE DEF e, R, pk
<1>4. (x * e) % Order \in Scalars /\ (x * e) % Order = (e * x) % Order
    <2>1. x * e \in Int /\ x * e = e * x
        BY <1>1, <1>3 DEF Scalars
    <2>. QED BY <2>1, Moduli
<1>5. s \in Scalars
    <2>1. k + ((x * e) % Order) \in Int
        BY <1>4, CurveAssumption DEF Scalars
    <2>. QED BY <2>1, Moduli
<1>6. Times(s, Generator) = Plus(Times(k, Generator), Times((x * e) % Order, Generator))
    BY <1>1, <1>4, ScalarsCompose
<1>7. Times((x * e) % Order, Generator) = Times(e, pk)
    BY <1>1, <1>3, <1>4, ScalarsCompose DEF pk
<1>8. Equation(s, R, e, pk)
    BY <1>6, <1>7 DEF Equation, R
<1>9. SignedWith(k, x, m) = [R |-> R, s |-> s]
    BY DEF SignedWith, R, pk, e
<1>. HIDE DEF s
<1>. QED BY <1>2, <1>5, <1>8, <1>9 DEF e, pk

-----------------------------------------------------------------------------
\* An app that was read stays as it was while its owner and the admin are silent.
Kept ==
    /\ stage # "idle" => asked.info \in AppInfos
    /\ stage \in {"read", "signed"} /\ silent =>
          apps[asked.app] = asked.info /\ zecFrost = asked.verifier

\* What counts as signed satisfies the equation for the key that was read.
SignedTrue ==
    signature.asSigned =>
        /\ asked.info.key \in Points /\ signature.R \in Points /\ signature.z \in Scalars
        /\ Equation(signature.z, signature.R, Challenge(asked.info.key), asked.info.key)

\* An answer is the contract's, and about the app as it was read if that was kept.
AnswerTrue ==
    stage = "answered" =>
        /\ silent => answer.info = asked.info /\ answer.verifier = asked.verifier
        /\ answer.info.exists /\ answer.verifier = "ZecFrost" =>
              LET key == answer.info.key IN
              answer.result = "accepted" <=>
                  ZecFrostVerify(signature.message, key[1], key[2], signature.R[1],
                                 signature.R[2], signature.z) = Address(key[1], key[2])

IInv == TypeOK /\ Kept /\ SignedTrue /\ AnswerTrue

LEMMA InitIInv == Init => IInv
<1>. SUFFICES ASSUME Init PROVE IInv
    OBVIOUS
<1>1. TypeOK
    <2>1. (CHOOSE a \in Apps : TRUE) \in Apps /\ (CHOOSE m \in Messages : TRUE) \in Messages
        BY AppAssumption, SigningAssumption
    <2>2. <<0, 0>> \in (0..(FieldPrime - 1)) \X Nat
        BY CurveAssumption
    <2>3. signature = NoSignature /\ NoSignature \in
              [message: Messages, R: (0..(FieldPrime - 1)) \X Nat, z: Nat, asSigned: BOOLEAN]
        BY <2>1, <2>2 DEF Init, NoSignature
    <2>. QED BY <2>1, <2>3 DEF Init, AppManagerInit, TypeOK, AppManagerTypeOK, NotAsked,
                NoAnswer, Verifiers
<1>2. Kept /\ SignedTrue /\ AnswerTrue
    BY DEF Init, Kept, SignedTrue, AnswerTrue, NoSignature
<1>. QED BY <1>1, <1>2 DEF IInv

LEMMA AppInfoFields ==
    ASSUME NEW info \in AppInfos
    PROVE  /\ info.exists /\ info # NoApp /\ info.appOwner \in Accounts
           /\ info.key \in PublicKeys /\ info.signerAddr = Address(info.key[1], info.key[2])
           /\ info = AppInfo(info.appOwner, info.key)
           /\ info.key = <<info.key[1], info.key[2]>> /\ info.key[1] \in Nat /\ info.key[2] \in Nat
<1>1. PICK o \in Accounts, key \in PublicKeys : info = AppInfo(o, key)
    BY DEF AppInfos
<1>2. info.exists /\ info.appOwner = o /\ info.key = key
      /\ info.signerAddr = Address(key[1], key[2])
    BY <1>1 DEF AppInfo
<1>3. key = <<key[1], key[2]>> /\ key[1] \in Nat /\ key[2] \in Nat
    BY AppAssumption
<1>4. info # NoApp
    BY <1>1 DEF AppInfo, NoApp
<1>. QED BY <1>1, <1>2, <1>3, <1>4

LEMMA TransactionIInv ==
    ASSUME IInv, NEW sender \in Accounts, Transaction(sender)
    PROVE  IInv'
<1>. USE DEF IInv
<1>1. AppManagerTypeOK'
    <2>1. CASE \E contract \in Verifiers \cup {ZeroContract} : setZecFrost(sender, contract)
        BY <2>1 DEF setZecFrost, TypeOK, AppManagerTypeOK
    <2>2. CASE \E a \in Apps, key \in PublicKeys : addApp(sender, a, key)
        BY <2>2 DEF addApp, TypeOK, AppManagerTypeOK, AppInfos
    <2>3. CASE \E a \in Apps, key \in PublicKeys : updateApp(sender, a, key)
        <3>1. PICK a \in Apps, key \in PublicKeys : updateApp(sender, a, key)
            BY <2>3
        <3>2. apps[a] \in AppInfos
            BY <3>1 DEF updateApp, onlyAppOwner, TypeOK, AppManagerTypeOK, NoApp
        <3>3. AppInfo(apps[a].appOwner, key) \in AppInfos
            BY <3>2, AppInfoFields DEF AppInfos
        <3>. QED BY <3>1, <3>3 DEF updateApp, TypeOK, AppManagerTypeOK
    <2>4. CASE \E a \in Apps : removeApp(sender, a)
        BY <2>4 DEF removeApp, TypeOK, AppManagerTypeOK
    <2>. QED BY <2>1, <2>2, <2>3, <2>4 DEF Transaction
<1>2. TypeOK'
    BY <1>1 DEF Transaction, TypeOK
<1>3. Kept'
    <2>. SUFFICES ASSUME stage \in {"read", "signed"}, silent'
                  PROVE  apps'[asked.app] = asked.info /\ zecFrost' = asked.verifier
        BY DEF Transaction, Kept
    <2>1. /\ asked.info \in AppInfos /\ asked.app \in Apps
          /\ apps[asked.app] = asked.info /\ zecFrost = asked.verifier
          /\ sender # asked.info.appOwner /\ sender # Admin /\ asked.info.exists
        BY AppInfoFields DEF Transaction, Kept, TypeOK
    <2>2. CASE \E contract \in Verifiers \cup {ZeroContract} : setZecFrost(sender, contract)
        BY <2>1, <2>2 DEF setZecFrost
    <2>3. CASE \E a \in Apps, key \in PublicKeys : addApp(sender, a, key)
        BY <2>1, <2>3 DEF addApp, TypeOK, AppManagerTypeOK
    <2>4. CASE \E a \in Apps, key \in PublicKeys : updateApp(sender, a, key)
        BY <2>1, <2>4 DEF updateApp, onlyAppOwner, TypeOK, AppManagerTypeOK
    <2>5. CASE \E a \in Apps : removeApp(sender, a)
        BY <2>1, <2>5 DEF removeApp, onlyAppOwner, TypeOK, AppManagerTypeOK
    <2>. QED BY <2>2, <2>3, <2>4, <2>5 DEF Transaction
<1>4. SignedTrue'
    BY DEF Transaction, SignedTrue, Challenge
<1>5. AnswerTrue'
    BY DEF Transaction, AnswerTrue
<1>. QED BY <1>2, <1>3, <1>4, <1>5

LEMMA ReadIInv ==
    ASSUME IInv, NEW a \in Apps, Read(a)
    PROVE  IInv'
<1>1. apps[a] \in AppInfos /\ zecFrost \in Verifiers
    BY DEF IInv, Read, TypeOK, AppManagerTypeOK, NoApp
<1>2. /\ asked' = [app |-> a, info |-> apps[a], verifier |-> zecFrost]
      /\ stage' = "read" /\ silent' = TRUE /\ signature' = NoSignature /\ answer' = NoAnswer
      /\ apps' = apps /\ zecFrost' = zecFrost
    BY DEF Read, appVars
<1>3. NoSignature \in
          [message: Messages, R: (0..(FieldPrime - 1)) \X Nat, z: Nat, asSigned: BOOLEAN]
    <2>1. (CHOOSE m \in Messages : TRUE) \in Messages
        BY SigningAssumption
    <2>2. <<0, 0>> \in (0..(FieldPrime - 1)) \X Nat
        BY CurveAssumption
    <2>. QED BY <2>1, <2>2 DEF NoSignature
<1>4. TypeOK'
    BY <1>1, <1>2, <1>3 DEF IInv, TypeOK, AppManagerTypeOK, NoAnswer, Verifiers
<1>5. Kept' /\ SignedTrue' /\ AnswerTrue'
    BY <1>1, <1>2 DEF Kept, SignedTrue, AnswerTrue, NoSignature
<1>. QED BY <1>4, <1>5 DEF IInv

LEMMA SubmittedIInv ==
    ASSUME IInv, NEW k \in Scalars \ {0}, NEW x \in Secrets, NEW m \in Messages,
           SignsFor(x), Submitted(m, SignedWith(k, x, m))
    PROVE  IInv'
<1>. DEFINE sig == SignedWith(k, x, m)
            key == Times(x, Generator)
<1>1. /\ key \in Points /\ sig.R \in Points /\ sig.s \in Scalars
      /\ Equation(sig.s, sig.R, challenge(sig.R[1], sig.R[2], key[1], key[2], m), key)
    BY SignedSatisfies
<1>2. /\ signature' = [message |-> m, R |-> sig.R, z |-> sig.s, asSigned |-> TRUE]
      /\ stage = "read" /\ stage' = "signed" /\ asked.info.key = key
      /\ UNCHANGED <<apps, zecFrost, asked, silent, answer>>
    BY DEF Submitted, SignsFor
<1>. HIDE DEF sig, key
<1>3. sig.R \in (0..(FieldPrime - 1)) \X Nat /\ sig.s \in Nat
    BY <1>1, CurveAssumption DEF Points, Scalars
<1>4. TypeOK'
    BY <1>2, <1>3 DEF IInv, TypeOK, AppManagerTypeOK
<1>5. Kept' /\ AnswerTrue'
    BY <1>2 DEF IInv, Kept, AnswerTrue
<1>6. SignedTrue'
    BY <1>1, <1>2 DEF SignedTrue, Challenge
<1>. QED BY <1>4, <1>5, <1>6 DEF IInv

LEMMA SignIInv ==
    ASSUME IInv, NEW x \in Secrets, NEW k \in 1..(Order - 1), NEW m \in Messages,
           SignByGroup(x, k, m) \/ SignByScript(x, k, m)
    PROVE  IInv'
<1>1. k \in Scalars \ {0} /\ HelperNonce(k) \in Scalars \ {0}
    BY CurveAssumption DEF Scalars, HelperNonce
<1>2. CASE SignByGroup(x, k, m)
    BY <1>1, <1>2, SubmittedIInv DEF SignByGroup
<1>3. CASE SignByScript(x, k, m)
    BY <1>1, <1>3, SubmittedIInv DEF SignByScript
<1>. QED BY <1>2, <1>3

LEMMA AlterIInv ==
    ASSUME IInv,
           NEW z \in {0, signature.z, signature.z + 1, signature.z + Order},
           NEW ry \in {signature.R[2], FieldPrime - signature.R[2], signature.R[2] + 2},
           Alter(z, ry)
    PROVE  IInv'
<1>1. /\ signature.z \in Nat /\ signature.R \in (0..(FieldPrime - 1)) \X Nat
      /\ signature.R \in Points
    BY DEF IInv, TypeOK, SignedTrue, Alter
<1>2. z \in Nat /\ ry \in Nat
    BY <1>1, CurveAssumption DEF Points
<1>3. [signature.R EXCEPT ![2] = ry] = <<signature.R[1], ry>>
    BY <1>1
<1>4. signature' = [signature EXCEPT !.z = z, !.R = <<signature.R[1], ry>>, !.asSigned = FALSE]
    BY <1>3 DEF Alter
<1>5. TypeOK'
    <2>1. <<signature.R[1], ry>> \in (0..(FieldPrime - 1)) \X Nat
        BY <1>1, <1>2
    <2>2. signature' \in [message: Messages, R: (0..(FieldPrime - 1)) \X Nat, z: Nat,
                          asSigned: BOOLEAN]
        BY <1>2, <1>4, <2>1 DEF IInv, TypeOK
    <2>. QED BY <2>2 DEF IInv, TypeOK, AppManagerTypeOK, Alter
<1>6. Kept' /\ AnswerTrue'
    BY DEF IInv, Kept, AnswerTrue, Alter
<1>7. SignedTrue'
    BY <1>4 DEF IInv, TypeOK, SignedTrue
<1>. QED BY <1>5, <1>6, <1>7 DEF IInv

LEMMA CallIInv ==
    ASSUME IInv, Call
    PROVE  IInv'
<1>. DEFINE info == apps[asked.app]
            verdicts == verify(signature.message, asked.app, signature.R[1], signature.R[2],
                               signature.z)
<1>1. /\ stage = "signed" /\ stage' = "answered"
      /\ UNCHANGED <<apps, zecFrost, asked, silent, signature>>
    BY DEF Call
<1>2. PICK result \in IF info.exists
                      THEN {IF ok THEN "accepted" ELSE "rejected" : ok \in verdicts}
                      ELSE {"AppNotFound"} :
          answer' = [result |-> result, info |-> info, verifier |-> zecFrost]
    BY DEF Call
<1>3. info \in {NoApp} \cup AppInfos /\ zecFrost \in Verifiers
    BY DEF IInv, TypeOK, AppManagerTypeOK
<1>4. result \in {"accepted", "rejected", "AppNotFound"}
    BY <1>2
<1>5. TypeOK'
    <2>. HIDE DEF info, verdicts
    <2>1. answer' \in [result: {"accepted", "rejected", "AppNotFound", "none"},
                       info: {NoApp} \cup AppInfos, verifier: Verifiers]
        BY <1>2, <1>3, <1>4
    <2>. QED BY <1>1, <2>1 DEF IInv, TypeOK, AppManagerTypeOK
<1>6. Kept' /\ SignedTrue'
    BY <1>1 DEF IInv, Kept, SignedTrue, Challenge
<1>7. AnswerTrue'
    <2>1. silent => info = asked.info /\ zecFrost = asked.verifier
        BY <1>1 DEF IInv, Kept, TypeOK
    <2>2. ASSUME info.exists, zecFrost = "ZecFrost"
          PROVE  result = "accepted" <=>
                    ZecFrostVerify(signature.message, info.key[1], info.key[2], signature.R[1],
                                   signature.R[2], signature.z)
                       = Address(info.key[1], info.key[2])
        <3>1. info.signerAddr = Address(info.key[1], info.key[2])
            BY <1>3, <2>2, AppInfoFields DEF NoApp
        <3>2. verdicts =
                {info.signerAddr =
                    ZecFrostVerify(signature.message, info.key[1], info.key[2], signature.R[1],
                                   signature.R[2], signature.z)}
            BY <2>2 DEF verify
        <3>. HIDE DEF info, verdicts
        <3>. QED BY <1>2, <2>2, <3>1, <3>2
    <2>. HIDE DEF info
    <2>. QED BY <1>1, <1>2, <2>1, <2>2 DEF AnswerTrue
<1>. QED BY <1>5, <1>6, <1>7 DEF IInv

LEMMA NextIInv == IInv /\ [Next]_vars => IInv'
<1>. SUFFICES ASSUME IInv, [Next]_vars PROVE IInv'
    OBVIOUS
<1>1. CASE \E sender \in Accounts : Transaction(sender)
    BY <1>1, TransactionIInv
<1>2. CASE \E a \in Apps : Read(a)
    BY <1>2, ReadIInv
<1>3. CASE \E x \in Secrets, k \in 1..(Order - 1), m \in Messages :
              SignByGroup(x, k, m) \/ SignByScript(x, k, m)
    BY <1>3, SignIInv
<1>4. CASE \E z \in {0, signature.z, signature.z + 1, signature.z + Order},
              ry \in {signature.R[2], FieldPrime - signature.R[2], signature.R[2] + 2} :
              Alter(z, ry)
    BY <1>4, AlterIInv
<1>5. CASE Call
    BY <1>5, CallIInv
<1>6. CASE UNCHANGED vars
    BY <1>6 DEF vars, IInv, TypeOK, AppManagerTypeOK, Kept, SignedTrue, AnswerTrue, Challenge
<1>. QED BY <1>1, <1>2, <1>3, <1>4, <1>5, <1>6 DEF Next

LEMMA Invariance == Spec => []IInv
BY InitIInv, NextIInv, PTL DEF Spec

\* What is answered for an app is the equation, for the key it had (ZecFrost.sol:167).
LEMMA AnsweredByEquation ==
    ASSUME IInv, stage = "answered", answer.info.exists, answer.verifier = "ZecFrost"
    PROVE  LET key == answer.info.key IN
           answer.result = "accepted" <=>
              /\ Usable(key) /\ OnCurve(signature.R[1], signature.R[2])
              /\ signature.z \in Scalars \ {0} /\ Challenge(key) # 0
              /\ Equation(signature.z, signature.R, Challenge(key), key)
<1>. DEFINE key == answer.info.key
<1>1. key = <<key[1], key[2]>> /\ key[1] \in Nat /\ key[2] \in Nat
    <2>1. answer.info \in AppInfos
        BY DEF IInv, TypeOK, NoApp
    <2>. QED BY <2>1, AppInfoFields
<1>2. /\ signature.z \in Nat /\ signature.message \in Messages
      /\ signature.R = <<signature.R[1], signature.R[2]>>
    BY DEF IInv, TypeOK
<1>3. answer.result = "accepted" <=>
        ZecFrostVerify(signature.message, key[1], key[2], signature.R[1], signature.R[2],
                       signature.z) = Address(key[1], key[2])
    BY DEF IInv, AnswerTrue
<1>. HIDE DEF key
<1>. QED BY <1>1, <1>2, <1>3, ContractAccepts DEF Challenge, key

\* TypeOK, for every curve and any accounts, apps and keys.
THEOREM OnchainTypeCorrect == Spec => []TypeOK
<1>1. IInv => TypeOK
    BY DEF IInv
<1>. QED BY <1>1, Invariance, PTL

\* The contract and both verifiers off the chain agree about usable keys
\* (ZecFrost.sol:167-190, helper.ts:208-245, offchain-verify main.rs:102).
THEOREM OnchainVerifiersAgree == Spec => []VerifiersAgree
<1>1. ASSUME IInv PROVE VerifiersAgree
    <2>. SUFFICES ASSUME stage = "answered", answer.info.exists, answer.verifier = "ZecFrost"
                  PROVE  VerifiersAgree
        BY DEF VerifiersAgree
    <2>. DEFINE key == answer.info.key
                R == signature.R
                z == signature.z
                c == challenge(R[1], R[2], key[1], key[2], signature.message)
                script == verifyFrost(key[1], key[2], R[1], R[2], z, signature.message)
                rust == OffchainVerify(key[1], key[2], R[1], R[2], z, signature.message)
    <2>1. answer.result = "accepted" <=>
             /\ Usable(key) /\ OnCurve(R[1], R[2])
             /\ z \in Scalars \ {0} /\ c # 0 /\ Equation(z, R, c, key)
        BY <1>1, AnsweredByEquation DEF Challenge
    <2>2. answer.info \in AppInfos /\ signature.message \in Messages
        BY <1>1 DEF IInv, TypeOK, NoApp
    <2>3. key = <<key[1], key[2]>> /\ R = <<R[1], R[2]>>
        BY <1>1, <2>2, AppInfoFields DEF IInv, TypeOK
    <2>4. ASSUME OnCurve(key[1], key[2]), OnCurve(R[1], R[2])
          PROVE  /\ c \in Scalars
                 /\ script <=> {z, c} \subseteq Scalars \ {0} /\ Equation(z, R, c, key)
                 /\ rust <=> z \in Scalars /\ Equation(z, R, c, key)
        <3>1. key \in Points /\ R \in Points
            BY <2>3, <2>4, OnCurvePoint
        <3>2. Decoded(SEC1(R[1], R[2])) = {R} /\ Decoded(SEC1(key[1], key[2])) = {key}
            BY <3>1, CompressionAssumption
        <3>3. c \in Scalars
            BY <2>2, <2>4, Challenges
        <3>. HIDE DEF key, R, z
        <3>4. script <=> {z, c} \subseteq Scalars \ {0} /\ Equation(z, R, c, key)
            BY <3>2 DEF verifyFrost
        <3>5. rust <=> z \in Scalars /\ Equation(z, R, c, key)
            BY <2>3, <2>4 DEF OffchainVerify
        <3>. QED BY <3>3, <3>4, <3>5
    <2>5. Usable(key) => OnCurve(key[1], key[2])
        BY DEF Usable, isValidPublicKey
    <2>6. VerifiersAgree <=>
             /\ answer.result = "accepted" => script /\ rust
             /\ Usable(key) /\ OnCurve(R[1], R[2]) =>
                   /\ script => answer.result = "accepted"
                   /\ rust /\ z # 0 /\ c # 0 => answer.result = "accepted"
        BY DEF VerifiersAgree, Challenge
    <2>. HIDE DEF key, R, z, c, script, rust
    <2>. QED BY <2>1, <2>4, <2>5, <2>6
<1>. QED BY <1>1, Invariance, PTL

\* An app whose owner and whose admin are silent accepts what is signed for its key,
\* given that the key is usable and neither z nor the challenge is zero
\* (AppManager.sol:44-49, 122-141).
THEOREM SilentOwnersAppAccepts == Spec => []SilentOwnerAccepted
<1>1. ASSUME IInv PROVE SilentOwnerAccepted
    <2>. SUFFICES ASSUME stage = "answered", signature.asSigned, asked.verifier = "ZecFrost",
                         silent, Usable(asked.info.key), signature.z # 0,
                         Challenge(asked.info.key) # 0
                  PROVE  answer.result = "accepted"
        BY DEF SilentOwnerAccepted
    <2>1. answer.info = asked.info /\ answer.verifier = "ZecFrost" /\ answer.info.exists
        BY <1>1, AppInfoFields DEF IInv, Kept, AnswerTrue
    <2>2. /\ signature.R \in Points /\ signature.z \in Scalars
          /\ Equation(signature.z, signature.R, Challenge(asked.info.key), asked.info.key)
        BY <1>1 DEF IInv, SignedTrue
    <2>3. OnCurve(signature.R[1], signature.R[2])
        BY <2>2, PointsArePairs
    <2>. QED BY <1>1, <2>1, <2>2, <2>3, AnsweredByEquation
<1>. QED BY <1>1, Invariance, PTL
=============================================================================
