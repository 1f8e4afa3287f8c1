---------------------------- MODULE QueueProofs ----------------------------
(***************************************************************************)
(* Which messages a queue holds, by their types: what the steps of both    *)
(* coordinators and their clients do to a queue.  T is a set of types.     *)
(***************************************************************************)
EXTENDS Naturals, Sequences, TLAPS, SequenceTheorems

LEMMA QueueFacts ==
    ASSUME NEW S, NEW s \in Seq(S), NEW t \in Seq(S), NEW e \in S
    PROVE  /\ Append(s, e) \in Seq(S)
           /\ s \o t \in Seq(S)
           /\ <<e>> \in Seq(S)
           /\ <<>> \in Seq(S)
           /\ \A n \in 0..Len(s) : SubSeq(s, 1, n) \in Seq(S)
<1>1. \A n \in 0..Len(s) : SubSeq(s, 1, n) \in Seq(S)
    <2>1. TAKE n \in 0..Len(s)
    <2>2. \A i \in 1..n : s[i] \in S
        BY ElementOfSeq, LenProperties
    <2>. QED BY <2>2, SubSeqProperties, LenProperties
<1>. QED BY <1>1

\* Messages sent together.
LEMMA FewMessages ==
    ASSUME NEW S, NEW e \in S, NEW f \in S
    PROVE  <<>> \in Seq(S) /\ <<e>> \in Seq(S) /\ <<e, f>> \in Seq(S)
OBVIOUS

LEMMA SeqMonotone ==
    ASSUME NEW S, NEW T, S \subseteq T, NEW s \in Seq(S)
    PROVE  s \in Seq(T)
<1>1. Len(s) \in Nat /\ s \in [1..Len(s) -> S]
    BY LenProperties
<1>2. s \in [1..Len(s) -> T]
    BY <1>1
<1>. QED BY <1>1, <1>2, SeqDef

-----------------------------------------------------------------------------
\* No message in q is of a type in T; at most one is.
Free(q, T) == \A i \in 1..Len(q) : q[i].type \notin T
Single(q, T) == \A i, j \in 1..Len(q) : q[i].type \in T /\ q[j].type \in T => i = j

\* r is as free of T as q is.
NoneNew(q, r, T) ==
    /\ Free(q, T) => Free(r, T)
    /\ Single(q, T) => Single(r, T)

LEMMA FewQueued ==
    ASSUME NEW T, NEW m, NEW n
    PROVE  /\ Free(<<>>, T)
           /\ Free(<<m>>, T) <=> m.type \notin T
           /\ Single(<<m>>, T)
           /\ m.type \notin T /\ n.type \notin T => Free(<<m, n>>, T)
           /\ m.type \notin T \/ n.type \notin T => Single(<<m, n>>, T)
BY DEF Free, Single

LEMMA FreeIsSingle ==
    ASSUME NEW T, NEW q, Free(q, T)
    PROVE  Single(q, T)
BY DEF Free, Single

LEMMA HeadQueued ==
    ASSUME NEW T, NEW S, NEW q \in Seq(S), q # <<>>
    PROVE  /\ NoneNew(q, Tail(q), T)
           /\ Head(q).type \in T => ~Free(q, T)
           /\ Head(q).type \in T /\ Single(q, T) => Free(Tail(q), T)
<1>1. /\ Len(q) \in Nat /\ Len(q) # 0 /\ Head(q) = q[1]
      /\ Len(Tail(q)) = Len(q) - 1
      /\ \A i \in 1..Len(Tail(q)) : Tail(q)[i] = q[i + 1]
    BY HeadTailProperties, LenProperties, EmptySeq
<1>2. \A i \in 1..Len(Tail(q)) : i + 1 \in 1..Len(q) /\ i + 1 # 1
    BY <1>1
<1>3. 1 \in 1..Len(q)
    BY <1>1
<1>4. Free(q, T) => Free(Tail(q), T)
    BY <1>1, <1>2 DEF Free
<1>5. ASSUME Single(q, T), NEW i \in 1..Len(Tail(q)), NEW j \in 1..Len(Tail(q)),
             Tail(q)[i].type \in T, Tail(q)[j].type \in T
      PROVE  i = j
    <2>1. i + 1 = j + 1
        BY <1>1, <1>2, <1>5 DEF Single
    <2>. QED BY <2>1
<1>6. Single(q, T) => Single(Tail(q), T)
    BY <1>5 DEF Single
<1>7. Head(q).type \in T => ~Free(q, T)
    BY <1>1, <1>3 DEF Free
<1>8. Head(q).type \in T /\ Single(q, T) => Free(Tail(q), T)
    BY <1>1, <1>2, <1>3 DEF Free, Single
<1>. QED BY <1>4, <1>6, <1>7, <1>8 DEF NoneNew

LEMMA ConcatQueued ==
    ASSUME NEW T, NEW S, NEW q \in Seq(S), NEW r \in Seq(S)
    PROVE  /\ Free(r, T) => NoneNew(q, q \o r, T)
           /\ Free(q, T) /\ Single(r, T) => Single(q \o r, T)
<1>. DEFINE n == Len(q)
<1>1. /\ n \in Nat /\ Len(r) \in Nat /\ Len(q \o r) = n + Len(r)
      /\ \A i \in 1..n + Len(r) : (q \o r)[i] = IF i <= n THEN q[i] ELSE r[i - n]
    BY ConcatProperties, LenProperties
<1>. HIDE DEF n
<1>2. \A i \in 1..n + Len(r) :
        /\ i <= n => i \in 1..n
        /\ ~(i <= n) => i - n \in 1..Len(r)
    BY <1>1
<1>3. ASSUME Free(q, T), Free(r, T) PROVE Free(q \o r, T)
    BY <1>1, <1>2, <1>3 DEF Free, n
<1>4. ASSUME Single(q, T), Free(r, T) PROVE Single(q \o r, T)
    <2>1. ASSUME NEW i \in 1..n + Len(r), (q \o r)[i].type \in T PROVE i \in 1..n /\ q[i].type \in T
        BY <1>1, <1>2, <1>4, <2>1 DEF Free
    <2>. QED BY <1>1, <1>4, <2>1 DEF Single, n
<1>5. ASSUME Free(q, T), Single(r, T) PROVE Single(q \o r, T)
    <2>1. ASSUME NEW i \in 1..n + Len(r), (q \o r)[i].type \in T
          PROVE  i - n \in 1..Len(r) /\ r[i - n].type \in T
        BY <1>1, <1>2, <1>5, <2>1 DEF Free, n
    <2>2. ASSUME NEW i \in 1..n + Len(r), NEW j \in 1..n + Len(r),
                 (q \o r)[i].type \in T, (q \o r)[j].type \in T
          PROVE  i = j
        <3>1. i - n = j - n
            BY <1>5, <2>1, <2>2 DEF Single
        <3>. QED BY <1>1, <3>1
    <2>. QED BY <1>1, <2>2 DEF Single
<1>. QED BY <1>3, <1>4, <1>5 DEF NoneNew

LEMMA AppendQueued ==
    ASSUME NEW T, NEW S, NEW q \in Seq(S), NEW m \in S
    PROVE  /\ m.type \notin T => NoneNew(q, Append(q, m), T)
           /\ Free(q, T) => Single(Append(q, m), T)
<1>1. <<m>> \in Seq(S) /\ Append(q, m) = q \o <<m>>
    BY AppendIsConcat
<1>2. Single(<<m>>, T) /\ (m.type \notin T => Free(<<m>>, T))
    BY FewQueued
<1>. QED BY <1>1, <1>2, ConcatQueued

LEMMA PrefixQueued ==
    ASSUME NEW T, NEW S, NEW q \in Seq(S), NEW n \in 0..Len(q)
    PROVE  NoneNew(q, SubSeq(q, 1, n), T)
<1>1. Len(q) \in Nat /\ \A i \in 1..n : q[i] \in S
    BY LenProperties, ElementOfSeq
<1>2. Len(SubSeq(q, 1, n)) = n /\ \A i \in 1..n : SubSeq(q, 1, n)[i] = q[i]
    BY <1>1, SubSeqProperties
<1>. QED BY <1>1, <1>2 DEF NoneNew, Free, Single
=============================================================================
