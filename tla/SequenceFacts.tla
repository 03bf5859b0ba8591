--------------------------- MODULE SequenceFacts ---------------------------
(***************************************************************************)
(* Facts about numbers, finite sets and sequences that the proofs about    *)
(* several components use: what the operators Max, SetToSeq, RemoveAt and  *)
(* Append of the community modules compute.                                *)
(***************************************************************************)
EXTENDS Naturals, FiniteSets, SequencesExt, SequenceTheorems, FiniteSetTheorems, TLAPS

\* A set of natural numbers that is not empty has a least element.
LEMMA LeastNumber ==
    ASSUME NEW T, T \subseteq Nat, T # {}
    PROVE  \E x \in T : \A y \in T : x <= y
<1> DEFINE R == {p \in Nat \X Nat : p[1] < p[2]}
<1>1. OpToRel(<, Nat) = R
  BY DEF OpToRel
<1>2. IsWellFoundedOn(R, Nat)
  BY <1>1, NatLessThanWellFounded, Zenon
<1>3. PICK x \in T : \A y \in T : ~(<<y, x>> \in R)
  <2> HIDE DEF R
  <2> QED
    BY <1>2, WFMin
<1>4. \A y \in T : ~(y < x) /\ x \in Nat /\ y \in Nat
  BY <1>3
<1> QED
  BY <1>4

\* Induction up to n, for sets.
LEMMA UpToN ==
    ASSUME NEW n \in Nat, NEW T, 0 \in T, \A i \in 1 .. n : i - 1 \in T => i \in T
    PROVE  0 .. n \subseteq T
<1> SUFFICES ASSUME (0 .. n) \ T # {} PROVE FALSE
  OBVIOUS
<1>1. PICK x \in (0 .. n) \ T : \A y \in (0 .. n) \ T : x <= y
  <2>1. (0 .. n) \ T \subseteq Nat
    OBVIOUS
  <2> QED
    BY <2>1, LeastNumber
<1>2. x \in 1 .. n /\ x - 1 \in 0 .. n /\ ~(x <= x - 1)
  BY <1>1
<1> QED
  BY <1>1, <1>2

\* The largest id is one of the ids, and none is above it.
LEMMA MaxFacts ==
    ASSUME NEW S, S \subseteq Nat, IsFiniteSet(S), S # {}
    PROVE  Max(S) \in S /\ \A y \in S : y <= Max(S)
<1>1. PICK n \in Nat : ExistsSurjection(1 .. n, S)
  BY FS_NatSurjection
<1>2. PICK f \in [1 .. n -> S] : \A y \in S : \E i \in 1 .. n : f[i] = y
  BY <1>1 DEF ExistsSurjection, Surjection
<1> DEFINE Low == {k \in 0 .. n : \E b \in Nat : \A i \in 1 .. k : f[i] <= b}
<1>3. 0 .. n \subseteq Low
  <2>1. 0 \in Low
    OBVIOUS
  <2>2. ASSUME NEW k \in 1 .. n, k - 1 \in Low PROVE k \in Low
    <3>1. PICK b \in Nat : \A i \in 1 .. k - 1 : f[i] <= b
      BY <2>2
    <3>2. \A i \in 1 .. k : i \in 1 .. n /\ (i \in 1 .. k - 1 \/ i = k)
      OBVIOUS
    <3>3. f[k] \in Nat /\ \A i \in 1 .. k : f[i] \in Nat
      BY <1>2, <3>2
    <3>4. f[k] + b \in Nat /\ \A i \in 1 .. k : f[i] <= f[k] + b
      BY <3>1, <3>2, <3>3
    <3> QED
      BY <3>4
  <2> HIDE DEF Low
  <2> QED
    BY <2>1, <2>2, UpToN
<1>4. PICK b \in Nat : \A i \in 1 .. n : f[i] <= b
  <2>1. n \in 0 .. n
    OBVIOUS
  <2> QED
    BY <1>3, <2>1
<1> DEFINE Above == {c \in Nat : \A y \in S : y <= c}
<1>5. b \in Above
  BY <1>2, <1>4
<1>6. PICK u \in Above : \A c \in Above : u <= c
  BY <1>5, LeastNumber
<1>7. u \in S
  <2> SUFFICES ASSUME u \notin S PROVE FALSE
    OBVIOUS
  <2>1. \A y \in S : y \in Nat /\ y <= u /\ y # u
    BY <1>6
  <2>2. u \in Nat /\ u # 0
    <3>1. PICK y \in S : TRUE
      OBVIOUS
    <3> QED
      BY <1>6, <2>1, <3>1
  <2>3. u - 1 \in Above
    BY <2>1, <2>2
  <2> QED
    BY <1>6, <2>2, <2>3
<1>8. \E x \in S : \A y \in S : x >= y
  BY <1>6, <1>7
<1>9. Max(S) \in S /\ \A y \in S : Max(S) >= y
  BY <1>8 DEF Max
<1> QED
  BY <1>9

\* A sequence made of a set has its elements, each once.
LEMMA SetToSeqFacts ==
    ASSUME NEW S, IsFiniteSet(S)
    PROVE  /\ SetToSeq(S) \in Seq(S)
           /\ Range(SetToSeq(S)) = S
           /\ IsInjective(SetToSeq(S))
<1> DEFINE n == Cardinality(S)
           f == SetToSeq(S)
<1>1. n \in Nat /\ ExistsBijection(1 .. n, S)
  BY FS_CardinalityType
<1>2. \E g \in [1 .. n -> S] : IsInjective(g)
  BY <1>1 DEF ExistsBijection, Bijection, Injection
<1>3. f \in [1 .. n -> S] /\ IsInjective(f)
  BY <1>2 DEF SetToSeq
<1>4. f \in Injection(1 .. n, S) /\ Cardinality(1 .. n) = n
  BY <1>1, <1>3, FS_Interval DEF Injection
<1>5. f \in Surjection(1 .. n, S)
  BY <1>4, FS_Injection
<1>6. Range(f) = S
  BY <1>3, <1>5 DEF Surjection, Range
<1>7. f \in Seq(S)
  BY <1>1, <1>3
<1> QED
  BY <1>3, <1>6, <1>7

\* What RemoveAt leaves: the other elements, in their order.
LEMMA RemoveAtFacts ==
    ASSUME NEW S, NEW seq \in Seq(S), NEW i \in 1 .. Len(seq)
    PROVE  /\ RemoveAt(seq, i) \in Seq(S)
           /\ Len(RemoveAt(seq, i)) = Len(seq) - 1
           /\ \A j \in 1 .. Len(seq) - 1 :
                 RemoveAt(seq, i)[j] = seq[IF j < i THEN j ELSE j + 1]
<1> DEFINE front == SubSeq(seq, 1, i - 1)
           back == SubSeq(seq, i + 1, Len(seq))
<1>1. Len(seq) \in Nat /\ i \in Nat /\ \A j \in 1 .. Len(seq) : seq[j] \in S
  BY LenProperties, ElementOfSeq
<1>2. front \in Seq(S) /\ Len(front) = i - 1 /\ \A j \in 1 .. i - 1 : front[j] = seq[j]
  BY <1>1, SubSeqProperties
<1>3. /\ back \in Seq(S) /\ Len(back) = Len(seq) - i
      /\ \A j \in 1 .. Len(seq) - i : back[j] = seq[i + j]
  BY <1>1, SubSeqProperties
<1> HIDE DEF front, back
<1>4. /\ front \o back \in Seq(S)
      /\ Len(front \o back) = Len(seq) - 1
      /\ \A j \in 1 .. Len(seq) - 1 :
            (front \o back)[j] = IF j <= i - 1 THEN front[j] ELSE back[j - (i - 1)]
  <2>1. Len(front) + Len(back) = Len(seq) - 1
    BY <1>1, <1>2, <1>3
  <2>2. /\ front \o back \in Seq(S)
        /\ Len(front \o back) = Len(front) + Len(back)
        /\ \A j \in 1 .. Len(front) + Len(back) :
              (front \o back)[j] = IF j <= Len(front) THEN front[j] ELSE back[j - Len(front)]
    BY <1>2, <1>3, ConcatProperties
  <2> QED
    BY <1>2, <2>1, <2>2
<1>5. ASSUME NEW j \in 1 .. Len(seq) - 1
      PROVE  (front \o back)[j] = seq[IF j < i THEN j ELSE j + 1]
  <2>1. CASE j < i
    BY <1>1, <1>2, <1>4, <2>1
  <2>2. CASE ~(j < i)
    <3>1. j - (i - 1) \in 1 .. Len(seq) - i /\ ~(j <= i - 1) /\ i + (j - (i - 1)) = j + 1
      BY <1>1, <2>2
    <3> QED
      BY <1>3, <1>4, <2>2, <3>1
  <2> QED
    BY <2>1, <2>2
<1>6. RemoveAt(seq, i) = front \o back
  BY DEF RemoveAt, front, back
<1> QED
  BY <1>4, <1>5, <1>6

\* push() adds one element at the end.
LEMMA AppendFacts ==
    ASSUME NEW S, NEW seq \in Seq(S), NEW x \in S
    PROVE  /\ Append(seq, x) \in Seq(S)
           /\ Range(Append(seq, x)) = Range(seq) \cup {x}
           /\ IsInjective(seq) /\ x \notin Range(seq) => IsInjective(Append(seq, x))
<1>1. /\ Append(seq, x) \in Seq(S) /\ Len(Append(seq, x)) = Len(seq) + 1
      /\ \A i \in 1 .. Len(seq) : Append(seq, x)[i] = seq[i]
      /\ Append(seq, x)[Len(seq) + 1] = x
  BY AppendProperties
<1>2. /\ Len(seq) \in Nat /\ DOMAIN seq = 1 .. Len(seq)
      /\ DOMAIN Append(seq, x) = 1 .. Len(seq) + 1
  BY <1>1, LenProperties
<1>3. \A i \in 1 .. Len(seq) + 1 : i \in 1 .. Len(seq) \/ i = Len(seq) + 1
  BY <1>2
<1>4. 1 .. Len(seq) \subseteq 1 .. Len(seq) + 1 /\ Len(seq) + 1 \in 1 .. Len(seq) + 1
  BY <1>2
<1>5. Range(Append(seq, x)) = Range(seq) \cup {x}
  BY <1>1, <1>2, <1>3, <1>4 DEF Range
<1>6. IsInjective(seq) /\ x \notin Range(seq) => IsInjective(Append(seq, x))
  BY <1>1, <1>2, <1>3 DEF IsInjective, Range
<1> QED
  BY <1>1, <1>5, <1>6

\* What RemoveAt leaves, as a set of elements.
LEMMA RemoveAtKeeps ==
    ASSUME NEW S, NEW seq \in Seq(S), NEW i \in 1 .. Len(seq)
    PROVE  /\ \A j \in DOMAIN RemoveAt(seq, i) : \E k \in DOMAIN seq :
                 k # i /\ RemoveAt(seq, i)[j] = seq[k]
           /\ \A k \in DOMAIN seq : k # i =>
                 \E j \in DOMAIN RemoveAt(seq, i) : RemoveAt(seq, i)[j] = seq[k]
           /\ \A j, l \in DOMAIN RemoveAt(seq, i) : j # l =>
                 \E k, m \in DOMAIN seq : /\ k # m /\ k # i /\ m # i
                                          /\ RemoveAt(seq, i)[j] = seq[k]
                                          /\ RemoveAt(seq, i)[l] = seq[m]
<1> DEFINE rest == RemoveAt(seq, i)
           at(j) == IF j < i THEN j ELSE j + 1
<1>1. /\ DOMAIN seq = 1 .. Len(seq) /\ Len(seq) \in Nat
      /\ DOMAIN rest = 1 .. Len(seq) - 1
      /\ \A j \in 1 .. Len(seq) - 1 : rest[j] = seq[at(j)]
  BY RemoveAtFacts, LenProperties
<1>2. \A j \in 1 .. Len(seq) - 1 : at(j) \in 1 .. Len(seq) /\ at(j) # i
  BY <1>1
<1>3. \A j, l \in 1 .. Len(seq) - 1 : j # l => at(j) # at(l)
  BY <1>1
<1>4. ASSUME NEW k \in 1 .. Len(seq), k # i
      PROVE  \E j \in 1 .. Len(seq) - 1 : at(j) = k
  <2>1. CASE k < i
    <3>1. k \in 1 .. Len(seq) - 1 /\ at(k) = k
      BY <1>1, <2>1
    <3> QED
      BY <3>1
  <2>2. CASE ~(k < i)
    <3>1. k - 1 \in 1 .. Len(seq) - 1 /\ at(k - 1) = k
      BY <1>1, <1>4, <2>2
    <3> QED
      BY <3>1
  <2> QED
    BY <2>1, <2>2
<1> HIDE DEF at, rest
<1>5. \A j, l \in DOMAIN rest : j # l =>
          \E k, m \in DOMAIN seq : /\ k # m /\ k # i /\ m # i
                                   /\ rest[j] = seq[k] /\ rest[l] = seq[m]
  BY <1>1, <1>2, <1>3
<1>6. \A j \in DOMAIN rest : \E k \in DOMAIN seq : k # i /\ rest[j] = seq[k]
  BY <1>1, <1>2
<1>7. \A k \in DOMAIN seq : k # i => \E j \in DOMAIN rest : rest[j] = seq[k]
  BY <1>1, <1>4
<1> QED
  BY <1>5, <1>6, <1>7 DEF rest
=============================================================================
