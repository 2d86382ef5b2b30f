---------------------------- MODULE RangeSetProofs ----------------------------
(***************************************************************************)
(* Proofs about RangeSet: insert and remove keep the vector normalized and *)
(* its counter exact, and do to the bytes it denotes what ByteSet promises;*)
(* the queries and the reading of a stored set answer for those bytes.     *)
(***************************************************************************)
EXTENDS RangeSet, FiniteSetTheorems, SequenceTheorems, WellFoundedInduction, TLAPS

-----------------------------------------------------------------------------
(***************************************************************************)
(* Numbers, finite sets and sums over them, by the least counterexample.   *)
(***************************************************************************)
Pick(s) == CHOOSE x \in s : TRUE
Adds(F, rs, S) ==
  F = [s \in SUBSET S |-> IF s = {} THEN 0 ELSE F[s \ {Pick(s)}] + Length(rs[Pick(s)])]

LEMMA LeastExists ==
  ASSUME NEW S, S \subseteq Nat, S # {} PROVE \E x \in S : \A y \in S : x <= y
<1>0. OpToRel(<, Nat) = {ss \in Nat \X Nat : ss[1] < ss[2]} BY Zenon DEF OpToRel
<1>1. PICK x \in S : \A y \in S : ~(<<y, x>> \in {ss \in Nat \X Nat : ss[1] < ss[2]})
  BY <1>0, NatLessThanWellFounded, WFMin
<1>2. ASSUME NEW y \in S PROVE x <= y
  <2>1. <<y, x>> \in Nat \X Nat /\ <<y, x>>[1] = y /\ <<y, x>>[2] = x OBVIOUS
  <2>2. ~(y < x) BY <1>1, <2>1
  <2> QED BY <2>2
<1> QED BY <1>2

\* A set of numbers that has 0 and, with each number, the next is all of Nat.
LEMMA AllNumbers ==
  ASSUME NEW T, 0 \in T, \A n \in Nat : n \in T => n + 1 \in T PROVE Nat \subseteq T
<1> SUFFICES ASSUME Nat \ T # {} PROVE FALSE OBVIOUS
<1>1. PICK x \in Nat \ T : \A y \in Nat \ T : x <= y BY LeastExists
<1>2. x # 0 /\ x - 1 \in Nat BY <1>1
<1>3. x - 1 \in T BY <1>1, <1>2
<1>4. x - 1 + 1 = x BY <1>1
<1> QED BY <1>1, <1>2, <1>3, <1>4

\* Subsets by size.
Upto(S, n) == {s \in SUBSET S : Cardinality(s) <= n}

LEMMA PickMember == \A s : s # {} => Pick(s) \in s
BY DEF Pick

AddsUpto(F, rs, S, n) ==
  F = [s \in Upto(S, n) |-> IF s = {} THEN 0 ELSE F[s \ {Pick(s)}] + Length(rs[Pick(s)])]

LEMMA AddsExists ==
  ASSUME NEW S, IsFiniteSet(S), NEW rs PROVE \E F : Adds(F, rs, S)
<1> DEFINE T == {n \in Nat : \E F : AddsUpto(F, rs, S, n)}
<1>0. \A s \in SUBSET S : IsFiniteSet(s) /\ Cardinality(s) \in Nat
      BY FS_Subset, FS_CardinalityType
<1>0a. ASSUME NEW s \in SUBSET S, s # {}
       PROVE  s \ {Pick(s)} \in SUBSET S /\ Cardinality(s \ {Pick(s)}) = Cardinality(s) - 1
  <2>1. PICK x \in s : x = Pick(s) BY <1>0a, PickMember
  <2>2. Cardinality(s \ {x}) = Cardinality(s) - 1 BY <1>0, <2>1, FS_RemoveElement
  <2> QED BY <2>1, <2>2
<1>0b. \A s \in SUBSET S : Cardinality(s) = 0 <=> s = {} BY <1>0, FS_EmptySet
<1>1. 0 \in T
  <2>1. Upto(S, 0) = {{}} BY <1>0, <1>0b DEF Upto
  <2>2. AddsUpto([s \in {{}} |-> 0], rs, S, 0) BY <2>1 DEF AddsUpto
  <2> QED BY <2>2
<1>2. ASSUME NEW n \in Nat, n \in T PROVE n + 1 \in T
  <2>1. PICK F : AddsUpto(F, rs, S, n) BY <1>2
  <2>2. PICK G : G = [s \in Upto(S, n + 1) |-> IF s = {} THEN 0 ELSE F[s \ {Pick(s)}] + Length(rs[Pick(s)])] OBVIOUS
  <2>3. ASSUME NEW s \in Upto(S, n + 1), s # {} PROVE G[s \ {Pick(s)}] = F[s \ {Pick(s)}]
    <3>1. s \ {Pick(s)} \in Upto(S, n) BY <1>0, <1>0a, <2>3 DEF Upto
    <3>2. s \ {Pick(s)} \in Upto(S, n + 1) BY <1>0, <1>0a, <2>3 DEF Upto
    <3>3. PICK r : r = s \ {Pick(s)} OBVIOUS
    <3>4. G[r] = IF r = {} THEN 0 ELSE F[r \ {Pick(r)}] + Length(rs[Pick(r)]) BY <2>2, <3>2, <3>3
    <3>5. F[r] = IF r = {} THEN 0 ELSE F[r \ {Pick(r)}] + Length(rs[Pick(r)]) BY <2>1, <3>1, <3>3 DEF AddsUpto
    <3> QED BY <3>3, <3>4, <3>5
  <2>4. AddsUpto(G, rs, S, n + 1) BY <2>2, <2>3 DEF AddsUpto
  <2> QED BY <2>4
<1> HIDE DEF T
<1>3. Nat \subseteq T
  <2>1. \A n \in Nat : n \in T => n + 1 \in T BY <1>2
  <2> QED BY <1>1, <2>1, AllNumbers
<1>4. Cardinality(S) \in T BY <1>0, <1>3
<1>5. Upto(S, Cardinality(S)) = SUBSET S BY <1>0, FS_Subset DEF Upto
<1>6. PICK F : AddsUpto(F, rs, S, Cardinality(S)) BY <1>4 DEF T
<1> QED BY <1>5, <1>6 DEF Adds, AddsUpto

\* What holds of the empty set and of a set with its smaller sets holds of all.
LEMMA SetBySet ==
  ASSUME NEW S, IsFiniteSet(S), NEW T, {} \in T,
         \A s \in SUBSET S : s # {} /\ (\A u \in SUBSET s : u # s => u \in T) => s \in T
  PROVE  SUBSET S \subseteq T
<1> DEFINE N == {n \in Nat : \A s \in Upto(S, n) : s \in T}
<1>0. \A s \in SUBSET S : IsFiniteSet(s) /\ Cardinality(s) \in Nat /\ (Cardinality(s) = 0 <=> s = {})
  BY FS_Subset, FS_CardinalityType, FS_EmptySet
<1>1. 0 \in N
  <2>1. \A s \in Upto(S, 0) : s = {} BY <1>0 DEF Upto
  <2> QED BY <2>1
<1>2. ASSUME NEW n \in Nat, n \in N PROVE n + 1 \in N
  <2>0. \A s \in Upto(S, n) : s \in T BY <1>2
  <2>1. ASSUME NEW s \in Upto(S, n + 1), s \notin Upto(S, n) PROVE s \in T
    <3> HIDE DEF N
    <3>1. s \in SUBSET S /\ s # {} /\ Cardinality(s) = n + 1 /\ IsFiniteSet(s)
      BY <1>0, <2>1 DEF Upto
    <3>2. ASSUME NEW u \in SUBSET s, u # s PROVE u \in T
      <4>1. Cardinality(u) <= n BY <1>0, <3>1, <3>2, FS_Subset
      <4>2. u \in Upto(S, n) BY <3>1, <4>1 DEF Upto
      <4> QED BY <2>0, <4>2
    <3> QED BY <3>1, <3>2
  <2> QED BY <2>0, <2>1
<1> HIDE DEF N
<1>3. Nat \subseteq N
  <2>1. \A n \in Nat : n \in N => n + 1 \in N BY <1>2
  <2> QED BY <1>1, <2>1, AllNumbers
<1>4. ASSUME NEW s \in SUBSET S PROVE s \in T
  <2>1. Cardinality(s) \in N /\ s \in Upto(S, Cardinality(s)) BY <1>0, <1>3 DEF Upto
  <2> QED BY <2>1 DEF N
<1> QED BY <1>4

-----------------------------------------------------------------------------
(***************************************************************************)
(* Normalized vectors and the bytes they denote.                           *)
(***************************************************************************)
Good(rs) ==
  /\ rs \in Seq(ByteRanges)
  /\ \A i \in 1 .. Len(rs) : Start(rs[i]) < End(rs[i])
  /\ \A i, j \in 1 .. Len(rs) : i < j => End(rs[i]) < Start(rs[j])

LEMMA RangeFacts ==
  ASSUME NEW r \in ByteRanges
  PROVE  /\ Start(r) \in Nat /\ End(r) \in Nat /\ Start(r) <= End(r) /\ End(r) <= MaxByte
         /\ r = <<Start(r), End(r)>> /\ Length(r) = End(r) - Start(r)
         /\ \A b : b \in BytesOf(r) <=> b \in Nat /\ Start(r) <= b /\ b < End(r)
<1>1. r[1] \in 0 .. MaxByte /\ r[2] \in 0 .. MaxByte /\ r = <<r[1], r[2]>> BY DEF ByteRanges
<1>2. r[1] <= r[2] BY DEF ByteRanges, Start, End
<1>3. MaxByte \in Nat BY MaxByteAssumption
<1> QED BY <1>1, <1>2, <1>3 DEF Start, End, Length, BytesOf

LEMMA MakeRange ==
  ASSUME NEW a \in Nat, NEW b \in Nat, a <= b, b <= MaxByte
  PROVE  <<a, b>> \in ByteRanges /\ Start(<<a, b>>) = a /\ End(<<a, b>>) = b
BY MaxByteAssumption DEF ByteRanges, Start, End

LEMMA SeqFacts ==
  ASSUME NEW rs \in Seq(ByteRanges)
  PROVE  /\ Len(rs) \in Nat /\ DOMAIN rs = 1 .. Len(rs)
         /\ \A i \in 1 .. Len(rs) : rs[i] \in ByteRanges
OBVIOUS

LEMMA DenotesMember ==
  ASSUME NEW rs, NEW b PROVE b \in Denotes(rs) <=> \E i \in 1 .. Len(rs) : b \in BytesOf(rs[i])
BY DEF Denotes

LEMMA DenotesBounded ==
  ASSUME NEW rs \in Seq(ByteRanges)
  PROVE  Denotes(rs) \subseteq Nat /\ IsFiniteSet(Denotes(rs)) /\ \A b \in Denotes(rs) : b < MaxByte
<1>1. ASSUME NEW b \in Denotes(rs) PROVE b \in Nat /\ b < MaxByte
  <2>1. PICK i \in 1 .. Len(rs) : b \in BytesOf(rs[i]) BY DenotesMember
  <2>2. rs[i] \in ByteRanges BY <2>1, SeqFacts
  <2> QED BY <2>1, <2>2, RangeFacts, MaxByteAssumption
<1>2. PICK m \in Nat : m = MaxByte BY MaxByteAssumption
<1>3. PICK S : S = Denotes(rs) OBVIOUS
<1>4. S \in SUBSET Nat /\ \A s \in S : s <= m BY <1>1, <1>2, <1>3
<1>5. IsFiniteSet(S) BY <1>4, FS_BoundedSetOfNaturals
<1> QED BY <1>1, <1>3, <1>5

\* The bytes of some of the ranges.
Some(rs, s) == UNION {BytesOf(rs[i]) : i \in s}

LEMMA LengthSumAdds ==
  ASSUME NEW rs \in Seq(ByteRanges)
  PROVE  \E F : Adds(F, rs, 1 .. Len(rs)) /\ LengthSum(rs) = F[1 .. Len(rs)]
<1>1. PICK D : D = DOMAIN rs OBVIOUS
<1>2. D = 1 .. Len(rs) /\ IsFiniteSet(D) BY <1>1, SeqFacts, FS_Interval
<1>3. \E F : Adds(F, rs, DOMAIN rs) BY <1>1, <1>2, AddsExists
<1>4. \E F : Adds(F, rs, DOMAIN rs) /\ LengthSum(rs) = F[DOMAIN rs]
  BY ONLY <1>3 DEF LengthSum, FoldSeq, FoldFunction, FoldFunctionOnSet, MapThenFoldSet, Adds, Pick
<1> QED BY <1>1, <1>2, <1>4

\* Where no two ranges share a byte, the lengths add up to the number of bytes.
LEMMA LengthSumExact ==
  ASSUME NEW rs, Good(rs) PROVE LengthSum(rs) = Cardinality(Denotes(rs))
<1>0. rs \in Seq(ByteRanges) BY DEF Good
<1>1. PICK F : Adds(F, rs, 1 .. Len(rs)) /\ LengthSum(rs) = F[1 .. Len(rs)] BY <1>0, LengthSumAdds
<1>2. PICK D : D = 1 .. Len(rs) OBVIOUS
<1>3. IsFiniteSet(D) BY <1>0, <1>2, SeqFacts, FS_Interval
<1> DEFINE T == {s \in SUBSET D : IsFiniteSet(Some(rs, s)) /\ F[s] = Cardinality(Some(rs, s))}
<1>4. {} \in T
  <2>1. Some(rs, {}) = {} BY DEF Some
  <2>2. F[{}] = 0 BY <1>1, <1>2 DEF Adds
  <2> QED BY <2>1, <2>2, FS_EmptySet
<1>5. ASSUME NEW s \in SUBSET D, s # {}, \A u \in SUBSET s : u # s => u \in T PROVE s \in T
  <2>1. PICK p \in s : p = Pick(s) BY <1>5, PickMember
  <2>2. F[s] = F[s \ {p}] + Length(rs[p]) BY <1>1, <1>2, <1>5, <2>1 DEF Adds
  <2>3. PICK A, B : A = Some(rs, s \ {p}) /\ B = BytesOf(rs[p]) OBVIOUS
  <2>4. IsFiniteSet(A) /\ F[s \ {p}] = Cardinality(A) BY <1>5, <2>3
  <2>5. PICK a \in Nat, b \in Nat : a = Start(rs[p]) /\ b = End(rs[p]) /\ a < b /\ Length(rs[p]) = b - a
    BY <1>0, <1>2, SeqFacts, RangeFacts DEF Good
  <2>6. B = a .. b - 1 BY <2>3, <2>5 DEF BytesOf
  <2>7. b - 1 \in Int /\ a \in Int /\ ~(a > b - 1) /\ b - 1 - a + 1 = b - a BY <2>5
  <2>8. IsFiniteSet(B) /\ Cardinality(B) = b - a BY <2>6, <2>7, FS_Interval
  <2>9. A \cap B = {}
    <3> SUFFICES ASSUME NEW x \in A, x \in B PROVE FALSE OBVIOUS
    <3>1. PICK k \in s \ {p} : x \in BytesOf(rs[k]) BY <2>3 DEF Some
    <3>2. x \in Nat /\ Start(rs[k]) <= x /\ x < End(rs[k]) /\ Start(rs[p]) <= x /\ x < End(rs[p])
      BY <1>0, <1>2, <2>3, <3>1, SeqFacts, RangeFacts
    <3>3. p \in 1 .. Len(rs) /\ k \in 1 .. Len(rs) /\ k # p BY <1>2, <3>1
    <3>4. Len(rs) \in Nat BY <1>0, SeqFacts
    <3>5. k < p \/ p < k BY <3>3, <3>4
    <3>6. End(rs[k]) < Start(rs[p]) \/ End(rs[p]) < Start(rs[k]) BY <3>3, <3>5 DEF Good
    <3>7. /\ Start(rs[k]) \in Nat /\ End(rs[k]) \in Nat
          /\ Start(rs[p]) \in Nat /\ End(rs[p]) \in Nat
      BY <1>0, <3>3, SeqFacts, RangeFacts
    <3> QED BY <3>2, <3>6, <3>7
  <2>10. Some(rs, s) = A \cup B BY <2>1, <2>3 DEF Some
  <2>11. IsFiniteSet(A \cup B) /\ Cardinality(A \cup B) = Cardinality(A) + Cardinality(B) - 0
    <3>1. Cardinality(A \cap B) = 0 BY <2>9, FS_EmptySet
    <3>2. IsFiniteSet(A \cup B) /\ Cardinality(A \cup B) = Cardinality(A) + Cardinality(B) - Cardinality(A \cap B)
      BY <2>4, <2>8, FS_Union
    <3> QED BY <3>1, <3>2
  <2>12. PICK c \in Nat : c = Cardinality(A) BY <2>4, FS_CardinalityType
  <2>13. F[s] = Cardinality(A \cup B) BY <2>2, <2>4, <2>5, <2>8, <2>11, <2>12
  <2> QED BY <2>10, <2>11, <2>13
<1> HIDE DEF T
<1>6. SUBSET D \subseteq T BY <1>3, <1>4, <1>5, SetBySet
<1>7. D \in T BY <1>6
<1>8. Some(rs, D) = Denotes(rs) BY <1>2 DEF Some, Denotes
<1> QED BY <1>1, <1>2, <1>7, <1>8 DEF T

-----------------------------------------------------------------------------
(***************************************************************************)
(* The splice: what stands between two cuts gives way to something else.   *)
(***************************************************************************)
IsSplice(ns, rs, lo, hi, new) ==
  /\ ns \in Seq(ByteRanges) /\ Len(ns) = lo + Len(new) + (Len(rs) - hi)
  /\ \A i \in 1 .. lo : ns[i] = rs[i]
  /\ \A i \in 1 .. Len(new) : ns[lo + i] = new[i]
  /\ \A i \in 1 .. Len(rs) - hi : ns[lo + Len(new) + i] = rs[hi + i]

LEMMA SpliceItems ==
  ASSUME NEW rs \in Seq(ByteRanges), NEW lo \in 0 .. Len(rs), NEW hi \in lo .. Len(rs),
         NEW new \in Seq(ByteRanges)
  PROVE  IsSplice(Splice(rs, lo, hi, new), rs, lo, hi, new)
<1>0. PICK ns : ns = Splice(rs, lo, hi, new) OBVIOUS
<1>1. PICK n \in Nat, m \in Nat : n = Len(rs) /\ m = Len(new) BY SeqFacts
<1>2. \A i \in 1 .. n : rs[i] \in ByteRanges BY <1>1, SeqFacts
<1>3. lo \in Nat /\ hi \in Nat /\ lo <= hi /\ hi <= n BY <1>1
<1>4. PICK A : A = SubSeq(rs, 1, lo) OBVIOUS
<1>5. PICK Z : Z = SubSeq(rs, hi + 1, n) OBVIOUS
<1>6. A \in Seq(ByteRanges) /\ Len(A) = lo /\ \A i \in 1 .. lo : A[i] = rs[i]
  <2>1. \A i \in 1 .. lo : rs[i] \in ByteRanges BY <1>2, <1>3
  <2>2. /\ SubSeq(rs, 1, lo) \in Seq(ByteRanges) /\ Len(SubSeq(rs, 1, lo)) = IF 1 <= lo THEN lo - 1 + 1 ELSE 0
        /\ \A i \in 1 .. lo - 1 + 1 : SubSeq(rs, 1, lo)[i] = rs[1 + i - 1]
    BY <1>3, <2>1, SubSeqProperties
  <2>3. lo - 1 + 1 = lo /\ \A i \in 1 .. lo : 1 + i - 1 = i BY <1>3
  <2>4. Len(A) = lo BY <1>3, <1>4, <2>2
  <2> QED BY <1>4, <2>2, <2>3, <2>4
<1>7. Z \in Seq(ByteRanges) /\ Len(Z) = n - hi /\ \A i \in 1 .. n - hi : Z[i] = rs[hi + i]
  <2>1. \A i \in hi + 1 .. n : rs[i] \in ByteRanges BY <1>2, <1>3
  <2>2. PICK k \in Nat : k = hi + 1 BY <1>3
  <2>3. /\ SubSeq(rs, k, n) \in Seq(ByteRanges) /\ Len(SubSeq(rs, k, n)) = IF k <= n THEN n - k + 1 ELSE 0
        /\ \A i \in 1 .. n - k + 1 : SubSeq(rs, k, n)[i] = rs[k + i - 1]
    BY <2>1, <2>2, SubSeqProperties
  <2>4. n - k + 1 = n - hi /\ \A i \in 1 .. n - hi : k + i - 1 = hi + i BY <1>3, <2>2
  <2>5. Len(Z) = n - hi BY <1>3, <1>5, <2>2, <2>3
  <2> QED BY <1>5, <2>2, <2>3, <2>4, <2>5
<1>8. PICK B : B = A \o new OBVIOUS
<1>9. /\ B \in Seq(ByteRanges) /\ Len(B) = lo + m
      /\ \A i \in 1 .. lo + m : B[i] = IF i <= lo THEN A[i] ELSE new[i - lo]
  BY <1>1, <1>6, <1>8, ConcatProperties
<1>10. ns = B \o Z BY <1>0, <1>1, <1>4, <1>5, <1>8 DEF Splice
<1>10a. PICK k \in Nat, l \in Nat : k = lo + m /\ l = n - hi BY <1>3
<1>10b. Len(B) = k /\ Len(Z) = l BY <1>7, <1>9, <1>10a
<1>11. /\ ns \in Seq(ByteRanges) /\ Len(ns) = k + l
       /\ \A i \in 1 .. k + l : ns[i] = IF i <= k THEN B[i] ELSE Z[i - k]
  <2>1. B \in Seq(ByteRanges) /\ Z \in Seq(ByteRanges) BY <1>7, <1>9
  <2>2. /\ ns \in Seq(ByteRanges) /\ Len(ns) = Len(B) + Len(Z)
        /\ \A i \in 1 .. Len(B) + Len(Z) : ns[i] = IF i <= Len(B) THEN B[i] ELSE Z[i - Len(B)]
    BY ONLY <1>10, <2>1, ConcatProperties
  <2> QED BY <1>10b, <2>2
<1>12. ASSUME NEW i \in 1 .. lo PROVE ns[i] = rs[i]
  <2>1. i \in 1 .. k + l /\ i <= k /\ i \in 1 .. lo + m /\ i <= lo BY <1>3, <1>10a
  <2> QED BY <1>6, <1>9, <1>11, <2>1
<1>13. ASSUME NEW i \in 1 .. m PROVE ns[lo + i] = new[i]
  <2>1. /\ lo + i \in 1 .. k + l /\ lo + i <= k /\ lo + i \in 1 .. lo + m
        /\ ~(lo + i <= lo) /\ lo + i - lo = i
    BY <1>3, <1>10a
  <2> QED BY <1>9, <1>11, <2>1
<1>14. ASSUME NEW i \in 1 .. n - hi PROVE ns[lo + m + i] = rs[hi + i]
  <2>1. PICK j \in Nat : j = lo + m + i BY <1>3
  <2>2. j \in 1 .. k + l /\ ~(j <= k) /\ j - k = i BY <1>3, <1>10a, <2>1
  <2>3. ns[j] = Z[i] BY <1>11, <2>2
  <2> QED BY <1>7, <2>1, <2>3
<1>15. Len(ns) = lo + m + (n - hi) BY <1>3, <1>10a, <1>11
<1> QED BY <1>0, <1>1, <1>11, <1>12, <1>13, <1>14, <1>15 DEF IsSplice

\* Two normalized vectors may be spliced where the new one keeps its distance.
Clear(rs, lo, hi, new) ==
  /\ \A i \in 1 .. lo, k \in 1 .. Len(new) : End(rs[i]) < Start(new[k])
  /\ \A j \in hi + 1 .. Len(rs), k \in 1 .. Len(new) : End(new[k]) < Start(rs[j])

LEMMA SplicePlaces ==
  ASSUME NEW rs \in Seq(ByteRanges), NEW lo \in 0 .. Len(rs), NEW hi \in lo .. Len(rs),
         NEW new \in Seq(ByteRanges), NEW ns, ns = Splice(rs, lo, hi, new), NEW i \in 1 .. Len(ns)
  PROVE  \/ i \in 1 .. lo /\ ns[i] = rs[i]
         \/ \E k \in 1 .. Len(new) : i = lo + k /\ ns[i] = new[k]
         \/ \E j \in hi + 1 .. Len(rs) : i = lo + Len(new) + (j - hi) /\ ns[i] = rs[j]
<1>1. PICK n \in Nat, m \in Nat : n = Len(rs) /\ m = Len(new) BY SeqFacts
<1>2. lo \in Nat /\ hi \in Nat /\ lo <= hi /\ hi <= n BY <1>1
<1>3. /\ Len(ns) = lo + m + (n - hi)
      /\ \A k \in 1 .. lo : ns[k] = rs[k]
      /\ \A k \in 1 .. m : ns[lo + k] = new[k]
      /\ \A k \in 1 .. n - hi : ns[lo + m + k] = rs[hi + k]
  <2>1. IsSplice(ns, rs, lo, hi, new) BY SpliceItems
  <2> QED BY ONLY <1>1, <2>1 DEF IsSplice
<1>4. i \in Nat /\ 1 <= i /\ i <= lo + m + (n - hi) BY <1>2, <1>3
<1>5. CASE i <= lo BY <1>2, <1>3, <1>4, <1>5
<1>6. CASE lo < i /\ i <= lo + m
  <2>1. i - lo \in 1 .. m /\ lo + (i - lo) = i BY <1>2, <1>4, <1>6
  <2>2. PICK k \in 1 .. m : k = i - lo BY <2>1
  <2>3. i = lo + k /\ ns[i] = new[k] BY <1>3, <2>1, <2>2
  <2> QED BY <1>1, <2>3
<1>7. CASE lo + m < i
  <2>1. PICK k \in 1 .. n - hi : i = lo + m + k
    <3>1. i - lo - m \in 1 .. n - hi /\ i = lo + m + (i - lo - m) BY <1>2, <1>4, <1>7
    <3> QED BY <3>1
  <2>2. PICK j \in hi + 1 .. n : j = hi + k /\ k = j - hi
    <3>1. hi + k \in hi + 1 .. n /\ hi + k - hi = k BY <1>2
    <3> QED BY <3>1
  <2>3. ns[i] = rs[j] BY <1>3, <2>1, <2>2
  <2> QED BY <1>1, <2>1, <2>2, <2>3
<1> QED BY <1>2, <1>4, <1>5, <1>6, <1>7

LEMMA SpliceGood ==
  ASSUME NEW rs, Good(rs), NEW lo \in 0 .. Len(rs), NEW hi \in lo .. Len(rs),
         NEW new, Good(new), Clear(rs, lo, hi, new), NEW ns, ns = Splice(rs, lo, hi, new)
  PROVE  Good(ns)
<1>0. rs \in Seq(ByteRanges) /\ new \in Seq(ByteRanges) BY DEF Good
<1>1. PICK n \in Nat, m \in Nat : n = Len(rs) /\ m = Len(new) BY <1>0, SeqFacts
<1>2. lo \in Nat /\ hi \in Nat /\ lo <= hi /\ hi <= n BY <1>1
<1>3. ns \in Seq(ByteRanges) BY <1>0, SpliceItems DEF IsSplice
<1>4. ASSUME NEW i \in 1 .. Len(ns)
      PROVE  \/ i \in 1 .. lo /\ ns[i] = rs[i]
             \/ \E k \in 1 .. m : i = lo + k /\ ns[i] = new[k]
             \/ \E j \in hi + 1 .. n : i = lo + m + (j - hi) /\ ns[i] = rs[j]
  BY <1>0, <1>1, SplicePlaces
<1>5. /\ \A i \in 1 .. n : Start(rs[i]) < End(rs[i])
      /\ \A i, j \in 1 .. n : i < j => End(rs[i]) < Start(rs[j])
      /\ \A i \in 1 .. m : Start(new[i]) < End(new[i])
      /\ \A i, j \in 1 .. m : i < j => End(new[i]) < Start(new[j])
  BY <1>1 DEF Good
<1>6. /\ \A i \in 1 .. lo, k \in 1 .. m : End(rs[i]) < Start(new[k])
      /\ \A j \in hi + 1 .. n, k \in 1 .. m : End(new[k]) < Start(rs[j])
  BY <1>1 DEF Clear
<1>7. ASSUME NEW i \in 1 .. Len(ns) PROVE Start(ns[i]) < End(ns[i])
  <2>1. CASE i \in 1 .. lo /\ ns[i] = rs[i]
    <3>1. i \in 1 .. n BY <1>2, <2>1
    <3> QED BY <1>5, <2>1, <3>1
  <2>2. CASE \E k \in 1 .. m : i = lo + k /\ ns[i] = new[k] BY <1>5, <2>2
  <2>3. CASE \E j \in hi + 1 .. n : i = lo + m + (j - hi) /\ ns[i] = rs[j]
    <3>1. PICK j \in hi + 1 .. n : ns[i] = rs[j] BY <2>3
    <3>2. j \in 1 .. n BY <1>2
    <3> QED BY <1>5, <3>1, <3>2
  <2> QED BY <1>4, <2>1, <2>2, <2>3
<1>8. ASSUME NEW i \in 1 .. Len(ns), NEW j \in 1 .. Len(ns), i < j PROVE End(ns[i]) < Start(ns[j])
  <2>1. ASSUME i \in 1 .. lo, ns[i] = rs[i] PROVE End(ns[i]) < Start(ns[j])
    <3>1. CASE j \in 1 .. lo /\ ns[j] = rs[j]
      <4>1. i \in 1 .. n /\ j \in 1 .. n BY <1>2, <2>1, <3>1
      <4> QED BY <1>5, <1>8, <2>1, <3>1, <4>1
    <3>2. CASE \E k \in 1 .. m : j = lo + k /\ ns[j] = new[k] BY <1>6, <2>1, <3>2
    <3>3. CASE \E k \in hi + 1 .. n : j = lo + m + (k - hi) /\ ns[j] = rs[k]
      <4>1. PICK k \in hi + 1 .. n : ns[j] = rs[k] BY <3>3
      <4>2. i \in 1 .. n /\ k \in 1 .. n /\ i < k BY <1>2, <2>1
      <4> QED BY <1>5, <2>1, <4>1, <4>2
    <3> QED BY <1>4, <3>1, <3>2, <3>3
  <2>2. ASSUME NEW k \in 1 .. m, i = lo + k, ns[i] = new[k] PROVE End(ns[i]) < Start(ns[j])
    <3>1. ~(j \in 1 .. lo) BY <1>2, <1>8, <2>2
    <3>2. CASE \E l \in 1 .. m : j = lo + l /\ ns[j] = new[l]
      <4>1. PICK l \in 1 .. m : j = lo + l /\ ns[j] = new[l] BY <3>2
      <4>2. k < l BY <1>2, <1>8, <2>2, <4>1
      <4> QED BY <1>5, <2>2, <4>1, <4>2
    <3>3. CASE \E l \in hi + 1 .. n : j = lo + m + (l - hi) /\ ns[j] = rs[l] BY <1>6, <2>2, <3>3
    <3> QED BY <1>4, <3>1, <3>2, <3>3
  <2>3. ASSUME NEW k \in hi + 1 .. n, i = lo + m + (k - hi), ns[i] = rs[k] PROVE End(ns[i]) < Start(ns[j])
    <3>1. ~(j \in 1 .. lo) BY <1>2, <1>8, <2>3
    <3>2. ASSUME NEW l \in 1 .. m, j = lo + l PROVE FALSE BY <1>2, <1>8, <2>3, <3>2
    <3>3. PICK l \in hi + 1 .. n : j = lo + m + (l - hi) /\ ns[j] = rs[l] BY <1>4, <3>1, <3>2
    <3>4. k < l /\ k \in 1 .. n /\ l \in 1 .. n BY <1>2, <1>8, <2>3, <3>3
    <3> QED BY <1>5, <2>3, <3>3, <3>4
  <2> QED BY <1>4, <2>1, <2>2, <2>3
<1> QED BY <1>3, <1>7, <1>8 DEF Good

\* The ranges that a splice keeps.
Kept(rs, lo, hi) == Some(rs, (1 .. lo) \cup (hi + 1 .. Len(rs)))

LEMMA SpliceBytes ==
  ASSUME NEW rs \in Seq(ByteRanges), NEW lo \in 0 .. Len(rs), NEW hi \in lo .. Len(rs),
         NEW new \in Seq(ByteRanges), NEW ns, ns = Splice(rs, lo, hi, new)
  PROVE  Denotes(ns) = Kept(rs, lo, hi) \cup Denotes(new)
<1>1. PICK n \in Nat, m \in Nat : n = Len(rs) /\ m = Len(new) BY SeqFacts
<1>2. lo \in Nat /\ hi \in Nat /\ lo <= hi /\ hi <= n BY <1>1
<1>3. /\ ns \in Seq(ByteRanges) /\ Len(ns) = lo + m + (n - hi)
      /\ \A k \in 1 .. lo : ns[k] = rs[k]
      /\ \A k \in 1 .. m : ns[lo + k] = new[k]
      /\ \A k \in 1 .. n - hi : ns[lo + m + k] = rs[hi + k]
  <2>1. IsSplice(ns, rs, lo, hi, new) BY SpliceItems
  <2> QED BY ONLY <1>1, <2>1 DEF IsSplice
<1>4. ASSUME NEW b \in Denotes(ns) PROVE b \in Kept(rs, lo, hi) \cup Denotes(new)
  <2>1. PICK i \in 1 .. Len(ns) : b \in BytesOf(ns[i]) BY DenotesMember
  <2>2. \/ i \in 1 .. lo /\ ns[i] = rs[i]
        \/ \E k \in 1 .. m : i = lo + k /\ ns[i] = new[k]
        \/ \E j \in hi + 1 .. n : i = lo + m + (j - hi) /\ ns[i] = rs[j]
    BY <1>1, SplicePlaces
  <2>3. CASE i \in 1 .. lo /\ ns[i] = rs[i] BY <2>1, <2>3 DEF Kept, Some
  <2>4. CASE \E k \in 1 .. m : i = lo + k /\ ns[i] = new[k] BY <1>1, <2>1, <2>4, DenotesMember
  <2>5. CASE \E j \in hi + 1 .. n : i = lo + m + (j - hi) /\ ns[i] = rs[j] BY <1>1, <2>1, <2>5 DEF Kept, Some
  <2> QED BY <2>2, <2>3, <2>4, <2>5
<1>5. ASSUME NEW b \in Kept(rs, lo, hi) PROVE b \in Denotes(ns)
  <2>1. PICK i \in (1 .. lo) \cup (hi + 1 .. n) : b \in BytesOf(rs[i]) BY <1>1 DEF Kept, Some
  <2>2. CASE i \in 1 .. lo
    <3>1. i \in 1 .. Len(ns) BY <1>2, <1>3, <2>2
    <3> QED BY <1>3, <2>1, <2>2, <3>1, DenotesMember
  <2>3. CASE i \in hi + 1 .. n
    <3>1. PICK k \in 1 .. n - hi : i = hi + k
      <4>1. i - hi \in 1 .. n - hi /\ i = hi + (i - hi) BY <1>2, <2>3
      <4> QED BY <4>1
    <3>2. lo + m + k \in 1 .. Len(ns) BY <1>2, <1>3
    <3>3. b \in BytesOf(ns[lo + m + k]) BY <1>3, <2>1, <3>1
    <3> QED BY <3>2, <3>3, DenotesMember
  <2> QED BY <2>1, <2>2, <2>3
<1>6. ASSUME NEW b \in Denotes(new) PROVE b \in Denotes(ns)
  <2>1. PICK k \in 1 .. m : b \in BytesOf(new[k]) BY <1>1, DenotesMember
  <2>2. lo + k \in 1 .. Len(ns) BY <1>2, <1>3
  <2>3. b \in BytesOf(ns[lo + k]) BY <1>3, <2>1
  <2> QED BY <2>2, <2>3, DenotesMember
<1> QED BY <1>4, <1>5, <1>6

\* What a splice takes out.
LEMMA SliceGood ==
  ASSUME NEW rs, Good(rs), NEW lo \in 0 .. Len(rs), NEW hi \in lo .. Len(rs)
  PROVE  Good(SubSeq(rs, lo + 1, hi)) /\ Denotes(SubSeq(rs, lo + 1, hi)) = Some(rs, lo + 1 .. hi)
<1>0. rs \in Seq(ByteRanges) BY DEF Good
<1>1. PICK n \in Nat : n = Len(rs) BY <1>0, SeqFacts
<1>2. lo \in Nat /\ hi \in Nat /\ lo <= hi /\ hi <= n BY <1>1
<1>3. PICK k \in Nat, l \in Nat : k = lo + 1 /\ l = hi - lo BY <1>2
<1>4. PICK ms : ms = SubSeq(rs, k, hi) OBVIOUS
<1>5. \A i \in k .. hi : rs[i] \in ByteRanges BY <1>0, <1>1, <1>2, <1>3, SeqFacts
<1>6. /\ ms \in Seq(ByteRanges) /\ Len(ms) = IF k <= hi THEN hi - k + 1 ELSE 0
      /\ \A i \in 1 .. hi - k + 1 : ms[i] = rs[k + i - 1]
  <2>1. k \in Int /\ hi \in Int BY <1>2
  <2> QED BY ONLY <1>4, <1>5, <2>1, SubSeqProperties
<1>7. Len(ms) = l /\ hi - k + 1 = l /\ \A i \in 1 .. l : k + i - 1 = lo + i BY <1>2, <1>3, <1>6
<1>8. \A i \in 1 .. l : ms[i] = rs[lo + i] /\ lo + i \in 1 .. n BY <1>2, <1>3, <1>6, <1>7
<1>9. Good(ms)
  <2>1. \A i \in 1 .. n : Start(rs[i]) < End(rs[i]) BY <1>1 DEF Good
  <2>2. \A i, j \in 1 .. n : i < j => End(rs[i]) < Start(rs[j]) BY <1>1 DEF Good
  <2>3. \A i, j \in 1 .. l : i < j => lo + i < lo + j BY <1>2, <1>3
  <2>4. \A i \in 1 .. l : Start(ms[i]) < End(ms[i]) BY <1>8, <2>1
  <2>5. \A i, j \in 1 .. l : i < j => End(ms[i]) < Start(ms[j]) BY <1>8, <2>2, <2>3
  <2> QED BY <1>6, <1>7, <2>4, <2>5 DEF Good
<1>10. ASSUME NEW b \in Denotes(ms) PROVE b \in Some(rs, lo + 1 .. hi)
  <2>1. PICK i \in 1 .. l : b \in BytesOf(ms[i]) BY <1>7, DenotesMember
  <2>2. lo + i \in lo + 1 .. hi BY <1>2, <1>3
  <2> QED BY <1>8, <2>1, <2>2 DEF Some
<1>11. ASSUME NEW b \in Some(rs, lo + 1 .. hi) PROVE b \in Denotes(ms)
  <2>1. PICK j \in lo + 1 .. hi : b \in BytesOf(rs[j]) BY DEF Some
  <2>2. PICK i \in 1 .. l : j = lo + i
    <3>1. j - lo \in 1 .. l /\ j = lo + (j - lo) BY <1>2, <1>3
    <3> QED BY <3>1
  <2> QED BY <1>7, <1>8, <2>1, <2>2, DenotesMember
<1> QED BY <1>3, <1>4, <1>9, <1>10, <1>11

\* Two bytes of different ranges are different bytes.
LEMMA OneRange ==
  ASSUME NEW rs, Good(rs), NEW i \in 1 .. Len(rs), NEW j \in 1 .. Len(rs), NEW b,
         b \in BytesOf(rs[i]), b \in BytesOf(rs[j])
  PROVE  i = j
<1>0. rs \in Seq(ByteRanges) BY DEF Good
<1>1. Len(rs) \in Nat /\ rs[i] \in ByteRanges /\ rs[j] \in ByteRanges BY <1>0, SeqFacts
<1>2. b \in Nat /\ Start(rs[i]) <= b /\ b < End(rs[i]) /\ Start(rs[j]) <= b /\ b < End(rs[j])
  BY <1>1, RangeFacts
<1>3. Start(rs[i]) \in Nat /\ End(rs[i]) \in Nat /\ Start(rs[j]) \in Nat /\ End(rs[j]) \in Nat
  BY <1>1, RangeFacts
<1>4. ~(i < j) BY <1>2, <1>3 DEF Good
<1>5. ~(j < i) BY <1>2, <1>3 DEF Good
<1> QED BY <1>1, <1>4, <1>5

LEMMA DisjointSum ==
  ASSUME NEW A, NEW B, IsFiniteSet(A), IsFiniteSet(B), A \cap B = {}
  PROVE  /\ Cardinality(A) \in Nat /\ Cardinality(B) \in Nat
         /\ Cardinality(A \cup B) = Cardinality(A) + Cardinality(B)
<1>1. Cardinality(A) \in Nat /\ Cardinality(B) \in Nat BY FS_CardinalityType
<1>2. Cardinality(A \cup B) = Cardinality(A) + Cardinality(B) - Cardinality(A \cap B) BY FS_Union
<1>3. Cardinality(A \cap B) = 0 BY FS_EmptySet
<1> QED BY <1>1, <1>2, <1>3

\* The cached count follows a splice, and the bytes are those kept and those put in.
LEMMA SpliceExact ==
  ASSUME NEW rs, Good(rs), NEW lo \in 0 .. Len(rs), NEW hi \in lo .. Len(rs),
         NEW new, Good(new), Clear(rs, lo, hi, new)
  PROVE  /\ Good(Splice(rs, lo, hi, new))
         /\ Denotes(Splice(rs, lo, hi, new)) = Kept(rs, lo, hi) \cup Denotes(new)
         /\ Denotes(rs) = Kept(rs, lo, hi) \cup Some(rs, lo + 1 .. hi)
         /\ CoveredAfter(Cardinality(Denotes(rs)), SubSeq(rs, lo + 1, hi), new)
              = Cardinality(Denotes(Splice(rs, lo, hi, new)))
<1>0. rs \in Seq(ByteRanges) /\ new \in Seq(ByteRanges) BY DEF Good
<1>1. PICK ns : ns = Splice(rs, lo, hi, new) OBVIOUS
<1>2. PICK ms : ms = SubSeq(rs, lo + 1, hi) OBVIOUS
<1>3. PICK K, M, N : K = Kept(rs, lo, hi) /\ M = Denotes(ms) /\ N = Denotes(new) OBVIOUS
<1>4. Good(ns) BY <1>1, SpliceGood
<1>5. Denotes(ns) = K \cup N BY <1>0, <1>1, <1>3, SpliceBytes
<1>6. Good(ms) /\ M = Some(rs, lo + 1 .. hi) BY <1>2, <1>3, SliceGood
<1>7. PICK n \in Nat, m \in Nat : n = Len(rs) /\ m = Len(new) BY <1>0, SeqFacts
<1>8. lo \in Nat /\ hi \in Nat /\ lo <= hi /\ hi <= n BY <1>7
<1>9. Denotes(rs) = K \cup M
  <2>1. 1 .. n = ((1 .. lo) \cup (hi + 1 .. n)) \cup (lo + 1 .. hi) BY <1>8
  <2> QED BY <1>3, <1>6, <1>7, <2>1 DEF Denotes, Kept, Some
<1>10. K \cap M = {}
  <2> SUFFICES ASSUME NEW b \in K, b \in M PROVE FALSE OBVIOUS
  <2>1. PICK i \in (1 .. lo) \cup (hi + 1 .. n) : b \in BytesOf(rs[i]) BY <1>3, <1>7 DEF Kept, Some
  <2>2. PICK j \in lo + 1 .. hi : b \in BytesOf(rs[j]) BY <1>6 DEF Some
  <2>3. i \in 1 .. Len(rs) /\ j \in 1 .. Len(rs) /\ i # j BY <1>7, <1>8
  <2> QED BY <2>1, <2>2, <2>3, OneRange
<1>11. K \cap N = {}
  <2> SUFFICES ASSUME NEW b \in K, b \in N PROVE FALSE OBVIOUS
  <2>1. PICK i \in (1 .. lo) \cup (hi + 1 .. n) : b \in BytesOf(rs[i]) BY <1>3, <1>7 DEF Kept, Some
  <2>2. PICK k \in 1 .. m : b \in BytesOf(new[k]) BY <1>3, <1>7, DenotesMember
  <2>3. i \in 1 .. n BY <1>8
  <2>4. rs[i] \in ByteRanges /\ new[k] \in ByteRanges BY <1>0, <1>7, <2>3, SeqFacts
  <2>5. b \in Nat /\ Start(rs[i]) <= b /\ b < End(rs[i]) /\ Start(new[k]) <= b /\ b < End(new[k])
    BY <2>1, <2>2, <2>4, RangeFacts
  <2>6. Start(rs[i]) \in Nat /\ End(rs[i]) \in Nat /\ Start(new[k]) \in Nat /\ End(new[k]) \in Nat
    BY <2>4, RangeFacts
  <2>7. End(rs[i]) < Start(new[k]) \/ End(new[k]) < Start(rs[i]) BY <1>7, <2>1 DEF Clear
  <2> QED BY <2>5, <2>6, <2>7
<1>12. IsFiniteSet(K) /\ IsFiniteSet(M) /\ IsFiniteSet(N)
  <2>1. IsFiniteSet(K \cup M) BY <1>0, <1>9, DenotesBounded
  <2>2. IsFiniteSet(N) BY <1>0, <1>3, DenotesBounded
  <2> QED BY <2>1, <2>2, FS_Subset
<1>13. LengthSum(ms) = Cardinality(M) /\ LengthSum(new) = Cardinality(N) BY <1>3, <1>6, LengthSumExact
<1>14. /\ Cardinality(K) \in Nat /\ Cardinality(M) \in Nat
       /\ Cardinality(K \cup M) = Cardinality(K) + Cardinality(M)
  BY <1>10, <1>12, DisjointSum
<1>15. /\ Cardinality(N) \in Nat
       /\ Cardinality(K \cup N) = Cardinality(K) + Cardinality(N)
  BY <1>11, <1>12, DisjointSum
<1>16. CoveredAfter(Cardinality(K \cup M), ms, new) = Cardinality(K \cup N)
  BY <1>13, <1>14, <1>15 DEF CoveredAfter
<1> QED BY <1>1, <1>2, <1>3, <1>4, <1>5, <1>6, <1>9, <1>16

-----------------------------------------------------------------------------
(***************************************************************************)
(* Partition points: on a normalized vector the ends and the starts grow,  *)
(* so that each of the four searches divides it.                           *)
(***************************************************************************)
LEMMA PointExists ==
  ASSUME NEW n \in Nat, NEW P
  PROVE  \E i \in 0 .. n : (\A k \in 1 .. i : k \in P) /\ (i < n => i + 1 \notin P)
<1> DEFINE T == {i \in 0 .. n : i < n => i + 1 \notin P}
<1>1. n \in T /\ T \subseteq Nat OBVIOUS
<1> HIDE DEF T
<1>2. PICK i \in T : \A y \in T : i <= y BY <1>1, LeastExists
<1>3. i \in 0 .. n /\ (i < n => i + 1 \notin P) BY <1>2 DEF T
<1>4. ASSUME NEW k \in 1 .. i PROVE k \in P
  <2>1. k - 1 \in 0 .. n /\ k - 1 < n /\ ~(i <= k - 1) /\ k - 1 + 1 = k BY <1>3
  <2>2. k - 1 \notin T BY <1>2, <2>1
  <2> QED BY <2>1, <2>2 DEF T
<1> QED BY <1>3, <1>4

\* What holds of every range before cut i and of none after it.
Divides(i, rs, P) ==
  /\ i \in 0 .. Len(rs)
  /\ \A k \in 1 .. i : k \in P
  /\ \A k \in i + 1 .. Len(rs) : k \notin P

EndsBelow(rs, a) == {k \in 1 .. Len(rs) : End(rs[k]) < a}
EndsUpto(rs, a) == {k \in 1 .. Len(rs) : End(rs[k]) <= a}
StartsBelow(rs, a) == {k \in 1 .. Len(rs) : Start(rs[k]) < a}
StartsUpto(rs, a) == {k \in 1 .. Len(rs) : Start(rs[k]) <= a}

LEMMA CutDivides ==
  ASSUME NEW rs \in Seq(ByteRanges), NEW P \in SUBSET (1 .. Len(rs)),
         \A j \in 1 .. Len(rs), k \in P : j < k => j \in P,
         NEW i \in 0 .. Len(rs), i < Len(rs) => i + 1 \notin P, \A k \in 1 .. i : k \in P
  PROVE  Divides(i, rs, P)
<1>1. PICK n \in Nat : n = Len(rs) BY SeqFacts
<1>2. ASSUME NEW k \in i + 1 .. n, k \in P PROVE FALSE
  <2>1. i < n /\ i + 1 \in 1 .. n /\ k >= i + 1 BY <1>1
  <2>2. k # i + 1 BY <1>1, <1>2, <2>1
  <2>3. i + 1 < k BY <1>1, <2>1, <2>2
  <2>4. i + 1 \in P BY <1>1, <1>2, <2>1, <2>3
  <2> QED BY <1>1, <2>1, <2>4
<1> QED BY <1>1, <1>2 DEF Divides

\* On a normalized vector the ends and the starts grow.
LEMMA DownClosed ==
  ASSUME NEW rs, Good(rs), NEW a \in Nat,
         NEW P \in {EndsBelow(rs, a), EndsUpto(rs, a), StartsBelow(rs, a), StartsUpto(rs, a)}
  PROVE  P \subseteq 1 .. Len(rs) /\ \A j \in 1 .. Len(rs), k \in P : j < k => j \in P
<1>1. rs \in Seq(ByteRanges) BY DEF Good
<1>2. P \subseteq 1 .. Len(rs) BY DEF EndsBelow, EndsUpto, StartsBelow, StartsUpto
<1>3. ASSUME NEW j \in 1 .. Len(rs), NEW k \in P, j < k PROVE j \in P
  <2>1. k \in 1 .. Len(rs) BY <1>2
  <2>2. /\ Start(rs[k]) \in Nat /\ End(rs[k]) \in Nat /\ Start(rs[k]) < End(rs[k])
        /\ Start(rs[j]) \in Nat /\ End(rs[j]) \in Nat /\ Start(rs[j]) < End(rs[j])
    BY <1>1, <2>1, SeqFacts, RangeFacts DEF Good
  <2>3. End(rs[j]) < Start(rs[k]) BY <1>3, <2>1 DEF Good
  <2>4. CASE P = EndsBelow(rs, a)
    <3>1. End(rs[k]) < a BY <2>4 DEF EndsBelow
    <3>2. End(rs[j]) < a BY <2>2, <2>3, <3>1
    <3> QED BY <2>4, <3>2 DEF EndsBelow
  <2>5. CASE P = EndsUpto(rs, a)
    <3>1. End(rs[k]) <= a BY <2>5 DEF EndsUpto
    <3>2. End(rs[j]) <= a BY <2>2, <2>3, <3>1
    <3> QED BY <2>5, <3>2 DEF EndsUpto
  <2>6. CASE P = StartsBelow(rs, a)
    <3>1. Start(rs[k]) < a BY <2>6 DEF StartsBelow
    <3>2. Start(rs[j]) < a BY <2>2, <2>3, <3>1
    <3> QED BY <2>6, <3>2 DEF StartsBelow
  <2>7. CASE P = StartsUpto(rs, a)
    <3>1. Start(rs[k]) <= a BY <2>7 DEF StartsUpto
    <3>2. Start(rs[j]) <= a BY <2>2, <2>3, <3>1
    <3> QED BY <2>7, <3>2 DEF StartsUpto
  <2> QED BY <2>4, <2>5, <2>6, <2>7
<1> QED BY <1>2, <1>3

\* What the four searches of insert, remove and the queries find.
LEMMA Searches ==
  ASSUME NEW rs, Good(rs), NEW a \in Nat
  PROVE  /\ \E i \in 0 .. Len(rs) : (\A k \in 1 .. i : End(rs[k]) < a) /\ (i < Len(rs) => ~(End(rs[i + 1]) < a))
         /\ \E i \in 0 .. Len(rs) : (\A k \in 1 .. i : End(rs[k]) <= a) /\ (i < Len(rs) => ~(End(rs[i + 1]) <= a))
         /\ \E i \in 0 .. Len(rs) : (\A k \in 1 .. i : Start(rs[k]) < a) /\ (i < Len(rs) => ~(Start(rs[i + 1]) < a))
         /\ \E i \in 0 .. Len(rs) : (\A k \in 1 .. i : Start(rs[k]) <= a) /\ (i < Len(rs) => ~(Start(rs[i + 1]) <= a))
<1>1. PICK n \in Nat : n = Len(rs) BY SeqFacts DEF Good
<1>2. \A P : \E i \in 0 .. n : (\A k \in 1 .. i : k \in P) /\ (i < n => i + 1 \notin P) BY PointExists
<1>3. \A i \in 0 .. n : (\A k \in 1 .. i : k \in 1 .. n) /\ (i < n => i + 1 \in 1 .. n) OBVIOUS
<1>4. PICK i \in 0 .. n : (\A k \in 1 .. i : k \in EndsBelow(rs, a)) /\ (i < n => i + 1 \notin EndsBelow(rs, a))
  BY <1>2
<1>5. PICK j \in 0 .. n : (\A k \in 1 .. j : k \in EndsUpto(rs, a)) /\ (j < n => j + 1 \notin EndsUpto(rs, a))
  BY <1>2
<1>6. PICK l \in 0 .. n : (\A k \in 1 .. l : k \in StartsBelow(rs, a)) /\ (l < n => l + 1 \notin StartsBelow(rs, a))
  BY <1>2
<1>7. PICK m \in 0 .. n : (\A k \in 1 .. m : k \in StartsUpto(rs, a)) /\ (m < n => m + 1 \notin StartsUpto(rs, a))
  BY <1>2
<1>8. (\A k \in 1 .. i : End(rs[k]) < a) /\ (i < n => ~(End(rs[i + 1]) < a)) BY <1>1, <1>3, <1>4 DEF EndsBelow
<1>9. (\A k \in 1 .. j : End(rs[k]) <= a) /\ (j < n => ~(End(rs[j + 1]) <= a)) BY <1>1, <1>3, <1>5 DEF EndsUpto
<1>10. (\A k \in 1 .. l : Start(rs[k]) < a) /\ (l < n => ~(Start(rs[l + 1]) < a)) BY <1>1, <1>3, <1>6 DEF StartsBelow
<1>11. (\A k \in 1 .. m : Start(rs[k]) <= a) /\ (m < n => ~(Start(rs[m + 1]) <= a)) BY <1>1, <1>3, <1>7 DEF StartsUpto
<1> QED BY <1>1, <1>8, <1>9, <1>10, <1>11

\* A place the search may end at divides the vector.
LEMMA Found ==
  ASSUME NEW rs, Good(rs), NEW a \in Nat, NEW i \in 0 .. Len(rs)
  PROVE  /\ (\A k \in 1 .. i : End(rs[k]) < a) /\ (i < Len(rs) => ~(End(rs[i + 1]) < a))
              => Divides(i, rs, EndsBelow(rs, a))
         /\ (\A k \in 1 .. i : End(rs[k]) <= a) /\ (i < Len(rs) => ~(End(rs[i + 1]) <= a))
              => Divides(i, rs, EndsUpto(rs, a))
         /\ (\A k \in 1 .. i : Start(rs[k]) < a) /\ (i < Len(rs) => ~(Start(rs[i + 1]) < a))
              => Divides(i, rs, StartsBelow(rs, a))
         /\ (\A k \in 1 .. i : Start(rs[k]) <= a) /\ (i < Len(rs) => ~(Start(rs[i + 1]) <= a))
              => Divides(i, rs, StartsUpto(rs, a))
<1>1. rs \in Seq(ByteRanges) BY DEF Good
<1>2. PICK n \in Nat : n = Len(rs) BY <1>1, SeqFacts
<1>3. (\A k \in 1 .. i : k \in 1 .. n) BY <1>2
<1>4. \A P \in {EndsBelow(rs, a), EndsUpto(rs, a), StartsBelow(rs, a), StartsUpto(rs, a)} :
        (\A k \in 1 .. i : k \in P) /\ (i < n => i + 1 \notin P) => Divides(i, rs, P)
  BY <1>1, <1>2, DownClosed, CutDivides
<1>5. /\ (\A k \in 1 .. i : End(rs[k]) < a) => (\A k \in 1 .. i : k \in EndsBelow(rs, a))
      /\ ~(End(rs[i + 1]) < a) => i + 1 \notin EndsBelow(rs, a)
  BY <1>2, <1>3 DEF EndsBelow
<1>6. /\ (\A k \in 1 .. i : End(rs[k]) <= a) => (\A k \in 1 .. i : k \in EndsUpto(rs, a))
      /\ ~(End(rs[i + 1]) <= a) => i + 1 \notin EndsUpto(rs, a)
  BY <1>2, <1>3 DEF EndsUpto
<1>7. /\ (\A k \in 1 .. i : Start(rs[k]) < a) => (\A k \in 1 .. i : k \in StartsBelow(rs, a))
      /\ ~(Start(rs[i + 1]) < a) => i + 1 \notin StartsBelow(rs, a)
  BY <1>2, <1>3 DEF StartsBelow
<1>8. /\ (\A k \in 1 .. i : Start(rs[k]) <= a) => (\A k \in 1 .. i : k \in StartsUpto(rs, a))
      /\ ~(Start(rs[i + 1]) <= a) => i + 1 \notin StartsUpto(rs, a)
  BY <1>2, <1>3 DEF StartsUpto
<1> QED BY <1>2, <1>4, <1>5, <1>6, <1>7, <1>8

LEMMA TouchingPoints ==
  ASSUME NEW rs, Good(rs), NEW r \in ByteRanges
  PROVE  /\ Divides(FirstTouching(rs, r), rs, EndsBelow(rs, Start(r)))
         /\ Divides(AfterTouching(rs, r), rs, StartsUpto(rs, End(r)))
<1>1. PICK a \in Nat, b \in Nat : a = Start(r) /\ b = End(r) BY RangeFacts
<1>2. PICK i : i = FirstTouching(rs, r) OBVIOUS
<1>3. PICK j : j = AfterTouching(rs, r) OBVIOUS
<1>4. i \in 0 .. Len(rs) /\ (\A k \in 1 .. i : End(rs[k]) < a) /\ (i < Len(rs) => ~(End(rs[i + 1]) < a))
  BY <1>1, <1>2, Searches DEF FirstTouching, PartitionPoint
<1>5. j \in 0 .. Len(rs) /\ (\A k \in 1 .. j : Start(rs[k]) <= b) /\ (j < Len(rs) => ~(Start(rs[j + 1]) <= b))
  BY <1>1, <1>3, Searches DEF AfterTouching, PartitionPoint
<1> QED BY <1>1, <1>2, <1>3, <1>4, <1>5, Found

-----------------------------------------------------------------------------
(***************************************************************************)
(* insert.                                                                 *)
(***************************************************************************)
\* A normalized set with its exact count.
Whole(rs) == [ranges |-> rs, covered |-> Cardinality(Denotes(rs))]

LEMMA OneRangeSeq ==
  ASSUME NEW m \in ByteRanges, Start(m) < End(m)
  PROVE  Good(<<m>>) /\ Denotes(<<m>>) = BytesOf(m)
<1>1. <<m>> \in Seq(ByteRanges) /\ Len(<<m>>) = 1 /\ <<m>>[1] = m OBVIOUS
<1>2. \A i \in 1 .. 1 : i = 1 OBVIOUS
<1>3. Good(<<m>>) BY <1>1, <1>2 DEF Good
<1>4. \A b : b \in Denotes(<<m>>) <=> b \in BytesOf(m) BY <1>1, <1>2, DenotesMember
<1> QED BY <1>3, <1>4

LEMMA MinMax ==
  ASSUME NEW a \in Nat, NEW b \in Nat
  PROVE  /\ Min({a, b}) = IF a <= b THEN a ELSE b
         /\ Max({a, b}) = IF a >= b THEN a ELSE b
<1>1. PICK l \in {a, b} : (\A y \in {a, b} : l <= y) /\ l = IF a <= b THEN a ELSE b OBVIOUS
<1>2. PICK g \in {a, b} : (\A y \in {a, b} : g >= y) /\ g = IF a >= b THEN a ELSE b OBVIOUS
<1>3. Min({a, b}) \in {a, b} /\ \A y \in {a, b} : Min({a, b}) <= y BY <1>1 DEF Min
<1>4. Max({a, b}) \in {a, b} /\ \A y \in {a, b} : Max({a, b}) >= y BY <1>2 DEF Max
<1>5. Min({a, b}) = l BY <1>1, <1>3
<1>6. Max({a, b}) = g BY <1>2, <1>4
<1> QED BY <1>1, <1>2, <1>5, <1>6

\* The ranges that overlap or touch r and r itself cover one range without a hole.
LEMMA InsertExact ==
  ASSUME NEW rs, Good(rs), NEW r \in ByteRanges
  PROVE  \E ns : /\ InsertInto(Whole(rs), r) = Whole(ns)
                 /\ Good(ns) /\ Denotes(ns) = Denotes(rs) \cup BytesOf(r)
<1>0. rs \in Seq(ByteRanges) BY DEF Good
<1>1. PICK a \in Nat, b \in Nat : a = Start(r) /\ b = End(r) /\ a <= b /\ b <= MaxByte BY RangeFacts
<1>2. PICK n \in Nat : n = Len(rs) BY <1>0, SeqFacts
<1>3. PICK lo : lo = FirstTouching(rs, r) OBVIOUS
<1>4. PICK hi : hi = AfterTouching(rs, r) OBVIOUS
<1>5. Divides(lo, rs, EndsBelow(rs, a)) /\ Divides(hi, rs, StartsUpto(rs, b))
  BY <1>1, <1>3, <1>4, TouchingPoints
<1>6. \A k \in 1 .. n : /\ Start(rs[k]) \in Nat /\ End(rs[k]) \in Nat
                        /\ Start(rs[k]) < End(rs[k]) /\ End(rs[k]) <= MaxByte
  BY <1>0, <1>2, SeqFacts, RangeFacts DEF Good
<1>7. /\ lo \in Nat /\ lo <= n /\ hi \in Nat /\ hi <= n
      /\ \A k \in 1 .. lo : k \in 1 .. n /\ End(rs[k]) < a
      /\ \A k \in lo + 1 .. n : k \in 1 .. n /\ End(rs[k]) >= a
      /\ \A k \in 1 .. hi : k \in 1 .. n /\ Start(rs[k]) <= b
      /\ \A k \in hi + 1 .. n : k \in 1 .. n /\ Start(rs[k]) > b
  <2>1. lo \in 0 .. n /\ hi \in 0 .. n BY <1>2, <1>5 DEF Divides
  <2>2. /\ \A k \in 1 .. lo : k \in 1 .. n
        /\ \A k \in lo + 1 .. n : k \in 1 .. n
        /\ \A k \in 1 .. hi : k \in 1 .. n
        /\ \A k \in hi + 1 .. n : k \in 1 .. n
    BY <2>1
  <2>3. /\ \A k \in 1 .. lo : End(rs[k]) < a
        /\ \A k \in lo + 1 .. n : ~(End(rs[k]) < a)
        /\ \A k \in 1 .. hi : Start(rs[k]) <= b
        /\ \A k \in hi + 1 .. n : ~(Start(rs[k]) <= b)
    BY <1>2, <1>5, <2>2 DEF Divides, EndsBelow, StartsUpto
  <2> QED BY <1>6, <2>1, <2>2, <2>3
<1>8. CASE a >= b
  <2>1. BytesOf(r) = {} BY <1>1, <1>8 DEF BytesOf
  <2>2. InsertInto(Whole(rs), r) = Whole(rs) BY <1>1, <1>8 DEF InsertInto
  <2> QED BY <2>1, <2>2
<1>9. CASE a < b
  <2>1. lo <= hi
    <3> SUFFICES ASSUME hi < lo PROVE FALSE BY <1>7
    <3>1. hi + 1 \in 1 .. lo /\ hi + 1 \in hi + 1 .. n /\ hi + 1 \in 1 .. n BY <1>7
    <3>2. End(rs[hi + 1]) < a /\ Start(rs[hi + 1]) > b BY <1>7, <3>1
    <3> QED BY <1>1, <1>6, <3>1, <3>2
  <2>2. PICK m : m = IF lo = hi THEN r
                     ELSE <<Min({Start(r), Start(rs[lo + 1])}), Max({End(r), End(rs[hi])})>> OBVIOUS
  <2>3. PICK c \in Nat, d \in Nat :
          /\ m \in ByteRanges /\ Start(m) = c /\ End(m) = d /\ c <= a /\ b <= d
          /\ c # a => lo < hi /\ c = Start(rs[lo + 1])
          /\ d # b => lo < hi /\ d = End(rs[hi])
          /\ lo < hi => c <= Start(rs[lo + 1]) /\ End(rs[hi]) <= d
    <3>1. CASE lo = hi
      <4>1. m = r /\ ~(lo < hi) BY <1>7, <2>2, <3>1
      <4>2. /\ m \in ByteRanges /\ Start(m) = a /\ End(m) = b /\ a <= a /\ b <= b
        BY <1>1, <4>1
      <4> QED BY <4>1, <4>2
    <3>2. CASE lo # hi
      <4>1. lo < hi /\ lo + 1 \in 1 .. n /\ hi \in 1 .. n BY <1>7, <2>1, <3>2
      <4>2. PICK e \in Nat, f \in Nat : e = Start(rs[lo + 1]) /\ f = End(rs[hi]) /\ f <= MaxByte BY <1>6, <4>1
      <4>3. PICK c \in Nat, d \in Nat : c = (IF a <= e THEN a ELSE e) /\ d = (IF b >= f THEN b ELSE f) OBVIOUS
      <4>4. m = <<c, d>> BY <1>1, <2>2, <3>2, <4>2, <4>3, MinMax
      <4>5. c <= a /\ b <= d /\ c <= d /\ d <= MaxByte /\ c <= e /\ f <= d BY <1>1, <4>2, <4>3
      <4>6. m \in ByteRanges /\ Start(m) = c /\ End(m) = d BY <4>4, <4>5, MakeRange
      <4>7. (c # a => c = e) /\ (d # b => d = f) BY <4>3
      <4>8. /\ c # a => lo < hi /\ c = Start(rs[lo + 1])
            /\ d # b => lo < hi /\ d = End(rs[hi])
            /\ lo < hi => c <= Start(rs[lo + 1]) /\ End(rs[hi]) <= d
        BY <4>1, <4>2, <4>5, <4>7
      <4> QED BY <4>5, <4>6, <4>8
    <3> QED BY <3>1, <3>2
  <2>4. PICK new : new = <<m>> OBVIOUS
  <2>5. Good(new) /\ Denotes(new) = BytesOf(m) BY <1>9, <2>3, <2>4, OneRangeSeq
  <2>6. Clear(rs, lo, hi, new)
    <3>1. Len(new) = 1 /\ new[1] = m /\ \A k \in 1 .. 1 : k = 1 BY <2>4
    <3>2. ASSUME NEW i \in 1 .. lo PROVE End(rs[i]) < Start(m)
      <4>1. CASE c = a BY <1>7, <2>3, <4>1
      <4>2. CASE c # a
        <5>1. i \in 1 .. n /\ lo + 1 \in 1 .. n /\ i < lo + 1 BY <1>7, <2>3, <4>2
        <5> QED BY <1>2, <2>3, <4>2, <5>1 DEF Good
      <4> QED BY <4>1, <4>2
    <3>3. ASSUME NEW j \in hi + 1 .. n PROVE End(m) < Start(rs[j])
      <4>1. CASE d = b BY <1>6, <1>7, <2>3, <4>1
      <4>2. CASE d # b
        <5>1. j \in 1 .. n /\ hi \in 1 .. n /\ hi < j BY <1>7, <2>3, <4>2
        <5> QED BY <1>2, <2>3, <4>2, <5>1 DEF Good
      <4> QED BY <4>1, <4>2
    <3> QED BY <1>2, <3>1, <3>2, <3>3 DEF Clear
  <2>7. lo \in 0 .. Len(rs) /\ hi \in lo .. Len(rs) BY <1>2, <1>7, <2>1
  <2>8. PICK ns : ns = Splice(rs, lo, hi, new) OBVIOUS
  <2>9. PICK K, M : K = Kept(rs, lo, hi) /\ M = Some(rs, lo + 1 .. hi) OBVIOUS
  <2>10. /\ Good(ns) /\ Denotes(ns) = K \cup BytesOf(m) /\ Denotes(rs) = K \cup M
         /\ CoveredAfter(Cardinality(Denotes(rs)), SubSeq(rs, lo + 1, hi), new) = Cardinality(Denotes(ns))
    BY <2>5, <2>6, <2>7, <2>8, <2>9, SpliceExact
  <2>11. InsertInto(Whole(rs), r) = Whole(ns)
    BY <1>1, <1>3, <1>4, <1>9, <2>2, <2>4, <2>8, <2>10 DEF InsertInto, Whole
  <2>12. ASSUME NEW x \in BytesOf(m) PROVE x \in M \cup BytesOf(r)
    <3>1. x \in Nat /\ c <= x /\ x < d BY <2>3, RangeFacts
    <3>2. CASE x < a
      <4>1. lo < hi /\ c = Start(rs[lo + 1]) BY <2>3, <3>1, <3>2
      <4>2. lo + 1 \in lo + 1 .. hi /\ lo + 1 \in lo + 1 .. n /\ lo + 1 \in 1 .. n BY <1>7, <4>1
      <4>3. End(rs[lo + 1]) >= a /\ rs[lo + 1] \in ByteRanges BY <1>0, <1>2, <1>7, <4>2, SeqFacts
      <4>4. x < End(rs[lo + 1]) BY <1>6, <3>1, <3>2, <4>2, <4>3
      <4>5. x \in BytesOf(rs[lo + 1]) BY <3>1, <4>1, <4>3, <4>4, RangeFacts
      <4> QED BY <2>9, <4>2, <4>5 DEF Some
    <3>3. CASE x >= b
      <4>1. lo < hi /\ d = End(rs[hi]) BY <2>3, <3>1, <3>3
      <4>2. hi \in lo + 1 .. hi /\ hi \in 1 .. hi /\ hi \in 1 .. n BY <1>7, <4>1
      <4>3. Start(rs[hi]) <= b /\ rs[hi] \in ByteRanges BY <1>0, <1>2, <1>7, <4>2, SeqFacts
      <4>4. Start(rs[hi]) <= x BY <1>6, <3>1, <3>3, <4>2, <4>3
      <4>5. x \in BytesOf(rs[hi]) BY <3>1, <4>1, <4>3, <4>4, RangeFacts
      <4> QED BY <2>9, <4>2, <4>5 DEF Some
    <3>4. CASE a <= x /\ x < b BY <1>1, <3>1, <3>4, RangeFacts
    <3> QED BY <1>1, <3>1, <3>2, <3>3, <3>4
  <2>13. ASSUME NEW x \in BytesOf(r) PROVE x \in BytesOf(m)
    <3>1. x \in Nat /\ a <= x /\ x < b BY <1>1, RangeFacts
    <3>2. c <= x /\ x < d BY <1>1, <2>3, <3>1
    <3> QED BY <2>3, <3>1, <3>2, RangeFacts
  <2>14. ASSUME NEW x \in M PROVE x \in BytesOf(m)
    <3>1. PICK k \in lo + 1 .. hi : x \in BytesOf(rs[k]) BY <2>9 DEF Some
    <3>2. k \in 1 .. n /\ lo < hi /\ lo + 1 \in 1 .. n /\ hi \in 1 .. n /\ lo + 1 <= k /\ k <= hi BY <1>7, <2>1
    <3>3. rs[k] \in ByteRanges BY <1>0, <1>2, <3>2, SeqFacts
    <3>4. x \in Nat /\ Start(rs[k]) <= x /\ x < End(rs[k]) BY <3>1, <3>3, RangeFacts
    <3>5. Start(rs[lo + 1]) <= Start(rs[k])
      <4>1. CASE k = lo + 1 BY <1>6, <3>2, <4>1
      <4>2. CASE k # lo + 1
        <5>1. lo + 1 < k BY <1>7, <3>2, <4>2
        <5>2. End(rs[lo + 1]) < Start(rs[k]) BY <1>2, <3>2, <5>1 DEF Good
        <5> QED BY <1>6, <3>2, <5>2
      <4> QED BY <4>1, <4>2
    <3>6. End(rs[k]) <= End(rs[hi])
      <4>1. CASE k = hi BY <1>6, <3>2, <4>1
      <4>2. CASE k # hi
        <5>1. k < hi BY <1>7, <3>2, <4>2
        <5>2. End(rs[k]) < Start(rs[hi]) BY <1>2, <3>2, <5>1 DEF Good
        <5> QED BY <1>6, <3>2, <5>2
      <4> QED BY <4>1, <4>2
    <3>7. c <= Start(rs[lo + 1]) /\ End(rs[hi]) <= d BY <2>3, <3>2
    <3>8. c <= x /\ x < d
      <4>1. /\ Start(rs[k]) \in Nat /\ End(rs[k]) \in Nat
            /\ Start(rs[lo + 1]) \in Nat /\ End(rs[hi]) \in Nat
        BY <1>6, <3>2
      <4> QED BY <3>4, <3>5, <3>6, <3>7, <4>1
    <3> QED BY <2>3, <3>4, <3>8, RangeFacts
  <2>15. Denotes(ns) = Denotes(rs) \cup BytesOf(r) BY <2>10, <2>12, <2>13, <2>14
  <2> QED BY <2>10, <2>11, <2>15
<1> QED BY <1>1, <1>8, <1>9

-----------------------------------------------------------------------------
(***************************************************************************)
(* remove.                                                                 *)
(***************************************************************************)
\* At most two ranges, one for each side of what is removed.
LEMMA RemnantsGood ==
  ASSUME NEW first \in ByteRanges, NEW last \in ByteRanges, NEW r \in ByteRanges, Start(r) < End(r),
         NEW new, new = Remnants(first, last, r)
  PROVE  /\ Good(new)
         /\ \A k \in 1 .. Len(new) :
              \/ Start(first) < Start(r) /\ Start(new[k]) = Start(first) /\ End(new[k]) = Start(r)
              \/ End(last) > End(r) /\ Start(new[k]) = End(r) /\ End(new[k]) = End(last)
         /\ Start(first) < Start(r) => BytesOf(<<Start(first), Start(r)>>) \subseteq Denotes(new)
         /\ End(last) > End(r) => BytesOf(<<End(r), End(last)>>) \subseteq Denotes(new)
<1>1. PICK a \in Nat, b \in Nat : a = Start(r) /\ b = End(r) /\ a < b /\ b <= MaxByte BY RangeFacts
<1>2. PICK c \in Nat, d \in Nat : c = Start(first) /\ d = End(last) /\ d <= MaxByte BY RangeFacts
<1>3. PICK x, y : x = <<c, a>> /\ y = <<b, d>> OBVIOUS
<1>4. c < a => x \in ByteRanges /\ Start(x) = c /\ End(x) = a
  <2>1. a <= MaxByte BY <1>1, MaxByteAssumption
  <2> QED BY <1>3, <2>1, MakeRange
<1>5. d > b => y \in ByteRanges /\ Start(y) = b /\ End(y) = d BY <1>2, <1>3, MakeRange
<1>6. new = (IF c < a THEN <<x>> ELSE <<>>) \o (IF d > b THEN <<y>> ELSE <<>>)
  BY <1>1, <1>2, <1>3 DEF Remnants
<1> SUFFICES /\ Good(new)
             /\ \A k \in 1 .. Len(new) :
                  \/ c < a /\ Start(new[k]) = c /\ End(new[k]) = a
                  \/ d > b /\ Start(new[k]) = b /\ End(new[k]) = d
             /\ c < a => BytesOf(x) \subseteq Denotes(new)
             /\ d > b => BytesOf(y) \subseteq Denotes(new)
  BY <1>1, <1>2, <1>3
<1>7. CASE c < a /\ d > b
  <2>1. new = <<x>> \o <<y>> BY <1>6, <1>7
  <2>2. Len(new) = 2 /\ new[1] = x /\ new[2] = y /\ new \in Seq(ByteRanges)
    <3>1. <<x>> \in Seq(ByteRanges) /\ <<y>> \in Seq(ByteRanges) /\ Len(<<x>>) = 1 /\ Len(<<y>>) = 1
          /\ <<x>>[1] = x /\ <<y>>[1] = y
      BY <1>4, <1>5, <1>7
    <3>2. /\ new \in Seq(ByteRanges) /\ Len(new) = 1 + 1
          /\ \A i \in 1 .. 1 + 1 : new[i] = IF i <= 1 THEN <<x>>[i] ELSE <<y>>[i - 1]
      BY <2>1, <3>1, ConcatProperties
    <3> QED BY <3>1, <3>2
  <2>3. \A k \in 1 .. 2 : k = 1 \/ k = 2 OBVIOUS
  <2>4. \A k \in 1 .. 2 : Start(new[k]) < End(new[k]) BY <1>4, <1>5, <1>7, <2>2, <2>3
  <2>5. ASSUME NEW i \in 1 .. 2, NEW j \in 1 .. 2, i < j PROVE End(new[i]) < Start(new[j])
    <3>1. i = 1 /\ j = 2 BY <2>5
    <3> QED BY <1>1, <1>4, <1>5, <1>7, <2>2, <3>1
  <2>6. Good(new) BY <2>2, <2>4, <2>5 DEF Good
  <2>7. 1 \in 1 .. 2 /\ 2 \in 1 .. 2 OBVIOUS
  <2>8. BytesOf(x) \subseteq Denotes(new) /\ BytesOf(y) \subseteq Denotes(new) BY <2>2, <2>7, DenotesMember
  <2> QED BY <1>4, <1>5, <1>7, <2>2, <2>3, <2>6, <2>8
<1>8. CASE c < a /\ ~(d > b)
  <2>1. new = <<x>> BY <1>6, <1>8
  <2>2. Good(new) /\ Denotes(new) = BytesOf(x) BY <1>4, <1>8, <2>1, OneRangeSeq
  <2>3. Len(new) = 1 /\ new[1] = x /\ \A k \in 1 .. 1 : k = 1 BY <2>1
  <2> QED BY <1>4, <1>8, <2>2, <2>3
<1>9. CASE ~(c < a) /\ d > b
  <2>1. new = <<y>> BY <1>6, <1>9
  <2>2. Good(new) /\ Denotes(new) = BytesOf(y) BY <1>5, <1>9, <2>1, OneRangeSeq
  <2>3. Len(new) = 1 /\ new[1] = y /\ \A k \in 1 .. 1 : k = 1 BY <2>1
  <2> QED BY <1>5, <1>9, <2>2, <2>3
<1>10. CASE ~(c < a) /\ ~(d > b)
  <2>1. new = <<>> BY <1>6, <1>10
  <2>2. Len(new) = 0 /\ new \in Seq(ByteRanges) /\ 1 .. 0 = {} BY <2>1
  <2> QED BY <1>10, <2>2 DEF Good
<1> QED BY <1>7, <1>8, <1>9, <1>10

LEMMA RemoveSplice ==
  ASSUME NEW rs, Good(rs), NEW r \in ByteRanges, Start(r) < End(r),
         NEW lo, Divides(lo, rs, EndsUpto(rs, Start(r))), NEW hi, Divides(hi, rs, StartsBelow(rs, End(r))),
         lo < hi, NEW new, new = Remnants(rs[lo + 1], rs[hi], r), NEW ns, ns = Splice(rs, lo, hi, new)
  PROVE  /\ Good(ns) /\ Denotes(ns) = Denotes(rs) \ BytesOf(r)
         /\ CoveredAfter(Cardinality(Denotes(rs)), SubSeq(rs, lo + 1, hi), new) = Cardinality(Denotes(ns))
<1>0. rs \in Seq(ByteRanges) BY DEF Good
<1>1. PICK a \in Nat, b \in Nat : a = Start(r) /\ b = End(r) /\ a < b /\ b <= MaxByte BY RangeFacts
<1>2. PICK n \in Nat : n = Len(rs) BY <1>0, SeqFacts
<1>6. \A k \in 1 .. n : /\ Start(rs[k]) \in Nat /\ End(rs[k]) \in Nat
                        /\ Start(rs[k]) < End(rs[k]) /\ End(rs[k]) <= MaxByte
  BY <1>0, <1>2, SeqFacts, RangeFacts DEF Good
<1>7. /\ lo \in Nat /\ lo <= n /\ hi \in Nat /\ hi <= n
      /\ \A k \in 1 .. lo : k \in 1 .. n /\ End(rs[k]) <= a
      /\ \A k \in lo + 1 .. n : k \in 1 .. n /\ End(rs[k]) > a
      /\ \A k \in 1 .. hi : k \in 1 .. n /\ Start(rs[k]) < b
      /\ \A k \in hi + 1 .. n : k \in 1 .. n /\ Start(rs[k]) >= b
  <2>1. lo \in 0 .. n /\ hi \in 0 .. n BY <1>2 DEF Divides
  <2>2. /\ \A k \in 1 .. lo : k \in 1 .. n
        /\ \A k \in lo + 1 .. n : k \in 1 .. n
        /\ \A k \in 1 .. hi : k \in 1 .. n
        /\ \A k \in hi + 1 .. n : k \in 1 .. n
    BY <2>1
  <2>3. /\ \A k \in 1 .. lo : End(rs[k]) <= a
        /\ \A k \in lo + 1 .. n : ~(End(rs[k]) <= a)
        /\ \A k \in 1 .. hi : Start(rs[k]) < b
        /\ \A k \in hi + 1 .. n : ~(Start(rs[k]) < b)
    BY <1>1, <1>2, <2>2 DEF Divides, EndsUpto, StartsBelow
  <2> QED BY <1>6, <2>1, <2>2, <2>3
<1>8. PICK first \in ByteRanges, last \in ByteRanges : first = rs[lo + 1] /\ last = rs[hi]
  BY <1>0, <1>2, <1>7, SeqFacts
<1>9. lo + 1 \in 1 .. n /\ hi \in 1 .. n /\ lo + 1 \in lo + 1 .. hi /\ hi \in lo + 1 .. hi BY <1>7
<1>10. PICK c \in Nat, d \in Nat, e \in Nat, f \in Nat :
         c = Start(first) /\ d = End(last) /\ e = End(first) /\ f = Start(last) /\ d <= MaxByte
  BY RangeFacts
<1>11. e > a /\ f < b
  <2>1. lo + 1 \in lo + 1 .. n /\ hi \in 1 .. hi BY <1>7
  <2> QED BY <1>7, <1>8, <1>10, <2>1
<1>12. /\ Good(new)
       /\ \A k \in 1 .. Len(new) :
            \/ c < a /\ Start(new[k]) = c /\ End(new[k]) = a
            \/ d > b /\ Start(new[k]) = b /\ End(new[k]) = d
       /\ c < a => BytesOf(<<c, a>>) \subseteq Denotes(new)
       /\ d > b => BytesOf(<<b, d>>) \subseteq Denotes(new)
  BY <1>1, <1>8, <1>10, RemnantsGood
<1>13. Clear(rs, lo, hi, new)
  <2>1. ASSUME NEW i \in 1 .. lo, NEW k \in 1 .. Len(new) PROVE End(rs[i]) < Start(new[k])
    <3>1. End(rs[i]) <= a /\ End(rs[i]) \in Nat /\ i \in 1 .. n BY <1>6, <1>7
    <3>2. End(rs[i]) < c
      <4>1. i < lo + 1 BY <1>7
      <4> QED BY <1>2, <1>8, <1>9, <1>10, <3>1, <4>1 DEF Good
    <3> QED BY <1>1, <1>12, <3>1, <3>2
  <2>2. ASSUME NEW j \in hi + 1 .. n, NEW k \in 1 .. Len(new) PROVE End(new[k]) < Start(rs[j])
    <3>1. Start(rs[j]) >= b /\ Start(rs[j]) \in Nat /\ j \in 1 .. n BY <1>6, <1>7
    <3>2. d < Start(rs[j])
      <4>1. hi < j BY <1>7
      <4> QED BY <1>2, <1>8, <1>9, <1>10, <3>1, <4>1 DEF Good
    <3> QED BY <1>1, <1>12, <3>1, <3>2
  <2> QED BY <1>2, <2>1, <2>2 DEF Clear
<1>14. lo \in 0 .. Len(rs) /\ hi \in lo .. Len(rs) BY <1>2, <1>7
<1>15. PICK K, M, N : K = Kept(rs, lo, hi) /\ M = Some(rs, lo + 1 .. hi) /\ N = Denotes(new) OBVIOUS
<1>16. /\ Good(ns) /\ Denotes(ns) = K \cup N /\ Denotes(rs) = K \cup M
       /\ CoveredAfter(Cardinality(Denotes(rs)), SubSeq(rs, lo + 1, hi), new) = Cardinality(Denotes(ns))
  BY <1>12, <1>13, <1>14, <1>15, SpliceExact
<1>17. ASSUME NEW x \in K PROVE x \notin BytesOf(r)
  <2>1. PICK i \in (1 .. lo) \cup (hi + 1 .. n) : x \in BytesOf(rs[i]) BY <1>2, <1>15 DEF Kept, Some
  <2>2. i \in 1 .. n /\ (End(rs[i]) <= a \/ Start(rs[i]) >= b) BY <1>7
  <2>3. rs[i] \in ByteRanges BY <1>0, <1>2, <2>2, SeqFacts
  <2>4. x \in Nat /\ Start(rs[i]) <= x /\ x < End(rs[i]) BY <2>1, <2>3, RangeFacts
  <2>5. x < a \/ x >= b BY <1>6, <2>2, <2>4
  <2> QED BY <1>1, <2>4, <2>5, RangeFacts
<1>18. ASSUME NEW x \in N PROVE x \in M /\ x \notin BytesOf(r)
  <2>0. new \in Seq(ByteRanges) BY <1>12 DEF Good
  <2>1. PICK k \in 1 .. Len(new) : x \in BytesOf(new[k]) BY <1>15, DenotesMember
  <2>2. x \in Nat /\ Start(new[k]) <= x /\ x < End(new[k]) BY <2>0, <2>1, SeqFacts, RangeFacts
  <2>3. CASE c < a /\ Start(new[k]) = c /\ End(new[k]) = a
    <3>1. c <= x /\ x < e /\ ~(a <= x) BY <1>11, <2>2, <2>3
    <3>2. x \in BytesOf(first) BY <1>10, <2>2, <3>1, RangeFacts
    <3> QED BY <1>1, <1>8, <1>9, <1>15, <3>1, <3>2, RangeFacts DEF Some
  <2>4. CASE d > b /\ Start(new[k]) = b /\ End(new[k]) = d
    <3>1. f <= x /\ x < d /\ ~(x < b) BY <1>11, <2>2, <2>4
    <3>2. x \in BytesOf(last) BY <1>10, <2>2, <3>1, RangeFacts
    <3> QED BY <1>1, <1>8, <1>9, <1>15, <3>1, <3>2, RangeFacts DEF Some
  <2> QED BY <1>12, <2>3, <2>4
<1>19. ASSUME NEW x \in M, x \notin BytesOf(r) PROVE x \in N
  <2>1. PICK k \in lo + 1 .. hi : x \in BytesOf(rs[k]) BY <1>15 DEF Some
  <2>2. k \in 1 .. n /\ lo + 1 <= k /\ k <= hi BY <1>7
  <2>3. rs[k] \in ByteRanges BY <1>0, <1>2, <2>2, SeqFacts
  <2>4. x \in Nat /\ Start(rs[k]) <= x /\ x < End(rs[k]) BY <2>1, <2>3, RangeFacts
  <2>5. x < a \/ x >= b BY <1>1, <1>19, <2>4, RangeFacts
  <2>6. CASE x < a
    <3>1. k = lo + 1
      <4> SUFFICES ASSUME k # lo + 1 PROVE FALSE OBVIOUS
      <4>1. lo + 1 < k BY <1>7, <2>2
      <4>2. e < Start(rs[k]) BY <1>2, <1>8, <1>9, <1>10, <2>2, <4>1 DEF Good
      <4> QED BY <1>6, <1>11, <2>2, <2>4, <2>6, <4>2
    <3>2. c <= x /\ c < a BY <1>8, <1>10, <2>4, <2>6, <3>1
    <3>3. x \in BytesOf(<<c, a>>) BY <2>4, <2>6, <3>2 DEF BytesOf, Start, End
    <3> QED BY <1>12, <1>15, <3>2, <3>3
  <2>7. CASE x >= b
    <3>1. k = hi
      <4> SUFFICES ASSUME k # hi PROVE FALSE OBVIOUS
      <4>1. k < hi BY <1>7, <2>2
      <4>2. End(rs[k]) < f BY <1>2, <1>8, <1>9, <1>10, <2>2, <4>1 DEF Good
      <4> QED BY <1>6, <1>11, <2>2, <2>4, <2>7, <4>2
    <3>2. x < d /\ d > b BY <1>8, <1>10, <2>4, <2>7, <3>1
    <3>3. x \in BytesOf(<<b, d>>) BY <2>4, <2>7, <3>2 DEF BytesOf, Start, End
    <3> QED BY <1>12, <1>15, <3>2, <3>3
  <2> QED BY <2>5, <2>6, <2>7
<1>20. Denotes(ns) = Denotes(rs) \ BytesOf(r) BY <1>16, <1>17, <1>18, <1>19
<1> QED BY <1>16, <1>20

LEMMA RemoveExact ==
  ASSUME Good(ranges), covered = Cardinality(Denotes(ranges)), NEW r \in ByteRanges, RemoveRange(r)
  PROVE  /\ Good(ranges') /\ covered' = Cardinality(Denotes(ranges'))
         /\ Denotes(ranges') = Denotes(ranges) \ BytesOf(r)
<1>1. PICK a \in Nat, b \in Nat : a = Start(r) /\ b = End(r) BY RangeFacts
<1>2. PICK rs, ns : rs = ranges /\ ns = ranges' OBVIOUS
<1>3. PICK lo : lo = PartitionPoint(ranges, LAMBDA x : End(x) <= Start(r)) OBVIOUS
<1>4. PICK hi : hi = PartitionPoint(ranges, LAMBDA x : Start(x) < End(r)) OBVIOUS
<1>5. lo \in 0 .. Len(rs) /\ (\A k \in 1 .. lo : End(rs[k]) <= a) /\ (lo < Len(rs) => ~(End(rs[lo + 1]) <= a))
  BY <1>1, <1>2, <1>3, Searches DEF PartitionPoint
<1>6. hi \in 0 .. Len(rs) /\ (\A k \in 1 .. hi : Start(rs[k]) < b) /\ (hi < Len(rs) => ~(Start(rs[hi + 1]) < b))
  BY <1>1, <1>2, <1>4, Searches DEF PartitionPoint
<1>7. Divides(lo, rs, EndsUpto(rs, Start(r))) /\ Divides(hi, rs, StartsBelow(rs, End(r)))
  BY <1>1, <1>2, <1>5, <1>6, Found
<1>8. PICK new : new = Remnants(rs[lo + 1], rs[hi], r) OBVIOUS
<1>9. /\ Start(r) < End(r) /\ lo < hi /\ ns = Splice(rs, lo, hi, new)
      /\ covered' = CoveredAfter(Cardinality(Denotes(rs)), SubSeq(rs, lo + 1, hi), new)
  BY <1>2, <1>3, <1>4, <1>8 DEF RemoveRange
<1>10. /\ Good(ns) /\ Denotes(ns) = Denotes(rs) \ BytesOf(r)
       /\ CoveredAfter(Cardinality(Denotes(rs)), SubSeq(rs, lo + 1, hi), new) = Cardinality(Denotes(ns))
  BY <1>2, <1>7, <1>8, <1>9, RemoveSplice
<1> QED BY <1>2, <1>9, <1>10

-----------------------------------------------------------------------------
(***************************************************************************)
(* Reading a set back: the vector is determined by the bytes.              *)
(***************************************************************************)
LEMMA EndIsFree ==
  ASSUME NEW rs, Good(rs), NEW i \in 1 .. Len(rs) PROVE End(rs[i]) \notin Denotes(rs)
<1> SUFFICES ASSUME End(rs[i]) \in Denotes(rs) PROVE FALSE OBVIOUS
<1>0. rs \in Seq(ByteRanges) /\ Len(rs) \in Nat BY SeqFacts DEF Good
<1>1. PICK j \in 1 .. Len(rs) : End(rs[i]) \in BytesOf(rs[j]) BY DenotesMember
<1>2. rs[i] \in ByteRanges /\ rs[j] \in ByteRanges BY <1>0, SeqFacts
<1>3. Start(rs[j]) <= End(rs[i]) /\ End(rs[i]) < End(rs[j]) BY <1>1, <1>2, RangeFacts
<1>4. /\ Start(rs[i]) \in Nat /\ End(rs[i]) \in Nat /\ Start(rs[i]) < End(rs[i])
      /\ Start(rs[j]) \in Nat /\ End(rs[j]) \in Nat /\ Start(rs[j]) < End(rs[j])
  BY <1>2, RangeFacts DEF Good
<1>5. ~(i < j) BY <1>3, <1>4 DEF Good
<1>6. ~(j < i) BY <1>3, <1>4 DEF Good
<1>7. i = j BY <1>0, <1>5, <1>6
<1> QED BY <1>3, <1>4, <1>7

\* Up to the first difference, neither vector can start a range before the other.
LEMMA SameStart ==
  ASSUME NEW s, Good(s), NEW t, Good(t), Denotes(s) \subseteq Denotes(t),
         NEW i \in 1 .. Len(s), \A k \in 1 .. i - 1 : k \in 1 .. Len(t) /\ s[k] = t[k]
  PROVE  i \in 1 .. Len(t) /\ Start(t[i]) <= Start(s[i])
<1>0. s \in Seq(ByteRanges) /\ t \in Seq(ByteRanges) BY DEF Good
<1>1. PICK n \in Nat, m \in Nat : n = Len(s) /\ m = Len(t) BY <1>0, SeqFacts
<1>2. PICK a \in Nat : a = Start(s[i]) /\ a < End(s[i]) BY <1>0, SeqFacts, RangeFacts DEF Good
<1>3. a \in BytesOf(s[i])
  <2>1. s[i] \in ByteRanges BY <1>0, SeqFacts
  <2>2. a <= a BY <1>2
  <2> QED BY <1>2, <2>1, <2>2, RangeFacts
<1>4. PICK j \in 1 .. m : a \in BytesOf(t[j])
  <2>1. a \in Denotes(s) BY <1>3, DenotesMember
  <2> QED BY <1>1, <2>1, DenotesMember
<1>5. Start(t[j]) <= a /\ a < End(t[j]) /\ Start(t[j]) \in Nat /\ End(t[j]) \in Nat
  BY <1>0, <1>1, <1>4, SeqFacts, RangeFacts
<1>6. j >= i
  <2> SUFFICES ASSUME j < i PROVE FALSE BY <1>1
  <2>1. j \in 1 .. i - 1 /\ j \in 1 .. n BY <1>1
  <2>2. a \in BytesOf(s[j]) BY <1>4, <2>1
  <2>3. i = j BY <1>1, <1>3, <2>1, <2>2, OneRange
  <2> QED BY <2>1, <2>3
<1>7. i \in 1 .. m BY <1>1, <1>6
<1>8. Start(t[i]) <= a
  <2>1. CASE i = j BY <1>5, <2>1
  <2>2. CASE i # j
    <3>1. i < j BY <1>1, <1>6, <2>2
    <3>2. End(t[i]) < Start(t[j]) BY <1>1, <1>7, <3>1 DEF Good
    <3>3. Start(t[i]) \in Nat /\ End(t[i]) \in Nat /\ Start(t[i]) < End(t[i])
      BY <1>0, <1>1, <1>7, SeqFacts, RangeFacts DEF Good
    <3> QED BY <1>5, <3>2, <3>3
  <2> QED BY <2>1, <2>2
<1> QED BY <1>1, <1>2, <1>7, <1>8

LEMMA SameEnd ==
  ASSUME NEW s, Good(s), NEW t, Good(t), Denotes(t) \subseteq Denotes(s),
         NEW i \in 1 .. Len(s), i \in 1 .. Len(t), Start(t[i]) <= Start(s[i])
  PROVE  End(t[i]) <= End(s[i])
<1>0. s \in Seq(ByteRanges) /\ t \in Seq(ByteRanges) BY DEF Good
<1>1. /\ Start(s[i]) \in Nat /\ End(s[i]) \in Nat /\ Start(s[i]) < End(s[i])
      /\ Start(t[i]) \in Nat /\ End(t[i]) \in Nat /\ t[i] \in ByteRanges
  BY <1>0, SeqFacts, RangeFacts DEF Good
<1> SUFFICES ASSUME End(s[i]) < End(t[i]) PROVE FALSE BY <1>1
<1>2. End(s[i]) \in BytesOf(t[i]) BY <1>1, RangeFacts
<1>3. End(s[i]) \in Denotes(s) BY <1>2, DenotesMember
<1> QED BY <1>3, EndIsFree

\* Two normalized vectors of the same bytes are the same vector.
LEMMA Canonical ==
  ASSUME NEW s, Good(s), NEW t, Good(t), Denotes(s) = Denotes(t) PROVE s = t
<1>0. s \in Seq(ByteRanges) /\ t \in Seq(ByteRanges) BY DEF Good
<1>1. PICK n \in Nat, m \in Nat : n = Len(s) /\ m = Len(t) BY <1>0, SeqFacts
<1> DEFINE D == {k \in 1 .. n : ~(k \in 1 .. m /\ s[k] = t[k])}
<1>2. D = {}
  <2> SUFFICES ASSUME D # {} PROVE FALSE OBVIOUS
  <2>1. D \subseteq Nat OBVIOUS
  <2> HIDE DEF D
  <2>2. PICK i \in D : \A k \in D : i <= k BY <2>1, LeastExists
  <2>3. i \in 1 .. n BY DEF D
  <2>4. ASSUME NEW k \in 1 .. i - 1 PROVE k \in 1 .. m /\ s[k] = t[k]
    <3>1. k \in 1 .. n /\ ~(i <= k) BY <2>3
    <3>2. k \notin D BY <2>2, <3>1
    <3> QED BY <3>1, <3>2 DEF D
  <2>5. i \in 1 .. m /\ Start(t[i]) <= Start(s[i]) BY <1>1, <2>3, <2>4, SameStart
  <2>6. Start(s[i]) <= Start(t[i])
    <3>1. \A k \in 1 .. i - 1 : k \in 1 .. n /\ t[k] = s[k] BY <2>3, <2>4
    <3> QED BY <1>1, <2>5, <3>1, SameStart
  <2>7. End(t[i]) <= End(s[i]) BY <1>1, <2>3, <2>5, SameEnd
  <2>8. End(s[i]) <= End(t[i]) BY <1>1, <2>3, <2>5, <2>6, SameEnd
  <2>9. s[i] \in ByteRanges /\ t[i] \in ByteRanges BY <1>0, <1>1, <2>3, <2>5, SeqFacts
  <2>10. Start(s[i]) = Start(t[i]) /\ End(s[i]) = End(t[i]) BY <2>5, <2>6, <2>7, <2>8, <2>9, RangeFacts
  <2>11. s[i] = t[i] BY <2>9, <2>10, RangeFacts
  <2> QED BY <2>5, <2>11 DEF D
<1>3. \A k \in 1 .. n : k \in 1 .. m /\ s[k] = t[k] BY <1>2
<1>4. n = m
  <2>1. n <= m
    <3>1. CASE n = 0 BY <3>1
    <3>2. CASE n # 0
      <4>1. n \in 1 .. n BY <3>2
      <4> QED BY <1>3, <4>1
    <3> QED BY <3>1, <3>2
  <2> SUFFICES ASSUME n < m PROVE FALSE BY <2>1
  <2>2. n + 1 \in 1 .. m /\ n + 1 - 1 = n /\ n + 1 \notin 1 .. n OBVIOUS
  <2>3. \A k \in 1 .. n + 1 - 1 : k \in 1 .. n /\ t[k] = s[k] BY <1>3
  <2>4. n + 1 \in 1 .. n BY <1>1, <2>2, <2>3, SameStart
  <2> QED BY <2>2, <2>4
<1> QED BY <1>0, <1>1, <1>3, <1>4, SeqEqual

\* from_ranges, as a function of the positions that are still to be inserted.
Builds(F, raw, S) ==
  F = [s \in SUBSET S |-> IF s = {} THEN EmptySet ELSE InsertInto(F[s \ {Max(s)}], raw[Max(s)])]

LEMMA MaxExists ==
  ASSUME NEW n \in Nat, NEW s \in SUBSET (1 .. n), s # {}
  PROVE  Max(s) \in s /\ \A y \in s : Max(s) >= y
<1> DEFINE U == {y \in Nat : \A x \in s : x <= y}
<1>1. n \in U /\ U \subseteq Nat OBVIOUS
<1> HIDE DEF U
<1>2. PICK u \in U : \A y \in U : u <= y BY <1>1, LeastExists
<1>3. u \in Nat /\ \A x \in s : x <= u BY <1>2 DEF U
<1>4. u \in s
  <2> SUFFICES ASSUME u \notin s PROVE FALSE OBVIOUS
  <2>1. PICK x \in s : TRUE OBVIOUS
  <2>2. u - 1 \in Nat BY <1>3, <2>1
  <2>3. \A y \in s : y <= u - 1 BY <1>3
  <2>4. u - 1 \in U BY <2>2, <2>3 DEF U
  <2> QED BY <1>2, <1>3, <2>4
<1>5. \A y \in s : u >= y BY <1>3
<1> QED BY <1>4, <1>5 DEF Max

BuildsUpto(F, raw, S, n) ==
  F = [s \in Upto(S, n) |-> IF s = {} THEN EmptySet ELSE InsertInto(F[s \ {Max(s)}], raw[Max(s)])]

LEMMA BuildsExists ==
  ASSUME NEW l \in Nat, NEW raw PROVE \E F : Builds(F, raw, 1 .. l)
<1>0. PICK S : S = 1 .. l OBVIOUS
<1>1. IsFiniteSet(S) BY <1>0, FS_Interval
<1> DEFINE T == {n \in Nat : \E F : BuildsUpto(F, raw, S, n)}
<1>2. \A s \in SUBSET S : IsFiniteSet(s) /\ Cardinality(s) \in Nat /\ (Cardinality(s) = 0 <=> s = {})
  BY <1>1, FS_Subset, FS_CardinalityType, FS_EmptySet
<1>3. ASSUME NEW s \in SUBSET S, s # {}
      PROVE  s \ {Max(s)} \in SUBSET S /\ Cardinality(s \ {Max(s)}) = Cardinality(s) - 1
  <2>1. PICK x \in s : x = Max(s) BY <1>0, <1>3, MaxExists
  <2>2. Cardinality(s \ {x}) = Cardinality(s) - 1 BY <1>2, <2>1, FS_RemoveElement
  <2> QED BY <2>1, <2>2
<1>4. 0 \in T
  <2>1. Upto(S, 0) = {{}} BY <1>2 DEF Upto
  <2>2. BuildsUpto([s \in {{}} |-> EmptySet], raw, S, 0) BY <2>1 DEF BuildsUpto
  <2> QED BY <2>2
<1>5. ASSUME NEW n \in Nat, n \in T PROVE n + 1 \in T
  <2>1. PICK F : BuildsUpto(F, raw, S, n) BY <1>5
  <2>2. PICK G : G = [s \in Upto(S, n + 1) |->
                       IF s = {} THEN EmptySet ELSE InsertInto(F[s \ {Max(s)}], raw[Max(s)])] OBVIOUS
  <2>3. ASSUME NEW s \in Upto(S, n + 1), s # {} PROVE G[s \ {Max(s)}] = F[s \ {Max(s)}]
    <3>1. s \ {Max(s)} \in Upto(S, n) BY <1>2, <1>3, <2>3 DEF Upto
    <3>2. s \ {Max(s)} \in Upto(S, n + 1) BY <1>2, <1>3, <2>3 DEF Upto
    <3>3. PICK r : r = s \ {Max(s)} OBVIOUS
    <3>4. G[r] = IF r = {} THEN EmptySet ELSE InsertInto(F[r \ {Max(r)}], raw[Max(r)]) BY <2>2, <3>2, <3>3
    <3>5. F[r] = IF r = {} THEN EmptySet ELSE InsertInto(F[r \ {Max(r)}], raw[Max(r)])
      BY <2>1, <3>1, <3>3 DEF BuildsUpto
    <3> QED BY <3>3, <3>4, <3>5
  <2>4. BuildsUpto(G, raw, S, n + 1) BY <2>2, <2>3 DEF BuildsUpto
  <2> QED BY <2>4
<1> HIDE DEF T
<1>6. Nat \subseteq T
  <2>1. \A n \in Nat : n \in T => n + 1 \in T BY <1>5
  <2> QED BY <1>4, <2>1, AllNumbers
<1>7. Cardinality(S) \in T BY <1>2, <1>6
<1>8. Upto(S, Cardinality(S)) = SUBSET S BY <1>1, <1>2, FS_Subset DEF Upto
<1>9. PICK F : BuildsUpto(F, raw, S, Cardinality(S)) BY <1>7 DEF T
<1> QED BY <1>0, <1>8, <1>9 DEF Builds, BuildsUpto

LEMMA FromRangesBuilds ==
  ASSUME NEW raw, NEW G, Builds(G, raw, DOMAIN raw)
  PROVE  \E F : Builds(F, raw, DOMAIN raw) /\ FromRanges(raw) = F[DOMAIN raw]
<1>1. \E F : Builds(F, raw, DOMAIN raw) OBVIOUS
<1> QED BY ONLY <1>1 DEF FromRanges, FoldLeft, MapThenFoldSet, Builds

\* Deserialize: whatever ranges are read, in whatever order, what is built is
\* normalized, exactly counted, and has their bytes.
LEMMA FromRangesExact ==
  ASSUME NEW raw \in Seq(ByteRanges)
  PROVE  \E ns : FromRanges(raw) = Whole(ns) /\ Good(ns) /\ Denotes(ns) = Denotes(raw)
<1>1. PICK l \in Nat : l = Len(raw) /\ DOMAIN raw = 1 .. l BY SeqFacts
<1>2. PICK F : Builds(F, raw, 1 .. l) /\ FromRanges(raw) = F[1 .. l]
  <2>1. \E G : Builds(G, raw, 1 .. l) BY BuildsExists
  <2> QED BY <1>1, <2>1, FromRangesBuilds
<1> DEFINE T == {n \in Nat : n <= l =>
                   \E ns : F[1 .. n] = Whole(ns) /\ Good(ns) /\ Denotes(ns) = Some(raw, 1 .. n)}
<1>3. 0 \in T
  <2>1. 1 .. 0 = {} /\ Some(raw, {}) = {} BY DEF Some
  <2>2. F[{}] = EmptySet BY <1>2 DEF Builds
  <2>3. Good(<<>>) /\ Denotes(<<>>) = {}
    <3>1. Len(<<>>) = 0 /\ <<>> \in Seq(ByteRanges) OBVIOUS
    <3> QED BY <2>1, <3>1 DEF Good, Denotes
  <2>4. Whole(<<>>) = EmptySet BY <2>3, FS_EmptySet DEF Whole, EmptySet
  <2> QED BY <2>1, <2>2, <2>3, <2>4
<1>4. ASSUME NEW n \in Nat, n \in T PROVE n + 1 \in T
  <2> SUFFICES ASSUME n + 1 <= l
               PROVE  \E ns : F[1 .. n + 1] = Whole(ns) /\ Good(ns) /\ Denotes(ns) = Some(raw, 1 .. n + 1)
    OBVIOUS
  <2>1. PICK ms : F[1 .. n] = Whole(ms) /\ Good(ms) /\ Denotes(ms) = Some(raw, 1 .. n) BY <1>4
  <2> HIDE DEF T
  <2>2. PICK s : s = 1 .. n + 1 OBVIOUS
  <2>3. s \in SUBSET (1 .. l) /\ s # {} /\ n + 1 \in s /\ \A y \in s : y \in Nat /\ y <= n + 1
    <3>1. \A y \in s : y \in 1 .. l /\ y \in Nat /\ y <= n + 1 BY <2>2
    <3>2. n + 1 \in s BY <2>2
    <3> QED BY <3>1, <3>2
  <2>4. Max(s) = n + 1
    <3>1. Max(s) \in s /\ \A y \in s : Max(s) >= y BY <2>3, MaxExists
    <3>2. PICK u \in Nat : u = Max(s) BY <2>3, <3>1
    <3>3. u >= n + 1 /\ u <= n + 1 BY <2>3, <3>1, <3>2
    <3> QED BY <3>2, <3>3
  <2>5. s \ {n + 1} = 1 .. n BY <2>2
  <2>6. F[s] = InsertInto(F[1 .. n], raw[n + 1]) BY <1>2, <2>3, <2>4, <2>5 DEF Builds
  <2>7. raw[n + 1] \in ByteRanges
    <3>1. n + 1 \in 1 .. Len(raw) BY <1>1
    <3> QED BY <3>1, SeqFacts
  <2>8. PICK ns : /\ InsertInto(Whole(ms), raw[n + 1]) = Whole(ns) /\ Good(ns)
                  /\ Denotes(ns) = Denotes(ms) \cup BytesOf(raw[n + 1])
    BY <2>1, <2>7, InsertExact
  <2>9. Some(raw, s) = Some(raw, 1 .. n) \cup BytesOf(raw[n + 1]) BY <2>3, <2>5 DEF Some
  <2> QED BY <2>1, <2>2, <2>6, <2>8, <2>9
<1> HIDE DEF T
<1>5. Nat \subseteq T
  <2>1. \A n \in Nat : n \in T => n + 1 \in T BY <1>4
  <2> QED BY <1>3, <2>1, AllNumbers
<1>6. \E ns : F[1 .. l] = Whole(ns) /\ Good(ns) /\ Denotes(ns) = Some(raw, 1 .. l) BY <1>5 DEF T
<1>7. Some(raw, 1 .. l) = Denotes(raw) BY <1>1 DEF Some, Denotes
<1> QED BY <1>2, <1>6, <1>7

\* A set read back, in order or reversed, is the same set.
LEMMA ReadBack ==
  ASSUME NEW rs, Good(rs)
  PROVE  FromRanges(rs) = Whole(rs) /\ FromRanges(Reverse(rs) \o rs) = Whole(rs)
<1>0. rs \in Seq(ByteRanges) BY DEF Good
<1>1. PICK n \in Nat : n = Len(rs) /\ \A i \in 1 .. n : rs[i] \in ByteRanges BY <1>0, SeqFacts
<1>2. FromRanges(rs) = Whole(rs) BY <1>0, FromRangesExact, Canonical
<1>3. PICK v : v = Reverse(rs) OBVIOUS
<1>4. v = [i \in 1 .. n |-> rs[(n - i) + 1]] BY <1>1, <1>3 DEF Reverse
<1>5. \A i \in 1 .. n : (n - i) + 1 \in 1 .. n OBVIOUS
<1>6. v \in [1 .. n -> ByteRanges] BY <1>1, <1>4, <1>5
<1>7. v \in Seq(ByteRanges) /\ Len(v) = n BY <1>6
<1>8. PICK w : w = v \o rs OBVIOUS
<1>9. /\ w \in Seq(ByteRanges) /\ Len(w) = n + n
      /\ \A i \in 1 .. n + n : w[i] = IF i <= n THEN v[i] ELSE rs[i - n]
  <2>1. /\ w \in Seq(ByteRanges) /\ Len(w) = Len(v) + Len(rs)
        /\ \A i \in 1 .. Len(v) + Len(rs) : w[i] = IF i <= Len(v) THEN v[i] ELSE rs[i - Len(v)]
    BY ONLY <1>0, <1>7, <1>8, ConcatProperties
  <2>2. Len(v) = n /\ Len(rs) = n BY <1>1, <1>7
  <2> QED BY ONLY <2>1, <2>2
<1>10. ASSUME NEW b \in Denotes(w) PROVE b \in Denotes(rs)
  <2>1. PICK i \in 1 .. n + n : b \in BytesOf(w[i]) BY <1>9, DenotesMember
  <2>2. CASE i <= n
    <3>1. i \in 1 .. n BY <2>2
    <3>2. w[i] = rs[(n - i) + 1] BY <1>4, <1>9, <2>2, <3>1
    <3> QED BY <1>1, <1>5, <2>1, <3>1, <3>2, DenotesMember
  <2>3. CASE ~(i <= n)
    <3>1. i - n \in 1 .. n BY <2>3
    <3> QED BY <1>1, <1>9, <2>1, <2>3, <3>1, DenotesMember
  <2> QED BY <2>2, <2>3
<1>11. ASSUME NEW b \in Denotes(rs) PROVE b \in Denotes(w)
  <2>1. PICK i \in 1 .. n : b \in BytesOf(rs[i]) BY <1>1, DenotesMember
  <2>2. i + n \in 1 .. n + n /\ ~(i + n <= n) /\ i + n - n = i OBVIOUS
  <2>3. b \in BytesOf(w[i + n]) BY <1>9, <2>1, <2>2
  <2> QED BY <1>9, <2>2, <2>3, DenotesMember
<1>12. Denotes(w) = Denotes(rs) BY <1>10, <1>11
<1>13. FromRanges(w) = Whole(rs) BY <1>9, <1>12, FromRangesExact, Canonical
<1> QED BY <1>2, <1>3, <1>8, <1>13

-----------------------------------------------------------------------------
(***************************************************************************)
(* The queries.                                                            *)
(***************************************************************************)
\* What a query needs to know of a normalized vector.
LEMMA Vector ==
  ASSUME NEW rs, Good(rs)
  PROVE  /\ rs \in Seq(ByteRanges) /\ Len(rs) \in Nat
         /\ \A k \in 1 .. Len(rs) : /\ rs[k] \in ByteRanges /\ Start(rs[k]) \in Nat /\ End(rs[k]) \in Nat
                                    /\ Start(rs[k]) < End(rs[k]) /\ End(rs[k]) <= MaxByte
         /\ \A j, k \in 1 .. Len(rs) : j < k => End(rs[j]) < Start(rs[k])
         /\ \A b : b \in Denotes(rs) <=>
              \E k \in 1 .. Len(rs) : b \in Nat /\ Start(rs[k]) <= b /\ b < End(rs[k])
<1>1. rs \in Seq(ByteRanges) /\ Len(rs) \in Nat BY SeqFacts DEF Good
<1>2. \A k \in 1 .. Len(rs) : rs[k] \in ByteRanges BY <1>1, SeqFacts
<1>3. \A k \in 1 .. Len(rs) : /\ Start(rs[k]) \in Nat /\ End(rs[k]) \in Nat
                              /\ Start(rs[k]) < End(rs[k]) /\ End(rs[k]) <= MaxByte
  BY <1>2, RangeFacts DEF Good
<1>4. \A b : b \in Denotes(rs) <=> \E k \in 1 .. Len(rs) : b \in Nat /\ Start(rs[k]) <= b /\ b < End(rs[k])
  BY <1>2, RangeFacts, DenotesMember
<1>5. \A j, k \in 1 .. Len(rs) : j < k => End(rs[j]) < Start(rs[k]) BY DEF Good
<1> QED BY <1>1, <1>2, <1>3, <1>4, <1>5

\* The search of first_gap and contains_range: what ends at or before `from`.
LEMMA EndFound ==
  ASSUME NEW rs, Good(rs), NEW f \in Nat, NEW i \in 0 .. Len(rs),
         \A k \in 1 .. i : End(rs[k]) <= f, i < Len(rs) => ~(End(rs[i + 1]) <= f)
  PROVE  /\ \A k \in 1 .. i : k \in 1 .. Len(rs)
         /\ \A k \in i + 1 .. Len(rs) : k \in 1 .. Len(rs) /\ End(rs[k]) > f
<1>1. Divides(i, rs, EndsUpto(rs, f)) BY Found
<1>2. Len(rs) \in Nat BY Vector
<1>3. (\A k \in 1 .. i : k \in 1 .. Len(rs)) /\ (\A k \in i + 1 .. Len(rs) : k \in 1 .. Len(rs)) BY <1>2
<1>4. \A k \in i + 1 .. Len(rs) : ~(End(rs[k]) <= f) BY <1>1, <1>3 DEF Divides, EndsUpto
<1>5. \A k \in i + 1 .. Len(rs) : End(rs[k]) > f BY <1>3, <1>4, Vector
<1> QED BY <1>3, <1>5

LEMMA ContainsExact ==
  ASSUME NEW rs, Good(rs), NEW r \in ByteRanges
  PROVE  ContainsRange(rs, r) <=> BytesOf(r) \subseteq Denotes(rs)
<1>1. PICK a \in Nat, b \in Nat : a = Start(r) /\ b = End(r) BY RangeFacts
<1>1a. \A x : x \in BytesOf(r) <=> x \in Nat /\ a <= x /\ x < b BY <1>1, RangeFacts
<1>2. PICK n \in Nat : n = Len(rs) BY Vector
<1>3. PICK i : i = PartitionPoint(rs, LAMBDA x : End(x) <= Start(r)) OBVIOUS
<1>4. i \in 0 .. Len(rs) /\ (\A k \in 1 .. i : End(rs[k]) <= a) /\ (i < Len(rs) => ~(End(rs[i + 1]) <= a))
  BY <1>1, <1>3, Searches DEF PartitionPoint
<1>5. /\ i \in Nat /\ i <= n
      /\ \A k \in 1 .. i : k \in 1 .. n /\ End(rs[k]) <= a
      /\ \A k \in i + 1 .. n : k \in 1 .. n /\ End(rs[k]) > a
  <2>1. /\ \A k \in 1 .. i : k \in 1 .. Len(rs)
        /\ \A k \in i + 1 .. Len(rs) : k \in 1 .. Len(rs) /\ End(rs[k]) > a
    BY <1>4, EndFound
  <2> QED BY <1>2, <1>4, <2>1
<1>6. ContainsRange(rs, r) <=> (a >= b \/ (i < n /\ Start(rs[i + 1]) <= a /\ End(rs[i + 1]) >= b))
  BY <1>1, <1>2, <1>3 DEF ContainsRange
<1>7. \A k \in 1 .. n : Start(rs[k]) \in Nat /\ End(rs[k]) \in Nat /\ Start(rs[k]) < End(rs[k]) BY <1>2, Vector
<1>8. ASSUME a >= b \/ (i < n /\ Start(rs[i + 1]) <= a /\ End(rs[i + 1]) >= b), NEW x \in BytesOf(r)
      PROVE  x \in Denotes(rs)
  <2>1. x \in Nat /\ a <= x /\ x < b BY <1>1a
  <2>2. i < n /\ Start(rs[i + 1]) <= a /\ End(rs[i + 1]) >= b BY <1>8, <2>1
  <2>3. i + 1 \in 1 .. n BY <1>5, <2>2
  <2>4. Start(rs[i + 1]) <= x /\ x < End(rs[i + 1]) BY <1>7, <2>1, <2>2, <2>3
  <2> QED BY <1>2, <2>1, <2>3, <2>4, Vector
<1>9. ASSUME BytesOf(r) \subseteq Denotes(rs), a < b
      PROVE  i < n /\ Start(rs[i + 1]) <= a /\ End(rs[i + 1]) >= b
  <2>1. a \in Denotes(rs) BY <1>1a, <1>9
  <2>2. PICK k \in 1 .. n : Start(rs[k]) <= a /\ a < End(rs[k]) BY <1>2, <2>1, Vector
  <2>3. k \in i + 1 .. n
    <3> SUFFICES ASSUME k <= i PROVE FALSE BY <1>5
    <3>1. k \in 1 .. i BY <1>5
    <3> QED BY <1>5, <1>7, <2>2, <3>1
  <2>4. i < n /\ i + 1 \in 1 .. n /\ i + 1 \in i + 1 .. n BY <1>5, <2>3
  <2>5. k = i + 1
    <3> SUFFICES ASSUME k # i + 1 PROVE FALSE OBVIOUS
    <3>1. i + 1 < k BY <1>5, <2>3
    <3>2. End(rs[i + 1]) < Start(rs[k]) BY <1>2, <2>4, <3>1, Vector
    <3> QED BY <1>5, <1>7, <2>2, <2>4, <3>2
  <2>6. End(rs[i + 1]) >= b
    <3> SUFFICES ASSUME End(rs[i + 1]) < b PROVE FALSE BY <1>7, <2>4
    <3>1. End(rs[i + 1]) \in BytesOf(r) BY <1>1a, <1>5, <1>7, <2>4
    <3> QED BY <1>2, <1>9, <2>4, <3>1, EndIsFree
  <2> QED BY <2>2, <2>4, <2>5, <2>6
<1> QED BY <1>1, <1>6, <1>8, <1>9

LEMMA PrefixExact ==
  ASSUME NEW rs, Good(rs), NEW p, p = ContiguousPrefix(rs)
  PROVE  0 .. p - 1 \subseteq Denotes(rs) /\ p \notin Denotes(rs)
<1>1. PICK n \in Nat : n = Len(rs) BY Vector
<1>2. CASE rs = <<>>
  <2>1. p = 0 /\ n = 0 BY <1>1, <1>2 DEF ContiguousPrefix
  <2>2. 1 .. n = {} /\ 0 .. p - 1 = {} BY <2>1
  <2>3. Denotes(rs) = {} BY <1>1, <2>2 DEF Denotes
  <2> QED BY <2>2, <2>3
<1>3. CASE rs # <<>>
  <2>1. 1 \in 1 .. n BY <1>1, <1>3, Vector
  <2>2. Start(rs[1]) \in Nat /\ End(rs[1]) \in Nat BY <1>1, <2>1, Vector
  <2>3. CASE Start(rs[1]) = 0
    <3>1. p = End(rs[1]) BY <1>3, <2>3 DEF ContiguousPrefix
    <3>2. \A x \in 0 .. p - 1 : x \in Nat /\ Start(rs[1]) <= x /\ x < End(rs[1]) BY <2>2, <2>3, <3>1
    <3> QED BY <1>1, <2>1, <3>1, <3>2, EndIsFree, Vector
  <2>4. CASE Start(rs[1]) # 0
    <3>1. p = 0 BY <2>4 DEF ContiguousPrefix
    <3>2. ASSUME 0 \in Denotes(rs) PROVE FALSE
      <4>1. PICK k \in 1 .. n : Start(rs[k]) <= 0 BY <1>1, <3>2, Vector
      <4>2. Start(rs[k]) = 0 BY <1>1, <4>1, Vector
      <4>3. k # 1 BY <2>4, <4>2
      <4>4. 1 < k BY <4>3
      <4>5. End(rs[1]) < Start(rs[k]) BY <1>1, <2>1, <4>4, Vector
      <4> QED BY <2>2, <4>2, <4>5
    <3> QED BY <3>1, <3>2
  <2> QED BY <2>3, <2>4
<1> QED BY <1>2, <1>3

LEMMA CompleteExact ==
  ASSUME NEW rs, Good(rs), NEW t \in Nat
  PROVE  /\ IsComplete(rs, t) => 0 .. t - 1 \subseteq Denotes(rs)
         /\ Denotes(rs) = 0 .. t - 1 => IsComplete(rs, t)
<1>1. PICK n \in Nat : n = Len(rs) BY Vector
<1>2. ASSUME IsComplete(rs, t) PROVE 0 .. t - 1 \subseteq Denotes(rs)
  <2>1. CASE n = 1 /\ Start(rs[1]) = 0 /\ End(rs[1]) >= t
    <3>1. 1 \in 1 .. n BY <2>1
    <3>2. End(rs[1]) \in Nat BY <1>1, <3>1, Vector
    <3>3. \A x \in 0 .. t - 1 : x \in Nat /\ Start(rs[1]) <= x /\ x < End(rs[1]) BY <2>1, <3>2
    <3> QED BY <1>1, <3>1, <3>3, Vector
  <2>2. CASE n = 0 /\ t = 0 BY <2>2
  <2> QED BY <1>1, <1>2, <2>1, <2>2 DEF IsComplete
<1>3. ASSUME Denotes(rs) = 0 .. t - 1 PROVE IsComplete(rs, t)
  <2>0. \A j, k \in 1 .. n : j < k => End(rs[j]) < Start(rs[k]) BY <1>1, Vector
  <2>1. \A k \in 1 .. n : Start(rs[k]) \in Nat /\ End(rs[k]) \in Nat /\ Start(rs[k]) < End(rs[k]) BY <1>1, Vector
  <2>2. ASSUME NEW k \in 1 .. n PROVE Start(rs[k]) \in 0 .. t - 1 /\ End(rs[k]) - 1 \in 0 .. t - 1
    <3>1. /\ Start(rs[k]) <= Start(rs[k]) /\ End(rs[k]) - 1 \in Nat
          /\ Start(rs[k]) <= End(rs[k]) - 1 /\ End(rs[k]) - 1 < End(rs[k])
      BY <2>1
    <3>2. Start(rs[k]) \in Denotes(rs) /\ End(rs[k]) - 1 \in Denotes(rs) BY <1>1, <2>1, <3>1, Vector
    <3> QED BY <1>3, <3>2
  <2>3. CASE t = 0
    <3>1. n = 0
      <4> SUFFICES ASSUME n # 0 PROVE FALSE OBVIOUS
      <4>1. 1 \in 1 .. n OBVIOUS
      <4> QED BY <2>2, <2>3, <4>1
    <3> QED BY <1>1, <2>3, <3>1 DEF IsComplete
  <2>4. CASE t # 0
    <3>1. 0 \in 0 .. t - 1 BY <2>4
    <3>2. PICK k \in 1 .. n : Start(rs[k]) <= 0 BY <1>1, <1>3, <3>1, Vector
    <3>3. Start(rs[k]) = 0 /\ 1 \in 1 .. n BY <2>1, <3>2
    <3>4. k = 1
      <4> SUFFICES ASSUME k # 1 PROVE FALSE OBVIOUS
      <4>1. 1 < k OBVIOUS
      <4>2. End(rs[1]) < Start(rs[k]) BY <2>0, <3>3, <4>1
      <4> QED BY <2>1, <3>3, <4>2
    <3>5. End(rs[1]) = t
      <4>1. End(rs[1]) \notin 0 .. t - 1 BY <1>1, <1>3, <3>3, EndIsFree
      <4>2. End(rs[1]) - 1 \in 0 .. t - 1 /\ End(rs[1]) \in Nat BY <2>1, <2>2, <3>3
      <4> QED BY <4>1, <4>2
    <3>6. n = 1
      <4> SUFFICES ASSUME n # 1 PROVE FALSE OBVIOUS
      <4>1. 2 \in 1 .. n BY <3>3
      <4>2. End(rs[1]) < Start(rs[2]) BY <2>0, <3>3, <4>1
      <4> QED BY <2>1, <2>2, <3>5, <4>1, <4>2
    <3> QED BY <1>1, <3>3, <3>4, <3>5, <3>6 DEF IsComplete
  <2> QED BY <2>3, <2>4
<1> QED BY <1>2, <1>3

\* The maximal runs of missing bytes at or after f and below l.
IsGap(rs, f, l, r) ==
  /\ Start(r) >= f /\ Start(r) < End(r) /\ End(r) <= l
  /\ BytesOf(r) \cap Denotes(rs) = {}
  /\ f .. (Start(r) - 1) \subseteq Denotes(rs)
  /\ End(r) = l \/ End(r) \in Denotes(rs)

\* There is at most one.
LEMMA GapUnique ==
  ASSUME NEW rs, NEW f \in Nat, NEW l \in Nat, NEW r \in ByteRanges, NEW q \in ByteRanges,
         IsGap(rs, f, l, r), IsGap(rs, f, l, q)
  PROVE  r = q
<1>1. PICK a \in Nat, b \in Nat : a = Start(r) /\ b = End(r) BY RangeFacts
<1>2. PICK c \in Nat, d \in Nat : c = Start(q) /\ d = End(q) BY RangeFacts
<1>3. \A x : /\ x \in BytesOf(r) <=> x \in Nat /\ a <= x /\ x < b
             /\ x \in BytesOf(q) <=> x \in Nat /\ c <= x /\ x < d
  BY <1>1, <1>2, RangeFacts
<1>4. a >= f /\ a < b /\ b <= l /\ (b = l \/ b \in Denotes(rs)) /\ f .. (a - 1) \subseteq Denotes(rs)
  BY <1>1 DEF IsGap
<1>5. c >= f /\ c < d /\ d <= l /\ (d = l \/ d \in Denotes(rs)) /\ f .. (c - 1) \subseteq Denotes(rs)
  BY <1>2 DEF IsGap
<1>6. BytesOf(r) \cap Denotes(rs) = {} /\ BytesOf(q) \cap Denotes(rs) = {} BY DEF IsGap
<1>7. ~(a < c)
  <2> SUFFICES ASSUME a < c PROVE FALSE OBVIOUS
  <2>1. a \in f .. (c - 1) /\ a \in BytesOf(r) BY <1>3, <1>4
  <2> QED BY <1>5, <1>6, <2>1
<1>8. ~(c < a)
  <2> SUFFICES ASSUME c < a PROVE FALSE OBVIOUS
  <2>1. c \in f .. (a - 1) /\ c \in BytesOf(q) BY <1>3, <1>5
  <2> QED BY <1>4, <1>6, <2>1
<1>9. a = c BY <1>7, <1>8
<1>10. ~(b < d)
  <2> SUFFICES ASSUME b < d PROVE FALSE OBVIOUS
  <2>1. b \in BytesOf(q) /\ b # l BY <1>3, <1>4, <1>5, <1>9
  <2> QED BY <1>4, <1>6, <2>1
<1>11. ~(d < b)
  <2> SUFFICES ASSUME d < b PROVE FALSE OBVIOUS
  <2>1. d \in BytesOf(r) /\ d # l BY <1>3, <1>4, <1>5, <1>9
  <2> QED BY <1>5, <1>6, <2>1
<1>12. b = d BY <1>10, <1>11
<1>13. r = <<a, b>> /\ q = <<c, d>> BY <1>1, <1>2, RangeFacts
<1> QED BY <1>9, <1>12, <1>13

LEMMA OneGap ==
  ASSUME NEW rs, NEW f \in 0 .. MaxByte, NEW l \in 0 .. MaxByte, NEW r \in ByteRanges, IsGap(rs, f, l, r)
  PROVE  {r} = {q \in ByteRanges : IsGap(rs, f, l, q)}
<1>1. f \in Nat /\ l \in Nat BY MaxByteAssumption
<1> QED BY <1>1, GapUnique

\* A range from a to b that meets nothing, with everything before it and its end taken.
LEMMA MakeGap ==
  ASSUME NEW rs, Good(rs), NEW f \in Nat, NEW l \in Nat, l <= MaxByte, NEW a \in Nat, NEW b \in Nat,
         f <= a, a < b, b <= l,
         \A k \in 1 .. Len(rs) : End(rs[k]) <= a \/ b <= Start(rs[k]),
         \A x \in Nat : f <= x /\ x < a => \E k \in 1 .. Len(rs) : Start(rs[k]) <= x /\ x < End(rs[k]),
         b = l \/ \E k \in 1 .. Len(rs) : b = Start(rs[k])
  PROVE  <<a, b>> \in ByteRanges /\ IsGap(rs, f, l, <<a, b>>)
<1>0. b <= MaxByte /\ a <= b BY MaxByteAssumption
<1>1. <<a, b>> \in ByteRanges /\ Start(<<a, b>>) = a /\ End(<<a, b>>) = b BY <1>0, MakeRange
<1>2. \A k \in 1 .. Len(rs) : Start(rs[k]) \in Nat /\ End(rs[k]) \in Nat /\ Start(rs[k]) < End(rs[k]) BY Vector
<1>3. BytesOf(<<a, b>>) \cap Denotes(rs) = {}
  <2> SUFFICES ASSUME NEW x \in BytesOf(<<a, b>>), x \in Denotes(rs) PROVE FALSE OBVIOUS
  <2>1. x \in Nat /\ a <= x /\ x < b BY <1>1, RangeFacts
  <2>2. PICK k \in 1 .. Len(rs) : Start(rs[k]) <= x /\ x < End(rs[k]) BY Vector
  <2> QED BY <1>2, <2>1, <2>2
<1>4. ASSUME NEW x \in f .. (a - 1) PROVE x \in Denotes(rs)
  <2>1. x \in Nat /\ f <= x /\ x < a OBVIOUS
  <2> QED BY <2>1, Vector
<1>5. b = l \/ b \in Denotes(rs)
  <2> SUFFICES ASSUME NEW k \in 1 .. Len(rs), b = Start(rs[k]) PROVE b \in Denotes(rs) OBVIOUS
  <2>1. Start(rs[k]) <= b /\ b < End(rs[k]) BY <1>2
  <2> QED BY <2>1, Vector
<1> QED BY <1>1, <1>3, <1>4, <1>5 DEF IsGap

LEMMA FirstGapExact ==
  ASSUME NEW rs, Good(rs), NEW f \in 0 .. MaxByte, NEW l \in 0 .. MaxByte
  PROVE  FirstGap(rs, f, l) = {q \in ByteRanges : IsGap(rs, f, l, q)}
<1>0. f \in Nat /\ l \in Nat /\ l <= MaxByte BY MaxByteAssumption
<1>1. PICK n \in Nat : n = Len(rs) BY Vector
<1>2. PICK i : i = PartitionPoint(rs, LAMBDA x : End(x) <= f) OBVIOUS
<1>3. i \in 0 .. Len(rs) /\ (\A k \in 1 .. i : End(rs[k]) <= f) /\ (i < Len(rs) => ~(End(rs[i + 1]) <= f))
  BY <1>0, <1>2, Searches DEF PartitionPoint
<1>4. /\ i \in Nat /\ i <= n
      /\ \A k \in 1 .. i : k \in 1 .. n /\ End(rs[k]) <= f
      /\ \A k \in i + 1 .. n : k \in 1 .. n /\ End(rs[k]) > f
  <2>1. /\ \A k \in 1 .. i : k \in 1 .. Len(rs)
        /\ \A k \in i + 1 .. Len(rs) : k \in 1 .. Len(rs) /\ End(rs[k]) > f
    BY <1>0, <1>3, EndFound
  <2> QED BY <1>1, <1>3, <2>1
<1>5. \A k \in 1 .. n : Start(rs[k]) \in Nat /\ End(rs[k]) \in Nat /\ Start(rs[k]) < End(rs[k]) BY <1>1, Vector
<1>6. \A j, k \in 1 .. n : j < k => End(rs[j]) < Start(rs[k]) BY <1>1, Vector
<1>7. PICK g : g = FirstGap(rs, f, l) OBVIOUS
<1>7a. PICK t : t = IF i + 2 <= n THEN Min({Start(rs[i + 2]), l}) ELSE l OBVIOUS
<1>7b. g = CASE f >= l -> {}
             [] f < l /\ i = n -> {<<f, l>>}
             [] f < l /\ i < n /\ Start(rs[i + 1]) > f -> {<<f, Min({Start(rs[i + 1]), l})>>}
             [] OTHER -> IF End(rs[i + 1]) >= l THEN {} ELSE {<<End(rs[i + 1]), t>>}
  BY <1>1, <1>2, <1>7, <1>7a, Zenon DEF FirstGap
<1>7c. PICK G : G = {q \in ByteRanges : IsGap(rs, f, l, q)} OBVIOUS
<1> SUFFICES g = G BY <1>7, <1>7c
<1>8. ASSUME NEW a \in Nat, NEW b \in Nat, g = {<<a, b>>}, f <= a, a < b, b <= l,
             \A k \in 1 .. n : End(rs[k]) <= a \/ b <= Start(rs[k]),
             \A x \in Nat : f <= x /\ x < a => \E k \in 1 .. n : Start(rs[k]) <= x /\ x < End(rs[k]),
             b = l \/ \E k \in 1 .. n : b = Start(rs[k])
      PROVE  g = G
  <2>1. <<a, b>> \in ByteRanges /\ IsGap(rs, f, l, <<a, b>>) BY <1>0, <1>1, <1>8, MakeGap
  <2> QED BY <1>7c, <1>8, <2>1, OneGap
<1>9. CASE f >= l
  <2>1. g = {} BY <1>0, <1>7b, <1>9
  <2>2. ASSUME NEW q \in ByteRanges, IsGap(rs, f, l, q) PROVE FALSE
    <3>1. Start(q) \in Nat /\ End(q) \in Nat BY RangeFacts
    <3>2. Start(q) >= f /\ Start(q) < End(q) /\ End(q) <= l BY <2>2 DEF IsGap
    <3> QED BY <1>0, <1>9, <3>1, <3>2
  <2> QED BY <1>7c, <2>1, <2>2
<1>10. CASE f < l /\ i = n
  <2>1. g = {<<f, l>>} BY <1>0, <1>7b, <1>10
  <2>2. \A k \in 1 .. n : End(rs[k]) <= f \/ l <= Start(rs[k]) BY <1>4, <1>10
  <2>3. \A x \in Nat : ~(f <= x /\ x < f) BY <1>0
  <2> QED BY <1>0, <1>8, <1>10, <2>1, <2>2, <2>3
<1>11. CASE f < l /\ i < n /\ Start(rs[i + 1]) > f
  <2>1. i + 1 \in 1 .. n BY <1>4, <1>11
  <2>2. PICK s \in Nat : s = Start(rs[i + 1]) /\ s > f BY <1>5, <1>11, <2>1
  <2>3. PICK b \in Nat : b = Min({s, l}) /\ b = (IF s <= l THEN s ELSE l) BY <1>0, MinMax
  <2>4. g = {<<f, b>>} BY <1>0, <1>4, <1>7b, <1>11, <2>2, <2>3
  <2>5. f < b /\ b <= l /\ b <= s BY <1>0, <1>11, <2>2, <2>3
  <2>6. ASSUME NEW k \in 1 .. n PROVE End(rs[k]) <= f \/ b <= Start(rs[k])
    <3>1. CASE k <= i BY <1>4, <3>1
    <3>2. CASE k = i + 1 BY <2>2, <2>5, <3>2
    <3>3. CASE k > i + 1
      <4>1. End(rs[i + 1]) < Start(rs[k]) BY <1>6, <2>1, <3>3
      <4>2. s < End(rs[i + 1]) BY <1>5, <2>1, <2>2
      <4> QED BY <1>5, <2>1, <2>5, <4>1, <4>2
    <3> QED BY <1>4, <3>1, <3>2, <3>3
  <2>7. b = l \/ \E k \in 1 .. n : b = Start(rs[k]) BY <2>1, <2>2, <2>3
  <2>8. \A x \in Nat : ~(f <= x /\ x < f) BY <1>0
  <2> QED BY <1>0, <1>8, <2>4, <2>5, <2>6, <2>7, <2>8
<1>12. CASE f < l /\ i < n /\ ~(Start(rs[i + 1]) > f)
  <2>1. i + 1 \in 1 .. n /\ i + 1 \in i + 1 .. n BY <1>4, <1>12
  <2>2. PICK s \in Nat, e \in Nat : s = Start(rs[i + 1]) /\ e = End(rs[i + 1]) /\ s <= f /\ f < e
    BY <1>0, <1>4, <1>5, <1>12, <2>1
  <2>3. CASE e >= l
    <3>1. g = {} BY <1>0, <1>4, <1>7b, <1>12, <2>2, <2>3
    <3>2. ASSUME NEW q \in ByteRanges, IsGap(rs, f, l, q) PROVE FALSE
      <4>1. PICK c \in Nat, d \in Nat : c = Start(q) /\ d = End(q) BY RangeFacts
      <4>2. c >= f /\ c < d /\ d <= l BY <3>2, <4>1 DEF IsGap
      <4>3. c \in BytesOf(q) BY <4>1, <4>2, RangeFacts
      <4>4. s <= c /\ c < e BY <1>0, <2>2, <2>3, <4>2
      <4>5. c \in Denotes(rs) BY <1>1, <2>1, <2>2, <4>4, Vector
      <4> QED BY <3>2, <4>3, <4>5 DEF IsGap
    <3> QED BY <1>7c, <3>1, <3>2
  <2>4. CASE e < l
    <3>1. PICK b \in Nat : b = (IF i + 2 <= n THEN Min({Start(rs[i + 2]), l}) ELSE l)
                           /\ e < b /\ b <= l
                           /\ (b = l \/ (i + 2 <= n /\ b = Start(rs[i + 2])))
                           /\ (i + 2 <= n => b <= Start(rs[i + 2]))
      <4>1. CASE i + 2 <= n
        <5>1. i + 2 \in 1 .. n /\ i + 1 < i + 2 BY <1>4, <4>1
        <5>2. PICK u \in Nat : u = Start(rs[i + 2]) /\ e < u BY <1>5, <1>6, <2>1, <2>2, <5>1
        <5>3. Min({u, l}) = IF u <= l THEN u ELSE l BY <1>0, MinMax
        <5>4. PICK b \in Nat : b = Min({u, l}) BY <1>0, <5>3
        <5>5. e < b /\ b <= l /\ (b = l \/ b = u) /\ b <= u BY <1>0, <2>4, <5>2, <5>3, <5>4
        <5> QED BY <4>1, <5>2, <5>4, <5>5
      <4>2. CASE ~(i + 2 <= n) BY <1>0, <2>4, <4>2
      <4> QED BY <4>1, <4>2
    <3>2. g = {<<e, b>>} BY <1>0, <1>4, <1>7a, <1>7b, <1>12, <2>2, <2>4, <3>1
    <3>3. ASSUME NEW k \in 1 .. n PROVE End(rs[k]) <= e \/ b <= Start(rs[k])
      <4>1. CASE k <= i
        <5>1. k \in 1 .. i BY <1>4, <4>1
        <5>2. End(rs[k]) <= f /\ End(rs[k]) \in Nat BY <1>4, <1>5, <5>1
        <5> QED BY <1>0, <2>2, <5>2
      <4>2. CASE k = i + 1 BY <2>2, <4>2
      <4>3. CASE k = i + 2 BY <3>1, <4>3
      <4>4. CASE k > i + 2
        <5>1. i + 2 \in 1 .. n BY <1>4, <4>4
        <5>2. End(rs[i + 2]) < Start(rs[k]) /\ Start(rs[i + 2]) < End(rs[i + 2]) BY <1>5, <1>6, <4>4, <5>1
        <5>3. b <= Start(rs[i + 2]) BY <3>1, <5>1
        <5> QED BY <1>5, <5>1, <5>2, <5>3
      <4> QED BY <1>4, <4>1, <4>2, <4>3, <4>4
    <3>4. \A x \in Nat : f <= x /\ x < e => \E k \in 1 .. n : Start(rs[k]) <= x /\ x < End(rs[k])
      <4>1. \A x \in Nat : f <= x /\ x < e => Start(rs[i + 1]) <= x /\ x < End(rs[i + 1]) BY <1>0, <2>2
      <4> QED BY <2>1, <4>1
    <3>5. b = l \/ \E k \in 1 .. n : b = Start(rs[k])
      <4>1. i + 2 <= n => i + 2 \in 1 .. n BY <1>4
      <4> QED BY <3>1, <4>1
    <3>6. f <= e /\ e < b /\ b <= l BY <1>0, <2>2, <3>1
    <3> QED BY <1>8, <3>2, <3>3, <3>4, <3>5, <3>6, Zenon
  <2> QED BY <1>0, <2>2, <2>3, <2>4
<1> QED
  <2>1. f >= l \/ f < l BY <1>0
  <2>2. i = n \/ i < n BY <1>4
  <2> QED BY <1>9, <1>10, <1>11, <1>12, <2>1, <2>2, Zenon

\* gaps: the runs between the ranges that start below l, and what follows the last.
Before(rs, k) == IF k = 1 THEN 0 ELSE End(rs[k - 1])

LEMMA PairBytes ==
  ASSUME NEW a \in Nat, NEW b \in Nat, NEW x
  PROVE  x \in BytesOf(<<a, b>>) <=> x \in Nat /\ a <= x /\ x < b
BY DEF BytesOf, Start, End

LEMMA GapsExact ==
  ASSUME NEW rs, Good(rs), NEW l \in Nat
  PROVE  UNION {BytesOf(g) : g \in Gaps(rs, l)} = (0 .. l - 1) \ Denotes(rs)
<1>1. PICK n \in Nat : n = Len(rs) BY Vector
<1>2. PICK below : below = {k \in 1 .. Len(rs) : Start(rs[k]) < l} OBVIOUS
<1>3. PICK cur : cur = IF below = {} THEN 0 ELSE End(rs[Max(below)]) OBVIOUS
<1>4. \A k \in 1 .. n : Start(rs[k]) \in Nat /\ End(rs[k]) \in Nat /\ Start(rs[k]) < End(rs[k]) BY <1>1, Vector
<1>5. \A j, k \in 1 .. n : j < k => End(rs[j]) < Start(rs[k]) BY <1>1, Vector
<1>6. below \in SUBSET (1 .. n) /\ \A k \in 1 .. n : k \in below <=> Start(rs[k]) < l BY <1>1, <1>2
<1>7. below # {} => Max(below) \in below /\ \A y \in below : Max(below) >= y BY <1>6, MaxExists
<1>8. cur \in Nat /\ \A k \in below : End(rs[k]) <= cur
  <2>1. CASE below = {} BY <1>3, <2>1
  <2>2. CASE below # {}
    <3>1. PICK m \in 1 .. n : m = Max(below) /\ \A y \in below : m >= y BY <1>6, <1>7, <2>2
    <3>2. cur = End(rs[m]) /\ cur \in Nat BY <1>3, <1>4, <2>2, <3>1
    <3>3. ASSUME NEW k \in below PROVE End(rs[k]) <= cur
      <4>1. k \in 1 .. n /\ (k = m \/ k < m) BY <1>6, <3>1
      <4>2. CASE k = m BY <3>2, <4>2
      <4>3. CASE k < m
        <5>1. End(rs[k]) < Start(rs[m]) BY <1>5, <4>1, <4>3
        <5> QED BY <1>4, <3>2, <4>1, <5>1
      <4> QED BY <4>1, <4>2, <4>3
    <3> QED BY <3>2, <3>3
  <2> QED BY <2>1, <2>2
<1>9. ASSUME NEW k \in 1 .. n
      PROVE  /\ Before(rs, k) \in Nat /\ (k = 1 => Before(rs, k) = 0)
             /\ k # 1 => k - 1 \in 1 .. n /\ Before(rs, k) = End(rs[k - 1])
  <2>1. k # 1 => k - 1 \in 1 .. n OBVIOUS
  <2> QED BY <1>4, <2>1 DEF Before
<1>10. \A g : g \in Gaps(rs, l) <=>
         \/ \E k \in below : Start(rs[k]) > Before(rs, k) /\ g = <<Before(rs, k), Start(rs[k])>>
         \/ cur < l /\ g = <<cur, l>>
  BY <1>2, <1>3 DEF Gaps, Before
<1>11. ASSUME NEW x, NEW g \in Gaps(rs, l), x \in BytesOf(g) PROVE x \in (0 .. l - 1) \ Denotes(rs)
  <2>1. ASSUME NEW k \in below, g = <<Before(rs, k), Start(rs[k])>> PROVE x \in (0 .. l - 1) \ Denotes(rs)
    <3>1. k \in 1 .. n /\ Start(rs[k]) < l BY <1>6
    <3>2. PICK a \in Nat, b \in Nat : a = Before(rs, k) /\ b = Start(rs[k]) BY <1>4, <1>9, <3>1
    <3>3. x \in Nat /\ a <= x /\ x < b BY <1>11, <2>1, <3>2, PairBytes
    <3>4. x \in 0 .. l - 1 BY <3>1, <3>2, <3>3
    <3>5. ASSUME NEW j \in 1 .. n, Start(rs[j]) <= x, x < End(rs[j]) PROVE FALSE
      <4>1. j < k
        <5> SUFFICES ASSUME ~(j < k) PROVE FALSE OBVIOUS
        <5>1. CASE j = k BY <3>2, <3>3, <3>5, <5>1
        <5>2. CASE k < j
          <6>1. End(rs[k]) < Start(rs[j]) BY <1>5, <3>1, <5>2
          <6> QED BY <1>4, <3>1, <3>2, <3>3, <3>5, <6>1
        <5> QED BY <3>1, <5>1, <5>2
      <4>2. k # 1 /\ k - 1 \in 1 .. n /\ a = End(rs[k - 1]) BY <1>9, <3>1, <3>2, <4>1
      <4>3. CASE j = k - 1 BY <3>3, <3>5, <4>2, <4>3
      <4>4. CASE j # k - 1
        <5>1. j < k - 1 BY <3>1, <4>1, <4>4
        <5>2. End(rs[j]) < Start(rs[k - 1]) BY <1>5, <4>2, <5>1
        <5> QED BY <1>4, <3>3, <3>5, <4>2, <5>2
      <4> QED BY <4>3, <4>4
    <3>6. x \notin Denotes(rs) BY <1>1, <3>5, Vector
    <3> QED BY <3>4, <3>6
  <2>2. ASSUME cur < l, g = <<cur, l>> PROVE x \in (0 .. l - 1) \ Denotes(rs)
    <3>1. x \in Nat /\ cur <= x /\ x < l BY <1>8, <1>11, <2>2, PairBytes
    <3>2. ASSUME NEW j \in 1 .. n, Start(rs[j]) <= x, x < End(rs[j]) PROVE FALSE
      <4>1. j \in below BY <1>4, <1>6, <3>1, <3>2
      <4> QED BY <1>4, <1>8, <3>1, <3>2, <4>1
    <3>3. x \notin Denotes(rs) BY <1>1, <3>2, Vector
    <3> QED BY <3>1, <3>3
  <2> QED BY <1>10, <2>1, <2>2
<1>12. ASSUME NEW x \in (0 .. l - 1) \ Denotes(rs) PROVE \E g \in Gaps(rs, l) : x \in BytesOf(g)
  <2>0. x \in Nat /\ x < l OBVIOUS
  <2>1. PICK i \in 0 .. n : (\A k \in 1 .. i : Start(rs[k]) <= x) /\ (i < n => ~(Start(rs[i + 1]) <= x))
    BY <1>1, <2>0, Searches
  <2>2. ASSUME NEW k \in 1 .. i PROVE k \in 1 .. n /\ End(rs[k]) <= x
    <3>1. k \in 1 .. n /\ Start(rs[k]) <= x BY <2>1
    <3>2. ~(x < End(rs[k])) BY <1>1, <2>0, <3>1, Vector
    <3> QED BY <1>4, <2>0, <3>1, <3>2
  <2>3. CASE i < n /\ Start(rs[i + 1]) < l
    <3>1. PICK k \in 1 .. n : k = i + 1 BY <2>3
    <3>2. k \in below /\ x < Start(rs[k]) BY <1>4, <1>6, <2>0, <2>1, <2>3, <3>1
    <3>3. Before(rs, k) <= x
      <4>1. CASE k = 1 BY <1>9, <2>0, <4>1
      <4>2. CASE k # 1
        <5>1. k - 1 \in 1 .. i BY <3>1, <4>2
        <5> QED BY <1>9, <2>2, <4>2, <5>1
      <4> QED BY <4>1, <4>2
    <3>4. PICK a \in Nat, b \in Nat : a = Before(rs, k) /\ b = Start(rs[k]) BY <1>4, <1>9
    <3>5. x \in BytesOf(<<a, b>>) BY <2>0, <3>2, <3>3, <3>4, PairBytes
    <3>6. b > a BY <2>0, <3>2, <3>3, <3>4
    <3>7. <<a, b>> \in Gaps(rs, l) BY <1>10, <3>2, <3>4, <3>6
    <3> QED BY <3>5, <3>7
  <2>4. CASE ~(i < n /\ Start(rs[i + 1]) < l)
    <3>1. ASSUME NEW k \in below PROVE k \in 1 .. i
      <4>1. k \in 1 .. n /\ Start(rs[k]) < l BY <1>6
      <4> SUFFICES ASSUME i < k PROVE FALSE BY <4>1
      <4>2. i < n /\ i + 1 \in 1 .. n BY <4>1
      <4>3. ~(Start(rs[i + 1]) < l) BY <2>4, <4>2
      <4>4. CASE k = i + 1 BY <4>1, <4>3, <4>4
      <4>5. CASE k # i + 1
        <5>1. i + 1 < k BY <4>1, <4>5
        <5>2. End(rs[i + 1]) < Start(rs[k]) BY <1>5, <4>1, <4>2, <5>1
        <5> QED BY <1>4, <4>1, <4>2, <4>3, <5>2
      <4> QED BY <4>4, <4>5
    <3>2. cur <= x
      <4>1. CASE below = {} BY <1>3, <2>0, <4>1
      <4>2. CASE below # {} BY <1>3, <1>7, <2>2, <3>1, <4>2
      <4> QED BY <4>1, <4>2
    <3>3. x \in BytesOf(<<cur, l>>) /\ cur < l BY <1>8, <2>0, <3>2, PairBytes
    <3>4. <<cur, l>> \in Gaps(rs, l) BY <1>10, <3>3
    <3> QED BY <3>3, <3>4
  <2> QED BY <2>3, <2>4
<1> QED BY <1>11, <1>12

-----------------------------------------------------------------------------
(***************************************************************************)
(* The inductive invariant and the theorems.                               *)
(***************************************************************************)
RangeInv == Good(ranges) /\ covered = Cardinality(Denotes(ranges))

LEMMA InsertStep ==
  ASSUME RangeInv, NEW r \in ByteRanges, InsertRange(r)
  PROVE  RangeInv' /\ Denotes(ranges') = Denotes(ranges) \cup BytesOf(r)
<1>1. PICK rs, c : rs = ranges /\ c = covered OBVIOUS
<1>2. Good(rs) /\ c = Cardinality(Denotes(rs)) BY <1>1 DEF RangeInv
<1>3. PICK ns : InsertInto(Whole(rs), r) = Whole(ns) /\ Good(ns) /\ Denotes(ns) = Denotes(rs) \cup BytesOf(r)
  BY <1>2, InsertExact
<1>4. InsertInto([ranges |-> rs, covered |-> c], r) = [ranges |-> ns, covered |-> Cardinality(Denotes(ns))]
  BY <1>2, <1>3 DEF Whole
<1>5. ranges' = ns /\ covered' = Cardinality(Denotes(ns)) BY <1>1, <1>4 DEF InsertRange
<1> QED BY <1>1, <1>3, <1>5 DEF RangeInv

LEMMA RemoveStep ==
  ASSUME RangeInv, NEW r \in ByteRanges, RemoveRange(r)
  PROVE  RangeInv' /\ Denotes(ranges') = Denotes(ranges) \ BytesOf(r)
BY RemoveExact DEF RangeInv

\* The vector that insert and remove splice is normalized in every reachable state, for
\* every size of file and any sequence of calls, and `covered` counts its bytes.
THEOREM RangeInvariant == Spec => []RangeInv
<1>1. Init => RangeInv
  <2> SUFFICES ASSUME ranges = <<>>, covered = 0 PROVE RangeInv BY DEF Init
  <2>1. Len(ranges) = 0 /\ ranges \in Seq(ByteRanges) /\ 1 .. 0 = {} OBVIOUS
  <2>2. Denotes(ranges) = {} BY <2>1 DEF Denotes
  <2> QED BY <2>1, <2>2, FS_EmptySet DEF RangeInv, Good
<1>2. RangeInv /\ [Next]_vars => RangeInv'
  <2> SUFFICES ASSUME RangeInv, [Next]_vars PROVE RangeInv' OBVIOUS
  <2>1. ASSUME NEW r \in ByteRanges, InsertRange(r) PROVE RangeInv' BY <2>1, InsertStep
  <2>2. ASSUME NEW r \in ByteRanges, RemoveRange(r) PROVE RangeInv' BY <2>2, RemoveStep
  <2>3. CASE UNCHANGED vars BY <2>3 DEF vars, RangeInv, Good, Denotes
  <2> QED BY <2>1, <2>2, <2>3 DEF Next
<1> QED BY <1>1, <1>2, PTL DEF Spec

\* What assert_normalized checks holds after any sequence of inserts and removes, and the
\* counter that they update incrementally never drifts from the number of bytes.
THEOREM AlwaysNormalized == Spec => []Normalized
<1>1. ASSUME RangeInv PROVE Normalized
  <2>1. ranges \in Seq(ByteRanges) /\ Good(ranges) /\ covered = Cardinality(Denotes(ranges))
    BY <1>1 DEF RangeInv, Good
  <2>2. Len(ranges) \in Nat BY <2>1, SeqFacts
  <2>3. ASSUME NEW i \in 1 .. Len(ranges) PROVE Length(ranges[i]) > 0
    <3>1. ranges[i] \in ByteRanges BY <2>1, SeqFacts
    <3>2. Start(ranges[i]) < End(ranges[i]) BY <2>1 DEF Good
    <3> QED BY <3>1, <3>2, RangeFacts
  <2>4. ASSUME NEW i \in 1 .. Len(ranges) - 1 PROVE End(ranges[i]) < Start(ranges[i + 1])
    <3>1. i \in 1 .. Len(ranges) /\ i + 1 \in 1 .. Len(ranges) /\ i < i + 1 BY <2>2
    <3> QED BY <2>1, <3>1 DEF Good
  <2> QED BY <2>1, <2>3, <2>4 DEF Normalized
<1> QED BY <1>1, RangeInvariant, PTL

\* In every reachable state the queries answer for the bytes: first_gap, gaps,
\* contains_range, contiguous_prefix, is_complete; and a set that is serialized and
\* read back, in order or reversed, is the same set.
THEOREM QueriesAgree == Spec => []QueriesExact
<1>1. ASSUME RangeInv PROVE QueriesExact
  <2>2. Good(ranges) /\ covered = Cardinality(Denotes(ranges)) BY <1>1 DEF RangeInv
  <2>3. \A t \in 0 .. MaxByte : t \in Nat BY MaxByteAssumption
  <2>4. \A f, l \in 0 .. MaxByte : FirstGap(ranges, f, l) = {r \in ByteRanges : IsGap(ranges, f, l, r)}
    BY <2>2, FirstGapExact
  <2>5. \A l \in 0 .. MaxByte : UNION {BytesOf(g) : g \in Gaps(ranges, l)} = (0 .. l - 1) \ Denotes(ranges)
    BY <2>2, <2>3, GapsExact
  <2>6. \A r \in ByteRanges : ContainsRange(ranges, r) <=> BytesOf(r) \subseteq Denotes(ranges)
    BY <2>2, ContainsExact
  <2>7. /\ 0 .. ContiguousPrefix(ranges) - 1 \subseteq Denotes(ranges)
        /\ ContiguousPrefix(ranges) \notin Denotes(ranges)
    BY <2>2, PrefixExact
  <2>8. \A t \in 0 .. MaxByte : /\ IsComplete(ranges, t) => 0 .. t - 1 \subseteq Denotes(ranges)
                                /\ Denotes(ranges) = 0 .. t - 1 => IsComplete(ranges, t)
    BY <2>2, <2>3, CompleteExact
  <2>9. /\ FromRanges(ranges) = [ranges |-> ranges, covered |-> covered]
        /\ FromRanges(Reverse(ranges) \o ranges) = [ranges |-> ranges, covered |-> covered]
    BY <2>2, ReadBack DEF Whole
  <2> QED BY <2>4, <2>5, <2>6, <2>7, <2>8, <2>9 DEF QueriesExact, IsGap
<1> QED BY <1>1, RangeInvariant, PTL

\* insert and remove on the vector are Add and Drop on the set of bytes it denotes, call
\* by call: what the other modules use in its place.
THEOREM RefinesByteSet == Spec => ImplementsByteSet
<1>1. Init => Bytes!Init
  <2> SUFFICES ASSUME ranges = <<>> PROVE Denotes(ranges) = {} BY DEF Init, Bytes!Init
  <2>1. Len(ranges) = 0 /\ 1 .. 0 = {} OBVIOUS
  <2> QED BY <2>1 DEF Denotes
<1>2. ASSUME RangeInv, NEW r \in ByteRanges, InsertRange(r) PROVE Bytes!Add(Start(r), End(r))
  BY <1>2, InsertStep DEF Bytes!Add, BytesOf
<1>3. ASSUME RangeInv, NEW r \in ByteRanges, RemoveRange(r) PROVE Bytes!Drop(Start(r), End(r))
  BY <1>3, RemoveStep DEF Bytes!Drop, BytesOf
<1>4. \A r \in ByteRanges : Start(r) \in 0 .. MaxByte /\ End(r) \in 0 .. MaxByte /\ Start(r) <= End(r)
  BY DEF ByteRanges, Start, End
<1>5. RangeInv /\ [Next]_vars => [Bytes!Next]_(Denotes(ranges))
  <2> SUFFICES ASSUME RangeInv, [Next]_vars PROVE Bytes!Next \/ Denotes(ranges') = Denotes(ranges) OBVIOUS
  <2>1. ASSUME NEW r \in ByteRanges, InsertRange(r) PROVE Bytes!Next BY <1>2, <1>4, <2>1 DEF Bytes!Next
  <2>2. ASSUME NEW r \in ByteRanges, RemoveRange(r) PROVE Bytes!Next BY <1>3, <1>4, <2>2 DEF Bytes!Next
  <2>3. CASE UNCHANGED vars BY <2>3 DEF vars
  <2> QED BY <2>1, <2>2, <2>3 DEF Next
<1>6. RangeInv => [\A r \in ByteRanges :
                     /\ InsertRange(r) => Bytes!Add(Start(r), End(r))
                     /\ RemoveRange(r) => Bytes!Drop(Start(r), End(r))]_vars
  BY <1>2, <1>3
<1> QED BY <1>1, <1>5, <1>6, RangeInvariant, PTL DEF Spec, ImplementsByteSet, Bytes!Spec

=============================================================================
