-------------------------- MODULE BackpressureProofs --------------------------
(***************************************************************************)
(* Proofs about Backpressure.  Sums over the tasks and over the buffered   *)
(* chunks are reached through the function that defines them: a set of     *)
(* numbers that is not all of Nat has a least number missing, so that what *)
(* holds of a set without one member can be carried to the set, size by    *)
(* size (AllNumbers).                                                      *)
(***************************************************************************)
EXTENDS Backpressure, FiniteSetTheorems, WellFoundedInduction, TLAPS

-----------------------------------------------------------------------------
(***************************************************************************)
(* Sums over finite sets.                                                  *)
(***************************************************************************)
Pick(s) == CHOOSE x \in s : TRUE
Adds(F, g, S) == F = [s \in SUBSET S |-> IF s = {} THEN 0 ELSE g[Pick(s)] + F[s \ {Pick(s)}]]

LEMMA LeastExists ==
  ASSUME NEW S, S \subseteq Nat, S # {} PROVE \E x \in S : \A y \in S : x <= y
<1>0. OpToRel(<, Nat) = {ss \in Nat \X Nat : ss[1] < ss[2]} BY Zenon DEF OpToRel
<1>1. PICK x \in S : \A y \in S : ~(<<y, x>> \in {ss \in Nat \X Nat : ss[1] < ss[2]})
  BY <1>0, NatLessThanWellFounded, WFMin
<1>2. ASSUME NEW y \in S PROVE x <= y
  <2>1. <<y, x>> \in Nat \X Nat /\ <<y, x>>[1] = y /\ <<y, x>>[2] = x OBVIOUS
  <2>2. ~(y < x) BY <1>1, <2>1
  <2> QED BY <2>2
<1> QED BY <1>2

\* A set of numbers that has 0 and, with each number, the next is all of Nat.
LEMMA AllNumbers ==
  ASSUME NEW T, 0 \in T, \A n \in Nat : n \in T => n + 1 \in T PROVE Nat \subseteq T
<1> SUFFICES ASSUME Nat \ T # {} PROVE FALSE OBVIOUS
<1>1. PICK x \in Nat \ T : \A y \in Nat \ T : x <= y BY LeastExists
<1>2. x # 0 /\ x - 1 \in Nat BY <1>1
<1>3. x - 1 \in T BY <1>1, <1>2
<1>4. x - 1 + 1 = x BY <1>1
<1> QED BY <1>1, <1>2, <1>3, <1>4

\* Subsets by size.
Upto(S, n) == {s \in SUBSET S : Cardinality(s) <= n}

LEMMA PickMember == \A s : s # {} => Pick(s) \in s
BY DEF Pick

AddsUpto(F, g, S, n) ==
  F = [s \in Upto(S, n) |-> IF s = {} THEN 0 ELSE g[Pick(s)] + F[s \ {Pick(s)}]]

LEMMA AddsExists ==
  ASSUME NEW S, IsFiniteSet(S), NEW g PROVE \E F : Adds(F, g, S)
<1> DEFINE T == {n \in Nat : \E F : AddsUpto(F, g, S, n)}
<1>0. \A s \in SUBSET S : IsFiniteSet(s) /\ Cardinality(s) \in Nat
      BY FS_Subset, FS_CardinalityType
<1>0a. ASSUME NEW s \in SUBSET S, s # {}
       PROVE  s \ {Pick(s)} \in SUBSET S /\ Cardinality(s \ {Pick(s)}) = Cardinality(s) - 1
  <2>1. PICK x \in s : x = Pick(s) BY <1>0a, PickMember
  <2>2. Cardinality(s \ {x}) = Cardinality(s) - 1 BY <1>0, <2>1, FS_RemoveElement
  <2> QED BY <2>1, <2>2
<1>0b. \A s \in SUBSET S : Cardinality(s) = 0 <=> s = {} BY <1>0, FS_EmptySet
<1>1. 0 \in T
  <2>1. Upto(S, 0) = {{}} BY <1>0, <1>0b DEF Upto
  <2>2. AddsUpto([s \in {{}} |-> 0], g, S, 0) BY <2>1 DEF AddsUpto
  <2> QED BY <2>2
<1>2. ASSUME NEW n \in Nat, n \in T PROVE n + 1 \in T
  <2>1. PICK F : AddsUpto(F, g, S, n) BY <1>2
  <2>2. PICK G : G = [s \in Upto(S, n + 1) |-> IF s = {} THEN 0 ELSE g[Pick(s)] + F[s \ {Pick(s)}]] OBVIOUS
  <2>3. ASSUME NEW s \in Upto(S, n + 1), s # {} PROVE G[s \ {Pick(s)}] = F[s \ {Pick(s)}]
    <3>1. s \ {Pick(s)} \in Upto(S, n) BY <1>0, <1>0a, <2>3 DEF Upto
    <3>2. s \ {Pick(s)} \in Upto(S, n + 1) BY <1>0, <1>0a, <2>3 DEF Upto
    <3>3. PICK r : r = s \ {Pick(s)} OBVIOUS
    <3>4. G[r] = IF r = {} THEN 0 ELSE g[Pick(r)] + F[r \ {Pick(r)}] BY <2>2, <3>2, <3>3
    <3>5. F[r] = IF r = {} THEN 0 ELSE g[Pick(r)] + F[r \ {Pick(r)}] BY <2>1, <3>1, <3>3 DEF AddsUpto
    <3> QED BY <3>3, <3>4, <3>5
  <2>4. AddsUpto(G, g, S, n + 1) BY <2>2, <2>3 DEF AddsUpto
  <2> QED BY <2>4
<1> HIDE DEF T
<1>3. Nat \subseteq T
  <2>1. \A n \in Nat : n \in T => n + 1 \in T BY <1>2
  <2> QED BY <1>1, <2>1, AllNumbers
<1>4. Cardinality(S) \in T BY <1>0, <1>3
<1>5. Upto(S, Cardinality(S)) = SUBSET S BY <1>0, FS_Subset DEF Upto
<1>6. PICK F : AddsUpto(F, g, S, Cardinality(S)) BY <1>4 DEF T
<1> QED BY <1>5, <1>6 DEF Adds, AddsUpto

\* What holds of the empty set and of a set with its smaller sets holds of all.
LEMMA SetBySet ==
  ASSUME NEW S, IsFiniteSet(S), NEW T, {} \in T,
         \A s \in SUBSET S : s # {} /\ (\A u \in SUBSET s : u # s => u \in T) => s \in T
  PROVE  SUBSET S \subseteq T
<1> DEFINE N == {n \in Nat : \A s \in Upto(S, n) : s \in T}
<1>0. \A s \in SUBSET S : IsFiniteSet(s) /\ Cardinality(s) \in Nat /\ (Cardinality(s) = 0 <=> s = {})
  BY FS_Subset, FS_CardinalityType, FS_EmptySet
<1>1. 0 \in N
  <2>1. \A s \in Upto(S, 0) : s = {} BY <1>0 DEF Upto
  <2> QED BY <2>1
<1>2. ASSUME NEW n \in Nat, n \in N PROVE n + 1 \in N
  <2>0. \A s \in Upto(S, n) : s \in T BY <1>2
  <2>1. ASSUME NEW s \in Upto(S, n + 1), s \notin Upto(S, n) PROVE s \in T
    <3> HIDE DEF N
    <3>1. s \in SUBSET S /\ s # {} /\ Cardinality(s) = n + 1 /\ IsFiniteSet(s)
      BY <1>0, <2>1 DEF Upto
    <3>2. ASSUME NEW u \in SUBSET s, u # s PROVE u \in T
      <4>1. Cardinality(u) <= n BY <1>0, <3>1, <3>2, FS_Subset
      <4>2. u \in Upto(S, n) BY <3>1, <4>1 DEF Upto
      <4> QED BY <2>0, <4>2
    <3> QED BY <3>1, <3>2
  <2> QED BY <2>0, <2>1
<1> HIDE DEF N
<1>3. Nat \subseteq N
  <2>1. \A n \in Nat : n \in N => n + 1 \in N BY <1>2
  <2> QED BY <1>1, <2>1, AllNumbers
<1>4. ASSUME NEW s \in SUBSET S PROVE s \in T
  <2>1. Cardinality(s) \in N /\ s \in Upto(S, Cardinality(s)) BY <1>0, <1>3 DEF Upto
  <2> QED BY <2>1 DEF N
<1> QED BY <1>4

\* What is added first does not matter.
LEMMA AddsAny ==
  ASSUME NEW S, IsFiniteSet(S), NEW g, \A x \in S : g[x] \in Int, NEW F, Adds(F, g, S)
  PROVE  /\ F[{}] = 0
         /\ \A s \in SUBSET S : F[s] \in Int /\ \A x \in s : F[s] = g[x] + F[s \ {x}]
<1> DEFINE T == {s \in SUBSET S : F[s] \in Int /\ \A x \in s : F[s] = g[x] + F[s \ {x}]}
<1>1. F[{}] = 0 BY DEF Adds
<1>2. {} \in T BY <1>1
<1>3. ASSUME NEW s \in SUBSET S, s # {}, \A u \in SUBSET s : u # s => u \in T PROVE s \in T
  <2>0. \A x \in s : s \ {x} \in T BY <1>3
  <2>1. PICK p \in s : p = Pick(s) BY <1>3, PickMember
  <2>2. F[s] = g[p] + F[s \ {p}] BY <1>3, <2>1 DEF Adds
  <2>3. \A x \in s : g[x] \in Int /\ F[s \ {x}] \in Int BY <2>0
  <2>4. ASSUME NEW x \in s PROVE F[s] = g[x] + F[s \ {x}]
    <3>1. CASE x = p BY <2>2, <3>1
    <3>2. CASE x # p
      <4>1. F[s \ {p}] = g[x] + F[(s \ {p}) \ {x}] BY <2>0, <3>2
      <4>2. F[s \ {x}] = g[p] + F[(s \ {x}) \ {p}] BY <2>0, <3>2
      <4>3. (s \ {p}) \ {x} = (s \ {x}) \ {p} OBVIOUS
      <4>4. PICK a \in Int, b \in Int, e \in Int : a = g[p] /\ b = g[x] /\ e = F[s \ {x}] BY <2>3
      <4>5. PICK r : r = F[(s \ {x}) \ {p}] OBVIOUS
      <4>6. PICK f \in Int : f = F[s \ {p}] BY <2>3
      <4>7. f = b + r /\ e = a + r BY <4>1, <4>2, <4>3, <4>4, <4>5, <4>6
      <4>8. r \in Int
        <5>1. (s \ {x}) \ {p} \in T BY <1>3
        <5> QED BY <4>5, <5>1
      <4>9. F[s] = a + f BY <2>2, <4>4, <4>6
      <4> QED BY <4>4, <4>7, <4>8, <4>9
    <3> QED BY <3>1, <3>2
  <2>5. F[s] \in Int
    <3>1. PICK a \in Int, b \in Int : a = g[p] /\ b = F[s \ {p}] BY <2>3
    <3> QED BY <2>2, <3>1
  <2> QED BY <2>4, <2>5
<1> HIDE DEF T
<1>4. SUBSET S \subseteq T BY <1>2, <1>3, SetBySet
<1> QED BY <1>1, <1>4 DEF T

\* Only the members count.
LEMMA AddsAlike ==
  ASSUME NEW S, IsFiniteSet(S), NEW T, NEW g, NEW h, NEW F, NEW H, Adds(F, g, S), Adds(H, h, T),
         NEW v \in SUBSET S, v \subseteq T, \A x \in v : g[x] = h[x]
  PROVE  F[v] = H[v]
<1> DEFINE E == {s \in SUBSET v : F[s] = H[s]}
<1>1. {} \in E BY DEF Adds
<1>2. ASSUME NEW s \in SUBSET v, s # {}, \A u \in SUBSET s : u # s => u \in E PROVE s \in E
  <2>1. PICK p \in s : p = Pick(s) BY <1>2, PickMember
  <2>2. F[s] = g[p] + F[s \ {p}] BY <1>2, <2>1 DEF Adds
  <2>3. H[s] = h[p] + H[s \ {p}] BY <1>2, <2>1 DEF Adds
  <2>4. s \ {p} \in E BY <1>2
  <2> QED BY <2>2, <2>3, <2>4
<1>3. IsFiniteSet(v) BY FS_Subset
<1> HIDE DEF E
<1>4. SUBSET v \subseteq E BY <1>1, <1>2, <1>3, SetBySet
<1> QED BY <1>4 DEF E

LEMMA TotalAdds ==
  ASSUME NEW S, IsFiniteSet(S), NEW g PROVE \E F : Adds(F, g, S) /\ Total(g, S) = F[S]
<1>1. \E F : Adds(F, g, S) BY AddsExists
<1> QED BY <1>1 DEF Total, MapThenSumSet, MapThenFoldSet, Adds, Pick

LEMMA TotalType ==
  ASSUME NEW S, IsFiniteSet(S), NEW g, \A x \in S : g[x] \in Int PROVE Total(g, S) \in Int
<1>1. PICK F : Adds(F, g, S) /\ Total(g, S) = F[S] BY TotalAdds
<1> QED BY <1>1, AddsAny

LEMMA TotalEmpty == ASSUME NEW g PROVE Total(g, {}) = 0
<1>0. IsFiniteSet({}) BY FS_EmptySet
<1>1. PICK F : Adds(F, g, {}) /\ Total(g, {}) = F[{}] BY <1>0, TotalAdds
<1> QED BY <1>1 DEF Adds

LEMMA TotalAlike ==
  ASSUME NEW S, IsFiniteSet(S), NEW g, NEW h, \A x \in S : g[x] = h[x] PROVE Total(g, S) = Total(h, S)
<1>1. PICK F : Adds(F, g, S) /\ Total(g, S) = F[S] BY TotalAdds
<1>2. PICK H : Adds(H, h, S) /\ Total(h, S) = H[S] BY TotalAdds
<1> QED BY <1>1, <1>2, AddsAlike

\* One member taken out.
LEMMA TotalWithout ==
  ASSUME NEW S, IsFiniteSet(S), NEW g, \A x \in S : g[x] \in Int, NEW x \in S
  PROVE  Total(g, S) = g[x] + Total(g, S \ {x})
<1>0. IsFiniteSet(S \ {x}) BY FS_RemoveElement
<1>1. PICK F : Adds(F, g, S) /\ Total(g, S) = F[S] BY TotalAdds
<1>2. PICK H : Adds(H, g, S \ {x}) /\ Total(g, S \ {x}) = H[S \ {x}] BY <1>0, TotalAdds
<1>3. F[S] = g[x] + F[S \ {x}]
  <2>1. S \in SUBSET S OBVIOUS
  <2>2. \A s \in SUBSET S : F[s] \in Int /\ \A y \in s : F[s] = g[y] + F[s \ {y}]
    BY ONLY <1>1, AddsAny, IsFiniteSet(S), \A y \in S : g[y] \in Int
  <2> QED BY <2>1, <2>2
<1>4. F[S \ {x}] = H[S \ {x}] BY <1>1, <1>2, AddsAlike
<1> QED BY <1>1, <1>2, <1>3, <1>4
\* One member put in.
LEMMA TotalWith ==
  ASSUME NEW S, IsFiniteSet(S), NEW x, x \notin S, NEW g, \A y \in S \cup {x} : g[y] \in Int
  PROVE  Total(g, S \cup {x}) = g[x] + Total(g, S)
<1>1. PICK U : U = S \cup {x} OBVIOUS
<1>2. IsFiniteSet(U) /\ x \in U /\ U \ {x} = S /\ \A y \in U : g[y] \in Int BY <1>1, FS_AddElement
<1>3. Total(g, U) = g[x] + Total(g, U \ {x}) BY <1>2, TotalWithout
<1> QED BY <1>1, <1>2, <1>3

\* One term changes.
LEMMA TotalUpdate ==
  ASSUME NEW S, IsFiniteSet(S), NEW g, NEW h, \A y \in S : g[y] \in Int /\ h[y] \in Int,
         NEW x \in S, \A y \in S \ {x} : h[y] = g[y]
  PROVE  Total(h, S) = Total(g, S) - g[x] + h[x]
<1>1. PICK U : U = S \ {x} OBVIOUS
<1>2. IsFiniteSet(U) BY <1>1, FS_RemoveElement
<1>3. Total(g, U) = Total(h, U) BY <1>1, <1>2, TotalAlike
<1>4. Total(g, U) \in Int BY <1>1, <1>2, TotalType
<1>5. Total(g, S) = g[x] + Total(g, U) BY <1>1, TotalWithout
<1>6. Total(h, S) = h[x] + Total(h, U) BY <1>1, TotalWithout
<1> QED BY <1>3, <1>4, <1>5, <1>6

LEMMA TotalNat ==
  ASSUME NEW S, IsFiniteSet(S), NEW g, \A x \in S : g[x] \in Nat PROVE Total(g, S) \in Nat
<1> DEFINE T == {s \in SUBSET S : Total(g, s) \in Nat}
<1>1. {} \in T BY TotalEmpty
<1>2. ASSUME NEW s \in SUBSET S, s # {}, \A u \in SUBSET s : u # s => u \in T PROVE s \in T
  <2>1. PICK x \in s : TRUE BY <1>2
  <2>2. PICK u : u = s \ {x} OBVIOUS
  <2>3. Total(g, u) \in Nat BY <1>2, <2>2
  <2>4. IsFiniteSet(s) /\ \A y \in s : g[y] \in Int BY FS_Subset
  <2>5. Total(g, s) = g[x] + Total(g, u) BY <2>2, <2>4, TotalWithout
  <2> QED BY <2>3, <2>5
<1> HIDE DEF T
<1>3. SUBSET S \subseteq T BY <1>1, <1>2, SetBySet
<1> QED BY <1>3 DEF T

\* At most m for each member of H and nothing for the others.
LEMMA TotalBound ==
  ASSUME NEW S, IsFiniteSet(S), NEW g, NEW m \in Nat, NEW H,
         \A x \in S : g[x] \in Nat /\ g[x] <= m /\ (x \notin H => g[x] = 0)
  PROVE  Total(g, S) \in Nat /\ Total(g, S) <= m * Cardinality(S \cap H)
<1> DEFINE T == {s \in SUBSET S : Total(g, s) \in Nat /\ Total(g, s) <= m * Cardinality(s \cap H)}
<1>1. {} \in T
  <2>1. {} \cap H = {} /\ Cardinality({}) = 0 BY FS_EmptySet
  <2> QED BY <2>1, TotalEmpty
<1>2. ASSUME NEW s \in SUBSET S, s # {}, \A u \in SUBSET s : u # s => u \in T PROVE s \in T
  <2>1. PICK x \in s : TRUE BY <1>2
  <2>2. PICK u : u = s \ {x} OBVIOUS
  <2>3. u \in T BY <1>2, <2>2
  <2>4. IsFiniteSet(s) /\ \A y \in s : g[y] \in Int BY FS_Subset
  <2>5. Total(g, s) = g[x] + Total(g, u) BY <2>2, <2>4, TotalWithout
  <2>6. PICK a \in Nat, b \in Nat : a = g[x] /\ b = Total(g, u) BY <2>3
  <2>7. IsFiniteSet(s \cap H) BY <2>4, FS_Subset
  <2>8. PICK d \in Nat : d = Cardinality(s \cap H) BY <2>7, FS_CardinalityType
  <2>9. PICK w \in Nat : w = Cardinality(u \cap H)
    <3>1. IsFiniteSet(u \cap H) BY <2>2, <2>4, FS_Subset
    <3> QED BY <3>1, FS_CardinalityType
  <2>10. b <= m * w BY <2>3, <2>6, <2>9
  <2> HIDE DEF T
  <2>11. a + b <= m * d
    <3>1. CASE x \in H
      <4>1. PICK v : v = s \cap H OBVIOUS
      <4>1a. u \cap H = v \ {x} /\ x \in v /\ IsFiniteSet(v) BY <2>2, <2>7, <3>1, <4>1
      <4>1b. Cardinality(v \ {x}) = Cardinality(v) - 1 BY <4>1a, FS_RemoveElement
      <4>2. w = d - 1 BY <2>8, <2>9, <4>1, <4>1a, <4>1b
      <4>3. m * d = m * w + m BY <4>2
      <4>4. m * w \in Nat OBVIOUS
      <4> QED BY <2>6, <2>10, <4>3, <4>4
    <3>2. CASE x \notin H
      <4>1. u \cap H = s \cap H BY <2>2, <3>2
      <4>2. a = 0 BY <2>6, <3>2
      <4>3. w = d BY <2>8, <2>9, <4>1
      <4>4. b <= m * d BY <2>10, <4>3
      <4> QED BY <4>2, <4>4
    <3> QED BY <3>1, <3>2
  <2> QED BY <2>5, <2>6, <2>8, <2>11 DEF T
<1> HIDE DEF T
<1>3. SUBSET S \subseteq T BY <1>1, <1>2, SetBySet
<1> QED BY <1>3 DEF T

-----------------------------------------------------------------------------
(***************************************************************************)
(* The inductive invariant.                                                *)
(***************************************************************************)
ChunkType == [off : Nat, len : Nat, mem : Nat]
TaskType ==
  [pc : Places, off : Nat, len : Nat, held : Nat, got : Nat, woken : BOOLEAN, quit : BOOLEAN,
   cur : ChunkType]

Typed ==
  /\ used \in 0 .. MemLimit /\ loan \in 0 .. MemLimit /\ ops \in Nat /\ units \in Nat
  /\ task \in [Tasks -> TaskType] /\ pending \subseteq ChunkType /\ IsFiniteSet(pending)
  /\ next \in 0 .. Length /\ lock \in Tasks \cup {0} /\ out \in Seq(Nat)
  /\ stop \in BOOLEAN /\ upsets \in 0 .. MaxUpsets

\* What a task in state r owns, by where it is.
Empty == {"frame", "memory", "listen", "recheck", "parked", "done"}
Fits(t, r) ==
  /\ r.off <= End(t) /\ r.len <= MaxFrame /\ r.len <= MemLimit
  /\ r.pc \notin {"frame", "done"} => r.len > 0 /\ r.off + r.len <= End(t)
  /\ r.held \in {0, r.len} /\ (r.pc \in Empty \cup {"dropped"} => r.held = 0)
  /\ r.got <= UnitsFor(r.len)
  /\ r.pc \in Empty \cup {"ops", "free_ops"} => r.got = 0
  /\ r.pc = "bytes" => r.got < UnitsFor(r.len)
  /\ r.pc # "push" => r.cur = None

Fitting == \A t \in Tasks : Fits(t, task[t])

\* The adapter: whoever pushes or drains has the mutex, and pushes at next_offset.
Adapter ==
  /\ \A t \in Tasks : lock = t <=> task[t].pc \in {"push", "drain"}
  /\ \A t \in Tasks : At(t, "push") => task[t].cur.off = next /\ Last(task[t].cur) <= Length
  /\ \A c \in pending : Last(c) <= Length
  /\ Buffered <= MaxBuffered
  /\ Len(out) = next /\ \A i \in 1 .. Len(out) : out[i] = i - 1

\* The destination has credits for the largest chunk of each of its operations.
Ample == Ops * MaxFrame <= ByteUnits

Credits ==
  /\ CreditsExact
  /\ Ample => \A t \in Tasks : task[t].pc # "dropped"

\* A byte handed to the adapter is pushed, on its way or buffered.
Covered(b) ==
  \/ b < next
  \/ \E c \in pending \cup {task[u].cur : u \in Tasks} : c.off <= b /\ b < Last(c)

\* How far a task's bytes have been handed over.
Given(r) == r.off + (IF r.pc \in {"push", "drain", "free_bytes", "free_ops"} THEN r.len ELSE 0)

Kept ==
  /\ \A t \in Tasks : task[t].quit => stop
  /\ ~stop /\ (\E t \in Tasks : ~Ended(t)) =>
       \A t \in Tasks : \A b \in Start(t) .. Given(task[t]) - 1 : Covered(b)

BackpressureInv == Typed /\ Fitting /\ Adapter /\ MemoryExact /\ Credits /\ Kept
-----------------------------------------------------------------------------
(***************************************************************************)
(* What a step does to the tasks, to the sums over them and to each part   *)
(* of the invariant.                                                       *)
(***************************************************************************)
\* Equal but for `woken`, which no part of the invariant looks at.
Like(r, s) ==
  /\ r.pc = s.pc /\ r.off = s.off /\ r.len = s.len /\ r.held = s.held
  /\ r.got = s.got /\ r.quit = s.quit /\ r.cur = s.cur

\* Task t's record becomes r and nobody else does more than wake up.
Moves(t, r) ==
  /\ task' \in [Tasks -> TaskType] /\ Like(task'[t], r)
  /\ \A u \in Tasks \ {t} : Like(task'[u], task[u])

Still == task' \in [Tasks -> TaskType] /\ \A u \in Tasks : Like(task'[u], task[u])

LEMMA MovesPlain ==
  ASSUME Typed, NEW t \in Tasks, NEW r \in TaskType, task' = [task EXCEPT ![t] = r]
  PROVE  Moves(t, r)
<1>1. task' \in [Tasks -> TaskType] /\ task'[t] = r /\ \A u \in Tasks \ {t} : task'[u] = task[u]
  BY DEF Typed
<1> QED BY <1>1 DEF Moves, Like

LEMMA MovesNotified ==
  ASSUME Typed, NEW t \in Tasks, NEW r \in TaskType, NEW where,
         task' = Notified([task EXCEPT ![t] = r], where)
  PROVE  Moves(t, r)
<1>1. PICK tk : tk = [task EXCEPT ![t] = r] OBVIOUS
<1>2. tk \in [Tasks -> TaskType] /\ tk[t] = r /\ \A u \in Tasks \ {t} : tk[u] = task[u]
  BY <1>1 DEF Typed
<1>3. task' = [u \in Tasks |-> IF tk[u].pc \in where THEN [tk[u] EXCEPT !.woken = TRUE] ELSE tk[u]]
  BY <1>1 DEF Notified
<1>4. ASSUME NEW u \in Tasks PROVE task'[u] \in TaskType /\ Like(task'[u], tk[u])
  <2>1. task'[u] = IF tk[u].pc \in where THEN [tk[u] EXCEPT !.woken = TRUE] ELSE tk[u] BY <1>3
  <2>2. PICK q \in TaskType : q = tk[u] BY <1>2
  <2>3. [q EXCEPT !.woken = TRUE] \in TaskType /\ Like([q EXCEPT !.woken = TRUE], q)
    BY DEF TaskType, Like
  <2> QED BY <2>1, <2>2, <2>3 DEF Like
<1>5. task' \in [Tasks -> TaskType] BY <1>3, <1>4
<1> QED BY <1>2, <1>4, <1>5 DEF Moves

LEMMA StillNotified ==
  ASSUME Typed, NEW where, task' = Notified(task, where) PROVE Still
<1>1. ASSUME NEW u \in Tasks PROVE task'[u] \in TaskType /\ Like(task'[u], task[u])
  <2>1. task'[u] = IF task[u].pc \in where THEN [task[u] EXCEPT !.woken = TRUE] ELSE task[u]
    BY DEF Notified
  <2>2. PICK q \in TaskType : q = task[u] BY DEF Typed
  <2>3. [q EXCEPT !.woken = TRUE] \in TaskType /\ Like([q EXCEPT !.woken = TRUE], q)
    BY DEF TaskType, Like
  <2> QED BY <2>1, <2>2, <2>3 DEF Like
<1>2. task' \in [Tasks -> TaskType] BY <1>1 DEF Notified
<1> QED BY <1>1, <1>2 DEF Still

\* The permit of n bytes is dropped.
LEMMA MovesFreed ==
  ASSUME Typed, NEW t \in Tasks, NEW r \in TaskType, NEW n, Freed(n, [task EXCEPT ![t] = r])
  PROVE  used' = used - n /\ Moves(t, r)
<1>1. CASE n = 0 BY <1>1, MovesPlain DEF Freed
<1>2. CASE n # 0 BY <1>2, MovesNotified DEF Freed
<1> QED BY <1>1, <1>2

LEMMA StillFreed ==
  ASSUME Typed, NEW n, Freed(n, task) PROVE used' = used - n /\ Still
<1>1. CASE n = 0 BY <1>1 DEF Freed, Still, Like, Typed
<1>2. CASE n # 0 BY <1>2, StillNotified DEF Freed
<1> QED BY <1>1, <1>2

\* The terms of the sums, as functions.
Hand == [t \in Tasks |-> task[t].held + task[t].cur.mem]
Got == [t \in Tasks |-> task[t].got]
Mem == [c \in pending |-> c.mem]
Op(r) == IF r.pc \in WithOp THEN 1 ELSE 0

LEMMA Pieces ==
  /\ Length \in Nat
  /\ \A t \in Tasks : t \in Nat \ {0} /\ Start(t) \in Nat /\ End(t) \in Nat /\ Start(t) <= End(t) /\ End(t) <= Length
<1>1. PICK c \in Nat : c = Cardinality(Tasks) BY BackpressureAssumption, FS_CardinalityType
<1>2. PieceLen \in Nat /\ Overlap \in Nat BY BackpressureAssumption
<1>3. Length = PieceLen * c /\ Length \in Nat BY <1>1, <1>2 DEF Length
<1>4. ASSUME NEW t \in Tasks
      PROVE  t \in Nat \ {0} /\ Start(t) \in Nat /\ End(t) \in Nat /\ Start(t) <= End(t) /\ End(t) <= Length
  <2>1. t \in 1 .. c BY <1>1, BackpressureAssumption
  <2>2. PICK k \in Nat, d \in Nat : t = k + 1 /\ c = t + d
    <3>1. t - 1 \in Nat /\ c - t \in Nat /\ t = (t - 1) + 1 /\ c = t + (c - t) BY <2>1
    <3> QED BY <3>1
  <2>3. PICK p \in Nat : p = k * PieceLen BY <1>2
  <2>4. t * PieceLen = p + PieceLen /\ (t - 1) * PieceLen = p
    <3>1. t - 1 = k BY <2>2
    <3>2. (k + 1) * PieceLen = k * PieceLen + PieceLen BY <1>2
    <3> QED BY <2>2, <2>3, <3>1, <3>2
  <2>5. Start(t) \in Nat /\ Start(t) <= p BY <1>2, <2>4 DEF Start
  <2>6. PieceLen * c = t * PieceLen + d * PieceLen /\ d * PieceLen \in Nat BY <1>2, <2>1, <2>2
  <2> QED BY <1>2, <1>3, <2>1, <2>4, <2>5, <2>6 DEF End
<1> QED BY <1>3, <1>4

LEMMA TaskTypes ==
  ASSUME Typed, NEW u \in Tasks
  PROVE  /\ task[u] \in TaskType /\ task[u].cur \in ChunkType /\ task[u].cur.mem \in Nat
         /\ task[u].cur.off \in Nat /\ task[u].cur.len \in Nat
         /\ task[u].held \in Nat /\ task[u].got \in Nat
         /\ task[u].off \in Nat /\ task[u].len \in Nat /\ task[u].pc \in Places
<1>1. task[u] \in TaskType BY DEF Typed
<1>2. task[u].cur \in ChunkType BY <1>1 DEF TaskType
<1> QED BY <1>1, <1>2 DEF TaskType, ChunkType

LEMMA HandType ==
  ASSUME Typed
  PROVE  /\ \A u \in Tasks : Hand[u] \in Nat /\ Got[u] \in Nat
         /\ Total(Hand, Tasks) \in Nat /\ Total(Got, Tasks) \in Nat /\ Total(Mem, pending) \in Nat
<1>1. \A u \in Tasks : Hand[u] \in Nat /\ Got[u] \in Nat BY TaskTypes DEF Hand, Got
<1>2. \A c \in pending : Mem[c] \in Nat BY DEF Typed, Mem, ChunkType
<1>3. IsFiniteSet(Tasks) /\ IsFiniteSet(pending) BY BackpressureAssumption DEF Typed
<1>4. PICK g, h, m, S : g = Hand /\ h = Got /\ m = Mem /\ S = pending OBVIOUS
<1>5. Total(g, Tasks) \in Nat /\ Total(h, Tasks) \in Nat /\ Total(m, S) \in Nat
  <2>1. Total(g, Tasks) \in Nat BY <1>1, <1>3, <1>4, TotalNat
  <2>2. Total(h, Tasks) \in Nat BY <1>1, <1>3, <1>4, TotalNat
  <2>3. Total(m, S) \in Nat BY <1>2, <1>3, <1>4, TotalNat
  <2> QED BY <2>1, <2>2, <2>3
<1> QED BY <1>1, <1>4, <1>5

LEMMA SumsMove ==
  ASSUME Typed, NEW t \in Tasks, NEW r \in TaskType, Moves(t, r)
  PROVE  /\ Total(Hand', Tasks) = Total(Hand, Tasks) - (task[t].held + task[t].cur.mem) + (r.held + r.cur.mem)
         /\ Total(Got', Tasks) = Total(Got, Tasks) - task[t].got + r.got
<1>1. r.cur \in ChunkType /\ r.held \in Nat /\ r.got \in Nat BY DEF TaskType
<1>2. r.cur.mem \in Nat BY <1>1 DEF ChunkType
<1>3. PICK g, h : g = Hand /\ h = Hand' OBVIOUS
<1>4. PICK k, l : k = Got /\ l = Got' OBVIOUS
<1>5. g[t] = task[t].held + task[t].cur.mem /\ k[t] = task[t].got BY <1>3, <1>4 DEF Hand, Got
<1>6. h[t] = r.held + r.cur.mem /\ l[t] = r.got BY <1>3, <1>4 DEF Hand, Got, Moves, Like
<1>7. \A u \in Tasks \ {t} : h[u] = g[u] /\ l[u] = k[u] BY <1>3, <1>4 DEF Hand, Got, Moves, Like
<1>8. \A u \in Tasks : g[u] \in Int /\ k[u] \in Int BY <1>3, <1>4, HandType
<1>9. \A u \in Tasks : h[u] \in Int /\ l[u] \in Int BY <1>1, <1>2, <1>6, <1>7, <1>8
<1>10. IsFiniteSet(Tasks) BY BackpressureAssumption
<1>11. Total(h, Tasks) = Total(g, Tasks) - g[t] + h[t] BY <1>7, <1>8, <1>9, <1>10, TotalUpdate
<1>12. Total(l, Tasks) = Total(k, Tasks) - k[t] + l[t] BY <1>7, <1>8, <1>9, <1>10, TotalUpdate
<1> QED BY <1>3, <1>4, <1>5, <1>6, <1>11, <1>12

LEMMA SumsStill ==
  ASSUME Still
  PROVE  Total(Hand', Tasks) = Total(Hand, Tasks) /\ Total(Got', Tasks) = Total(Got, Tasks) /\ Holders' = Holders
<1>1. Hand' = Hand /\ Got' = Got /\ Holders' = Holders BY DEF Hand, Got, Holders, Still, Like
<1> QED BY <1>1

LEMMA HoldersMove ==
  ASSUME Typed, NEW t \in Tasks, NEW r \in TaskType, Moves(t, r)
  PROVE  /\ Cardinality(Holders) \in Nat /\ Cardinality(Holders') \in Nat
         /\ Cardinality(Holders') = Cardinality(Holders) - Op(task[t]) + Op(r)
<1>1. PICK H : H = Holders OBVIOUS
<1>2. IsFiniteSet(H) /\ Cardinality(H) \in Nat /\ (t \in H <=> task[t].pc \in WithOp)
  <2>1. H \in SUBSET Tasks BY <1>1 DEF Holders
  <2>2. IsFiniteSet(H) BY <2>1, BackpressureAssumption, FS_Subset
  <2> QED BY <1>1, <2>2, FS_CardinalityType DEF Holders
<1>3. r.pc \in WithOp => Holders' = H \cup {t} BY <1>1 DEF Holders, Moves, Like
<1>4. r.pc \notin WithOp => Holders' = H \ {t} BY <1>1 DEF Holders, Moves, Like
<1>5. Cardinality(H \cup {t}) = IF t \in H THEN Cardinality(H) ELSE Cardinality(H) + 1
  BY <1>2, FS_AddElement
<1>6. Cardinality(H \ {t}) = IF t \in H THEN Cardinality(H) - 1 ELSE Cardinality(H)
  BY <1>2, FS_RemoveElement
<1>7. Cardinality(H \ {t}) \in Nat /\ Cardinality(H \cup {t}) \in Nat
  <2>1. IsFiniteSet(H \ {t}) /\ IsFiniteSet(H \cup {t}) BY <1>2, FS_AddElement, FS_RemoveElement
  <2> QED BY <2>1, FS_CardinalityType
<1>8. Op(task[t]) = IF t \in H THEN 1 ELSE 0 BY <1>2 DEF Op
<1>9. CASE r.pc \in WithOp
  <2>1. Op(r) = 1 /\ Cardinality(Holders') = Cardinality(H \cup {t}) BY <1>3, <1>9 DEF Op
  <2> QED BY <1>1, <1>2, <1>5, <1>7, <1>8, <2>1
<1>10. CASE r.pc \notin WithOp
  <2>1. Op(r) = 0 /\ Cardinality(Holders') = Cardinality(H \ {t}) BY <1>4, <1>10 DEF Op
  <2> QED BY <1>1, <1>2, <1>6, <1>7, <1>8, <2>1
<1> QED BY <1>9, <1>10

LEMMA HoldersType == Cardinality(Holders) \in Nat
<1>1. PICK H \in SUBSET Tasks : H = Holders BY DEF Holders
<1>2. IsFiniteSet(H) BY BackpressureAssumption, FS_Subset
<1> QED BY <1>1, <1>2, FS_CardinalityType

\* What a task or the buffer owns is part of what the budget counts.
LEMMA UsedCovers ==
  ASSUME Typed, MemoryExact
  PROVE  /\ loan <= used /\ Total(Mem, pending) <= used - loan
         /\ \A t \in Tasks : task[t].held + task[t].cur.mem <= used - loan
<1>1. used = loan + Total(Hand, Tasks) + Total(Mem, pending) BY DEF MemoryExact, Hand, Mem
<1>2. loan \in Nat /\ Total(Hand, Tasks) \in Nat /\ Total(Mem, pending) \in Nat
  BY HandType, BackpressureAssumption DEF Typed
<1>3. ASSUME NEW t \in Tasks PROVE task[t].held + task[t].cur.mem <= Total(Hand, Tasks)
  <2>1. PICK g : g = Hand OBVIOUS
  <2>2. \A u \in Tasks : g[u] \in Nat BY <2>1, HandType
  <2>3. IsFiniteSet(Tasks) /\ IsFiniteSet(Tasks \ {t}) BY BackpressureAssumption, FS_RemoveElement
  <2>4. Total(g, Tasks) = g[t] + Total(g, Tasks \ {t}) BY <2>2, <2>3, TotalWithout
  <2>5. Total(g, Tasks \ {t}) \in Nat
    <3>1. PICK S : S = Tasks \ {t} OBVIOUS
    <3> QED BY <2>2, <2>3, <3>1, TotalNat
  <2>6. g[t] = task[t].held + task[t].cur.mem /\ g[t] \in Nat BY <2>1, <2>2 DEF Hand
  <2> QED BY <2>1, <2>4, <2>5, <2>6
<1> QED
  <2>1. PICK h \in Nat, m \in Nat, l \in Nat : h = Total(Hand, Tasks) /\ m = Total(Mem, pending) /\ l = loan
    BY <1>2
  <2>2. used = l + h + m BY <1>1, <2>1
  <2>3. \A t \in Tasks : task[t].held + task[t].cur.mem \in Nat BY TaskTypes
  <2> QED BY <1>3, <2>1, <2>2, <2>3

LEMMA FitStep ==
  ASSUME Fitting, NEW t \in Tasks, NEW r \in TaskType, Moves(t, r), Fits(t, r)
  PROVE  Fitting'
<1>1. ASSUME NEW u \in Tasks, NEW q, Like(task'[u], q), Fits(u, q) PROVE Fits(u, task'[u])
  BY <1>1 DEF Like, Fits
<1>2. \A u \in Tasks \ {t} : Like(task'[u], task[u]) /\ Fits(u, task[u]) BY DEF Moves, Fitting
<1>3. Like(task'[t], r) BY DEF Moves
<1>4. \A u \in Tasks : Fits(u, task'[u]) BY <1>1, <1>2, <1>3
<1>5. \A u \in Tasks : Fits(u, task[u])' BY <1>4 DEF Fits, End, UnitsFor, Empty, None, Chunk
<1> QED BY <1>5 DEF Fitting

LEMMA MemMoves ==
  ASSUME Typed, MemoryExact, NEW t \in Tasks, NEW r \in TaskType, Moves(t, r), loan' = loan,
         NEW m \in Int, Total(Mem', pending') = Total(Mem, pending) + m,
         used' = used - (task[t].held + task[t].cur.mem) + (r.held + r.cur.mem) + m
  PROVE  MemoryExact'
<1>1. used = loan + Total(Hand, Tasks) + Total(Mem, pending) BY DEF MemoryExact, Hand, Mem
<1>2. Total(Hand', Tasks) = Total(Hand, Tasks) - (task[t].held + task[t].cur.mem) + (r.held + r.cur.mem)
  BY SumsMove
<1>3. loan \in Nat /\ Total(Hand, Tasks) \in Nat /\ Total(Mem, pending) \in Nat
  BY HandType, BackpressureAssumption DEF Typed
<1>4. task[t].held + task[t].cur.mem \in Nat BY TaskTypes
<1>5. r.held + r.cur.mem \in Nat
  <2>1. r.held \in Nat /\ r.cur \in ChunkType BY DEF TaskType
  <2> QED BY <2>1 DEF ChunkType
<1>6. used' = loan' + Total(Hand', Tasks) + Total(Mem', pending')
  <2>1. PICK h \in Nat, k \in Nat, l \in Nat, a \in Nat, b \in Nat :
          /\ h = Total(Hand, Tasks) /\ k = Total(Mem, pending) /\ l = loan
          /\ a = task[t].held + task[t].cur.mem /\ b = r.held + r.cur.mem
    BY <1>3, <1>4, <1>5
  <2>2. used = l + h + k /\ used' = used - a + b + m BY <1>1, <2>1
  <2>3. Total(Hand', Tasks) = h - a + b /\ Total(Mem', pending') = k + m BY <1>2, <2>1
  <2> QED BY <2>1, <2>2, <2>3
<1> QED BY <1>6 DEF MemoryExact, Hand, Mem

LEMMA MemStep ==
  ASSUME Typed, MemoryExact, NEW t \in Tasks, NEW r \in TaskType, Moves(t, r), pending' = pending,
         loan' = loan, used' = used - (task[t].held + task[t].cur.mem) + (r.held + r.cur.mem)
  PROVE  MemoryExact'
<1>1. Mem' = Mem BY DEF Mem
<1>2. Total(Mem, pending) \in Nat BY HandType
<1>3. Total(Mem', pending') = Total(Mem, pending) + 0 BY <1>1, <1>2
<1>4. used' = used - (task[t].held + task[t].cur.mem) + (r.held + r.cur.mem) + 0
  <2>0. used \in Nat BY BackpressureAssumption DEF Typed
  <2>1. task[t].held + task[t].cur.mem \in Nat BY TaskTypes
  <2>2. r.held \in Nat /\ r.cur \in ChunkType BY DEF TaskType
  <2>3. r.held + r.cur.mem \in Nat BY <2>2 DEF ChunkType
  <2> QED BY <2>0, <2>1, <2>3
<1> QED BY <1>3, <1>4, MemMoves

LEMMA CreditStep ==
  ASSUME Typed, Credits, NEW t \in Tasks, NEW r \in TaskType, Moves(t, r), ops' \in Nat, units' \in Nat,
         ops' + Op(r) = ops + Op(task[t]), units' + r.got = units + task[t].got,
         Ample => r.pc # "dropped"
  PROVE  Credits'
<1>1. PICK c \in Nat, d \in Nat : c = Cardinality(Holders) /\ d = Cardinality(Holders') BY HoldersMove
<1>2. PICK g \in Nat, h \in Int : g = Total(Got, Tasks) /\ h = g - task[t].got + r.got
  BY HandType, TaskTypes DEF TaskType
<1>3. Total(Got', Tasks) = h BY <1>2, SumsMove
<1>4. PICK a \in Nat, b \in Nat : a = Op(task[t]) /\ b = Op(r) BY DEF Op
<1>5. d = c - a + b BY <1>1, <1>4, HoldersMove
<1>6. PICK k \in Nat, l \in Nat : k = task[t].got /\ l = r.got BY TaskTypes DEF TaskType
<1>7. ops \in Nat /\ units \in Nat /\ Ops \in Nat /\ ByteUnits \in Nat BY BackpressureAssumption DEF Typed
<1>8. ops + c = Ops /\ units + g = ByteUnits BY <1>1, <1>2 DEF Credits, CreditsExact, Got
<1>9. ops' + d = Ops
  <2>1. PICK o \in Nat, p \in Nat : o = ops /\ p = ops' BY <1>7
  <2>2. o + c = Ops /\ p + b = o + a /\ d = c - a + b BY <1>4, <1>5, <1>8, <2>1
  <2>3. p + d = Ops BY <2>2
  <2> QED BY <2>1, <2>3
<1>10. units' + h = ByteUnits BY <1>2, <1>6, <1>7, <1>8
<1>11. ASSUME Ample, NEW u \in Tasks PROVE task'[u].pc # "dropped" BY <1>11 DEF Credits, Moves, Like
<1>12. Ample' = Ample BY DEF Ample
<1> QED BY <1>1, <1>3, <1>9, <1>10, <1>11, <1>12 DEF Credits, CreditsExact, Got

LEMMA AdapterStep ==
  ASSUME Typed, Adapter, NEW t \in Tasks, NEW r \in TaskType, Moves(t, r),
         UNCHANGED <<next, pending, lock, out>>,
         task[t].pc \notin {"push", "drain"}, r.pc \notin {"push", "drain"}
  PROVE  Adapter'
<1>1. ASSUME NEW u \in Tasks
      PROVE  /\ task'[u].pc \in {"push", "drain"} <=> task[u].pc \in {"push", "drain"}
             /\ task'[u].pc = "push" => task[u].pc = "push" /\ task'[u].cur = task[u].cur
  BY DEF Moves, Like
<1>2. Buffered' = Buffered BY DEF Buffered
<1>3. Length' = Length /\ \A c : Last(c)' = Last(c) BY DEF Length, Last
<1>4. \A u \in Tasks : lock' = u <=> task'[u].pc \in {"push", "drain"} BY <1>1 DEF Adapter
<1>5. \A u \in Tasks : task'[u].pc = "push" => task'[u].cur.off = next' /\ Last(task'[u].cur) <= Length
  BY <1>1 DEF Adapter, At
<1> QED BY <1>2, <1>4, <1>5 DEF Adapter, At, Last, Length

LEMMA KeptStep ==
  ASSUME Typed, Kept, NEW t \in Tasks, NEW r \in TaskType, Moves(t, r), task[t].pc \notin {"done", "dropped"},
         stop => stop', stop' \in BOOLEAN, r.quit => stop',
         ~stop' => /\ \A b \in Int : Covered(b) => Covered(b)'
                   /\ \A b \in Start(t) .. Given(r) - 1 : Covered(b)'
  PROVE  Kept'
<1>1. \A u \in Tasks : task'[u].quit => stop' BY DEF Moves, Like, Kept
<1>2. ASSUME ~stop', NEW u \in Tasks, NEW b \in Start(u) .. Given(task'[u]) - 1 PROVE Covered(b)'
  <2>1. CASE u = t
    <3>1. Given(task'[u]) = Given(r) BY <2>1 DEF Moves, Like, Given
    <3> QED BY <1>2, <2>1, <3>1
  <2>2. CASE u # t
    <3>1. Given(task'[u]) = Given(task[u]) BY <2>2 DEF Moves, Like, Given
    <3>2. ~stop /\ ~Ended(t) BY <1>2 DEF Ended
    <3>3. Covered(b) BY <3>1, <3>2 DEF Kept
    <3> QED BY <1>2, <3>3
  <2> QED BY <2>1, <2>2
<1>3. \A u \in Tasks : Start(u)' = Start(u) /\ Given(task[u])' = Given(task'[u]) BY DEF Start, Given
<1>4. ASSUME ~stop', NEW u \in Tasks PROVE \A b \in Start(u)' .. Given(task[u])' - 1 : Covered(b)'
  BY <1>2, <1>3, <1>4
<1> QED BY <1>1, <1>4 DEF Kept

LEMMA CoveredStays ==
  ASSUME NEW t \in Tasks, NEW r \in TaskType, Moves(t, r), next' = next, pending' = pending, r.cur = task[t].cur
  PROVE  \A b : Covered(b)' <=> Covered(b)
<1>1. \A u \in Tasks : task'[u].cur = task[u].cur BY DEF Moves, Like
<1>2. {task[u].cur : u \in Tasks}' = {task[u].cur : u \in Tasks} BY <1>1
<1> QED BY <1>2 DEF Covered, Last

\* A step that leaves the adapter alone.
LEMMA Quiet ==
  ASSUME BackpressureInv, NEW t \in Tasks, NEW r \in TaskType, Moves(t, r), Fits(t, r),
         UNCHANGED <<loan, next, pending, lock, out>>,
         task[t].pc \notin {"push", "drain", "done", "dropped"}, r.pc \notin {"push", "drain"},
         used' \in 0 .. MemLimit, used' = used - task[t].held + r.held,
         ops' \in Nat, units' \in Nat,
         ops' + Op(r) = ops + Op(task[t]), units' + r.got = units + task[t].got,
         Ample => r.pc # "dropped",
         stop => stop', stop' \in BOOLEAN, r.quit => stop', upsets' \in 0 .. MaxUpsets,
         ~stop' => Given(r) <= Given(task[t]) \/ Given(r) <= next \/ Given(r) <= Start(t)
  PROVE  BackpressureInv'
<1>0. Typed /\ Fitting /\ Adapter /\ MemoryExact /\ Credits /\ Kept BY DEF BackpressureInv
<1>1. task[t].cur = None /\ r.cur = None BY <1>0 DEF Fits, Fitting
<1>2. Typed' BY <1>0 DEF Typed, Moves, Length
<1>3. Fitting' BY <1>0, FitStep
<1>4. Adapter' BY <1>0, AdapterStep
<1>5. MemoryExact'
  <2>1. task[t].held \in Nat /\ r.held \in Nat /\ None.mem = 0 /\ used \in Nat
    BY <1>0, TaskTypes, BackpressureAssumption DEF TaskType, None, Chunk, Typed
  <2>2. used' = used - (task[t].held + task[t].cur.mem) + (r.held + r.cur.mem) BY <1>1, <2>1
  <2> QED BY <1>0, <2>2, MemStep
<1>6. Credits' BY <1>0, CreditStep
<1>7. Kept'
  <2>1. \A b : Covered(b)' <=> Covered(b) BY <1>1, CoveredStays
  <2>2. ASSUME ~stop', NEW b \in Start(t) .. Given(r) - 1 PROVE Covered(b)'
    <3>1. Given(r) \in Nat /\ Given(task[t]) \in Nat /\ next \in Nat
      <4>1. r.off \in Nat /\ r.len \in Nat BY DEF TaskType
      <4>2. task[t].off \in Nat /\ task[t].len \in Nat BY <1>0, TaskTypes
      <4>3. next \in Nat BY <1>0, Pieces DEF Typed
      <4> QED BY <4>1, <4>2, <4>3 DEF Given
    <3>2. Start(t) \in Nat BY Pieces
    <3>3. b < next \/ b \in Start(t) .. Given(task[t]) - 1 BY <2>2, <3>1, <3>2
    <3>4. ~stop /\ ~Ended(t) BY <2>2 DEF Ended
    <3>5. Covered(b) BY <1>0, <3>3, <3>4 DEF Kept, Covered
    <3> QED BY <2>1, <3>5
  <2> QED BY <1>0, <2>1, <2>2, KeptStep
<1> QED BY <1>2, <1>3, <1>4, <1>5, <1>6, <1>7 DEF BackpressureInv

-----------------------------------------------------------------------------
(***************************************************************************)
(* The steps that leave the adapter alone.                                 *)
(***************************************************************************)
LEMMA LeastIsMin ==
  ASSUME NEW S, S \subseteq Nat, S # {} PROVE Min(S) \in S /\ \A y \in S : Min(S) <= y
BY LeastExists DEF Min

\* Facts about a task every step starts from.
LEMMA TaskFacts ==
  ASSUME BackpressureInv, NEW t \in Tasks
  PROVE  /\ Typed /\ MemoryExact
         /\ task[t] \in TaskType /\ Fits(t, task[t]) /\ (task[t].quit => stop)
         /\ used \in Nat /\ used <= MemLimit /\ loan \in Nat /\ ops \in Nat /\ units \in Nat
         /\ next \in Nat /\ stop \in BOOLEAN /\ upsets \in 0 .. MaxUpsets
         /\ MemLimit \in Nat /\ MaxFrame \in Nat /\ ByteUnits \in Nat \ {0} /\ Ops \in Nat
         /\ End(t) \in Nat /\ Start(t) \in Nat /\ Start(t) <= End(t) /\ task[t].held <= used
<1>1. Typed /\ MemoryExact /\ Fitting /\ Kept BY DEF BackpressureInv
<1>2. task[t].held <= used
  <2>1. task[t].held \in Nat /\ task[t].cur.mem \in Nat /\ loan \in Nat /\ used \in Nat
    BY <1>1, TaskTypes, BackpressureAssumption DEF Typed
  <2>2. task[t].held + task[t].cur.mem <= used - loan BY <1>1, UsedCovers
  <2> QED BY <2>1, <2>2
<1>3. MemLimit \in Nat /\ MaxFrame \in Nat /\ ByteUnits \in Nat \ {0} /\ Ops \in Nat
  BY BackpressureAssumption
<1>4. used \in Nat /\ used <= MemLimit /\ loan \in Nat /\ ops \in Nat /\ units \in Nat
      /\ stop \in BOOLEAN /\ upsets \in 0 .. MaxUpsets
  BY <1>1, <1>3 DEF Typed
<1>5. next \in Nat /\ End(t) \in Nat /\ Start(t) \in Nat /\ Start(t) <= End(t) BY <1>1, Pieces DEF Typed
<1>6. task[t] \in TaskType /\ Fits(t, task[t]) /\ (task[t].quit => stop)
  BY <1>1 DEF Typed, Fitting, Kept
<1> QED BY <1>1, <1>2, <1>3, <1>4, <1>5, <1>6

LEMMA FrameInv ==
  ASSUME BackpressureInv, NEW t \in Tasks, Frame(t) PROVE BackpressureInv'
<1>0. Typed BY DEF BackpressureInv
<1>1. PICK q \in TaskType : q = task[t] BY TaskFacts
<1>2. PICK n \in 1 .. Min({MaxFrame, End(t) - task[t].off, MemLimit}) :
        task' = [task EXCEPT ![t].pc = "memory", ![t].len = n]
  BY DEF Frame
<1>3. n \in Nat \ {0} /\ n <= MaxFrame /\ n <= MemLimit /\ q.off + n <= End(t)
  <2>1. q.off \in Nat /\ q.off < End(t) BY <1>1 DEF TaskType, Frame
  <2>2. PICK S : S = {MaxFrame, End(t) - task[t].off, MemLimit} OBVIOUS
  <2>3. S \subseteq Nat /\ S # {} BY <1>1, <2>1, <2>2, TaskFacts
  <2>4. Min(S) \in Nat /\ \A y \in S : Min(S) <= y BY <2>3, LeastIsMin
  <2>5. Min(S) <= MaxFrame /\ Min(S) <= End(t) - q.off /\ Min(S) <= MemLimit BY <1>1, <2>2, <2>4
  <2>6. n \in 1 .. Min(S) BY <2>2
  <2> QED BY <2>1, <2>4, <2>5, <2>6, TaskFacts
<1>4. PICK r : r = [q EXCEPT !.pc = "memory", !.len = n] OBVIOUS
<1>5. r \in TaskType /\ r.pc = "memory" /\ r.len = n /\ r.off = q.off /\ r.held = q.held
      /\ r.got = q.got /\ r.quit = q.quit /\ r.cur = q.cur
  BY <1>3, <1>4 DEF TaskType, Places
<1>6. q.pc = "frame" /\ UNCHANGED <<memory, credits, sink, stop, upsets>> BY <1>1 DEF Frame, At
<1>7. Fits(t, q) BY <1>1, TaskFacts
<1>8. Fits(t, r) BY <1>3, <1>5, <1>6, <1>7, TaskFacts DEF Fits, Empty, UnitsFor
<1>9. Moves(t, r)
  <2>1. task' = [task EXCEPT ![t] = r] BY <1>0, <1>1, <1>2, <1>4 DEF Typed
  <2> QED BY <1>0, <1>5, <2>1, MovesPlain
<1> QED BY <1>1, <1>5, <1>6, <1>8, <1>9, TaskFacts, Quiet
  DEF memory, credits, sink, Op, WithOp, Given, TaskType

\* The steps that only take a task elsewhere.
Hops == {<<"frame", "done">>, <<"memory", "listen">>, <<"listen", "recheck">>, <<"recheck", "memory">>,
         <<"recheck", "parked">>, <<"parked", "memory">>, <<"write", "lock">>, <<"lock", "room">>,
         <<"room", "write">>}

LEMMA Hop ==
  ASSUME BackpressureInv, NEW t \in Tasks, NEW p, <<task[t].pc, p>> \in Hops, NEW w \in BOOLEAN,
         task' = [task EXCEPT ![t] = [task[t] EXCEPT !.pc = p, !.woken = w]],
         UNCHANGED <<memory, credits, sink, stop, upsets>>
  PROVE  BackpressureInv'
<1>1. PICK q \in TaskType : q = task[t] BY TaskFacts
<1>2. PICK r : r = [q EXCEPT !.pc = p, !.woken = w] OBVIOUS
<1>3. p \in Places /\ <<q.pc, p>> \in Hops BY <1>1 DEF Hops, Places
<1>4. r \in TaskType /\ r.pc = p /\ r.len = q.len /\ r.off = q.off /\ r.held = q.held
      /\ r.got = q.got /\ r.quit = q.quit /\ r.cur = q.cur
  BY <1>2, <1>3 DEF TaskType
<1>5. Fits(t, q) BY <1>1, TaskFacts
<1>6. Fits(t, r) BY <1>3, <1>4, <1>5 DEF Fits, Empty, Hops
<1>7. Moves(t, r) BY <1>1, <1>2, <1>4, TaskFacts, MovesPlain
<1>8. /\ Op(r) = Op(q) /\ Given(r) = Given(q)
      /\ q.pc \notin {"push", "drain", "done", "dropped"} /\ p \notin {"push", "drain", "dropped"}
  BY <1>3, <1>4 DEF Hops, Op, WithOp, Given
<1>9. UNCHANGED <<used, loan, ops, units, next, pending, lock, out, stop, upsets>>
  BY DEF memory, credits, sink
<1>10. q.held \in Nat /\ q.got \in Nat /\ q.off \in Nat /\ q.len \in Nat BY DEF TaskType
<1>11. Op(q) \in Nat /\ Given(q) \in Nat BY <1>10 DEF Op, Given
<1> QED BY <1>1, <1>4, <1>6, <1>7, <1>8, <1>9, <1>10, <1>11, TaskFacts, Quiet

LEMMA GotoHop ==
  ASSUME BackpressureInv, NEW t \in Tasks, NEW p, <<task[t].pc, p>> \in Hops, Goto(t, p),
         UNCHANGED <<memory, credits, sink, stop, upsets>>
  PROVE  BackpressureInv'
<1>1. PICK q \in TaskType : q = task[t] BY TaskFacts
<1>2. PICK w \in BOOLEAN : w = q.woken BY DEF TaskType
<1>3. [q EXCEPT !.pc = p] = [q EXCEPT !.pc = p, !.woken = w] BY <1>2 DEF TaskType
<1>4. task' = [task EXCEPT ![t] = [q EXCEPT !.pc = p]] BY <1>1, TaskFacts DEF Goto, Typed
<1> QED BY <1>1, <1>3, <1>4, Hop

LEMMA HopsInv ==
  ASSUME BackpressureInv, NEW t \in Tasks,
         \/ Completed(t) \/ Listen(t) \/ Recheck(t) \/ Wake(t) \/ WriteChunk(t) \/ RoomMade(t)
         \/ Acquire(t) /\ ~Room(t)
         \/ At(t, "lock") /\ NoRoom(t)
  PROVE  BackpressureInv'
<1>1. CASE Completed(t)
  <2>1. <<task[t].pc, "done">> \in Hops BY <1>1 DEF Completed, At, Hops
  <2> QED BY <1>1, <2>1, GotoHop DEF Completed
<1>2. CASE Recheck(t)
  <2>1. PICK p : p = IF Room(t) THEN "memory" ELSE "parked" OBVIOUS
  <2>2. <<task[t].pc, p>> \in Hops BY <1>2, <2>1 DEF Recheck, At, Hops
  <2> QED BY <1>2, <2>1, <2>2, GotoHop DEF Recheck
<1>3. CASE Wake(t)
  <2>1. <<task[t].pc, "memory">> \in Hops BY <1>3 DEF Wake, At, Hops
  <2> QED BY <1>3, <2>1, GotoHop DEF Wake
<1>4. CASE RoomMade(t)
  <2>1. <<task[t].pc, "write">> \in Hops BY <1>4 DEF RoomMade, At, Hops
  <2> QED BY <1>4, <2>1, GotoHop DEF RoomMade
<1>5. CASE Acquire(t) /\ ~Room(t)
  <2>1. <<task[t].pc, "listen">> \in Hops BY <1>5 DEF Acquire, At, Hops
  <2>2. Goto(t, "listen") /\ UNCHANGED <<memory, credits, sink, stop, upsets>>
    BY <1>5 DEF Acquire, memory
  <2> QED BY <2>1, <2>2, GotoHop
<1>6. CASE At(t, "lock") /\ NoRoom(t)
  <2>1. <<task[t].pc, "room">> \in Hops BY <1>6 DEF At, Hops
  <2> QED BY <1>6, <2>1, GotoHop DEF NoRoom
<1>7. CASE Listen(t)
  <2>1. <<task[t].pc, "recheck">> \in Hops BY <1>7 DEF Listen, At, Hops
  <2>2. task' = [task EXCEPT ![t] = [task[t] EXCEPT !.pc = "recheck", !.woken = FALSE]]
    BY <1>7, TaskFacts DEF Listen, Typed
  <2> QED BY <1>7, <2>1, <2>2, Hop DEF Listen
<1>8. CASE WriteChunk(t)
  <2>1. <<task[t].pc, "lock">> \in Hops BY <1>8 DEF WriteChunk, At, Hops
  <2>2. task' = [task EXCEPT ![t] = [task[t] EXCEPT !.pc = "lock", !.woken = FALSE]]
    BY <1>8, TaskFacts DEF WriteChunk, Typed
  <2> QED BY <1>8, <2>1, <2>2, Hop DEF WriteChunk
<1> QED BY <1>1, <1>2, <1>3, <1>4, <1>5, <1>6, <1>7, <1>8

LEMMA CutInv ==
  ASSUME BackpressureInv, NEW t \in Tasks, Cut(t) PROVE BackpressureInv'
<1>1. PICK q \in TaskType : q = task[t] BY TaskFacts
<1>2. q.pc = "frame" /\ Fits(t, q) BY <1>1, TaskFacts DEF Cut, At
<1>3. q.off \in Nat /\ q.len \in Nat /\ q.held \in Nat /\ q.got \in Nat /\ q.quit \in BOOLEAN BY DEF TaskType
<1>4. PICK r : r = [q EXCEPT !.off = Start(t)] OBVIOUS
<1>5. /\ r \in TaskType /\ r.pc = q.pc /\ r.off = Start(t) /\ r.len = q.len
      /\ r.held = q.held /\ r.got = q.got /\ r.quit = q.quit /\ r.cur = q.cur
  BY <1>2, <1>3, <1>4, TaskFacts DEF TaskType, Places
<1>6. Fits(t, r) BY <1>2, <1>3, <1>5, TaskFacts DEF Fits, Empty
<1>7. Moves(t, r)
  <2>1. task' = [task EXCEPT ![t] = r] BY <1>1, <1>4, TaskFacts DEF Cut, Typed
  <2> QED BY <1>5, <2>1, TaskFacts, MovesPlain
<1>8. upsets' \in 0 .. MaxUpsets
  <2>1. MaxUpsets \in Nat BY BackpressureAssumption
  <2>2. upsets \in 0 .. MaxUpsets BY TaskFacts
  <2> QED BY <2>1, <2>2 DEF Cut
<1>9. Given(r) <= Start(t) /\ Op(r) = Op(q) /\ Op(q) \in Nat BY <1>2, <1>5, TaskFacts DEF Given, Op
<1> QED BY <1>1, <1>2, <1>3, <1>5, <1>6, <1>7, <1>8, <1>9, TaskFacts, Quiet
  DEF memory, credits, sink, Cut

LEMMA AcquireInv ==
  ASSUME BackpressureInv, NEW t \in Tasks, Acquire(t), Room(t) PROVE BackpressureInv'
<1>1. PICK q \in TaskType : q = task[t] BY TaskFacts
<1>2. q.pc = "memory" /\ Fits(t, q) BY <1>1, TaskFacts DEF Acquire, At
<1>3. q.off \in Nat /\ q.len \in Nat /\ q.held \in Nat /\ q.got \in Nat /\ q.quit \in BOOLEAN BY DEF TaskType
<1>4. PICK r : r = [q EXCEPT !.pc = "ops", !.held = q.len] OBVIOUS
<1>5. /\ r \in TaskType /\ r.pc = "ops" /\ r.off = q.off /\ r.len = q.len
      /\ r.held = q.len /\ r.got = q.got /\ r.quit = q.quit /\ r.cur = q.cur
  BY <1>2, <1>3, <1>4 DEF TaskType, Places
<1>6. Fits(t, r) BY <1>2, <1>3, <1>5, TaskFacts DEF Fits, Empty
<1>7. Moves(t, r)
  <2>1. task' = [task EXCEPT ![t] = r] BY <1>1, <1>4, TaskFacts DEF Acquire, Typed
  <2> QED BY <1>5, <2>1, TaskFacts, MovesPlain
<1>8. used' = used - task[t].held + r.held /\ used' \in 0 .. MemLimit
  <2>1. used' = used + q.len /\ q.held = 0 /\ q.len <= MemLimit BY <1>1, <1>2 DEF Acquire, Fits, Empty
  <2>2. used + q.len <= IF q.len > Usable(t) THEN q.len ELSE Usable(t) BY <1>1 DEF Room
  <2>3. Usable(t) \in Nat /\ Usable(t) <= MemLimit BY BackpressureAssumption DEF Usable
  <2> QED BY <1>1, <1>3, <1>5, <2>1, <2>2, <2>3, TaskFacts
<1> QED BY <1>1, <1>2, <1>3, <1>5, <1>6, <1>7, <1>8, TaskFacts, Quiet
  DEF memory, credits, sink, Op, WithOp, Given, TaskType, Acquire

LEMMA TakeOpInv ==
  ASSUME BackpressureInv, NEW t \in Tasks, TakeOp(t) PROVE BackpressureInv'
<1>1. PICK q \in TaskType : q = task[t] BY TaskFacts
<1>2. q.pc = "ops" /\ Fits(t, q) BY <1>1, TaskFacts DEF TakeOp, Goto, At
<1>3. q.off \in Nat /\ q.len \in Nat /\ q.held \in Nat /\ q.got \in Nat /\ q.quit \in BOOLEAN BY DEF TaskType
<1>4. PICK r : r = [q EXCEPT !.pc = "bytes"] OBVIOUS
<1>5. /\ r \in TaskType /\ r.pc = "bytes" /\ r.off = q.off /\ r.len = q.len
      /\ r.held = q.held /\ r.got = q.got /\ r.quit = q.quit /\ r.cur = q.cur
  BY <1>2, <1>3, <1>4 DEF TaskType, Places
<1>6. Fits(t, r) BY <1>2, <1>3, <1>5, TaskFacts DEF Fits, Empty, UnitsFor
<1>7. Moves(t, r)
  <2>1. task' = [task EXCEPT ![t] = r] BY <1>1, <1>4, TaskFacts DEF TakeOp, Goto, Typed
  <2> QED BY <1>5, <2>1, TaskFacts, MovesPlain
<1> QED BY <1>1, <1>2, <1>3, <1>5, <1>6, <1>7, TaskFacts, Quiet
  DEF memory, credits, sink, Op, WithOp, Given, TaskType, TakeOp, Goto

LEMMA TakeUnitInv ==
  ASSUME BackpressureInv, NEW t \in Tasks, TakeUnit(t) PROVE BackpressureInv'
<1>1. PICK q \in TaskType : q = task[t] BY TaskFacts
<1>2. q.pc = "bytes" /\ Fits(t, q) BY <1>1, TaskFacts DEF TakeUnit, At
<1>3. q.off \in Nat /\ q.len \in Nat /\ q.held \in Nat /\ q.got \in Nat /\ q.quit \in BOOLEAN BY DEF TaskType
<1>a. PICK n \in Nat, p \in {"write", "bytes"} :
        n = q.got + 1 /\ p = IF n = UnitsFor(q.len) THEN "write" ELSE "bytes"
  BY <1>3
<1>4. PICK r : r = [q EXCEPT !.got = n, !.pc = p] OBVIOUS
<1>5. /\ r \in TaskType /\ r.pc = p /\ r.off = q.off /\ r.len = q.len
      /\ r.held = q.held /\ r.got = n /\ r.quit = q.quit /\ r.cur = q.cur
  BY <1>2, <1>3, <1>4, <1>a DEF TaskType, Places
<1>6. Fits(t, r) BY <1>2, <1>3, <1>5, TaskFacts, <1>a DEF Fits, Empty, UnitsFor
<1>7. Moves(t, r)
  <2>1. task' = [task EXCEPT ![t] = r] BY <1>1, <1>4, <1>a, TaskFacts DEF TakeUnit, Typed
  <2> QED BY <1>5, <2>1, TaskFacts, MovesPlain
<1> QED BY <1>1, <1>2, <1>3, <1>5, <1>6, <1>7, <1>a, TaskFacts, Quiet
  DEF memory, credits, sink, Op, WithOp, Given, TaskType, TakeUnit

LEMMA FreeBytesInv ==
  ASSUME BackpressureInv, NEW t \in Tasks, FreeBytes(t) PROVE BackpressureInv'
<1>1. PICK q \in TaskType : q = task[t] BY TaskFacts
<1>2. q.pc = "free_bytes" /\ Fits(t, q) BY <1>1, TaskFacts DEF FreeBytes, At
<1>3. q.off \in Nat /\ q.len \in Nat /\ q.held \in Nat /\ q.got \in Nat /\ q.quit \in BOOLEAN BY DEF TaskType
<1>4. PICK r : r = [q EXCEPT !.pc = "free_ops", !.got = 0] OBVIOUS
<1>5. /\ r \in TaskType /\ r.pc = "free_ops" /\ r.off = q.off /\ r.len = q.len
      /\ r.held = q.held /\ r.got = 0 /\ r.quit = q.quit /\ r.cur = q.cur
  BY <1>2, <1>3, <1>4 DEF TaskType, Places
<1>6. Fits(t, r) BY <1>2, <1>3, <1>5, TaskFacts DEF Fits, Empty, UnitsFor
<1>7. Moves(t, r)
  <2>1. task' = [task EXCEPT ![t] = r] BY <1>1, <1>4, TaskFacts DEF FreeBytes, Typed
  <2> QED BY <1>5, <2>1, TaskFacts, MovesPlain
<1> QED BY <1>1, <1>2, <1>3, <1>5, <1>6, <1>7, TaskFacts, Quiet
  DEF memory, credits, sink, Op, WithOp, Given, TaskType, FreeBytes

LEMMA FreeOpsInv ==
  ASSUME BackpressureInv, NEW t \in Tasks, FreeOps(t) PROVE BackpressureInv'
<1>1. PICK q \in TaskType : q = task[t] BY TaskFacts
<1>2. q.pc = "free_ops" /\ Fits(t, q) BY <1>1, TaskFacts DEF FreeOps, At
<1>3. q.off \in Nat /\ q.len \in Nat /\ q.held \in Nat /\ q.got \in Nat /\ q.quit \in BOOLEAN BY DEF TaskType
<1>a. PICK p \in {"done", "frame"}, o \in Nat :
        p = (IF q.quit THEN "done" ELSE "frame") /\ o = (IF q.quit THEN q.off ELSE q.off + q.len)
  BY <1>3
<1>4. PICK r : r = [q EXCEPT !.pc = p, !.held = 0, !.off = o] OBVIOUS
<1>5. /\ r \in TaskType /\ r.pc = p /\ r.off = o /\ r.len = q.len
      /\ r.held = 0 /\ r.got = q.got /\ r.quit = q.quit /\ r.cur = q.cur
  BY <1>2, <1>3, <1>4, <1>a DEF TaskType, Places
<1>6. Fits(t, r) BY <1>2, <1>3, <1>5, TaskFacts, <1>a DEF Fits, Empty
<1>7. used' = used - task[t].held /\ Moves(t, r)
  <2>1. Freed(task[t].held, [task EXCEPT ![t] = r]) BY <1>1, <1>4, <1>a, TaskFacts DEF FreeOps, Written, Typed
  <2> QED BY <1>5, <2>1, TaskFacts, MovesFreed
<1> QED BY <1>1, <1>2, <1>3, <1>5, <1>6, <1>7, <1>a, TaskFacts, Quiet
  DEF memory, credits, sink, Op, WithOp, Given, TaskType, FreeOps

LEMMA BehindInv ==
  ASSUME BackpressureInv, NEW t \in Tasks, At(t, "lock"), task[t].off + task[t].len <= next, Behind(t)
  PROVE BackpressureInv'
<1>1. PICK q \in TaskType : q = task[t] BY TaskFacts
<1>2. q.pc = "lock" /\ Fits(t, q) BY <1>1, TaskFacts DEF Behind, At
<1>3. q.off \in Nat /\ q.len \in Nat /\ q.held \in Nat /\ q.got \in Nat /\ q.quit \in BOOLEAN BY DEF TaskType
<1>4. PICK r : r = [q EXCEPT !.pc = "free_bytes"] OBVIOUS
<1>5. /\ r \in TaskType /\ r.pc = "free_bytes" /\ r.off = q.off /\ r.len = q.len
      /\ r.held = q.held /\ r.got = q.got /\ r.quit = q.quit /\ r.cur = q.cur
  BY <1>2, <1>3, <1>4 DEF TaskType, Places
<1>6. Fits(t, r) BY <1>2, <1>3, <1>5, TaskFacts DEF Fits, Empty
<1>7. Moves(t, r)
  <2>1. task' = Notified([task EXCEPT ![t] = r], {"lock", "room"}) BY <1>1, <1>4, TaskFacts DEF Behind, Typed
  <2> QED BY <1>5, <2>1, TaskFacts, MovesNotified
<1> QED BY <1>1, <1>2, <1>3, <1>5, <1>6, <1>7, TaskFacts, Quiet
  DEF memory, credits, sink, Op, WithOp, Given, TaskType, Behind

LEMMA DuplicateInv ==
  ASSUME BackpressureInv, NEW t \in Tasks, At(t, "lock"), Duplicate(t) PROVE BackpressureInv'
<1>1. PICK q \in TaskType : q = task[t] BY TaskFacts
<1>2. q.pc = "lock" /\ Fits(t, q) BY <1>1, TaskFacts DEF Duplicate, At
<1>3. q.off \in Nat /\ q.len \in Nat /\ q.held \in Nat /\ q.got \in Nat /\ q.quit \in BOOLEAN BY DEF TaskType
<1>4. PICK r : r = [q EXCEPT !.pc = "free_bytes", !.quit = TRUE] OBVIOUS
<1>5. /\ r \in TaskType /\ r.pc = "free_bytes" /\ r.off = q.off /\ r.len = q.len
      /\ r.held = q.held /\ r.got = q.got /\ r.quit = TRUE /\ r.cur = q.cur
  BY <1>2, <1>3, <1>4 DEF TaskType, Places
<1>6. Fits(t, r) BY <1>2, <1>3, <1>5, TaskFacts DEF Fits, Empty
<1>7. Moves(t, r)
  <2>1. task' = [task EXCEPT ![t] = r] BY <1>1, <1>4, TaskFacts DEF Duplicate, Typed
  <2> QED BY <1>5, <2>1, TaskFacts, MovesPlain
<1> QED BY <1>1, <1>2, <1>3, <1>5, <1>6, <1>7, TaskFacts, Quiet
  DEF memory, credits, sink, Op, WithOp, Given, TaskType, Duplicate

\* A destination with ample credits has a byte unit for whoever got an operation.
LEMMA AmpleLeaves ==
  ASSUME BackpressureInv, Ample, NEW t \in Tasks, At(t, "bytes") PROVE units > 0
<1>1. Typed /\ Fitting BY DEF BackpressureInv
<1>2. PICK g, H : g = Got /\ H = Holders OBVIOUS
<1>3. \A u \in Tasks : g[u] \in Nat /\ g[u] <= MaxFrame /\ (u \notin H => g[u] = 0)
  <2>1. ASSUME NEW u \in Tasks PROVE g[u] \in Nat /\ g[u] <= MaxFrame /\ (u \notin H => g[u] = 0)
    <3>1. Fits(u, task[u]) /\ g[u] = task[u].got /\ (u \in H <=> task[u].pc \in WithOp)
      BY <1>1, <1>2 DEF Fitting, Got, Holders
    <3>2. task[u].got \in Nat /\ task[u].len \in Nat /\ task[u].pc \in Places BY <1>1, TaskTypes
    <3>3. task[u].got <= UnitsFor(task[u].len) /\ task[u].len <= MaxFrame BY <3>1 DEF Fits
    <3>4. UnitsFor(task[u].len) \in Nat /\ UnitsFor(task[u].len) <= task[u].len
      BY <3>2, TaskFacts DEF UnitsFor
    <3>5. task[u].pc \notin WithOp => task[u].got = 0
      BY <3>1, <3>2 DEF Fits, WithOp, Empty, Places
    <3> QED BY <3>1, <3>2, <3>3, <3>4, <3>5, TaskFacts
  <2> QED BY <2>1
<1>4. g[t] < MaxFrame /\ t \in H
  <2>1. Fits(t, task[t]) /\ g[t] = task[t].got /\ task[t].got \in Nat /\ task[t].len \in Nat
    BY <1>1, <1>2, TaskTypes DEF Fitting, Got
  <2>2. task[t].got < UnitsFor(task[t].len) /\ task[t].len <= MaxFrame BY <2>1 DEF Fits, At
  <2>3. UnitsFor(task[t].len) \in Nat /\ UnitsFor(task[t].len) <= task[t].len
    BY <2>1, TaskFacts DEF UnitsFor
  <2> QED BY <1>2, <2>1, <2>2, <2>3, TaskFacts DEF Holders, At, WithOp
<1>5. PICK S : S = Tasks \ {t} OBVIOUS
<1>6. IsFiniteSet(Tasks) /\ IsFiniteSet(S) /\ H \subseteq Tasks
  BY <1>2, <1>5, BackpressureAssumption, FS_RemoveElement DEF Holders
<1>7. Total(g, Tasks) = g[t] + Total(g, S) BY <1>3, <1>5, <1>6, TotalWithout
<1>8. Total(g, S) \in Nat /\ Total(g, S) <= MaxFrame * Cardinality(S \cap H)
  <2>1. \A x \in S : g[x] \in Nat /\ g[x] <= MaxFrame /\ (x \notin H => g[x] = 0) BY <1>3, <1>5
  <2>2. MaxFrame \in Nat BY TaskFacts
  <2> QED BY <1>6, <2>1, <2>2, TotalBound
<1>9. PICK c \in Nat : c + 1 = Cardinality(H) /\ c = Cardinality(S \cap H)
  <2>1. S \cap H = H \ {t} BY <1>5, <1>6
  <2>2. IsFiniteSet(H) BY <1>6, FS_Subset
  <2>3. Cardinality(H \ {t}) = Cardinality(H) - 1 BY <1>4, <2>2, FS_RemoveElement
  <2>4. Cardinality(H) \in Nat /\ Cardinality(H \ {t}) \in Nat
    BY <2>2, FS_RemoveElement, FS_CardinalityType
  <2> QED BY <2>1, <2>3, <2>4
<1>10. ops + (c + 1) = Ops /\ units + Total(g, Tasks) = ByteUnits
  BY <1>2, <1>9 DEF BackpressureInv, Credits, CreditsExact, Got
<1>11. PICK m \in Nat, b \in Nat, a \in Nat : m = MaxFrame /\ b = Total(g, S) /\ a = g[t]
  BY <1>3, <1>8, TaskFacts
<1>12. b <= m * c /\ a < m /\ units + (a + b) = ByteUnits BY <1>4, <1>7, <1>8, <1>9, <1>10, <1>11
<1>13. Ops * m <= ByteUnits BY <1>11 DEF Ample
<1>14. Ops * m = ops * m + (m * c + m)
  <2>1. Ops = ops + (c + 1) BY <1>10
  <2> QED BY <2>1, TaskFacts
<1>15. ops * m \in Nat /\ m * c \in Nat /\ Ops * m \in Nat BY TaskFacts
<1>16. units \in Nat /\ ByteUnits \in Nat BY TaskFacts
<1> QED
  <2>1. PICK x \in Nat, y \in Nat, z \in Nat : x = ops * m /\ y = m * c /\ z = Ops * m BY <1>15
  <2>2. z = x + (y + m) /\ z <= ByteUnits /\ b <= y BY <1>12, <1>13, <1>14, <2>1
  <2> QED BY <1>12, <1>16, <2>2

\* The future is dropped before the adapter has the chunk: what the guard had not
\* taken over is lost, but with ample credits that never happens.
LEMMA DroppedEarlyInv ==
  ASSUME BackpressureInv, NEW t \in Tasks, stop, DroppedEarly(t), UNCHANGED <<loan, credits, stop, upsets>>
  PROVE  BackpressureInv'
<1>1. PICK q \in TaskType : q = task[t] BY TaskFacts
<1>2. q.pc \in {"frame", "parked", "ops", "bytes"} /\ Fits(t, q) BY <1>1, TaskFacts DEF DroppedEarly, At
<1>3. q.off \in Nat /\ q.len \in Nat /\ q.held \in Nat /\ q.got \in Nat /\ q.quit \in BOOLEAN BY DEF TaskType
<1>a. PICK p \in {"done", "dropped"} : p = IF q.pc = "bytes" THEN "dropped" ELSE "done" OBVIOUS
<1>4. PICK r : r = [q EXCEPT !.pc = p, !.held = 0] OBVIOUS
<1>5. /\ r \in TaskType /\ r.pc = p /\ r.off = q.off /\ r.len = q.len
      /\ r.held = 0 /\ r.got = q.got /\ r.quit = q.quit /\ r.cur = q.cur
  BY <1>3, <1>4 DEF TaskType, Places
<1>6. Fits(t, r) BY <1>2, <1>3, <1>5, <1>a, TaskFacts DEF Fits, Empty, UnitsFor
<1>7. used' = used - task[t].held /\ Moves(t, r)
  <2>1. Freed(task[t].held, [task EXCEPT ![t] = r]) BY <1>1, <1>4, <1>a, TaskFacts DEF DroppedEarly, Typed, At
  <2> QED BY <1>5, <2>1, TaskFacts, MovesFreed
<1>8. Ample => r.pc # "dropped"
  <2>1. SUFFICES ASSUME Ample PROVE q.pc # "bytes" BY <1>5, <1>a
  <2>2. q.pc = "bytes" => units = 0 BY <1>1 DEF DroppedEarly, At
  <2> QED BY <1>1, <2>1, <2>2, AmpleLeaves DEF At
<1>9. Op(r) = Op(q) /\ Op(q) \in Nat BY <1>2, <1>5, <1>a DEF Op, WithOp
<1>10. UNCHANGED <<loan, ops, units, next, pending, lock, out, stop, upsets>> BY DEF DroppedEarly, credits, sink
<1>11. Given(r) <= Given(q) BY <1>2, <1>3, <1>5, <1>a DEF Given
<1> QED BY <1>1, <1>2, <1>3, <1>5, <1>6, <1>7, <1>8, <1>9, <1>10, <1>a, TaskFacts, Quiet

-----------------------------------------------------------------------------
(***************************************************************************)
(* The steps under the adapter's mutex.                                    *)
(***************************************************************************)
LEMMA AdapterMoves ==
  ASSUME Typed, Adapter, NEW t \in Tasks, NEW r \in TaskType, Moves(t, r),
         lock' = t <=> r.pc \in {"push", "drain"},
         \A u \in Tasks \ {t} : lock' = u <=> lock = u,
         r.pc = "push" => r.cur.off = next' /\ Last(r.cur) <= Length,
         next' = next \/ lock = t,
         \A c \in pending' : Last(c) <= Length, Buffered' <= MaxBuffered,
         Len(out') = next', \A i \in 1 .. Len(out') : out'[i] = i - 1
  PROVE  Adapter'
<1>1. \A u \in Tasks : lock' = u <=> task'[u].pc \in {"push", "drain"} BY DEF Adapter, Moves, Like
<1>2. ASSUME NEW u \in Tasks, task'[u].pc = "push"
      PROVE  task'[u].cur.off = next' /\ Last(task'[u].cur) <= Length
  <2>1. CASE u = t BY <1>2, <2>1 DEF Moves, Like
  <2>2. CASE u # t
    <3>1. task[u].pc = "push" /\ task'[u].cur = task[u].cur BY <1>2, <2>2 DEF Moves, Like
    <3>2. lock = u BY <3>1 DEF Adapter
    <3> QED BY <2>2, <3>1, <3>2 DEF Adapter, At
  <2> QED BY <2>1, <2>2
<1>3. Length' = Length /\ MaxBuffered' = MaxBuffered BY DEF Length
<1> QED BY <1>1, <1>2, <1>3 DEF Adapter, At, Last

Within(b, c) == c.off <= b /\ b < Last(c)

LEMMA CoveredGrows ==
  ASSUME Typed, NEW t \in Tasks, NEW r \in TaskType, Moves(t, r), next' \in Nat, next <= next',
         \A c \in pending \cup {task[t].cur} : \A b \in Int :
           Within(b, c) => b < next' \/ \E d \in pending' \cup {r.cur} : Within(b, d)
  PROVE  \A b \in Int : Covered(b) => Covered(b)'
<1>0. next \in Nat BY Pieces DEF Typed
<1>1. SUFFICES ASSUME NEW b \in Int, Covered(b) PROVE Covered(b)' OBVIOUS
<1>2. task'[t].cur = r.cur /\ \A u \in Tasks \ {t} : task'[u].cur = task[u].cur BY DEF Moves, Like
<1>3. CASE b < next BY <1>0, <1>3 DEF Covered
<1>4. ASSUME NEW c \in pending \cup {task[u].cur : u \in Tasks}, Within(b, c) PROVE Covered(b)'
  <2>1. CASE c \in pending \cup {task[t].cur}
    <3>1. b < next' \/ \E d \in pending' \cup {r.cur} : Within(b, d) BY <1>4, <2>1
    <3>2. pending' \cup {r.cur} \subseteq pending' \cup {task'[u].cur : u \in Tasks} BY <1>2
    <3> QED BY <3>1, <3>2 DEF Covered, Within, Last
  <2>2. CASE c \notin pending \cup {task[t].cur}
    <3>1. PICK u \in Tasks \ {t} : c = task[u].cur BY <2>2
    <3>2. c \in {task'[v].cur : v \in Tasks} BY <1>2, <3>1
    <3> QED BY <1>4, <3>2 DEF Covered, Within, Last
  <2> QED BY <2>1, <2>2
<1> QED BY <1>1, <1>3, <1>4 DEF Covered, Within

\* Where a task has a finished guard, or is about to have one.
Writing == {"bytes", "write", "lock", "room", "drain", "push", "free_bytes", "free_ops"}

\* What the steps of the task that has the mutex have in common.
LEMMA Busy ==
  ASSUME BackpressureInv, NEW t \in Tasks, NEW r \in TaskType, Moves(t, r), Fits(t, r),
         task[t].pc \in Writing, r.pc \in Writing, r.got = task[t].got, Typed', MemoryExact', Adapter',
         UNCHANGED <<ops, units, stop>>, r.quit => stop, next <= next',
         ~stop => /\ \A c \in pending \cup {task[t].cur} : \A b \in Int :
                       Within(b, c) => b < next' \/ \E d \in pending' \cup {r.cur} : Within(b, d)
                  /\ \A b \in Start(t) .. Given(r) - 1 :
                       \/ b < next'
                       \/ \E d \in pending' \cup {r.cur} : Within(b, d)
                       \/ b < Given(task[t])
  PROVE  BackpressureInv'
<1>0. Typed /\ Fitting /\ Adapter /\ MemoryExact /\ Credits /\ Kept BY DEF BackpressureInv
<1>1. Fitting' BY <1>0, FitStep
<1>2. Credits'
  <2>1. Op(r) = 1 /\ Op(task[t]) = 1 BY DEF Op, WithOp, Writing
  <2>2. ops \in Nat /\ units \in Nat /\ task[t].got \in Nat BY <1>0, TaskTypes DEF Typed
  <2>3. ops' + Op(r) = ops + Op(task[t]) BY <2>1, <2>2
  <2>4. units' + r.got = units + task[t].got /\ r.pc # "dropped" BY <2>2 DEF Writing
  <2> QED BY <1>0, <2>2, <2>3, <2>4, CreditStep
<1>3. Kept'
  <2>1. next' \in Nat
    <3>1. next' \in 0 .. Length' /\ Length' = Length BY DEF Typed, Length
    <3> QED BY <3>1, Pieces
  <2>2. task[t].pc \notin {"done", "dropped"} BY DEF Writing
  <2>3. ASSUME ~stop PROVE \A b \in Int : Covered(b) => Covered(b)' BY <1>0, <2>1, <2>3, CoveredGrows
  <2>4. ASSUME ~stop, NEW b \in Start(t) .. Given(r) - 1 PROVE Covered(b)'
    <3>1. r.cur \in {task'[u].cur : u \in Tasks}
      <4>1. task'[t].cur = r.cur BY DEF Moves, Like
      <4> QED BY <4>1
    <3>2. CASE b < next' BY <3>2 DEF Covered
    <3>3. CASE \E d \in pending' \cup {r.cur} : Within(b, d) BY <3>1, <3>3 DEF Covered, Within, Last
    <3>4. CASE b < Given(task[t])
      <4>1. Start(t) \in Nat /\ Given(task[t]) \in Nat /\ Given(r) \in Nat
        BY <1>0, Pieces, TaskTypes DEF Given, TaskType
      <4>2. b \in Start(t) .. Given(task[t]) - 1 /\ b \in Int BY <3>4, <4>1
      <4>3. ~Ended(t) BY <2>2 DEF Ended
      <4>4. Covered(b) BY <1>0, <2>4, <4>2, <4>3 DEF Kept
      <4> QED BY <2>3, <2>4, <4>2, <4>4
    <3> QED BY <2>4, <3>2, <3>3, <3>4
  <2>5. stop' \in BOOLEAN BY <1>0 DEF Typed
  <2> QED BY <1>0, <2>2, <2>3, <2>4, <2>5, KeptStep
<1> QED BY <1>1, <1>2, <1>3 DEF BackpressureInv

LEMMA PushInv ==
  ASSUME BackpressureInv, NEW t \in Tasks, At(t, "lock"), lock = 0, task[t].off <= next,
         task[t].off + task[t].len > next, Push(t)
  PROVE  BackpressureInv'
<1>0. Typed /\ Adapter BY DEF BackpressureInv
<1>1. PICK q \in TaskType : q = task[t] BY TaskFacts
<1>2. q.pc = "lock" /\ Fits(t, q) BY <1>1, TaskFacts DEF At
<1>3. q.off \in Nat /\ q.len \in Nat /\ q.held \in Nat /\ q.got \in Nat /\ q.quit \in BOOLEAN BY DEF TaskType
<1>4. PICK c : c = Chunk(next, q.off + q.len - next, 0) OBVIOUS
<1>5. /\ c \in ChunkType /\ c.off = next /\ c.len = q.off + q.len - next /\ c.mem = 0
      /\ Last(c) = q.off + q.len
  <2>1. next \in Nat /\ q.off + q.len - next \in Nat BY <1>1, <1>3, TaskFacts
  <2> QED BY <1>3, <1>4, <2>1 DEF Chunk, ChunkType, Last
<1>6. PICK r : r = [q EXCEPT !.pc = "push", !.cur = c] OBVIOUS
<1>7. /\ r \in TaskType /\ r.pc = "push" /\ r.off = q.off /\ r.len = q.len
      /\ r.held = q.held /\ r.got = q.got /\ r.quit = q.quit /\ r.cur = c
  BY <1>5, <1>6 DEF TaskType, Places
<1>8. Fits(t, r) BY <1>2, <1>7 DEF Fits, Empty
<1>9. Moves(t, r)
  <2>1. task' = [task EXCEPT ![t] = r] BY <1>0, <1>1, <1>4, <1>6 DEF Push, Typed
  <2> QED BY <1>0, <1>7, <2>1, MovesPlain
<1>10. lock' = t /\ UNCHANGED <<used, loan, ops, units, next, pending, out, stop, upsets>>
  BY DEF Push, memory, credits
<1>11. Typed' BY <1>0, <1>9, <1>10 DEF Typed, Moves, Length
<1>12. q.cur = None /\ None.mem = 0 /\ None.off = 0 /\ Last(None) = 0
  BY <1>2 DEF Fits, None, Chunk, Last
<1>13. MemoryExact'
  <2>1. used \in Nat BY TaskFacts
  <2>2. used' = used - (task[t].held + task[t].cur.mem) + (r.held + r.cur.mem)
    BY <1>1, <1>3, <1>5, <1>7, <1>10, <1>12, <2>1
  <2> QED BY <1>7, <1>9, <1>10, <2>2, MemStep, TaskFacts
<1>14. Adapter'
  <2>1. Last(c) <= Length
    <3>1. q.off + q.len <= End(t) BY <1>2 DEF Fits
    <3> QED BY <1>3, <1>5, <3>1, Pieces
  <2>2. \A u \in Tasks \ {t} : lock' = u <=> lock = u BY <1>10, Pieces
  <2>3. Buffered' = Buffered BY <1>10 DEF Buffered
  <2>4. (\A d \in pending' : Last(d) <= Length) /\ Buffered' <= MaxBuffered
    BY <1>0, <1>10, <2>3 DEF Adapter
  <2>5. Len(out') = next' /\ \A i \in 1 .. Len(out') : out'[i] = i - 1 BY <1>0, <1>10 DEF Adapter
  <2>6. r.pc = "push" => r.cur.off = next' /\ Last(r.cur) <= Length BY <1>5, <1>7, <1>10, <2>1
  <2>7. lock' = t <=> r.pc \in {"push", "drain"} BY <1>7, <1>10
  <2>8. next' = next \/ lock = t BY <1>10
  <2> QED BY <1>0, <1>7, <1>9, <2>2, <2>4, <2>5, <2>6, <2>7, <2>8, AdapterMoves
<1>15. ASSUME NEW d \in pending \cup {task[t].cur}, NEW b \in Int, Within(b, d)
       PROVE  b < next' \/ \E e \in pending' \cup {r.cur} : Within(b, e)
  BY <1>1, <1>10, <1>12, <1>15 DEF Within
<1>16. ASSUME NEW b \in Start(t) .. Given(r) - 1
       PROVE  b < next' \/ \E e \in pending' \cup {r.cur} : Within(b, e)
  <2>1. Given(r) = q.off + q.len BY <1>7 DEF Given
  <2>2. Start(t) \in Nat /\ next \in Nat BY TaskFacts
  <2> QED BY <1>3, <1>5, <1>7, <1>10, <2>1, <2>2 DEF Within
<1> QED
  <2>1. q.pc \in Writing /\ r.pc \in Writing /\ (r.quit => stop) /\ next <= next'
    BY <1>1, <1>2, <1>7, <1>10, TaskFacts DEF Writing
  <2> QED BY <1>1, <1>7, <1>8, <1>9, <1>10, <1>11, <1>13, <1>14, <1>15, <1>16, <2>1, Busy

\* The sums over the buffer when a chunk enters or leaves it.
Lens == [c \in pending |-> c.len]

LEMMA Added ==
  ASSUME Typed, NEW c \in ChunkType, c \notin pending, pending' = pending \cup {c}
  PROVE  /\ Total(Mem', pending') = Total(Mem, pending) + c.mem
         /\ Buffered' = Buffered + c.len /\ Buffered \in Nat
<1>1. PICK S, g, h, k, l : S = pending /\ g = Mem /\ h = Mem' /\ k = Lens /\ l = Lens' OBVIOUS
<1>2. IsFiniteSet(S) /\ pending' = S \cup {c} /\ c \notin S BY <1>1 DEF Typed
<1>3. \A d \in S \cup {c} : h[d] = d.mem /\ l[d] = d.len /\ h[d] \in Nat /\ l[d] \in Nat
  BY <1>1 DEF Mem, Lens, Typed, ChunkType
<1>4. \A d \in S : g[d] = h[d] /\ k[d] = l[d] BY <1>1 DEF Mem, Lens
<1>5. Total(g, S) = Total(h, S) BY <1>2, <1>4, TotalAlike
<1>6. Total(k, S) = Total(l, S) BY <1>2, <1>4, TotalAlike
<1>6a. (\A d \in S \cup {c} : h[d] \in Int) /\ (\A d \in S \cup {c} : l[d] \in Int) BY <1>3
<1>7. Total(h, S \cup {c}) = h[c] + Total(h, S) BY <1>2, <1>6a, TotalWith
<1>8. Total(l, S \cup {c}) = l[c] + Total(l, S) BY <1>2, <1>6a, TotalWith
<1>9. Total(h, S) \in Nat BY <1>2, <1>3, TotalNat
<1>10. Total(l, S) \in Nat BY <1>2, <1>3, TotalNat
<1>11. h[c] = c.mem /\ l[c] = c.len /\ h[c] \in Nat /\ l[c] \in Nat BY <1>3
<1>12. Buffered = Total(k, S) /\ Buffered' = Total(l, S \cup {c}) BY <1>1, <1>2 DEF Buffered, Lens
<1> QED BY <1>1, <1>2, <1>5, <1>6, <1>7, <1>8, <1>9, <1>10, <1>11, <1>12

LEMMA Removed ==
  ASSUME Typed, NEW c \in pending, pending' = pending \ {c}
  PROVE  /\ Total(Mem, pending) = Total(Mem', pending') + c.mem
         /\ Buffered = Buffered' + c.len /\ Buffered' \in Nat /\ Total(Mem', pending') \in Nat
         /\ IsFiniteSet(pending')
<1>1. PICK S, g, h, k, l : S = pending /\ g = Mem /\ h = Mem' /\ k = Lens /\ l = Lens' OBVIOUS
<1>2. PICK U : U = S \ {c} OBVIOUS
<1>3. IsFiniteSet(S) /\ IsFiniteSet(U) /\ pending' = U /\ c \in S BY <1>1, <1>2, FS_RemoveElement DEF Typed
<1>4. \A d \in S : g[d] = d.mem /\ k[d] = d.len /\ g[d] \in Nat /\ k[d] \in Nat
  BY <1>1 DEF Mem, Lens, Typed, ChunkType
<1>5. \A d \in U : g[d] = h[d] /\ k[d] = l[d] BY <1>1, <1>2, <1>3 DEF Mem, Lens
<1>6. Total(g, U) = Total(h, U) BY <1>3, <1>5, TotalAlike
<1>7. Total(k, U) = Total(l, U) BY <1>3, <1>5, TotalAlike
<1>8. Total(g, S) = g[c] + Total(g, U) BY <1>2, <1>3, <1>4, TotalWithout
<1>9. Total(k, S) = k[c] + Total(k, U) BY <1>2, <1>3, <1>4, TotalWithout
<1>10. Total(g, U) \in Nat BY <1>2, <1>3, <1>4, TotalNat
<1>11. Total(k, U) \in Nat BY <1>2, <1>3, <1>4, TotalNat
<1>12. g[c] = c.mem /\ k[c] = c.len /\ g[c] \in Nat /\ k[c] \in Nat BY <1>3, <1>4
<1>13. Buffered = Total(k, S) /\ Buffered' = Total(l, U) BY <1>1, <1>3 DEF Buffered, Lens
<1> QED BY <1>1, <1>3, <1>6, <1>7, <1>8, <1>9, <1>10, <1>11, <1>12, <1>13

LEMMA BufferInv ==
  ASSUME BackpressureInv, NEW t \in Tasks, At(t, "lock"), lock = 0, task[t].off > next,
         HasRoom(task[t].len), ~ \E c \in pending : c.off = task[t].off, Buffer(t)
  PROVE  BackpressureInv'
<1>0. Typed /\ Adapter BY DEF BackpressureInv
<1>1. PICK q \in TaskType : q = task[t] BY TaskFacts
<1>2. q.pc = "lock" /\ Fits(t, q) BY <1>1, TaskFacts DEF At
<1>3. q.off \in Nat /\ q.len \in Nat /\ q.held \in Nat /\ q.got \in Nat /\ q.quit \in BOOLEAN BY DEF TaskType
<1>4. PICK c : c = Chunk(q.off, q.len, q.held) OBVIOUS
<1>5. /\ c \in ChunkType /\ c.off = q.off /\ c.len = q.len /\ c.mem = q.held
      /\ Last(c) = q.off + q.len
  BY <1>3, <1>4 DEF Chunk, ChunkType, Last
<1>6. PICK r : r = [q EXCEPT !.pc = "drain", !.held = 0] OBVIOUS
<1>7. /\ r \in TaskType /\ r.pc = "drain" /\ r.off = q.off /\ r.len = q.len
      /\ r.held = 0 /\ r.got = q.got /\ r.quit = q.quit /\ r.cur = q.cur
  BY <1>6 DEF TaskType, Places
<1>8. Fits(t, r) BY <1>2, <1>3, <1>7 DEF Fits, Empty
<1>9. Moves(t, r)
  <2>1. task' = [task EXCEPT ![t] = r] BY <1>0, <1>1, <1>6 DEF Buffer, Typed
  <2> QED BY <1>0, <1>7, <2>1, MovesPlain
<1>10. lock' = t /\ UNCHANGED <<used, loan, ops, units, next, out, stop, upsets>> /\ pending' = pending \cup {c}
  BY <1>1, <1>4 DEF Buffer, memory, credits
<1>11. c \notin pending BY <1>1, <1>5
<1>12. /\ Total(Mem', pending') = Total(Mem, pending) + q.held
       /\ Buffered' = Buffered + q.len /\ Buffered \in Nat
  BY <1>0, <1>5, <1>10, <1>11, Added
<1>13. Typed'
  <2>1. pending' \subseteq ChunkType /\ IsFiniteSet(pending') BY <1>0, <1>5, <1>10, FS_AddElement DEF Typed
  <2> QED BY <1>0, <1>9, <1>10, <2>1 DEF Typed, Moves, Length
<1>14. q.cur = None /\ None.mem = 0 /\ None.off = 0 /\ Last(None) = 0
  BY <1>2 DEF Fits, None, Chunk, Last
<1>15. MemoryExact'
  <2>1. used \in Nat BY TaskFacts
  <2>2. used' = used - (task[t].held + task[t].cur.mem) + (r.held + r.cur.mem) + q.held
    BY <1>1, <1>3, <1>7, <1>10, <1>14, <2>1
  <2>3. q.held \in Int /\ loan' = loan BY <1>3, <1>10
  <2> QED BY <1>7, <1>9, <1>12, <2>2, <2>3, MemMoves, TaskFacts
<1>16. Adapter'
  <2>1. Last(c) <= Length
    <3>1. q.off + q.len <= End(t) BY <1>2 DEF Fits
    <3> QED BY <1>3, <1>5, <3>1, Pieces
  <2>2. \A u \in Tasks \ {t} : lock' = u <=> lock = u BY <1>10, Pieces
  <2>3. Buffered' <= MaxBuffered BY <1>1, <1>12 DEF HasRoom
  <2>4. \A d \in pending' : Last(d) <= Length BY <1>0, <1>10, <2>1 DEF Adapter
  <2>5. Len(out') = next' /\ \A i \in 1 .. Len(out') : out'[i] = i - 1 BY <1>0, <1>10 DEF Adapter
  <2>6. r.pc = "push" => r.cur.off = next' /\ Last(r.cur) <= Length BY <1>7
  <2>7. lock' = t <=> r.pc \in {"push", "drain"} BY <1>7, <1>10
  <2>8. next' = next \/ lock = t BY <1>10
  <2> QED BY <1>0, <1>7, <1>9, <2>2, <2>3, <2>4, <2>5, <2>6, <2>7, <2>8, AdapterMoves
<1>17. ASSUME NEW d \in pending \cup {task[t].cur}, NEW b \in Int, Within(b, d)
       PROVE  b < next' \/ \E e \in pending' \cup {r.cur} : Within(b, e)
  BY <1>1, <1>10, <1>14, <1>17 DEF Within
<1>18. ASSUME NEW b \in Start(t) .. Given(r) - 1
       PROVE  \/ b < next' \/ \E e \in pending' \cup {r.cur} : Within(b, e)
              \/ b < Given(task[t])
  <2>1. Given(r) = q.off + q.len /\ Given(task[t]) = q.off + 0 BY <1>1, <1>2, <1>7 DEF Given
  <2>2. Start(t) \in Nat BY TaskFacts
  <2>3. CASE b < q.off BY <1>3, <2>1, <2>3
  <2>4. CASE ~(b < q.off)
    <3>1. Within(b, c) BY <1>3, <1>5, <2>1, <2>2, <2>4 DEF Within
    <3> QED BY <1>10, <3>1
  <2> QED BY <2>3, <2>4
<1> QED
  <2>1. q.pc \in Writing /\ r.pc \in Writing /\ (r.quit => stop) /\ next <= next'
    BY <1>1, <1>2, <1>7, <1>10, TaskFacts DEF Writing
  <2> QED BY <1>1, <1>7, <1>8, <1>9, <1>10, <1>13, <1>15, <1>16, <1>17, <1>18, <2>1, Busy

\* The application's sink takes what starts at next_offset.
LEMMA PushedInv ==
  ASSUME BackpressureInv, NEW t \in Tasks, Pushed(t) PROVE BackpressureInv'
<1>0. Typed /\ Adapter /\ MemoryExact BY DEF BackpressureInv
<1>1. PICK q \in TaskType : q = task[t] BY TaskFacts
<1>2. q.pc = "push" /\ Fits(t, q) BY <1>1, TaskFacts DEF Pushed, At
<1>3. q.off \in Nat /\ q.len \in Nat /\ q.held \in Nat /\ q.got \in Nat /\ q.quit \in BOOLEAN BY DEF TaskType
<1>4. PICK c \in ChunkType : c = q.cur BY DEF TaskType
<1>5. c.off = next /\ Last(c) <= Length /\ lock = t BY <1>0, <1>1, <1>2, <1>4 DEF Adapter, At
<1>6. c.off \in Nat /\ c.len \in Nat /\ c.mem \in Nat BY DEF ChunkType
<1>7. PICK r : r = [q EXCEPT !.pc = "drain", !.cur = None] OBVIOUS
<1>8. None \in ChunkType /\ None.mem = 0 BY DEF None, Chunk, ChunkType
<1>9. /\ r \in TaskType /\ r.pc = "drain" /\ r.off = q.off /\ r.len = q.len
      /\ r.held = q.held /\ r.got = q.got /\ r.quit = q.quit /\ r.cur = None
  BY <1>7, <1>8 DEF TaskType, Places
<1>10. Fits(t, r) BY <1>2, <1>9 DEF Fits, Empty
<1>11. used' = used - c.mem /\ Moves(t, r)
  <2>1. Freed(c.mem, [task EXCEPT ![t] = r]) BY <1>0, <1>1, <1>4, <1>7 DEF Pushed, Typed
  <2> QED BY <1>0, <1>9, <2>1, MovesFreed
<1>12. /\ next' = next + c.len /\ UNCHANGED <<loan, ops, units, pending, lock, stop, upsets>>
       /\ out' = out \o [i \in 1 .. c.len |-> c.off + i - 1]
  BY <1>1, <1>4 DEF Pushed, credits
<1>13. next \in Nat /\ next' \in Nat /\ next' <= Length /\ next <= next'
  <2>1. next \in Nat BY TaskFacts
  <2>2. next' = Last(c) BY <1>5, <1>12 DEF Last
  <2> QED BY <1>5, <1>6, <1>12, <2>1, <2>2, Pieces
<1>14. used' \in 0 .. MemLimit
  <2>1. q.held + c.mem <= used - loan BY <1>0, <1>1, <1>4, UsedCovers
  <2> QED BY <1>3, <1>6, <1>11, <2>1, TaskFacts
<1>15. out' \in Seq(Nat) /\ Len(out') = next' /\ \A i \in 1 .. Len(out') : out'[i] = i - 1
  <2>1. PICK p : p = [i \in 1 .. c.len |-> c.off + i - 1] OBVIOUS
  <2>2. p \in Seq(Nat) /\ Len(p) = c.len /\ \A i \in 1 .. c.len : p[i] = next + i - 1
    <3>1. \A i \in 1 .. c.len : c.off + i - 1 \in Nat BY <1>6
    <3> QED BY <1>5, <1>6, <2>1, <3>1
  <2>3. out \in Seq(Nat) /\ Len(out) = next /\ \A i \in 1 .. Len(out) : out[i] = i - 1
    BY <1>0 DEF Typed, Adapter
  <2>4. PICK o : o = out /\ out' = o \o p BY <1>12, <2>1
  <2>5. out' \in Seq(Nat) /\ Len(out') = next'
    <3>1. o \in Seq(Nat) /\ p \in Seq(Nat) BY <2>2, <2>3, <2>4
    <3>2. o \o p \in Seq(Nat) /\ Len(o \o p) = Len(o) + Len(p) BY <3>1
    <3> QED BY <1>12, <2>2, <2>3, <2>4, <3>2
  <2>6. ASSUME NEW i \in 1 .. Len(out') PROVE out'[i] = i - 1
    <3>0. i \in Nat /\ 1 <= i /\ i <= next + c.len BY <1>6, <1>12, <1>13, <2>5
    <3>1. CASE i <= next
      <4>1. out'[i] = o[i] BY <1>13, <2>2, <2>3, <2>4, <3>0, <3>1
      <4> QED BY <1>13, <2>3, <2>4, <3>0, <3>1, <4>1
    <3>2. CASE ~(i <= next)
      <4>1. i - next \in 1 .. c.len BY <1>6, <1>13, <3>0, <3>2
      <4>2. out'[i] = p[i - next] BY <1>6, <1>13, <2>2, <2>3, <2>4, <3>0, <3>2
      <4>3. p[i - next] = next + (i - next) - 1 BY <2>2, <4>1
      <4> QED BY <1>13, <3>0, <4>2, <4>3
    <3> QED BY <3>1, <3>2
  <2> QED BY <2>5, <2>6
<1>16. Typed'
  <2>1. next' \in 0 .. Length BY <1>13, Pieces
  <2> QED BY <1>0, <1>11, <1>12, <1>14, <1>15, <2>1 DEF Typed, Moves, Length
<1>17. MemoryExact'
  <2>1. used \in Nat BY TaskFacts
  <2>2. used' = used - (task[t].held + task[t].cur.mem) + (r.held + r.cur.mem)
    BY <1>1, <1>3, <1>4, <1>6, <1>8, <1>9, <1>11, <2>1
  <2> QED BY <1>9, <1>11, <1>12, <2>2, MemStep, TaskFacts
<1>18. Adapter'
  <2>1. Buffered' = Buffered BY <1>12 DEF Buffered
  <2>2. \A u \in Tasks \ {t} : lock' = u <=> lock = u BY <1>12
  <2>3. Buffered' <= MaxBuffered BY <1>0, <2>1 DEF Adapter
  <2>4. \A d \in pending' : Last(d) <= Length BY <1>0, <1>12 DEF Adapter
  <2>5. r.pc = "push" => r.cur.off = next' /\ Last(r.cur) <= Length BY <1>9
  <2>6. lock' = t <=> r.pc \in {"push", "drain"} BY <1>5, <1>9, <1>12
  <2>7. next' = next \/ lock = t BY <1>5
  <2> QED BY <1>0, <1>9, <1>11, <1>15, <2>2, <2>3, <2>4, <2>5, <2>6, <2>7, AdapterMoves
<1>19. ASSUME NEW d \in pending \cup {task[t].cur}, NEW b \in Int, Within(b, d)
       PROVE  b < next' \/ \E e \in pending' \cup {r.cur} : Within(b, e)
  BY <1>1, <1>4, <1>5, <1>12, <1>19 DEF Within, Last
<1>20. Given(r) = Given(task[t]) /\ Given(r) \in Nat BY <1>1, <1>2, <1>3, <1>9 DEF Given
<1>21. \A b \in Start(t) .. Given(r) - 1 : b < Given(task[t]) BY <1>20, TaskFacts
<1> QED
  <2>1. q.pc \in Writing /\ r.pc \in Writing /\ (r.quit => stop) BY <1>1, <1>2, <1>9, TaskFacts DEF Writing
  <2> QED BY <1>1, <1>9, <1>10, <1>11, <1>12, <1>13, <1>16, <1>17, <1>18, <1>19, <1>21, <2>1, Busy

\* The lowest buffered chunk has become the next one.
LEMMA DrainOneInv ==
  ASSUME BackpressureInv, NEW t \in Tasks, At(t, "drain"), NEW c \in Heads, pending' = pending \ {c},
         task' = [task EXCEPT ![t].pc = "push", ![t].cur = c],
         UNCHANGED <<used, loan, ops, units, next, lock, out, stop, upsets>>
  PROVE  BackpressureInv'
<1>0. Typed /\ Adapter /\ MemoryExact BY DEF BackpressureInv
<1>1. PICK q \in TaskType : q = task[t] BY TaskFacts
<1>2. q.pc = "drain" /\ Fits(t, q) BY <1>1, TaskFacts DEF At
<1>3. q.off \in Nat /\ q.len \in Nat /\ q.held \in Nat /\ q.got \in Nat /\ q.quit \in BOOLEAN BY DEF TaskType
<1>4. c \in pending /\ c \in ChunkType /\ c.off = next /\ Last(c) <= Length /\ lock = t
  BY <1>0, <1>1, <1>2 DEF Heads, Typed, Adapter
<1>5. c.off \in Nat /\ c.len \in Nat /\ c.mem \in Nat BY <1>4 DEF ChunkType
<1>6. PICK r : r = [q EXCEPT !.pc = "push", !.cur = c] OBVIOUS
<1>7. /\ r \in TaskType /\ r.pc = "push" /\ r.off = q.off /\ r.len = q.len
      /\ r.held = q.held /\ r.got = q.got /\ r.quit = q.quit /\ r.cur = c
  BY <1>4, <1>6 DEF TaskType, Places
<1>8. Fits(t, r) BY <1>2, <1>7 DEF Fits, Empty
<1>9. Moves(t, r)
  <2>1. task' = [task EXCEPT ![t] = r] BY <1>0, <1>1, <1>6 DEF Typed
  <2> QED BY <1>0, <1>7, <2>1, MovesPlain
<1>10. /\ Total(Mem, pending) = Total(Mem', pending') + c.mem /\ Total(Mem', pending') \in Nat
       /\ Buffered = Buffered' + c.len /\ Buffered' \in Nat /\ IsFiniteSet(pending')
  BY <1>0, <1>4, Removed
<1>11. Typed' BY <1>0, <1>9, <1>10 DEF Typed, Moves, Length
<1>12. q.cur = None /\ None.mem = 0 /\ None.off = 0 /\ Last(None) = 0
  BY <1>2 DEF Fits, None, Chunk, Last
<1>13. MemoryExact'
  <2>1. used \in Nat BY TaskFacts
  <2>2. PICK m \in Int : m = 0 - c.mem BY <1>5
  <2>3. used' = used - (task[t].held + task[t].cur.mem) + (r.held + r.cur.mem) + m
    BY <1>1, <1>3, <1>5, <1>7, <1>12, <2>1, <2>2
  <2>4. Total(Mem', pending') = Total(Mem, pending) + m BY <1>5, <1>10, <2>2
  <2> QED BY <1>7, <1>9, <2>3, <2>4, MemMoves, TaskFacts
<1>14. Adapter'
  <2>1. \A u \in Tasks \ {t} : lock' = u <=> lock = u OBVIOUS
  <2>2. Buffered' <= MaxBuffered
    <3>1. Buffered <= MaxBuffered /\ MaxBuffered \in Nat BY <1>0, BackpressureAssumption DEF Adapter
    <3> QED BY <1>5, <1>10, <3>1
  <2>3. \A d \in pending' : Last(d) <= Length BY <1>0 DEF Adapter
  <2>4. r.pc = "push" => r.cur.off = next' /\ Last(r.cur) <= Length BY <1>4, <1>7
  <2>5. lock' = t <=> r.pc \in {"push", "drain"} BY <1>4, <1>7
  <2>6. next' = next \/ lock = t BY <1>4
  <2>7. Len(out') = next' /\ \A i \in 1 .. Len(out') : out'[i] = i - 1 BY <1>0 DEF Adapter
  <2> QED BY <1>0, <1>7, <1>9, <2>1, <2>2, <2>3, <2>4, <2>5, <2>6, <2>7, AdapterMoves
<1>15. ASSUME NEW d \in pending \cup {task[t].cur}, NEW b \in Int, Within(b, d)
       PROVE  b < next' \/ \E e \in pending' \cup {r.cur} : Within(b, e)
  BY <1>1, <1>7, <1>12, <1>15 DEF Within
<1>16. Given(r) = Given(task[t]) /\ Given(r) \in Nat BY <1>1, <1>2, <1>3, <1>7 DEF Given
<1>17. \A b \in Start(t) .. Given(r) - 1 : b < Given(task[t]) BY <1>16, TaskFacts
<1> QED
  <2>1. q.pc \in Writing /\ r.pc \in Writing /\ (r.quit => stop) /\ next <= next'
    BY <1>1, <1>2, <1>7, TaskFacts DEF Writing
  <2> QED BY <1>1, <1>7, <1>8, <1>9, <1>11, <1>13, <1>14, <1>15, <1>17, <2>1, Busy

\* The mutex is given back, after the loop or because the future is dropped.
LEMMA LeaveInv ==
  ASSUME BackpressureInv, NEW t \in Tasks, NEW r \in TaskType, Moves(t, r),
         task[t].pc \in {"lock", "room", "push", "drain"}, r.pc = "free_bytes",
         r.off = task[t].off, r.len = task[t].len, r.held = task[t].held, r.got = task[t].got,
         r.cur = None, r.quit => stop, stop \/ task[t].pc = "drain",
         used' = used - task[t].cur.mem, lock' = IF lock = t THEN 0 ELSE lock,
         UNCHANGED <<loan, ops, units, next, pending, out, stop, upsets>>
  PROVE  BackpressureInv'
<1>0. Typed /\ Adapter /\ MemoryExact BY DEF BackpressureInv
<1>1. PICK q \in TaskType : q = task[t] BY TaskFacts
<1>2. Fits(t, q) BY <1>1, TaskFacts
<1>3. q.off \in Nat /\ q.len \in Nat /\ q.held \in Nat /\ q.got \in Nat BY DEF TaskType
<1>4. Fits(t, r) BY <1>1, <1>2 DEF Fits, Empty
<1>5. task[t].cur.mem \in Nat /\ None.mem = 0 BY <1>0, TaskTypes DEF None, Chunk
<1>6. used' \in 0 .. MemLimit
  <2>1. q.held + task[t].cur.mem <= used - loan BY <1>0, <1>1, UsedCovers
  <2> QED BY <1>3, <1>5, <2>1, TaskFacts
<1>7. Typed' BY <1>0, <1>6 DEF Typed, Moves, Length
<1>8. MemoryExact'
  <2>1. used \in Nat BY TaskFacts
  <2>2. used' = used - (task[t].held + task[t].cur.mem) + (r.held + r.cur.mem) BY <1>1, <1>3, <1>5, <2>1
  <2> QED BY <2>2, MemStep, TaskFacts
<1>9. Adapter'
  <2>0. t # 0 BY Pieces
  <2>1. \A u \in Tasks \ {t} : lock' = u <=> lock = u BY Pieces
  <2>2. Buffered' = Buffered BY DEF Buffered
  <2>3. (\A d \in pending' : Last(d) <= Length) /\ Buffered' <= MaxBuffered BY <1>0, <2>2 DEF Adapter
  <2>4. r.pc = "push" => r.cur.off = next' /\ Last(r.cur) <= Length OBVIOUS
  <2>5. lock' = t <=> r.pc \in {"push", "drain"} BY <2>0
  <2>6. next' = next \/ lock = t OBVIOUS
  <2>7. Len(out') = next' /\ \A i \in 1 .. Len(out') : out'[i] = i - 1 BY <1>0 DEF Adapter
  <2> QED BY <1>0, <2>1, <2>3, <2>4, <2>5, <2>6, <2>7, AdapterMoves
<1>10. ASSUME ~stop, NEW d \in pending \cup {task[t].cur}, NEW b \in Int, Within(b, d)
       PROVE  b < next' \/ \E e \in pending' \cup {r.cur} : Within(b, e)
  <2>1. task[t].cur = None BY <1>1, <1>2, <1>10 DEF Fits
  <2> QED BY <1>10, <2>1
<1>11. ASSUME ~stop, NEW b \in Start(t) .. Given(r) - 1 PROVE b < Given(task[t])
  <2>1. Given(r) = Given(task[t]) /\ Given(r) \in Nat BY <1>1, <1>3, <1>11 DEF Given
  <2> QED BY <2>1, TaskFacts
<1> QED
  <2>1. task[t].pc \in Writing /\ r.pc \in Writing /\ next <= next' BY TaskFacts DEF Writing
  <2> QED BY <1>4, <1>7, <1>8, <1>9, <1>10, <1>11, <2>1, Busy

LEMMA DrainInv ==
  ASSUME BackpressureInv, NEW t \in Tasks, Drain(t) PROVE BackpressureInv'
<1>0. At(t, "drain") /\ UNCHANGED <<used, loan, ops, units, next, out, stop, upsets>>
  BY DEF Drain, memory, credits
<1>1. ASSUME NEW c \in Heads, pending' = pending \ {c},
             task' = [task EXCEPT ![t].pc = "push", ![t].cur = c], UNCHANGED lock
      PROVE  BackpressureInv'
  BY <1>0, <1>1, DrainOneInv
<1>2. ASSUME lock' = 0, task' = Notified([task EXCEPT ![t].pc = "free_bytes"], {"lock", "room"}), UNCHANGED pending
      PROVE  BackpressureInv'
  <2>1. PICK q \in TaskType : q = task[t] BY TaskFacts
  <2>2. q.pc = "drain" /\ Fits(t, q) /\ (q.quit => stop) BY <1>0, <2>1, TaskFacts DEF At
  <2>3. PICK r : r = [q EXCEPT !.pc = "free_bytes"] OBVIOUS
  <2>4. /\ r \in TaskType /\ r.pc = "free_bytes" /\ r.off = q.off /\ r.len = q.len
        /\ r.held = q.held /\ r.got = q.got /\ r.quit = q.quit /\ r.cur = q.cur
    BY <2>3 DEF TaskType, Places
  <2>5. Moves(t, r)
    <3>1. task' = Notified([task EXCEPT ![t] = r], {"lock", "room"})
      BY <1>2, <2>1, <2>3, TaskFacts DEF Typed
    <3> QED BY <2>4, <3>1, TaskFacts, MovesNotified
  <2>6. q.cur = None /\ None.mem = 0 BY <2>2 DEF Fits, None, Chunk
  <2>7. used' = used - task[t].cur.mem BY <1>0, <2>1, <2>6, TaskFacts
  <2>8. lock = t BY <1>0 DEF BackpressureInv, Adapter, At
  <2> QED BY <1>0, <1>2, <2>1, <2>2, <2>4, <2>5, <2>6, <2>7, <2>8, LeaveInv
<1> QED BY <1>1, <1>2 DEF Drain

LEMMA DroppedWritingInv ==
  ASSUME BackpressureInv, NEW t \in Tasks, stop, DroppedWriting(t), UNCHANGED <<loan, credits, stop, upsets>>
  PROVE  BackpressureInv'
<1>1. PICK q \in TaskType : q = task[t] BY TaskFacts
<1>2. q.pc \in {"lock", "room", "push", "drain"} BY <1>1 DEF DroppedWriting, At
<1>3. PICK r : r = [q EXCEPT !.pc = "free_bytes", !.quit = TRUE, !.cur = None] OBVIOUS
<1>4. None \in ChunkType BY DEF None, Chunk, ChunkType
<1>5. /\ r \in TaskType /\ r.pc = "free_bytes" /\ r.off = q.off /\ r.len = q.len
      /\ r.held = q.held /\ r.got = q.got /\ r.cur = None
  BY <1>3, <1>4 DEF TaskType, Places
<1>6. used' = used - task[t].cur.mem /\ Moves(t, r)
  <2>1. Freed(task[t].cur.mem, [task EXCEPT ![t] = r]) BY <1>1, <1>3, TaskFacts DEF DroppedWriting, Typed
  <2> QED BY <1>5, <2>1, TaskFacts, MovesFreed
<1>7. lock' = (IF lock = t THEN 0 ELSE lock) /\ UNCHANGED <<loan, ops, units, next, pending, out, stop, upsets>>
  BY DEF DroppedWriting, credits
<1> QED BY <1>1, <1>2, <1>5, <1>6, <1>7, LeaveInv

LEMMA LockInv ==
  ASSUME BackpressureInv, NEW t \in Tasks, Lock(t) PROVE BackpressureInv'
<1>0. At(t, "lock") /\ lock = 0 BY DEF Lock
<1>1. task[t].off \in Nat /\ task[t].len \in Nat /\ next \in Nat BY TaskFacts, TaskTypes
<1>2. task[t].len > 0 BY <1>0, TaskFacts DEF Fits, At
<1>3. CASE task[t].off > next /\ ~HasRoom(task[t].len)
  <2>1. NoRoom(t) BY <1>3 DEF Lock
  <2> QED BY <1>0, <2>1, HopsInv
<1>4. CASE task[t].off < next /\ task[t].off + task[t].len <= next
  <2>1. Behind(t) BY <1>1, <1>4 DEF Lock
  <2> QED BY <1>0, <1>4, <2>1, BehindInv
<1>5. CASE task[t].off <= next /\ task[t].off + task[t].len > next
  <2>1. Push(t) BY <1>1, <1>5 DEF Lock
  <2> QED BY <1>0, <1>5, <2>1, PushInv
<1>6. CASE task[t].off > next /\ HasRoom(task[t].len) /\ \E c \in pending : c.off = task[t].off
  <2>1. Duplicate(t) BY <1>1, <1>6 DEF Lock
  <2> QED BY <1>0, <2>1, DuplicateInv
<1>7. CASE task[t].off > next /\ HasRoom(task[t].len) /\ ~ \E c \in pending : c.off = task[t].off
  <2>1. Buffer(t) BY <1>1, <1>7 DEF Lock
  <2> QED BY <1>0, <1>7, <2>1, BufferInv
<1> QED BY <1>1, <1>2, <1>3, <1>4, <1>5, <1>6, <1>7

-----------------------------------------------------------------------------
(***************************************************************************)
(* Steps of no task, and the theorems.                                     *)
(***************************************************************************)
LEMMA StillInv ==
  ASSUME BackpressureInv, Still, UNCHANGED <<ops, units, next, lock, out>>,
         pending' = pending \/ (pending' = {} /\ \A t \in Tasks : Ended(t)),
         used' \in 0 .. MemLimit, loan' \in 0 .. MemLimit, MemoryExact',
         stop => stop', stop' \in BOOLEAN, upsets' \in 0 .. MaxUpsets
  PROVE  BackpressureInv'
<1>0. Typed /\ Fitting /\ Adapter /\ Credits /\ Kept BY DEF BackpressureInv
<1>1. Typed'
  <2>1. pending' \subseteq ChunkType /\ IsFiniteSet(pending') BY <1>0, FS_EmptySet DEF Typed
  <2> QED BY <1>0, <2>1 DEF Typed, Still, Length
<1>2. Fitting'
  <2>1. ASSUME NEW u \in Tasks, NEW q, Like(task'[u], q), Fits(u, q) PROVE Fits(u, task'[u])
    BY <2>1 DEF Like, Fits
  <2>2. \A u \in Tasks : Fits(u, task'[u]) BY <1>0, <2>1 DEF Still, Fitting
  <2>3. \A u \in Tasks : Fits(u, task[u])' BY <2>2 DEF Fits, End, UnitsFor, Empty, None, Chunk
  <2> QED BY <2>3 DEF Fitting
<1>3. Adapter'
  <2>1. \A u \in Tasks : task'[u].pc = task[u].pc /\ task'[u].cur = task[u].cur BY DEF Still, Like
  <2>2. Buffered' <= MaxBuffered
    <3>1. CASE pending' = pending
      <4>1. Buffered' = Buffered BY <3>1 DEF Buffered
      <4> QED BY <1>0, <4>1 DEF Adapter
    <3>2. CASE pending' = {}
      <4>1. PICK g : g = Lens' OBVIOUS
      <4>2. Buffered' = Total(g, {}) BY <3>2, <4>1 DEF Buffered, Lens
      <4> QED BY <4>2, TotalEmpty, BackpressureAssumption
    <3> QED BY <3>1, <3>2
  <2>3. \A c \in pending' : Last(c) <= Length BY <1>0 DEF Adapter
  <2> QED BY <1>0, <2>1, <2>2, <2>3 DEF Adapter, At, Last, Length
<1>4. Credits'
  <2>1. CreditsExact' BY <1>0, SumsStill DEF Credits, CreditsExact, Got
  <2>2. \A u \in Tasks : task'[u].pc = task[u].pc BY DEF Still, Like
  <2>3. Ample' = Ample BY DEF Ample
  <2> QED BY <1>0, <2>1, <2>2, <2>3 DEF Credits
<1>5. Kept'
  <2>1. \A u \in Tasks : /\ task'[u].pc = task[u].pc /\ task'[u].cur = task[u].cur
                          /\ task'[u].quit = task[u].quit /\ Given(task'[u]) = Given(task[u])
    BY DEF Still, Like, Given
  <2>2. \A u \in Tasks : Start(u)' = Start(u) /\ Given(task[u])' = Given(task'[u]) BY DEF Start, Given
  <2>3. ASSUME ~stop', NEW u \in Tasks, ~Ended(u)' PROVE ~stop /\ ~Ended(u) /\ pending' = pending
    BY <2>1, <2>3 DEF Ended
  <2>4. ASSUME pending' = pending PROVE \A b : Covered(b)' <=> Covered(b)
    <3>1. {task[u].cur : u \in Tasks}' = {task[u].cur : u \in Tasks} BY <2>1
    <3> QED BY <2>4, <3>1 DEF Covered, Last
  <2>5. \A u \in Tasks : task'[u].quit => stop' BY <1>0, <2>1 DEF Kept
  <2>6. ASSUME ~stop', NEW w \in Tasks, ~Ended(w)', NEW u \in Tasks, NEW b \in Start(u) .. Given(task'[u]) - 1
        PROVE  Covered(b)'
    <3>1. Covered(b) BY <1>0, <2>1, <2>3, <2>6 DEF Kept
    <3> QED BY <2>3, <2>4, <2>6, <3>1
  <2> QED BY <2>2, <2>5, <2>6 DEF Kept
<1> QED BY <1>1, <1>2, <1>3, <1>4, <1>5 DEF BackpressureInv

LEMMA LendRepayInv ==
  ASSUME BackpressureInv, Lend \/ Repay PROVE BackpressureInv'
<1>0. Typed /\ MemoryExact BY DEF BackpressureInv
<1>1. MemLimit \in Nat /\ used \in Nat /\ used <= MemLimit /\ loan \in Nat /\ stop \in BOOLEAN
      /\ upsets \in 0 .. MaxUpsets /\ MaxUpsets \in Nat /\ loan <= MemLimit
  BY <1>0, BackpressureAssumption DEF Typed
<1>2. PICK h \in Nat, m \in Nat : /\ h = Total(Hand, Tasks) /\ m = Total(Mem, pending)
                                /\ used = loan + h + m
  BY <1>0, HandType DEF MemoryExact, Hand, Mem
<1>3. CASE Lend
  <2>1. Still BY <1>0, <1>3 DEF Lend, Still, Like, Typed
  <2>2. Total(Hand', Tasks) = h /\ Total(Mem', pending') = m
    BY <1>2, <1>3, <2>1, SumsStill DEF Lend, sink, Mem
  <2>3. used' = loan' + h + m BY <1>1, <1>2, <1>3 DEF Lend
  <2>4. MemoryExact' BY <2>2, <2>3 DEF MemoryExact, Hand, Mem
  <2>5. used' \in 0 .. MemLimit /\ loan' \in 0 .. MemLimit /\ upsets' \in 0 .. MaxUpsets
    BY <1>1, <1>3 DEF Lend
  <2>6. UNCHANGED <<ops, units, next, lock, out>> /\ pending' = pending BY <1>3 DEF Lend, credits, sink
  <2>7. (stop => stop') /\ stop' \in BOOLEAN BY <1>1, <1>3 DEF Lend
  <2>8. pending' = pending \/ (pending' = {} /\ \A t \in Tasks : Ended(t)) BY <2>6
  <2> QED BY <2>1, <2>4, <2>5, <2>6, <2>7, <2>8, StillInv, Zenon
<1>4. CASE Repay
  <2>1. used' = used - loan /\ Still
    <3>1. PICK n : n = loan OBVIOUS
    <3> QED BY <1>0, <1>4, <3>1, StillFreed DEF Repay
  <2>2. Total(Hand', Tasks) = h /\ Total(Mem', pending') = m
    BY <1>2, <1>4, <2>1, SumsStill DEF Repay, sink, Mem
  <2>3. loan' = 0 /\ used' = loan' + h + m BY <1>1, <1>2, <1>4, <2>1 DEF Repay
  <2>4. MemoryExact' BY <2>2, <2>3 DEF MemoryExact, Hand, Mem
  <2>5. used' \in 0 .. MemLimit /\ loan' \in 0 .. MemLimit /\ upsets' \in 0 .. MaxUpsets
    BY <1>1, <1>2, <1>4, <2>1, <2>3 DEF Repay
  <2>6. UNCHANGED <<ops, units, next, lock, out>> /\ pending' = pending BY <1>4 DEF Repay, credits, sink
  <2>7. (stop => stop') /\ stop' \in BOOLEAN BY <1>1, <1>4 DEF Repay
  <2>8. pending' = pending \/ (pending' = {} /\ \A t \in Tasks : Ended(t)) BY <2>6
  <2> QED BY <2>1, <2>4, <2>5, <2>6, <2>7, <2>8, StillInv, Zenon
<1> QED BY <1>3, <1>4

LEMMA CancelInv ==
  ASSUME BackpressureInv, Cancel \/ UNCHANGED vars PROVE BackpressureInv'
<1>0. Typed /\ MemoryExact BY DEF BackpressureInv
<1>1. UNCHANGED <<used, loan, task, upsets>> /\ UNCHANGED <<ops, units, next, lock, out>> /\ pending' = pending
  BY DEF Cancel, vars, memory, credits, sink
<1>2. (stop => stop') /\ stop' \in BOOLEAN BY <1>0 DEF Cancel, vars, Typed
<1>3. Still BY <1>0, <1>1 DEF Still, Like, Typed
<1>4. MemoryExact' BY <1>0, <1>1 DEF MemoryExact
<1>5. used' \in 0 .. MemLimit /\ loan' \in 0 .. MemLimit /\ upsets' \in 0 .. MaxUpsets
  BY <1>0, <1>1 DEF Typed
<1>6. pending' = pending \/ (pending' = {} /\ \A t \in Tasks : Ended(t)) BY <1>1
<1> QED BY <1>1, <1>2, <1>3, <1>4, <1>5, <1>6, StillInv, Zenon

\* The destination goes, and its chunks with their memory.
LEMMA DropDestinationInv ==
  ASSUME BackpressureInv, DropDestination PROVE BackpressureInv'
<1>0. Typed /\ MemoryExact BY DEF BackpressureInv
<1>1. MemLimit \in Nat /\ used \in Nat /\ used <= MemLimit /\ loan \in 0 .. MemLimit /\ loan \in Nat
  BY <1>0, BackpressureAssumption DEF Typed
<1>2. PICK h \in Nat, m \in Nat : /\ h = Total(Hand, Tasks) /\ m = Total(Mem, pending)
                                /\ used = loan + h + m
  BY <1>0, <1>1, HandType DEF MemoryExact, Hand, Mem
<1>3. used' = used - m /\ Still
  <2>1. Freed(m, task) BY <1>2 DEF DropDestination, Mem
  <2> QED BY <1>0, <2>1, StillFreed
<1>4. UNCHANGED <<loan, ops, units, next, lock, out, stop, upsets>> /\ pending' = {}
      /\ \A t \in Tasks : Ended(t)
  BY DEF DropDestination, credits
<1>5. Total(Mem', pending') = 0
  <2>1. PICK g : g = Mem' OBVIOUS
  <2> QED BY <1>4, <2>1, TotalEmpty
<1>6. Total(Hand', Tasks) = h BY <1>2, <1>3, SumsStill
<1>7. used' = loan' + Total(Hand', Tasks) + Total(Mem', pending') BY <1>1, <1>2, <1>3, <1>4, <1>5, <1>6
<1>8. MemoryExact' BY <1>7 DEF MemoryExact, Hand, Mem
<1>9. used' \in 0 .. MemLimit BY <1>1, <1>2, <1>3
<1> QED BY <1>1, <1>3, <1>4, <1>8, <1>9, StillInv DEF BackpressureInv, Typed

LEMMA BackpressureInit == Init => BackpressureInv
<1> SUFFICES ASSUME Init PROVE BackpressureInv OBVIOUS
<1>0. /\ MemLimit \in Nat /\ MaxUpsets \in Nat /\ MaxBuffered \in Nat /\ ByteUnits \in Nat \ {0}
      /\ Ops \in Nat /\ MaxFrame \in Nat /\ IsFiniteSet(Tasks)
  BY BackpressureAssumption
<1>1. None \in ChunkType /\ None.mem = 0 /\ None.off = 0 /\ None.len = 0 BY DEF None, Chunk, ChunkType
<1>2. ASSUME NEW t \in Tasks
      PROVE  /\ task[t] \in TaskType /\ task[t].pc = "frame" /\ task[t].off = Start(t) /\ task[t].len = 0
             /\ task[t].held = 0 /\ task[t].got = 0 /\ ~task[t].quit /\ task[t].cur = None
  BY <1>1, Pieces DEF Init, TaskType, Places
<1>3. Typed
  <2>1. task \in [Tasks -> TaskType] BY <1>2 DEF Init
  <2>2. pending \subseteq ChunkType /\ IsFiniteSet(pending) BY FS_EmptySet DEF Init
  <2>3. next \in 0 .. Length BY Pieces DEF Init
  <2>4. out \in Seq(Nat) BY DEF Init
  <2>5. used \in 0 .. MemLimit /\ loan \in 0 .. MemLimit /\ ops \in Nat /\ units \in Nat /\ upsets \in 0 .. MaxUpsets
    BY <1>0 DEF Init
  <2>6. lock \in Tasks \cup {0} /\ stop \in BOOLEAN BY DEF Init
  <2> QED BY <2>1, <2>2, <2>3, <2>4, <2>5, <2>6 DEF Typed
<1>4. Fitting BY <1>0, <1>2, Pieces DEF Fitting, Fits, Empty, UnitsFor
<1>5. Adapter
  <2>1. PICK g : g = Lens OBVIOUS
  <2>2. Buffered = Total(g, {}) BY <2>1 DEF Buffered, Lens, Init
  <2>3. Buffered <= MaxBuffered BY <1>0, <2>2, TotalEmpty
  <2>4. \A t \in Tasks : task[t].pc \notin {"push", "drain"} /\ t # 0 BY <1>2, Pieces
  <2> QED BY <2>3, <2>4 DEF Adapter, Init, At
<1>6. Total(Hand, Tasks) = 0 /\ Total(Got, Tasks) = 0
  <2>1. PICK g, h : g = Hand /\ h = Got OBVIOUS
  <2>2. \A t \in Tasks : g[t] = 0 /\ h[t] = 0 BY <1>1, <1>2, <2>1 DEF Hand, Got
  <2>3. PICK e : e = {} OBVIOUS
  <2>4. PICK c \in Nat : c = Cardinality(Tasks \cap e)
    <3>1. Tasks \cap e = {} BY <2>3
    <3> QED BY <3>1, FS_EmptySet
  <2>5. Total(g, Tasks) \in Nat /\ Total(g, Tasks) <= 0 * Cardinality(Tasks \cap e)
    <3>1. \A x \in Tasks : g[x] \in Nat /\ g[x] <= 0 /\ (x \notin e => g[x] = 0) BY <2>2
    <3> QED BY <1>0, <3>1, TotalBound
  <2>6. Total(h, Tasks) \in Nat /\ Total(h, Tasks) <= 0 * Cardinality(Tasks \cap e)
    <3>1. \A x \in Tasks : h[x] \in Nat /\ h[x] <= 0 /\ (x \notin e => h[x] = 0) BY <2>2
    <3> QED BY <1>0, <3>1, TotalBound
  <2>7. 0 * c = 0 OBVIOUS
  <2> QED BY <2>1, <2>4, <2>5, <2>6, <2>7
<1>7. MemoryExact
  <2>1. PICK g : g = Mem OBVIOUS
  <2>2. Total(Mem, pending) = 0 BY <2>1, TotalEmpty DEF Init
  <2> QED BY <1>6, <2>2 DEF MemoryExact, Hand, Mem, Init
<1>8. Credits
  <2>1. Holders = {} BY <1>2 DEF Holders, WithOp
  <2>2. Cardinality(Holders) = 0 BY <2>1, FS_EmptySet
  <2>3. \A t \in Tasks : task[t].pc # "dropped" BY <1>2
  <2> QED BY <1>0, <1>6, <2>2, <2>3 DEF Credits, CreditsExact, Got, Init
<1>9. Kept
  <2>1. \A t \in Tasks : Given(task[t]) = Start(t) BY <1>2, Pieces DEF Given
  <2>2. \A t \in Tasks : \A b \in Start(t) .. Given(task[t]) - 1 : FALSE BY <2>1, Pieces
  <2> QED BY <1>2, <2>2 DEF Kept
<1> QED BY <1>3, <1>4, <1>5, <1>7, <1>8, <1>9 DEF BackpressureInv

LEMMA BackpressureStep ==
  ASSUME BackpressureInv, [Next]_vars PROVE BackpressureInv'
<1>1. ASSUME NEW t \in Tasks, Step(t) PROVE BackpressureInv'
  <2>1. CASE Frame(t) BY <2>1, FrameInv
  <2>2. CASE Completed(t) \/ Listen(t) \/ Recheck(t) \/ Wake(t) \/ WriteChunk(t) \/ RoomMade(t)
    BY <2>2, HopsInv
  <2>3. CASE Acquire(t) BY <2>3, HopsInv, AcquireInv
  <2>4. CASE TakeOp(t) BY <2>4, TakeOpInv
  <2>5. CASE TakeUnit(t) BY <2>5, TakeUnitInv
  <2>6. CASE FreeBytes(t) BY <2>6, FreeBytesInv
  <2>7. CASE FreeOps(t) BY <2>7, FreeOpsInv
  <2>8. CASE Lock(t) BY <2>8, LockInv
  <2>9. CASE Pushed(t) BY <2>9, PushedInv
  <2>10. CASE Drain(t) BY <2>10, DrainInv
  <2> QED BY <1>1, <2>1, <2>2, <2>3, <2>4, <2>5, <2>6, <2>7, <2>8, <2>9, <2>10 DEF Step
<1>2. ASSUME NEW t \in Tasks, Abandon(t) PROVE BackpressureInv'
  <2>1. CASE DroppedEarly(t) BY <1>2, <2>1, DroppedEarlyInv DEF Abandon
  <2>2. CASE DroppedWriting(t) BY <1>2, <2>2, DroppedWritingInv DEF Abandon
  <2> QED BY <1>2, <2>1, <2>2 DEF Abandon
<1>3. ASSUME NEW t \in Tasks, Cut(t) PROVE BackpressureInv' BY <1>3, CutInv
<1>4. CASE Lend \/ Repay BY <1>4, LendRepayInv
<1>5. CASE Cancel \/ UNCHANGED vars BY <1>5, CancelInv
<1>6. CASE DropDestination BY <1>6, DropDestinationInv
<1> QED BY <1>1, <1>2, <1>3, <1>4, <1>5, <1>6 DEF Next

\* The three ways of waiting keep their books together: for every number of tasks
\* and every size of piece, frame, budget and buffer.
THEOREM BackpressureInvariant == Spec => []BackpressureInv
<1>1. Init => BackpressureInv BY BackpressureInit
<1>2. BackpressureInv /\ [Next]_vars => BackpressureInv' BY BackpressureStep
<1> QED BY <1>1, <1>2, PTL DEF Spec

\* Whatever is cancelled, dropped, trimmed or buffered, MemoryBudget.used is the sum
\* of the payloads that are alive: Drop for MemoryPermit runs once for each.
THEOREM BudgetIsExact == Spec => []MemoryExact
<1>1. BackpressureInv => MemoryExact BY DEF BackpressureInv
<1> QED BY <1>1, BackpressureInvariant, PTL

\* On every path the credits that are not in the channels are a live guard's, or were
\* taken by a task that was dropped before it had its guard (capacity.rs).
THEOREM CreditsAccounted == Spec => []CreditsExact
<1>1. BackpressureInv => CreditsExact BY DEF BackpressureInv, Credits
<1> QED BY <1>1, BackpressureInvariant, PTL

\* Nobody is dropped between the two acquisitions of CapacityGuard::acquire if the byte
\* units of the destination allow the largest chunk to each of its operations.
THEOREM NoStrandedCredits == Ample /\ Spec => [](\A t \in Tasks : ~At(t, "dropped"))
<1>1. Ample /\ BackpressureInv => \A t \in Tasks : ~At(t, "dropped") BY DEF BackpressureInv, Credits, At
<1>2. Ample => [](BackpressureInv => \A t \in Tasks : ~At(t, "dropped"))
  <2>1. SUFFICES ASSUME Ample PROVE [](BackpressureInv => \A t \in Tasks : ~At(t, "dropped")) OBVIOUS
  <2>2. BackpressureInv => \A t \in Tasks : ~At(t, "dropped") BY <1>1, <2>1
  <2> QED BY <2>2, PTL
<1> QED BY <1>2, BackpressureInvariant, PTL

\* The sink gets the artifact in order (push_now at next_offset), and the reorder
\* buffer keeps what a live task has delivered (accept, drain).
THEOREM SinkInOrder == Spec => []InOrderAndKept
<1>1. ASSUME BackpressureInv PROVE InOrderAndKept
  <2>1. Adapter /\ Kept /\ Typed BY <1>1 DEF BackpressureInv
  <2>2. ASSUME ~stop, NEW w \in Tasks, ~Ended(w), NEW t \in Tasks, NEW b \in Start(t) .. task[t].off - 1
        PROVE  Covered(b)
    <3>1. task[t].off \in Nat /\ task[t].len \in Nat /\ Start(t) \in Nat BY <2>1, TaskTypes, Pieces
    <3>2. Given(task[t]) \in Nat /\ task[t].off <= Given(task[t]) BY <3>1 DEF Given
    <3>3. b \in Start(t) .. Given(task[t]) - 1 BY <3>1, <3>2
    <3> QED BY <2>1, <2>2, <3>3 DEF Kept
  <2> QED BY <2>1, <2>2 DEF InOrderAndKept, Adapter, Covered
<1> QED BY <1>1, BackpressureInvariant, PTL

\* Types and bounds: neither the budget nor the buffer is ever exceeded (Room,
\* has_room), and no task runs past its piece.
THEOREM BackpressureType == Spec => []BackpressureTypeOK
<1>1. ASSUME BackpressureInv PROVE BackpressureTypeOK
  <2>1. Typed /\ Fitting /\ Adapter /\ Credits BY <1>1 DEF BackpressureInv
  <2>2. ops \in 0 .. Ops /\ units \in 0 .. ByteUnits
    <3>1. PICK c \in Nat, g \in Nat : c = Cardinality(Holders) /\ g = Total(Got, Tasks)
      BY <2>1, HoldersType, HandType
    <3>2. ops + c = Ops /\ units + g = ByteUnits BY <2>1, <3>1 DEF Credits, CreditsExact, Got
    <3>3. ops \in Nat /\ units \in Nat BY <2>1 DEF Typed
    <3>4. Ops \in Nat /\ ByteUnits \in Nat BY BackpressureAssumption
    <3> QED BY <3>2, <3>3, <3>4
  <2>3. ASSUME NEW t \in Tasks
        PROVE  /\ task[t].pc \in Places /\ task[t].off \in 0 .. Length /\ task[t].len \in 0 .. MaxFrame
               /\ task[t].held \in 0 .. MaxFrame /\ task[t].got \in 0 .. ByteUnits
    <3>1. /\ task[t].off \in Nat /\ task[t].len \in Nat /\ task[t].held \in Nat /\ task[t].got \in Nat
          /\ task[t].pc \in Places
      BY <2>1, TaskTypes
    <3>2. Fits(t, task[t]) BY <2>1 DEF Fitting
    <3>3. UnitsFor(task[t].len) \in Nat /\ UnitsFor(task[t].len) <= ByteUnits
      BY <3>1, BackpressureAssumption DEF UnitsFor
    <3>4. task[t].off <= Length BY <3>1, <3>2, Pieces DEF Fits
    <3>5. MaxFrame \in Nat /\ ByteUnits \in Nat /\ Length \in Nat BY BackpressureAssumption, Pieces
    <3>6. task[t].len <= MaxFrame /\ task[t].held <= MaxFrame /\ task[t].got <= ByteUnits
      BY <3>1, <3>2, <3>3, <3>5 DEF Fits
    <3> QED BY <3>1, <3>4, <3>5, <3>6
  <2> QED BY <2>1, <2>2, <2>3 DEF BackpressureTypeOK, Typed, Adapter
<1> QED BY <1>1, BackpressureInvariant, PTL
=============================================================================
