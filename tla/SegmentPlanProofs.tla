-------------------------- MODULE SegmentPlanProofs --------------------------
(***************************************************************************)
(* Proofs about module SegmentPlan, for every artifact length, every piece *)
(* size and every set of assignment keys.                                  *)
(*                                                                         *)
(* PlanInv is inductive.  The two properties that matter, DisjointOwners   *)
(* and ClaimAccounting, support each other: a fresh claim is disjoint from *)
(* every owner because it avoids `claimed` and `claimed` holds every owned *)
(* byte, and releasing an owner's bytes keeps `claimed` exact because no   *)
(* other owner had them.  Neither survives a claim of unknown length or a  *)
(* second stream, hence Sized and AtMostOne.                               *)
(***************************************************************************)
EXTENDS SegmentPlan, FiniteSetTheorems, TLAPS

\* A plan of known length holds no claim up to u64::MAX.
Sized ==
  mode = "ranged" => /\ \A i \in Live : asg[i].hi # EOF
                     /\ \A d \in deferred : d.hi # EOF

\* OneStream without Cardinality.
AtMostOne ==
  mode # "ranged" => /\ \A i, j \in Live : i = j
                     /\ \A i \in Live : asg[i].hi \in {Total, EOF}

PlanInv == TypeOK /\ Sized /\ AtMostOne /\ DisjointOwners /\ ClaimAccounting

-----------------------------------------------------------------------------
(***************************************************************************)
(* The operators of the plan.                                              *)
(***************************************************************************)
\* align_up yields an offset.
LEMMA AlignUpType == ASSUME NEW v \in Int PROVE AlignUp(v) \in Int
  BY PlanAssumption DEF AlignUp

\* covered_len of completed and of claimed is a number of bytes.
LEMMA CountType == ASSUME NEW S, S \subseteq Bytes PROVE Cardinality(S) \in Nat
<1>1. 0 \in Int /\ Total - 1 \in Int BY PlanAssumption
<1>2. IsFiniteSet(Bytes) BY <1>1, FS_Interval DEF Bytes
<1>3. IsFiniteSet(S) BY <1>2, FS_Subset
<1> QED BY <1>3, FS_CardinalityType

\* snap_end stays within the piece it was given (or one byte) and the artifact.
LEMMA SnapEndBounds ==
  ASSUME NEW lo \in 0 .. Total - 1, NEW hi \in Int
  PROVE  /\ SnapEnd(lo, hi) \in 0 .. Total
         /\ lo < SnapEnd(lo, hi)
         /\ SnapEnd(lo, hi) <= Greater(hi, lo + 1)
<1>1. AlignUp(hi) \in Int BY AlignUpType
<1> QED BY <1>1, PlanAssumption DEF SnapEnd, Lesser, Greater

\* The length of a fresh piece is a number.
LEMMA TakeLenType ==
  ASSUME TypeOK, NEW dur \in Int
  PROVE  TakeLen(dur) \in Int
<1>1. Cardinality(completed) \in Nat /\ Cardinality(claimed) \in Nat
  BY CountType DEF TypeOK
<1>0. Cardinality(Live) \in Nat
  <2>1. IsFiniteSet(Live) BY PlanAssumption, FS_Subset DEF TypeOK
  <2> QED BY <2>1, FS_CardinalityType
<1>2. PieceLen(dur) \in Int
  <2>1. Remaining \in Int BY <1>1, PlanAssumption DEF Remaining
  <2>2. MaxPiece \div 8 \in Int BY PlanAssumption
  <2>3. \A min, max \in Int : Greater(min, Lesser(dur, max)) \in Int
    BY DEF Greater, Lesser
  <2>4. \A min \in Int : Greater(MaxPiece \div 8, min) \in Int BY <2>2 DEF Greater
  <2>5. \A min, max \in Int : AlignUp(Greater(min, Lesser(dur, max))) \in Int
    BY <2>3, AlignUpType
  <2>6. /\ TailMinPiece \in Int /\ MinPiece \in Int /\ MaxPiece \in Int
    BY PlanAssumption
  <2> QED BY <2>4, <2>5, <2>6 DEF PieceLen
<1>3. DEFINE slots == Greater(1, Greater(1, PeerSlots) - Cardinality(Live))
             unclaimed == Total - Cardinality(claimed)
<1>4. slots \in Int /\ slots >= 1 BY <1>0, PlanAssumption DEF Greater
<1>5. unclaimed \in Int BY <1>1, PlanAssumption
<1> HIDE DEF slots, unclaimed
<1>6. unclaimed \div slots \in Int BY <1>4, <1>5
<1>7. Greater(1, PieceLen(dur)) \in Int BY <1>2 DEF Greater
<1>8. Greater(MinPiece, Lesser(Greater(1, PieceLen(dur)), unclaimed \div slots)) \in Int
  BY <1>6, <1>7, PlanAssumption DEF Greater, Lesser
<1> QED BY <1>7, <1>8 DEF TakeLen, slots, unclaimed

\* The consistency overlap is a number of bytes.
LEMMA OverlapType == ASSUME NEW lo \in Nat PROVE OverlapAt(lo) \in Nat
  BY PlanAssumption DEF OverlapAt, Lesser

\* The cut of a steal is an offset.
LEMMA CutPointType ==
  ASSUME NEW v, asg[v].lo \in Int, asg[v].hi \in Int, NEW keep \in Int
  PROVE  CutPoint(v, keep) \in Int
<1>1. StealMin \in Int BY PlanAssumption DEF StealMin
<1>2. DEFINE kept == Greater(StealMin, Lesser(keep, asg[v].hi - asg[v].lo - StealMin))
<1>3. kept \in Int BY <1>1 DEF Greater, Lesser
<1> HIDE DEF kept
<1>4. AlignUp(asg[v].lo + kept) \in Int BY <1>3, AlignUpType
<1> QED BY <1>1, <1>4 DEF CutPoint, kept, Lesser

-----------------------------------------------------------------------------
(***************************************************************************)
(* One lemma per operation of the plan.                                    *)
(***************************************************************************)
\* A new plan, and a resumed one, satisfy the invariant.
LEMMA InitPlanInv == Init => PlanInv
<1> SUFFICES ASSUME Init PROVE PlanInv OBVIOUS
<1>1. Live = {} /\ deferred = {} BY DEF Init, Live
<1>2. Owned = {} /\ BackingOff = {} BY <1>1 DEF Owned, BackingOff
<1>3. TypeOK BY <1>1 DEF Init, TypeOK, Live
<1> QED BY <1>1, <1>2, <1>3 DEF PlanInv, Sized, AtMostOne, DisjointOwners, ClaimAccounting, Init

\* An ordered stream starts only when no worker is left.
LEMMA StreamClaimInv ==
  ASSUME PlanInv, NEW id \in Ids, StreamClaim(id) PROVE PlanInv'
<1> USE DEF PlanInv
<1>1. Live = {} /\ mode # "ranged" BY DEF StreamClaim
<1>2. PICK p \in 0 .. Total :
        LET a == NewAssignment(p, IF mode = "stream" THEN Total ELSE EOF, 0, 0)
        IN  /\ mode = "stream" => p < Total
            /\ asg' = Push(asg, id, a)
            /\ claimed' = IF mode = "stream" THEN claimed \cup Span(a) ELSE claimed
  BY DEF StreamClaim
<1>3. UNCHANGED <<mode, completed, deferred>> BY DEF StreamClaim
<1> DEFINE a == NewAssignment(p, IF mode = "stream" THEN Total ELSE EOF, 0, 0)
<1>4. a \in Assignment /\ a.hi \in {Total, EOF}
  BY PlanAssumption DEF NewAssignment, Assignment
<1>5. Live' = {id} /\ asg' = [i \in {id} |-> a] BY <1>1, <1>2 DEF Live, Push
<1>6. Span(a) \subseteq Bytes BY DEF Span
<1>7. TypeOK' BY <1>2, <1>3, <1>4, <1>5, <1>6 DEF TypeOK
<1>8. AtMostOne' BY <1>4, <1>5 DEF AtMostOne
<1> QED BY <1>1, <1>3, <1>7, <1>8 DEF Sized, DisjointOwners, ClaimAccounting

\* A fresh piece avoids `claimed`, hence every owner and every backoff.
LEMMA FreshClaimInv ==
  ASSUME PlanInv, NEW id \in Ids \ Live, NEW dur \in 0 .. MaxPiece, FreshClaim(id, dur)
  PROVE  PlanInv'
<1> USE DEF PlanInv
<1>1. mode = "ranged" /\ UNCHANGED <<mode, completed, deferred>> BY DEF FreshClaim
<1>2. PICK p \in Bytes, e \in 0 .. Total, attempt \in 0 .. MaxAttempts :
        LET hi == SnapEnd(p, Lesser(e, p + TakeLen(dur)))
            a == NewAssignment(p, hi, OverlapAt(p), attempt)
        IN  /\ IsNextGap(p, e)
            /\ asg' = Push(asg, id, a)
            /\ claimed' = claimed \cup Span(a)
  BY DEF FreshClaim
<1> DEFINE hi == SnapEnd(p, Lesser(e, p + TakeLen(dur)))
           a == NewAssignment(p, hi, OverlapAt(p), attempt)
<1>3. p < e /\ (p .. e - 1) \cap claimed = {} BY <1>2 DEF IsNextGap, Claimable, UnclaimedRun
<1>4. Lesser(e, p + TakeLen(dur)) \in Int /\ Lesser(e, p + TakeLen(dur)) <= e
  <2>1. TakeLen(dur) \in Int BY TakeLenType, PlanAssumption
  <2> QED BY <2>1 DEF Lesser, Bytes
<1>5. hi \in 0 .. Total /\ p < hi /\ hi <= e
  <2>1. p \in 0 .. Total - 1 BY DEF Bytes
  <2> QED BY <1>3, <1>4, <2>1, SnapEndBounds DEF Greater
<1>6. a \in Assignment
  BY <1>5, OverlapType, PlanAssumption DEF NewAssignment, Assignment, Bytes
<1>7. a.lo = p /\ a.hi = hi BY DEF NewAssignment
<1> HIDE DEF hi, a
<1>8. Span(a) \subseteq Bytes /\ Span(a) \cap claimed = {}
  BY <1>3, <1>5, <1>7 DEF Span, Bytes
<1>9. /\ Live' = Live \cup {id} /\ asg'[id] = a
      /\ \A i \in Live : asg'[i] = asg[i]
  BY <1>2 DEF Push, Live, a, hi
<1>10. claimed' = claimed \cup Span(a) BY <1>2 DEF a, hi
<1>11. TypeOK'
  <2>1. asg' \in [Live' -> Assignment] BY <1>2, <1>6 DEF Push, Live, TypeOK, a, hi
  <2> QED BY <2>1, <1>1, <1>8, <1>9, <1>10 DEF TypeOK
<1>12. Sized' BY <1>1, <1>5, <1>7, <1>9, PlanAssumption DEF Sized
<1>13. AtMostOne' BY <1>1 DEF AtMostOne
<1>14. Owned' = Owned \cup Span(a) /\ BackingOff' = BackingOff
  BY <1>1, <1>9 DEF Owned, BackingOff, Span
<1>15. ClaimAccounting' BY <1>1, <1>10, <1>14 DEF ClaimAccounting
<1>16. DisjointOwners'
  <2>1. \A i, j \in Live' : i # j => Span(asg'[i]) \cap Span(asg'[j]) = {}
    <3>1. \A i \in Live : Span(asg[i]) \subseteq claimed BY <1>1 DEF ClaimAccounting, Owned
    <3> QED BY <1>1, <1>8, <1>9, <3>1 DEF DisjointOwners
  <2>2. (Owned \cup Span(a)) \cap (completed \cup BackingOff) = {}
    BY <1>1, <1>8 DEF DisjointOwners, ClaimAccounting
  <2> QED BY <1>1, <1>14, <2>1, <2>2 DEF DisjointOwners, Span
<1> QED BY <1>11, <1>12, <1>13, <1>15, <1>16

\* A steal hands the victim's tail over: the same bytes, one more owner.
LEMMA StealInv ==
  ASSUME PlanInv, NEW id \in Ids \ Live, NEW victim \in Ids, NEW keep \in 0 .. Total,
         Steal(id, victim, keep)
  PROVE  PlanInv'
<1> USE DEF PlanInv
<1> DEFINE v == asg[victim]
           cut == CutPoint(victim, keep)
           stolen == NewAssignment(cut, v.hi, 0, 0)
           kept == Shortened(v, cut)
<1>1. mode = "ranged" /\ UNCHANGED <<mode, completed, deferred>> BY DEF Steal
<1>2. victim \in Live /\ v \in Assignment BY DEF Steal, TypeOK
<1>3. v.lo \in 0 .. Total /\ v.hi \in 0 .. Total
  BY <1>1, <1>2 DEF Sized, Assignment
<1>4. cut \in Int BY <1>3, CutPointType
<1>5. v.lo < cut /\ cut < v.hi BY DEF Steal
<1>6. /\ asg' = Push(Push(asg, victim, kept), id, stolen)
      /\ claimed' = claimed \cup Span(stolen)
  BY DEF Steal
<1>7. stolen \in Assignment /\ stolen.lo = cut /\ stolen.hi = v.hi
  BY <1>3, <1>4, <1>5, PlanAssumption DEF NewAssignment, Assignment
<1>8. kept \in Assignment /\ kept.lo = v.lo /\ kept.hi = cut
  <2>1. cut \in 0 .. Total BY <1>3, <1>4, <1>5, PlanAssumption
  <2> HIDE DEF v, cut, stolen
  <2>2. kept = [v EXCEPT !.hi = cut, !.truncated = TRUE] BY DEF Shortened
  <2> QED BY <1>2, <2>1, <2>2 DEF Assignment
<1> HIDE DEF v, cut, stolen, kept
<1>9. /\ Span(v) = Span(kept) \cup Span(stolen)
      /\ Span(kept) \cap Span(stolen) = {}
      /\ Span(stolen) \subseteq Bytes
  BY <1>3, <1>4, <1>5, <1>7, <1>8, PlanAssumption DEF Span, Bytes
<1>10. /\ Live' = Live \cup {id} /\ asg'[id] = stolen /\ asg'[victim] = kept
       /\ \A i \in Live \ {victim} : asg'[i] = asg[i]
       /\ asg[victim] = v /\ id # victim
  BY <1>2, <1>6 DEF Push, Live, v
<1>11. TypeOK'
  <2>1. asg' \in [Live' -> Assignment] BY <1>2, <1>6, <1>7, <1>8 DEF Push, Live, TypeOK
  <2> QED BY <2>1, <1>1, <1>6, <1>9, <1>10 DEF TypeOK
<1>12. Sized' BY <1>1, <1>3, <1>4, <1>5, <1>7, <1>8, <1>10, PlanAssumption DEF Sized
<1>13. AtMostOne' BY <1>1 DEF AtMostOne
<1>14. Owned' = Owned /\ BackingOff' = BackingOff
  <2>1. \A b : b \in Owned' <=> b \in Owned
    BY <1>2, <1>9, <1>10 DEF Owned
  <2> QED BY <2>1, <1>1 DEF BackingOff, Span
<1>15. ClaimAccounting'
  <2>1. Span(stolen) \subseteq Owned BY <1>2, <1>9, <1>10 DEF Owned
  <2> QED BY <1>1, <1>6, <1>14, <2>1 DEF ClaimAccounting
<1>16. DisjointOwners'
  <2>1. \A i, j \in Live' : i # j => Span(asg'[i]) \cap Span(asg'[j]) = {}
    BY <1>1, <1>2, <1>9, <1>10 DEF DisjointOwners
  <2> QED BY <1>1, <1>14, <2>1 DEF DisjointOwners, Span
<1> QED BY <1>11, <1>12, <1>13, <1>15, <1>16

\* What every operation that ends one assignment has in common.
LEMMA WorkerEnds ==
  ASSUME PlanInv, NEW id \in Live, asg' = Keep(Live \ {id}), mode' = mode
  PROVE  /\ Live' = Live \ {id}
         /\ \A i \in Live' : asg'[i] = asg[i]
         /\ asg' \in [Live' -> Assignment] /\ Live' \subseteq Ids
         /\ AtMostOne'
         /\ Span(asg[id]) \subseteq Bytes
         /\ mode = "ranged" => /\ Owned' = Owned \ Span(asg[id])
                               /\ Span(asg[id]) \subseteq Owned
                               /\ asg[id].hi # EOF
<1> USE DEF PlanInv
<1>1. Live' = Live \ {id} /\ \A i \in Live' : asg'[i] = asg[i] BY DEF Keep, Live
<1>2. asg' \in [Live' -> Assignment] /\ Live' \subseteq Ids BY <1>1 DEF Keep, Live, TypeOK
<1>3. AtMostOne' BY <1>1 DEF AtMostOne
<1>4. Span(asg[id]) \subseteq Bytes BY DEF Span
<1>5. ASSUME mode = "ranged"
      PROVE  Owned' = Owned \ Span(asg[id]) /\ Span(asg[id]) \subseteq Owned
  <2>1. \A i \in Live' : Span(asg'[i]) = Span(asg[i]) BY <1>1
  <2>2. \A i \in Live' : Span(asg[i]) \cap Span(asg[id]) = {}
    BY <1>1, <1>5 DEF DisjointOwners
  <2>3. Owned' = UNION {Span(asg[i]) : i \in Live \ {id}} BY <1>1, <2>1 DEF Owned
  <2>4. \A b : b \in Owned <=> \E i \in Live : b \in Span(asg[i]) BY DEF Owned
  <2>5. \A b : b \in Owned' <=> \E i \in Live \ {id} : b \in Span(asg[i]) BY <2>3
  <2>6. Span(asg[id]) \subseteq Owned BY <2>4
  <2>7. \A b : b \in Owned' <=> b \in Owned \ Span(asg[id]) BY <1>1, <2>2, <2>4, <2>5
  <2> QED BY <2>6, <2>7
<1> QED BY <1>1, <1>2, <1>3, <1>4, <1>5 DEF Sized

\* A verified range moves from the owner to `completed`, the rest is released.
LEMMA VerifiedInv ==
  ASSUME PlanInv, NEW id, NEW lo \in 0 .. Total, NEW hi \in 0 .. Total, Verified(id, lo, hi)
  PROVE  PlanInv'
<1> USE DEF PlanInv
<1> DEFINE a == asg[id]
           part == VerifiedPart(a, lo, hi)
           done == completed \cup part
<1>1. /\ id \in Live /\ UNCHANGED <<mode, deferred>>
      /\ completed' = done
      /\ claimed' = (claimed \cup part) \ Released(a, done)
      /\ asg' = Keep(Live \ {id})
  BY DEF Verified
<1>2. part \subseteq Span(a) /\ Span(a) \subseteq Bytes BY DEF VerifiedPart, Span
<1>3. mode = "ranged" => Released(a, done) = Span(a) \ done
  BY <1>1 DEF Released, Sized
<1> HIDE DEF a, part, done
<1>4. /\ Live' = Live \ {id} /\ \A i \in Live' : asg'[i] = asg[i]
      /\ asg' \in [Live' -> Assignment] /\ Live' \subseteq Ids /\ AtMostOne'
      /\ mode = "ranged" => Owned' = Owned \ Span(a) /\ Span(a) \subseteq Owned
  BY <1>1, WorkerEnds DEF a
<1>5. BackingOff' = BackingOff BY <1>1 DEF BackingOff, Span
<1>6. TypeOK' BY <1>1, <1>2, <1>4 DEF TypeOK, done
<1>7. Sized' BY <1>1, <1>4 DEF Sized
<1>8. ClaimAccounting'
  BY <1>1, <1>2, <1>3, <1>4, <1>5 DEF ClaimAccounting, DisjointOwners, done
<1>9. DisjointOwners'
  <2>1. mode = "ranged" =>
          \A i, j \in Live' : i # j => Span(asg'[i]) \cap Span(asg'[j]) = {}
    BY <1>4 DEF DisjointOwners
  <2>2. mode = "ranged" =>
          /\ Owned' \cap (completed' \cup BackingOff') = {}
          /\ BackingOff' \cap completed' = {}
    BY <1>1, <1>2, <1>4, <1>5 DEF DisjointOwners, done
  <2> QED BY <1>1, <2>1, <2>2 DEF DisjointOwners, Span
<1> QED BY <1>4, <1>6, <1>7, <1>8, <1>9

\* A dead worker's unverified bytes become claimable, and only those.
LEMMA AbandonInv == ASSUME PlanInv, NEW id, Abandon(id) PROVE PlanInv'
<1> USE DEF PlanInv
<1>1. /\ id \in Live /\ UNCHANGED <<mode, completed, deferred>>
      /\ claimed' = claimed \ Released(asg[id], completed)
      /\ asg' = Keep(Live \ {id})
  BY DEF Abandon
<1>2. mode = "ranged" => Released(asg[id], completed) = Span(asg[id]) \ completed
  BY <1>1 DEF Released, Sized
<1>3. /\ Live' = Live \ {id} /\ \A i \in Live' : asg'[i] = asg[i]
      /\ asg' \in [Live' -> Assignment] /\ Live' \subseteq Ids /\ AtMostOne'
      /\ mode = "ranged" => Owned' = Owned \ Span(asg[id]) /\ Span(asg[id]) \subseteq Owned
  BY <1>1, WorkerEnds
<1>4. BackingOff' = BackingOff BY <1>1 DEF BackingOff, Span
<1>5. TypeOK' BY <1>1, <1>3 DEF TypeOK
<1>6. Sized' BY <1>1, <1>3 DEF Sized
<1>7. ClaimAccounting'
  BY <1>1, <1>2, <1>3, <1>4 DEF ClaimAccounting, DisjointOwners
<1>8. DisjointOwners'
  <2>1. mode = "ranged" =>
          \A i, j \in Live' : i # j => Span(asg'[i]) \cap Span(asg'[j]) = {}
    BY <1>3 DEF DisjointOwners
  <2>2. mode = "ranged" =>
          /\ Owned' \cap (completed' \cup BackingOff') = {}
          /\ BackingOff' \cap completed' = {}
    BY <1>1, <1>3, <1>4 DEF DisjointOwners
  <2> QED BY <1>1, <2>1, <2>2 DEF DisjointOwners, Span
<1> QED BY <1>3, <1>5, <1>6, <1>7, <1>8

\* A failed range moves from its owner to the backoff list and stays withheld.
LEMMA RetryLaterInv == ASSUME PlanInv, NEW id, RetryLater(id) PROVE PlanInv'
<1> USE DEF PlanInv
<1> DEFINE a == asg[id]
           d == Deferral(a, a.attempt + 1)
<1>1. /\ id \in Live /\ UNCHANGED <<mode, completed>>
      /\ a.attempt + 1 <= MaxAttempts
      /\ deferred' = deferred \cup {d}
      /\ claimed' = (claimed \ Released(a, completed))
                    \cup (IF a.hi = EOF THEN {} ELSE Span(d))
      /\ asg' = Keep(Live \ {id})
  BY DEF RetryLater
<1>2. a \in Assignment BY <1>1 DEF TypeOK
<1>3. d \in DeferredWork /\ d.hi = a.hi /\ Span(d) = Span(a)
  BY <1>1, <1>2, PlanAssumption DEF Deferral, DeferredWork, Assignment, Span
<1>4. mode = "ranged" => a.hi # EOF /\ Released(a, completed) = Span(a) \ completed
  BY <1>1 DEF Released, Sized
<1> HIDE DEF a, d
<1>5. /\ Live' = Live \ {id} /\ \A i \in Live' : asg'[i] = asg[i]
      /\ asg' \in [Live' -> Assignment] /\ Live' \subseteq Ids /\ AtMostOne'
      /\ Span(a) \subseteq Bytes
      /\ mode = "ranged" => Owned' = Owned \ Span(a) /\ Span(a) \subseteq Owned
  BY <1>1, WorkerEnds DEF a
<1>6. BackingOff' = BackingOff \cup Span(a)
  <2>1. BackingOff' = UNION {Span(x) : x \in deferred \cup {d}}
    BY <1>1 DEF BackingOff, Span
  <2> QED BY <1>3, <2>1 DEF BackingOff
<1>7. TypeOK' BY <1>1, <1>3, <1>5 DEF TypeOK
<1>8. Sized' BY <1>1, <1>3, <1>4, <1>5 DEF Sized
<1>9. ClaimAccounting'
  BY <1>1, <1>3, <1>4, <1>5, <1>6 DEF ClaimAccounting, DisjointOwners
<1>10. DisjointOwners'
  <2>1. mode = "ranged" =>
          \A i, j \in Live' : i # j => Span(asg'[i]) \cap Span(asg'[j]) = {}
    BY <1>5 DEF DisjointOwners
  <2>2. mode = "ranged" =>
          /\ Owned' \cap (completed' \cup BackingOff') = {}
          /\ BackingOff' \cap completed' = {}
    BY <1>1, <1>5, <1>6 DEF DisjointOwners
  <2>3. mode = "ranged" =>
          \A x, y \in deferred \cup {d} : x # y => Span(x) \cap Span(y) = {}
    <3>1. mode = "ranged" => \A x \in deferred : Span(x) \cap Span(d) = {}
      <4>1. \A x \in deferred : Span(x) \subseteq BackingOff BY DEF BackingOff
      <4> QED BY <1>3, <1>5, <4>1 DEF DisjointOwners
    <3> QED BY <3>1 DEF DisjointOwners
  <2> QED BY <1>1, <2>1, <2>2, <2>3 DEF DisjointOwners, Span
<1> QED BY <1>5, <1>7, <1>8, <1>9, <1>10

\* The passing of a deadline alone changes no byte's owner.
LEMMA BackoffElapsesInv ==
  ASSUME PlanInv, NEW d \in deferred, BackoffElapses(d) PROVE PlanInv'
<1> USE DEF PlanInv
<1> DEFINE e == [d EXCEPT !.due = TRUE]
<1>1. /\ UNCHANGED <<mode, completed, claimed, asg>>
      /\ deferred' = (deferred \ {d}) \cup {e}
  BY DEF BackoffElapses
<1>2. d \in DeferredWork BY DEF TypeOK
<1>3. e \in DeferredWork /\ e.lo = d.lo /\ e.hi = d.hi BY <1>2 DEF DeferredWork
<1> HIDE DEF e
<1>4. Span(e) = Span(d) BY <1>3 DEF Span
<1>5. Live' = Live /\ Owned' = Owned BY <1>1 DEF Live, Owned, Span
<1>6. BackingOff' = BackingOff
  <2>1. BackingOff' = UNION {Span(x) : x \in (deferred \ {d}) \cup {e}}
    BY <1>1 DEF BackingOff, Span
  <2>2. \A b : b \in BackingOff <=> \E x \in deferred : b \in Span(x) BY DEF BackingOff
  <2>3. \A b : b \in BackingOff' <=> \E x \in (deferred \ {d}) \cup {e} : b \in Span(x)
    BY <2>1
  <2> QED BY <1>4, <2>2, <2>3
<1>7. TypeOK' BY <1>1, <1>3, <1>5 DEF TypeOK
<1>8. Sized' BY <1>1, <1>3, <1>5 DEF Sized
<1>9. AtMostOne' BY <1>1, <1>5 DEF AtMostOne
<1>10. ClaimAccounting' BY <1>1, <1>5, <1>6 DEF ClaimAccounting
<1>11. DisjointOwners'
  <2>1. mode = "ranged" =>
          \A x, y \in (deferred \ {d}) \cup {e} : x # y => Span(x) \cap Span(y) = {}
    BY <1>4 DEF DisjointOwners
  <2> QED BY <1>1, <1>5, <1>6, <2>1 DEF DisjointOwners, Span
<1> QED BY <1>7, <1>8, <1>9, <1>10, <1>11

\* release_due frees the bytes of the overdue backoffs and of no other one.
LEMMA ReleaseDueInv == ASSUME PlanInv, ReleaseDue PROVE PlanInv'
<1> USE DEF PlanInv
<1> DEFINE over == {d \in deferred : d.due}
<1>1. /\ UNCHANGED <<mode, completed, asg>>
      /\ deferred' = deferred \ over
      /\ claimed' = claimed \ UNION {Span(d) : d \in {x \in over : x.hi # EOF}}
  BY DEF ReleaseDue
<1>2. over \subseteq deferred OBVIOUS
<1> HIDE DEF over
<1>3. Live' = Live /\ Owned' = Owned BY <1>1 DEF Live, Owned, Span
<1>4. TypeOK' BY <1>1, <1>3 DEF TypeOK
<1>5. Sized' BY <1>1, <1>3 DEF Sized
<1>6. AtMostOne' BY <1>1, <1>3 DEF AtMostOne
<1>7. BackingOff' = UNION {Span(x) : x \in deferred \ over} BY <1>1 DEF BackingOff, Span
<1>8. /\ \A b : b \in BackingOff <=> \E x \in deferred : b \in Span(x)
      /\ \A b : b \in BackingOff' <=> \E x \in deferred \ over : b \in Span(x)
  BY <1>7 DEF BackingOff
<1>9. ASSUME mode = "ranged" PROVE claimed' = completed' \cup Owned' \cup BackingOff'
  <2>1. {x \in over : x.hi # EOF} = over BY <1>2, <1>9 DEF Sized
  <2>2. claimed' = claimed \ UNION {Span(x) : x \in over} BY <1>1, <2>1
  <2>3. \A b : b \in UNION {Span(x) : x \in over} <=> \E x \in over : b \in Span(x)
    OBVIOUS
  <2>4. \A x \in over, y \in deferred \ over : Span(x) \cap Span(y) = {}
    BY <1>2, <1>9 DEF DisjointOwners
  <2>5. \A x \in over : Span(x) \cap (completed \cup Owned) = {}
    BY <1>2, <1>8, <1>9 DEF DisjointOwners
  <2>6. \A b : b \in claimed' <=> b \in completed \cup Owned \cup BackingOff'
    BY <1>2, <1>8, <1>9, <2>2, <2>3, <2>4, <2>5 DEF ClaimAccounting
  <2> QED BY <1>1, <1>3, <2>6
<1>10. DisjointOwners'
  <2>1. BackingOff' \subseteq BackingOff BY <1>8
  <2> QED BY <1>1, <1>3, <2>1 DEF DisjointOwners, Span
<1> QED BY <1>1, <1>4, <1>5, <1>6, <1>9, <1>10 DEF ClaimAccounting

\* A new plan has no owner and no backoff.
LEMMA NewPlanInv ==
  ASSUME mode' \in Modes, completed' \subseteq Bytes, claimed' = completed',
         asg' = Keep({}), deferred' = {}
  PROVE  PlanInv'
<1>1. Live' = {} /\ asg' \in [Live' -> Assignment] BY DEF Keep, Live
<1>2. Owned' = {} /\ BackingOff' = {} BY <1>1 DEF Owned, BackingOff
<1>3. TypeOK' BY <1>1 DEF TypeOK
<1> QED BY <1>1, <1>2, <1>3 DEF PlanInv, Sized, AtMostOne, DisjointOwners, ClaimAccounting

-----------------------------------------------------------------------------
\* Every step of the plan preserves the invariant.
LEMMA NextPlanInv == PlanInv /\ [Next]_planVars => PlanInv'
<1> SUFFICES ASSUME PlanInv, [Next]_planVars PROVE PlanInv' OBVIOUS
<1>1. CASE UNCHANGED planVars
  BY <1>1 DEF planVars, PlanInv, TypeOK, Sized, AtMostOne, DisjointOwners, ClaimAccounting,
              Live, Owned, BackingOff, Span
<1>2. ASSUME NEW id \in Ids \ Live, StreamClaim(id) PROVE PlanInv' BY <1>2, StreamClaimInv
<1>3. ASSUME NEW id \in Ids \ Live, NEW dur \in 0 .. MaxPiece, FreshClaim(id, dur)
      PROVE  PlanInv'
  BY <1>3, FreshClaimInv
<1>4. ASSUME NEW id \in Ids \ Live, NEW victim \in Ids, NEW keep \in 0 .. Total,
             Steal(id, victim, keep)
      PROVE  PlanInv'
  BY <1>4, StealInv
<1>5. ASSUME NEW id \in Ids, NEW lo \in 0 .. Total, NEW hi \in 0 .. Total, Verified(id, lo, hi)
      PROVE  PlanInv'
  BY <1>5, VerifiedInv
<1>6. ASSUME NEW id \in Ids, Abandon(id) PROVE PlanInv' BY <1>6, AbandonInv
<1>7. ASSUME NEW id \in Ids, RetryLater(id) PROVE PlanInv' BY <1>7, RetryLaterInv
<1>8. ASSUME NEW d \in deferred, BackoffElapses(d) PROVE PlanInv' BY <1>8, BackoffElapsesInv
<1>9. CASE ReleaseDue BY <1>9, ReleaseDueInv
<1>10. CASE Downgrade
  BY <1>10, NewPlanInv DEF Downgrade, PlanInv, TypeOK, Modes
<1>11. ASSUME NEW m \in Modes, Replan(m) PROVE PlanInv' BY <1>11, NewPlanInv DEF Replan
<1> QED BY <1>1, <1>2, <1>3, <1>4, <1>5, <1>6, <1>7, <1>8, <1>9, <1>10, <1>11 DEF Next

\* The invariant holds in every state of every plan.
THEOREM PlanInvariant == Spec => []PlanInv
  BY InitPlanInv, NextPlanInv, PTL DEF Spec

\* Every range a plan hands out, keeps or defers lies within the artifact.
THEOREM PlanTypeOK == Spec => []TypeOK
<1>1. PlanInv => TypeOK BY DEF PlanInv
<1> QED BY <1>1, PlanInvariant, PTL

\* No two workers ever own the same byte, and none owns a verified or deferred one
\* (claim_with, finish_verified, abandon, defer and release_due of segment.rs).
THEOREM NoSharedBytes == Spec => []DisjointOwners
<1>1. PlanInv => DisjointOwners BY DEF PlanInv
<1> QED BY <1>1, PlanInvariant, PTL

\* `claimed` is exactly the verified, owned and deferred bytes: no byte is handed
\* out twice and none is lost.
THEOREM ExactClaims == Spec => []ClaimAccounting
<1>1. PlanInv => ClaimAccounting BY DEF PlanInv
<1> QED BY <1>1, PlanInvariant, PTL

\* A source without ranges is read by at most one worker, up to the end.
THEOREM AtMostOneStream == Spec => []OneStream
<1>1. PlanInv => OneStream
  <2> SUFFICES ASSUME PlanInv, mode # "ranged"
               PROVE  Cardinality(Live) <= 1 /\ \A i \in Live : asg[i].hi \in {Total, EOF}
    BY DEF OneStream
  <2>1. CASE Live = {} BY <2>1, FS_EmptySet
  <2>2. CASE Live # {}
    <3>1. PICK i : i \in Live BY <2>2
    <3>2. \A j \in Live : j = i BY <3>1 DEF PlanInv, AtMostOne
    <3>3. Live = {i} BY <3>1, <3>2
    <3>4. Cardinality(Live) = 1 BY <3>3, FS_Singleton
    <3> QED BY <3>4 DEF PlanInv, AtMostOne
  <2> QED BY <2>1, <2>2
<1> QED BY <1>1, PlanInvariant, PTL

\* Within one plan verified bytes are never given up.
THEOREM VerifiedBytesStay == Spec => CompletedGrows
<1>1. TypeOK /\ [Next]_planVars
        => [completed \subseteq completed' \/ \E m \in Modes : Replan(m)]_planVars
  <2> SUFFICES ASSUME Next
               PROVE  completed \subseteq completed' \/ \E m \in Modes : Replan(m)
    OBVIOUS
  <2>1. CASE \E m \in Modes : Replan(m) BY <2>1
  <2>2. CASE ~ \E m \in Modes : Replan(m)
    BY <2>2 DEF Next, StreamClaim, FreshClaim, Steal, Verified, Abandon, RetryLater,
                BackoffElapses, ReleaseDue, Downgrade
  <2> QED BY <2>1, <2>2
<1> QED BY <1>1, PlanTypeOK, PTL DEF Spec, CompletedGrows

\* A running worker keeps its claim or loses the tail of it, once: no operation of
\* the plan moves its start, lengthens it, or cuts it a second time.
THEOREM TailOnly == Spec => OnlyTailIsStolen
<1> DEFINE Kept == \A i \in Live : i \in DOMAIN asg' =>
                     \/ asg'[i] = asg[i]
                     \/ ~asg[i].truncated /\ asg'[i].truncated
                        /\ asg'[i].lo = asg[i].lo /\ asg'[i].hi < asg[i].hi
                     \/ \E m \in Modes : Replan(m)
<1>1. PlanInv /\ [Next]_planVars => [Kept]_planVars
  <2> SUFFICES ASSUME PlanInv, Next PROVE Kept OBVIOUS
  <2>1. ASSUME NEW id \in Ids \ Live, NEW a, asg' = Push(asg, id, a) PROVE Kept
    BY <2>1 DEF Push, Live
  <2>2. ASSUME NEW S \in SUBSET Live, asg' = Keep(S) PROVE Kept
    BY <2>2 DEF Keep, Live
  <2>3. ASSUME asg' = asg PROVE Kept BY <2>3
  <2>4. ASSUME NEW id \in Ids \ Live, NEW victim \in Ids, NEW keep \in 0 .. Total,
               Steal(id, victim, keep)
        PROVE  Kept
    <3> DEFINE cut == CutPoint(victim, keep)
               stolen == NewAssignment(cut, asg[victim].hi, 0, 0)
               kept == Shortened(asg[victim], cut)
    <3>1. victim \in Live /\ ~asg[victim].truncated /\ cut < asg[victim].hi BY <2>4 DEF Steal
    <3>2. asg' = Push(Push(asg, victim, kept), id, stolen) BY <2>4 DEF Steal
    <3>3. asg[victim] \in Assignment BY <3>1 DEF PlanInv, TypeOK
    <3>4. kept.truncated /\ kept.lo = asg[victim].lo /\ kept.hi = cut
      <4> HIDE DEF cut
      <4> QED BY <3>3 DEF Shortened, Assignment
    <3> HIDE DEF cut, stolen, kept
    <3>5. asg'[victim] = kept /\ \A i \in Live \ {victim} : asg'[i] = asg[i]
      BY <3>1, <3>2 DEF Push, Live
    <3> QED BY <3>1, <3>4, <3>5
  <2>5. ASSUME NEW id \in Ids \ Live, StreamClaim(id) PROVE Kept
    <3>1. \E a : asg' = Push(asg, id, a) BY <2>5 DEF StreamClaim
    <3> QED BY <2>1, <3>1
  <2>6. ASSUME NEW id \in Ids \ Live, NEW dur \in 0 .. MaxPiece, FreshClaim(id, dur)
        PROVE  Kept
    <3>1. \E a : asg' = Push(asg, id, a) BY <2>6 DEF FreshClaim
    <3> QED BY <2>1, <3>1
  <2>7. ASSUME NEW id \in Ids,
               Abandon(id) \/ RetryLater(id) \/ \E lo, hi \in 0 .. Total : Verified(id, lo, hi)
        PROVE  Kept
    <3>1. asg' = Keep(Live \ {id}) BY <2>7 DEF Abandon, RetryLater, Verified
    <3> QED BY <2>2, <3>1
  <2>8. ASSUME ReleaseDue \/ \E d \in deferred : BackoffElapses(d) PROVE Kept
    BY <2>3, <2>8 DEF ReleaseDue, BackoffElapses
  <2>9. ASSUME Downgrade \/ \E m \in Modes : Replan(m) PROVE Kept
    <3>1. asg' = Keep({}) BY <2>9 DEF Downgrade, Replan
    <3> QED BY <2>2, <3>1
  <2> HIDE DEF Kept
  <2> QED BY <2>4, <2>5, <2>6, <2>7, <2>8, <2>9 DEF Next
<1> QED BY <1>1, PlanInvariant, PTL DEF Spec, OnlyTailIsStolen
=============================================================================
