----------------------------- MODULE SegmentPlan -----------------------------
(***************************************************************************)
(* core/segment.rs: which worker owns which bytes of one artifact.         *)
(*                                                                         *)
(* A RangeSet is the set of its bytes (module RangeSet shows that it       *)
(* implements one) and an assignment is a half-open interval [lo, hi).     *)
(* Each action is one call sequence the controller makes on the plan:      *)
(*   claim_one -> claim_with             StreamClaim, FreshClaim, Steal    *)
(*   AssignmentVerified                  Verified                          *)
(*   AssignmentFailed, by disposition    RetryLater, Abandon               *)
(*   RetryReady timer -> release_due     ReleaseDue                        *)
(*   FullBodyForRangeRequest, Probed     Downgrade, Replan                 *)
(*                                                                         *)
(* Measured rates are inputs: the size of a fresh piece, the victim of a   *)
(* steal and the share it keeps range over all values.  No code outside    *)
(* the tests calls on_wire_received, on_submitted, on_destination_committed*)
(* or invalidate, so an assignment's cursor is always its lo, no rate ever *)
(* becomes warm, and rebalance_stragglers never cuts; they are left out.   *)
(* Instants are abstracted to whether a deferral's `until` has passed.     *)
(***************************************************************************)
EXTENDS Integers, FiniteSets

CONSTANTS
  Total,            \* length of the artifact
  EOF,              \* u64::MAX, the end of a claim of unknown length
  Ids,              \* assignment keys; a key is minted anew, never reused while known
  MinPiece, TailMinPiece, TailThreshold, MaxPiece, Alignment,
  Overlap,          \* overlap_bytes
  PeerSlots,        \* max_physical_connections
  Solo,             \* the policy allows one connection with one stream
  Ceiling,          \* min(max_active_assignments, max_parallel_writes)
  MaxAttempts       \* max_attempts_per_range

ASSUME PlanAssumption ==
  /\ Total \in Nat
  /\ EOF \in Nat /\ EOF > Total
  /\ {MinPiece, TailMinPiece, TailThreshold, MaxPiece, Overlap} \subseteq Nat
  /\ Alignment \in Nat \ {0}
  /\ PeerSlots \in Nat /\ Ceiling \in Nat /\ MaxAttempts \in Nat
  /\ Solo \in BOOLEAN
  /\ IsFiniteSet(Ids)      \* SlotMap keys are machine words

Bytes == 0 .. Total - 1

(***************************************************************************)
(* "ranged": the length is known and ranges are served.  "stream": one     *)
(* ordered worker, length known.  "unsized": total is None.                *)
(***************************************************************************)
Modes == {"ranged", "stream", "unsized"}

Assignment == [lo : 0 .. Total, hi : (0 .. Total) \cup {EOF},
               truncated : BOOLEAN, overlap : Nat, attempt : 0 .. MaxAttempts]

DeferredWork == [lo : 0 .. Total, hi : (0 .. Total) \cup {EOF},
                 attempt : 0 .. MaxAttempts, due : BOOLEAN]

VARIABLES
  mode,             \* total and single_stream
  completed,        \* verified bytes
  claimed,          \* completed, in flight or backing off; the rest is claimable
  asg,              \* SlotMap: the live keys' assignments
  deferred          \* ranges in retry backoff

planVars == <<mode, completed, claimed, asg, deferred>>

Live == DOMAIN asg

Lesser(a, b) == IF a <= b THEN a ELSE b
Greater(a, b) == IF a >= b THEN a ELSE b

\* The bytes of an assignment or a deferral within the artifact.
Span(w) == {b \in Bytes : w.lo <= b /\ b < w.hi}

Owned == UNION {Span(asg[i]) : i \in Live}
BackingOff == UNION {Span(d) : d \in deferred}

IsComplete == mode # "unsized" /\ completed = Bytes

\* p is completed.contiguous_prefix().
IsVerifiedPrefix(p) == 0 .. p - 1 \subseteq completed /\ p \notin completed

Keep(ids) == [i \in ids |-> asg[i]]
Push(f, id, a) == [i \in DOMAIN f \cup {id} |-> IF i = id THEN a ELSE f[i]]

-----------------------------------------------------------------------------
(***************************************************************************)
(* Gaps in `claimed`, and the first one that no backoff covers.            *)
(***************************************************************************)
UnclaimedRun(p, e) ==
  /\ p < e
  /\ p .. e - 1 \cap claimed = {}
  /\ e = Total \/ e \in claimed

Claimable(p, e) ==
  /\ UnclaimedRun(p, e)
  /\ p = 0 \/ p - 1 \in claimed \/ \E d \in deferred : ~d.due /\ d.hi = p
  /\ \A d \in deferred : d.due \/ Span(d) \cap (p .. e - 1) = {}

IsNextGap(p, e) ==
  /\ Claimable(p, e)
  /\ \A q \in 0 .. p - 1 : \A f \in 0 .. Total : ~Claimable(q, f)

NoGap == \A p \in Bytes : \A e \in 0 .. Total : ~Claimable(p, e)

\* has_unclaimed looks at the first gap only, and at overdue backoffs.
HasUnclaimed ==
  \/ \E p \in Bytes : \E e \in 0 .. Total :
       /\ UnclaimedRun(p, e)
       /\ 0 .. p - 1 \subseteq claimed
       /\ \A d \in deferred : d.due \/ Span(d) \cap (p .. e - 1) = {}
  \/ \E d \in deferred : d.due

AdmitsWorker ==
  CASE mode = "ranged" -> HasUnclaimed /\ ~IsComplete
    [] mode = "stream" -> Live = {} /\ ~IsComplete
    [] mode = "unsized" -> Live = {}

\* What the pump asks of a job before it claims (is_runnable).
Runnable == AdmitsWorker /\ Cardinality(Live) < Ceiling

(***************************************************************************)
(* Sizes.  `dur` is est.bytes_in(piece_duration).                          *)
(***************************************************************************)
AlignUp(v) == ((v + Alignment - 1) \div Alignment) * Alignment

Remaining == Total - Cardinality(completed)

PieceLen(dur) ==
  LET tail == Remaining <= TailThreshold
      min == IF tail THEN TailMinPiece ELSE MinPiece
      max == IF tail /\ Remaining < MaxPiece THEN Greater(MaxPiece \div 8, min) ELSE MaxPiece
  IN  AlignUp(Greater(min, Lesser(dur, max)))

\* A first claim leaves room for the peers that are still to come.
TakeLen(dur) ==
  LET slotsLeft == Greater(1, Greater(1, PeerSlots) - Cardinality(Live))
      unclaimed == Total - Cardinality(claimed)
      piece == Greater(1, PieceLen(dur))
  IN  IF ~Solo /\ slotsLeft > 1 /\ unclaimed > 2 * MinPiece
      THEN Greater(MinPiece, Lesser(piece, unclaimed \div slotsLeft))
      ELSE piece

\* Mutant of SnapEnd: the end really is rounded up to the alignment.
SnapEndOutward(lo, hi) == Lesser(Greater(AlignUp(hi), lo + 1), Total)

\* Mutant of SnapEnd: the rounded end is not capped by the artifact.
AlignedEnd(lo, hi) == AlignUp(hi)

\* snap_end never moves the end outward: it is capped by the unsnapped end.
SnapEnd(lo, hi) ==
  Lesser(Greater(Lesser(Lesser(AlignUp(hi), Total), Greater(hi, lo + 1)), lo + 1), Total)

\* n is pending_attempt_for([lo, hi)): the highest attempt among the backoffs the
\* range meets, 0 when it meets none.
IsPendingAttempt(lo, hi, n) ==
  LET near == {d \in deferred : d.lo < hi /\ lo < d.hi}
  IN  /\ n = 0 \/ \E d \in near : d.attempt = n
      /\ \A d \in near : d.attempt <= n

OverlapAt(lo) ==
  LET desired == Lesser(Overlap, lo)
  IN  IF (lo - desired) .. (lo - 1) \subseteq claimed THEN desired ELSE 0

-----------------------------------------------------------------------------
(***************************************************************************)
(* claim_with, behind the pump's gate.                                     *)
(***************************************************************************)
NewAssignment(lo, hi, overlap, attempt) ==
  [lo |-> lo, hi |-> hi, truncated |-> FALSE, overlap |-> overlap, attempt |-> attempt]

\* One ordered worker from the verified prefix on; a claim of unknown length
\* never enters `claimed`.
StreamClaim(id) ==
  /\ Runnable
  /\ mode \in {"stream", "unsized"}
  /\ Live = {}
  /\ \E p \in 0 .. Total :
       /\ IsVerifiedPrefix(p)
       /\ LET a == NewAssignment(p, IF mode = "stream" THEN Total ELSE EOF, 0, 0)
          IN  /\ mode = "stream" => p < Total
              /\ asg' = Push(asg, id, a)
              /\ claimed' = IF mode = "stream" THEN claimed \cup Span(a) ELSE claimed
  /\ UNCHANGED <<mode, completed, deferred>>

FreshClaim(id, dur) ==
  /\ Runnable
  /\ mode = "ranged"
  /\ \E p \in Bytes : \E e \in 0 .. Total :
       /\ IsNextGap(p, e)
       /\ LET hi == SnapEnd(p, Lesser(e, p + TakeLen(dur)))
          IN  \E attempt \in 0 .. MaxAttempts :
                LET a == NewAssignment(p, hi, OverlapAt(p), attempt)
                IN  /\ IsPendingAttempt(p, hi, attempt)
                    /\ asg' = Push(asg, id, a)
                    /\ claimed' = claimed \cup Span(a)
  /\ UNCHANGED <<mode, completed, deferred>>

StealMin == IF Remaining <= TailThreshold THEN TailMinPiece ELSE MinPiece

\* The speed-aware cut; `keep` is the incumbent's share before clamping.
CutPoint(v, keep) ==
  LET rem == asg[v].hi - asg[v].lo
      kept == Greater(StealMin, Lesser(keep, rem - StealMin))
  IN  Lesser(AlignUp(asg[v].lo + kept), asg[v].hi - StealMin)

\* Mutant of Shortened: the victim keeps its old end.
NotShortened(a, cut) == [a EXCEPT !.truncated = TRUE]

Shortened(a, cut) == [a EXCEPT !.hi = cut, !.truncated = TRUE]

Steal(id, victim, keep) ==
  /\ Runnable
  /\ mode = "ranged" /\ ~Solo
  /\ NoGap
  /\ victim \in Live /\ ~asg[victim].truncated
  /\ asg[victim].hi - asg[victim].lo >= 2 * StealMin
  /\ LET cut == CutPoint(victim, keep)
         stolen == NewAssignment(cut, asg[victim].hi, 0, 0)
         cutAsg == Push(asg, victim, Shortened(asg[victim], cut))
     IN  /\ asg[victim].lo < cut /\ cut < asg[victim].hi
         /\ asg' = Push(cutAsg, id, stolen)
         /\ claimed' = claimed \cup Span(stolen)
  /\ UNCHANGED <<mode, completed, deferred>>

-----------------------------------------------------------------------------
(***************************************************************************)
(* Results.                                                                *)
(***************************************************************************)
\* The bytes of an ended assignment that nobody verified become claimable;
\* a claim of unknown length never entered `claimed`.
Released(a, done) == IF a.hi = EOF THEN {} ELSE Span(a) \ done

\* Mutant of VerifiedPart: the reported range is credited unclipped.
VerifiedUnclipped(a, lo, hi) == {b \in Bytes : lo <= b /\ b < hi}

\* on_response_verified clips the reported range to what the worker still owns.
VerifiedPart(a, lo, hi) == Span(a) \cap {b \in Bytes : lo <= b /\ b < hi}

\* Mutant of Verified: a response short of the claim invalidates the whole claim.
VerifiedOrInvalidated(id, lo, hi) ==
  LET a == asg[id]
      part == VerifiedPart(a, lo, hi)
      done == IF part = Span(a) THEN completed \cup part ELSE completed \ Span(a)
  IN  /\ id \in Live
      /\ completed' = done
      /\ claimed' = (claimed \cup part) \ Released(a, done)
      /\ asg' = Keep(Live \ {id})
      /\ UNCHANGED <<mode, deferred>>

\* on_response_verified then finish_verified: [lo, hi) arrived in full.
Verified(id, lo, hi) ==
  LET a == asg[id]
      done == completed \cup VerifiedPart(a, lo, hi)
  IN  /\ id \in Live
      /\ completed' = done
      /\ claimed' = (claimed \cup VerifiedPart(a, lo, hi)) \ Released(a, done)
      /\ asg' = Keep(Live \ {id})
      /\ UNCHANGED <<mode, deferred>>

\* Mutant of Abandon: the dead worker's bytes stay claimed.
AbandonWithoutRelease(id) ==
  /\ id \in Live
  /\ asg' = Keep(Live \ {id})
  /\ UNCHANGED <<mode, completed, claimed, deferred>>

\* Every disposition but RetrySameRange, and a retry past its budget: abandon.
Abandon(id) ==
  /\ id \in Live
  /\ claimed' = claimed \ Released(asg[id], completed)
  /\ asg' = Keep(Live \ {id})
  /\ UNCHANGED <<mode, completed, deferred>>

Deferral(a, attempt) ==
  [lo |-> a.lo, hi |-> a.hi, attempt |-> attempt, due |-> FALSE]

\* RetrySameRange within budget: abandon, then defer the whole range.
RetryLater(id) ==
  LET a == asg[id]
      d == Deferral(a, a.attempt + 1)
  IN  /\ id \in Live
      /\ a.attempt + 1 <= MaxAttempts
      /\ deferred' = deferred \cup {d}
      /\ claimed' = (claimed \ Released(a, completed))
                    \cup (IF a.hi = EOF THEN {} ELSE Span(d))
      /\ asg' = Keep(Live \ {id})
      /\ UNCHANGED <<mode, completed>>

\* Time passes a deferral's `until`.
BackoffElapses(d) ==
  /\ d \in deferred /\ ~d.due
  /\ deferred' = (deferred \ {d}) \cup {[d EXCEPT !.due = TRUE]}
  /\ UNCHANGED <<mode, completed, claimed, asg>>

\* RetryReady: release_due drops every overdue deferral and its claim; the
\* controller discards the attempt it returns.
ReleaseDue ==
  LET over == {d \in deferred : d.due}
  IN  /\ over # {}
      /\ deferred' = deferred \ over
      /\ claimed' = claimed \ UNION {Span(d) : d \in {x \in over : x.hi # EOF}}
      /\ UNCHANGED <<mode, completed, asg>>

(***************************************************************************)
(* A new plan.  The old plan's workers keep running, unknown to the new.   *)
(***************************************************************************)
\* Mutant of Downgrade: the running plan is switched in place.
DowngradeInPlace ==
  /\ mode' = IF mode = "unsized" THEN "unsized" ELSE "stream"
  /\ UNCHANGED <<completed, claimed, asg, deferred>>

\* FullBodyForRangeRequest keeps the verified ranges and switches to one stream.
Downgrade ==
  /\ mode' = IF mode = "unsized" THEN "unsized" ELSE "stream"
  /\ claimed' = completed
  /\ asg' = Keep({})
  /\ deferred' = {}
  /\ UNCHANGED completed

\* Probed: the resume evidence was consumed by the first probe, so a later one
\* starts from nothing.
Replan(m) ==
  /\ mode' = m
  /\ completed' = {} /\ claimed' = {}
  /\ asg' = Keep({})
  /\ deferred' = {}

-----------------------------------------------------------------------------
\* The first Probed seeds the plan with the durable ranges of a trusted journal.
Init ==
  /\ mode \in Modes
  /\ completed \in SUBSET Bytes
  /\ claimed = completed
  /\ asg = [i \in {} |-> NewAssignment(0, 0, 0, 0)]
  /\ deferred = {}

Next ==
  \/ \E id \in Ids \ Live :
       \/ StreamClaim(id)
       \/ \E dur \in 0 .. MaxPiece : FreshClaim(id, dur)
       \/ \E victim \in Ids, keep \in 0 .. Total : Steal(id, victim, keep)
  \/ \E id \in Ids :
       \/ \E lo, hi \in 0 .. Total : lo <= hi /\ Verified(id, lo, hi)
       \/ Abandon(id)
       \/ RetryLater(id)
  \/ \E d \in deferred : BackoffElapses(d)
  \/ ReleaseDue
  \/ Downgrade
  \/ \E m \in Modes : Replan(m)

Spec == Init /\ [][Next]_planVars

-----------------------------------------------------------------------------
(***************************************************************************)
(* Properties.                                                             *)
(***************************************************************************)
\* Every range that claims, steals, results and backoffs produce lies within the
\* artifact, or ends at EOF; attempts stay within the retry budget.
TypeOK ==
  /\ mode \in Modes
  /\ completed \subseteq Bytes /\ claimed \subseteq Bytes
  /\ Live \subseteq Ids
  /\ asg \in [Live -> Assignment]
  /\ deferred \subseteq DeferredWork

\* Two workers never own the same byte, no worker owns a byte that is verified or
\* backing off, and a byte backs off once: what "claims never overlap owned ranges"
\* (segment.rs tests) means after steals, failures and retries.
DisjointOwners ==
  mode = "ranged" =>
    /\ \A i, j \in Live : i # j => Span(asg[i]) \cap Span(asg[j]) = {}
    /\ Owned \cap (completed \cup BackingOff) = {}
    /\ BackingOff \cap completed = {}
    /\ \A d, e \in deferred : d # e => Span(d) \cap Span(e) = {}

\* A byte is withheld from new workers exactly while it is verified, owned by a
\* live worker or backing off: nothing in flight is handed out twice, and no
\* byte is lost to a worker that is gone (the "claimed" field's comment,
\* segment.rs:103).
ClaimAccounting == mode = "ranged" => claimed = completed \cup Owned \cup BackingOff

\* A source that cannot serve ranges is read by exactly one worker, which ends at
\* the end of the artifact (single_stream, segment.rs:109).
OneStream ==
  mode # "ranged" => /\ Cardinality(Live) <= 1
                     /\ \A i \in Live : asg[i].hi \in {Total, EOF}

\* Inside one plan verified bytes are never given up: only a new probe may.
CompletedGrows == [][completed \subseteq completed' \/ \E m \in Modes : Replan(m)]_planVars

\* A worker's claim only ever shrinks, at its tail, once (`truncated`).
OnlyTailIsStolen ==
  [][\A i \in Live : i \in DOMAIN asg' =>
       \/ asg'[i] = asg[i]
       \/ ~asg[i].truncated /\ asg'[i].truncated
          /\ asg'[i].lo = asg[i].lo /\ asg'[i].hi < asg[i].hi
       \/ \E m \in Modes : Replan(m)]_planVars
=============================================================================
