--------------------------- MODULE LifecycleProofs ---------------------------
(***************************************************************************)
(* Proofs about module Lifecycle, for every set of jobs and destinations   *)
(* and every limit.                                                        *)
(*                                                                         *)
(* LifecycleInv is inductive.  Most of it is said of one JobState at a     *)
(* time (Sound), since a handler replaces one record: who still has an     *)
(* entry has not been answered and is live, a job that commits its only    *)
(* plan has no task left, a lock belongs to an entry or to a commit that   *)
(* has not begun.                                                          *)
(* Two parts are about several: a submission waits in the mailbox once, so *)
(* that nothing live is admitted again (MailOnce), and as long as nobody   *)
(* opened a destination during a commit, the lock file the path leads to   *)
(* is the one that is held (Alone).                                        *)
(***************************************************************************)
EXTENDS Lifecycle, FiniteSetTheorems, SequenceTheorems, TLAPS

\* A job the loop has not admitted.
Untouched(r) ==
  /\ ~r.entry /\ r.ctx = "active" /\ r.plans = "none" /\ r.tasks = 0 /\ r.old = 0
  /\ r.commit = "none" /\ ~r.early /\ r.lock = None /\ r.answers = <<>>

\* A plan that is the only one of its job knows every task, and has none when it is
\* committed.
Known(r) ==
  /\ r.plans # "loose" => r.old = 0
  /\ r.plans # "loose" /\ r.commit # "none" => r.tasks = 0
  /\ r.plans = "none" => r.tasks = 0 /\ r.commit = "none"
  /\ r.early => r.commit # "none"
  /\ Workers(r) <= MaxTasks

\* StaleTasksStopped, of one record.
Told(r) ==
  r.node = "gone" /\ Workers(r) > 0 =>
    r.ctx = "cancelled" \/ (r.plans = "loose" /\ r.answers = <<"ok">>)

\* What holds of the record of every job; `up` says that the loop has not ended.
Sound(r, up) ==
  /\ r.client # "waiting" => r.node = "none"
  /\ r.node = "none" => Untouched(r)
  /\ r.entry => r.node \in Nodes /\ r.answers = <<>> /\ r.ctx # "finished"
  /\ up => (r.node \in Nodes => r.entry)
  /\ r.node \in Nodes => Known(r)
  /\ r.node = "transferring" => r.plans # "none" /\ (r.plans = "sole" => r.commit = "none")
  /\ Told(r)
  /\ r.lock # None => r.dst # None /\ (r.commit = "sent" \/ (r.entry /\ r.commit = "none"))
  /\ r.entry /\ r.dst # None /\ r.commit = "none" => r.lock # None
  /\ r.commit \in {"sent", "unlocked", "renamed"} => r.dst # None
  /\ Len(r.answers) <= 1

LoopType ==
  loop \in [pc : {"run", "last", "ended"}, stop : BOOLEAN, called : BOOLEAN, shards : BOOLEAN]

\* A submission waits in the mailbox once, and only before it is admitted.
MailOnce ==
  /\ \A i \in DOMAIN mail : mail[i] # Shutdown => job[mail[i]].client = "submitted"
  /\ \A i, k \in DOMAIN mail : mail[i] = mail[k] /\ mail[i] # Shutdown => i = k

\* The first part of Accounted.
Leases ==
  \A d \in Dests, j \in Jobs : dest[d].lease = j <=> job[j].node \in Nodes /\ job[j].dst = d

\* ExclusiveOutsideCommit without Cardinality, and with the lock files.
Alone(d) ==
  ~dest[d].slipped =>
    /\ \A j, k \in OnPart(d) : j = k
    /\ dest[d].other # None => OnPart(d) = {} /\ dest[d].other = dest[d].file
    /\ \A j \in Jobs : job[j].dst = d /\ job[j].lock # None => job[j].lock = dest[d].file

LifecycleInv ==
  /\ LifecycleTypeOK /\ LoopType /\ MailOnce /\ Leases
  /\ \A j \in Jobs : Sound(job[j], Running)
  /\ \A d \in Dests : Alone(d)

-----------------------------------------------------------------------------
(***************************************************************************)
(* The lock file.                                                          *)
(***************************************************************************)
\* Min of a set that is not empty is a member of it.
LEMMA MinMember ==
  ASSUME NEW S, S \subseteq Nat, S # {} PROVE Min(S) \in S
<1>0. OpToRel(<, Nat) = {ss \in Nat \X Nat : ss[1] < ss[2]} BY Zenon DEF OpToRel
<1>1. PICK x \in S : \A y \in S : ~(<<y, x>> \in {ss \in Nat \X Nat : ss[1] < ss[2]})
  BY <1>0, NatLessThanWellFounded, WFMin
<1>2. ASSUME NEW y \in S PROVE x <= y
  <2>1. <<y, x>> \in Nat \X Nat /\ <<y, x>>[1] = y /\ <<y, x>>[2] = x OBVIOUS
  <2>2. ~(y < x) BY <1>1, <2>1
  <2> QED BY <2>2
<1> QED BY <1>2 DEF Min

\* The jobs and the other process hold fewer lock files than there are inodes.
LEMMA InodeLeft ==
  ASSUME LifecycleTypeOK, NEW d \in Dests
  PROVE  (1 .. Cardinality(Jobs) + 2) \ Held(d) # {}
<1> DEFINE K == {k \in Jobs : job[k].dst = d}
           H == {job[j].lock : j \in K}
           f == [j \in K |-> job[j].lock]
           I == 1 .. Cardinality(Jobs) + 2
<1>0. Cardinality(Jobs) \in Nat BY LifecycleAssumption, FS_CardinalityType
<1>1. IsFiniteSet(K) /\ Cardinality(K) <= Cardinality(Jobs)
  BY LifecycleAssumption, FS_Subset
<1>2. f \in Surjection(K, H) BY DEF Surjection
<1>3. IsFiniteSet(H) /\ Cardinality(H) <= Cardinality(K) BY <1>1, <1>2, FS_Surjection
<1>4. Held(d) = H \cup {dest[d].other} BY DEF Held
<1>5. /\ IsFiniteSet(Held(d))
      /\ Cardinality(Held(d)) \in {Cardinality(H), Cardinality(H) + 1}
  BY <1>3, <1>4, FS_AddElement
<1>6. /\ Cardinality(H) \in Nat /\ Cardinality(K) \in Nat
      /\ Cardinality(Held(d)) \in Nat
  BY <1>1, <1>3, <1>5, FS_CardinalityType
<1>7. Cardinality(I) = Cardinality(Jobs) + 2
  <2>1. PICK b \in Int : b = Cardinality(Jobs) + 2 BY <1>0
  <2>2. Cardinality(1 .. b) = IF 1 > b THEN 0 ELSE b - 1 + 1 BY FS_Interval
  <2> QED BY <2>1, <2>2, <1>0
<1>8. SUFFICES ASSUME I \subseteq Held(d) PROVE FALSE OBVIOUS
<1>9. Cardinality(I) <= Cardinality(Held(d)) BY <1>5, <1>8, FS_Subset
<1> HIDE DEF K, H, f, I
<1> QED BY <1>0, <1>1, <1>3, <1>5, <1>6, <1>7, <1>9

\* open_blocking finds a lock file, or makes one that nobody holds.
LEMMA InodeType ==
  ASSUME LifecycleTypeOK, NEW d \in Dests
  PROVE  /\ Inode(d) \in Nat \ {None}
         /\ dest[d].file # None => Inode(d) = dest[d].file
<1> DEFINE S == (1 .. Cardinality(Jobs) + 2) \ Held(d)
<1>1. S # {} BY InodeLeft
<1>2. S \subseteq Nat \ {None} BY DEF None
<1>3. Min(S) \in S BY <1>1, <1>2, MinMember
<1>4. dest[d].file \in Nat BY DEF LifecycleTypeOK, DestRecord
<1> QED BY <1>2, <1>3, <1>4 DEF Inode

-----------------------------------------------------------------------------
(***************************************************************************)
(* The records of a job.                                                   *)
(***************************************************************************)
Outcomes == {"ok", "error", "gone"}

\* A job at work on its .part, by its record.
AtWork(r) == r.lock # None \/ r.commit \in {"sent", "unlocked", "renamed"}

\* r2 is a sound successor of r that takes up no lock and no .part.
Follows(r, r2, up) ==
  /\ r2 \in JobRecord /\ Sound(r2, up)
  /\ r2.dst = r.dst /\ r2.client = r.client
  /\ AtWork(r2) => AtWork(r)
  /\ r2.lock \in {None, r.lock}

\* The reply takes the entry, and the lock unless a commit has it.
LEMMA AnsweredFields ==
  ASSUME NEW r \in JobRecord, NEW o \in Outcomes, r.entry, r.answers = <<>>
  PROVE  LET r2 == Answered(r, o) IN
         /\ r2 \in JobRecord
         /\ ~r2.entry /\ Len(r2.answers) = 1 /\ r2.answers = <<o>>
         /\ r2.ctx = IF o = "ok" /\ r.ctx = "active" THEN "finished" ELSE Cancelled(r.ctx)
         /\ r2.lock = IF r.commit = "none" THEN None ELSE r.lock
         /\ r2.client = r.client /\ r2.dst = r.dst /\ r2.node = r.node /\ r2.commit = r.commit
         /\ r2.tasks = r.tasks /\ r2.old = r.old /\ r2.plans = r.plans /\ r2.early = r.early
<1> DEFINE a == Append(<<>>, o)
           c == IF o = "ok" /\ r.ctx = "active" THEN "finished" ELSE Cancelled(r.ctx)
           l == IF r.commit = "none" THEN None ELSE r.lock
<1>1. a \in Seq({"ok", "error", "gone"}) /\ Len(a) = 1 /\ a = <<o>>
  BY DEF Outcomes
<1>2. c \in {"active", "cancelled", "finished"} BY DEF Cancelled, JobRecord
<1>3. l \in Nat BY DEF JobRecord, None
<1>4. Answered(r, o) = [r EXCEPT !.entry = FALSE, !.answers = a, !.ctx = c, !.lock = l]
  BY DEF Answered
<1> HIDE DEF a, c, l
<1>5. [r EXCEPT !.entry = FALSE, !.answers = a, !.ctx = c, !.lock = l] \in JobRecord
  BY <1>1, <1>2, <1>3 DEF JobRecord
<1>6. LET r2 == [r EXCEPT !.entry = FALSE, !.answers = a, !.ctx = c, !.lock = l] IN
      /\ r2.entry = FALSE /\ r2.answers = a /\ r2.ctx = c /\ r2.lock = l
      /\ r2.client = r.client /\ r2.dst = r.dst /\ r2.node = r.node /\ r2.commit = r.commit
      /\ r2.tasks = r.tasks /\ r2.old = r.old /\ r2.plans = r.plans /\ r2.early = r.early
  BY DEF JobRecord
<1> QED BY <1>1, <1>4, <1>5, <1>6 DEF c, l

\* A job that the loop has still to answer, whatever its node.
Unanswered(r) ==
  /\ r \in JobRecord /\ r.client = "waiting" /\ r.entry /\ r.answers = <<>> /\ r.ctx # "finished"
  /\ Known(r)
  /\ r.lock # None => r.dst # None /\ r.commit \in {"none", "sent"}
  /\ r.dst # None /\ r.commit = "none" => r.lock # None
  /\ r.commit \in {"sent", "unlocked", "renamed"} => r.dst # None

\* While the loop runs a live job is one.
LEMMA LiveUnanswered ==
  ASSUME NEW r \in JobRecord, Sound(r, TRUE), r.node \in Nodes
  PROVE  Unanswered(r)
<1>1. r.client = "waiting" /\ r.entry BY DEF Sound, Known, Told, Workers, Nodes
<1> QED BY <1>1 DEF Sound, Known, Told, Workers, Unanswered, Nodes, JobRecord

\* And what holds of it is all that Sound asks of a live job.
LEMMA UnansweredSound ==
  ASSUME NEW r, Unanswered(r), r.node \in Nodes,
         r.node = "transferring" => r.plans # "none" /\ (r.plans = "sole" => r.commit = "none")
  PROVE  Sound(r, TRUE)
<1>1. Len(r.answers) = 0 BY DEF Unanswered
<1>2. r.node # "gone" /\ r.node # "none" BY DEF Nodes
<1> QED BY <1>1, <1>2 DEF Unanswered, Sound, Known, Told, Workers, Told

\* finish_job leaves nothing behind but tasks that have been told to stop, or that
\* the plan of a job that succeeds does not know.
LEMMA GoneSound ==
  ASSUME NEW r, Unanswered(r), NEW o \in Outcomes, NEW up \in BOOLEAN,
         o = "ok" => r.tasks = 0 \/ r.plans = "loose"
  PROVE  Follows(r, Gone(r, o), up) /\ Gone(r, o).node = "gone"
<1>0. r \in JobRecord /\ r.tasks \in Nat /\ r.old \in Nat /\ Workers(r) \in 0 .. MaxTasks
      /\ 0 \in 0 .. MaxTasks /\ Workers(r) = r.tasks + r.old
  BY LifecycleAssumption DEF JobRecord, Unanswered, Known, Workers
<1> DEFINE w == Workers(r)
           q == [r EXCEPT !.node = "gone", !.tasks = 0, !.old = w]
           r2 == Answered(q, o)
<1>1. /\ q \in JobRecord /\ q.entry /\ q.answers = <<>> /\ q.node = "gone"
      /\ q.ctx = r.ctx /\ q.commit = r.commit /\ q.lock = r.lock
      /\ q.client = r.client /\ q.dst = r.dst /\ q.tasks = 0
      /\ q.old = w /\ q.plans = r.plans /\ q.early = r.early
  <2> HIDE DEF w
  <2>1. w \in 0 .. MaxTasks BY <1>0 DEF w
  <2> QED BY <1>0, <2>1 DEF JobRecord, Unanswered
<1>2. Gone(r, o) = r2 BY DEF Gone
<1> HIDE DEF q
<1>3. /\ r2 \in JobRecord
      /\ ~r2.entry /\ Len(r2.answers) = 1 /\ r2.answers = <<o>>
      /\ r2.ctx = IF o = "ok" /\ r.ctx = "active" THEN "finished" ELSE Cancelled(r.ctx)
      /\ r2.lock = IF r.commit = "none" THEN None ELSE r.lock
      /\ r2.client = r.client /\ r2.dst = r.dst /\ r2.node = "gone"
      /\ r2.tasks = 0 /\ r2.old = w /\ r2.plans = r.plans /\ r2.commit = r.commit
  BY <1>1, AnsweredFields
<1> HIDE DEF r2
<1>4. r.ctx \in {"active", "cancelled"}
  BY DEF JobRecord, Unanswered
<1>5. Told(r2)
  <2>1. Workers(r2) = w BY <1>0, <1>3 DEF Workers
  <2>2. CASE o # "ok" BY <1>3, <1>4, <2>2 DEF Told, Cancelled
  <2>3. CASE o = "ok" /\ r.plans = "loose" BY <1>3, <2>3 DEF Told
  <2>4. CASE o = "ok" /\ r.plans # "loose"
    <3>1. w = 0 BY <1>0, <2>4 DEF Unanswered, Known
    <3> QED BY <2>1, <3>1 DEF Told
  <2> QED BY <2>2, <2>3, <2>4
<1>6. Sound(r2, up) BY <1>3, <1>5 DEF Sound, Known, Told, Workers, Nodes, Unanswered
<1>7. Follows(r, r2, up) BY <1>3, <1>6 DEF Follows, AtWork
<1> QED BY <1>2, <1>3, <1>7

\* A drain ends with the last task of the plan.
LEMMA DrainedSound ==
  ASSUME NEW r, Unanswered(r), r.node = "draining"
  PROVE  Follows(r, Drained(r), TRUE) /\ Drained(r).node \in {"draining", "gone"}
<1>1. CASE r.tasks = 0
  <2>1. Follows(r, Gone(r, "error"), TRUE) /\ Gone(r, "error").node = "gone"
    BY GoneSound DEF Outcomes
  <2> QED BY <1>1, <2>1 DEF Drained
<1>2. CASE r.tasks # 0
  <2>1. r \in JobRecord BY DEF Unanswered
  <2>2. Sound(r, TRUE) BY UnansweredSound DEF Nodes
  <2> QED BY <1>2, <2>1, <2>2 DEF Drained, Follows
<1> QED BY <1>1, <1>2

\* A job whose phase alone changes has still to be answered.
LEMMA PhaseUnanswered ==
  ASSUME NEW r, Unanswered(r), NEW n \in Nodes
  PROVE  LET q == [r EXCEPT !.node = n] IN
         /\ Unanswered(q) /\ q.node = n
         /\ q.dst = r.dst /\ q.client = r.client /\ q.lock = r.lock /\ q.commit = r.commit
         /\ q.tasks = r.tasks /\ q.old = r.old /\ q.plans = r.plans
<1> DEFINE q == [r EXCEPT !.node = n]
<1>1. /\ q \in JobRecord /\ q.node = n /\ q.entry = r.entry /\ q.answers = r.answers
      /\ q.ctx = r.ctx /\ q.commit = r.commit /\ q.lock = r.lock
      /\ q.client = r.client /\ q.dst = r.dst /\ q.tasks = r.tasks
      /\ q.old = r.old /\ q.plans = r.plans /\ q.early = r.early
  BY DEF JobRecord, Unanswered
<1> HIDE DEF q
<1>2. Unanswered(q) BY <1>1 DEF Unanswered, Known, Workers
<1> QED BY <1>1, <1>2 DEF q

\* A job that begins to drain is finished when its plan has no task.
LEMMA DrainsSound ==
  ASSUME NEW r, Unanswered(r)
  PROVE  LET r2 == Drained([r EXCEPT !.node = "draining"]) IN
         Follows(r, r2, TRUE) /\ r2.node \in {"draining", "gone"}
<1> DEFINE q == [r EXCEPT !.node = "draining"]
<1>1. /\ Unanswered(q) /\ q.node = "draining"
      /\ q.dst = r.dst /\ q.client = r.client /\ q.lock = r.lock /\ q.commit = r.commit
  BY PhaseUnanswered DEF Nodes
<1> HIDE DEF q
<1>2. Follows(q, Drained(q), TRUE) /\ Drained(q).node \in {"draining", "gone"} BY <1>1, DrainedSound
<1>3. Follows(r, Drained(q), TRUE) BY <1>1, <1>2 DEF Follows, AtWork
<1> QED BY <1>2, <1>3 DEF q

\* JobCancelled finishes a job without tasks and drains any other.
LEMMA CancelledJobSound ==
  ASSUME NEW r \in JobRecord, Sound(r, TRUE)
  PROVE  /\ Follows(r, CancelledJob(r), TRUE)
         /\ CancelledJob(r).node = r.node \/ (r.node \in Nodes /\ CancelledJob(r).node \in {"draining", "gone"})
<1>1. CASE r.node \notin Nodes BY <1>1 DEF CancelledJob, Follows
<1>2. CASE r.node \in Nodes
  <2>1. Unanswered(r) BY <1>2, LiveUnanswered
  <2>2. /\ Follows(r, Drained([r EXCEPT !.node = "draining"]), TRUE)
        /\ Drained([r EXCEPT !.node = "draining"]).node \in {"draining", "gone"}
    BY <2>1, DrainsSound
  <2> QED BY <1>2, <2>2 DEF CancelledJob
<1> QED BY <1>1, <1>2

\* begin_fail leaves a drain alone and drains any other job.
LEMMA FailingSound ==
  ASSUME NEW r, Unanswered(r), Sound(r, TRUE), r.node \in Nodes
  PROVE  Follows(r, Failing(r), TRUE) /\ Failing(r).node \in {"draining", "gone"}
<1>1. CASE r.node = "draining" BY <1>1 DEF Failing, Follows, Unanswered
<1>2. CASE r.node # "draining"
  <2>1. /\ Follows(r, Drained([r EXCEPT !.node = "draining"]), TRUE)
        /\ Drained([r EXCEPT !.node = "draining"]).node \in {"draining", "gone"}
    BY DrainsSound
  <2> QED BY <1>2, <2>1 DEF Failing
<1> QED BY <1>1, <1>2

\* A job goes back to probing with its tasks, its plan and its commit.
LEMMA ProbingSound ==
  ASSUME NEW r, Unanswered(r)
  PROVE  Follows(r, [r EXCEPT !.node = "probing"], TRUE) /\ [r EXCEPT !.node = "probing"].node = "probing"
<1> DEFINE q == [r EXCEPT !.node = "probing"]
<1>1. /\ Unanswered(q) /\ q.node = "probing"
      /\ q.dst = r.dst /\ q.client = r.client /\ q.lock = r.lock /\ q.commit = r.commit
  BY PhaseUnanswered DEF Nodes
<1> HIDE DEF q
<1>2. Sound(q, TRUE) BY <1>1, UnansweredSound DEF Nodes
<1>3. q \in JobRecord BY <1>1 DEF Unanswered
<1> QED BY <1>1, <1>2, <1>3 DEF q, Follows, AtWork

\* A complete plan is committed, again or for the first time: with no task left if
\* it is the only one of its job.
LEMMA CommittedSound ==
  ASSUME NEW r, Unanswered(r), r.plans # "none", r.tasks = 0 \/ r.plans = "loose", NEW ok \in BOOLEAN,
         loop.shards \in BOOLEAN
  PROVE  Follows(r, Committed(r, ok), TRUE) /\ Committed(r, ok).node = "committing"
<1> DEFINE c == IF r.dst = None THEN (IF ok THEN "ok" ELSE "failed")
                ELSE IF r.commit # "none" THEN r.commit ELSE IF loop.shards THEN "sent" ELSE "over"
           e == r.early \/ (r.dst # None /\ r.commit \notin {"none", "ok", "failed"})
           l == IF r.commit = "none" /\ ~loop.shards THEN None ELSE r.lock
           q1 == [r EXCEPT !.node = "committing", !.commit = c]
           q == [r EXCEPT !.node = "committing", !.commit = c, !.early = e, !.lock = l]
<1>0. r \in JobRecord /\ r.early \in BOOLEAN /\ r.lock \in Nat
  BY DEF Unanswered, JobRecord
<1>1. Committed(r, ok) = q BY DEF Committed
<1>2. /\ c \in {"none", "sent", "unlocked", "renamed", "ok", "failed", "over"} /\ c # "none"
      /\ r.dst = None => c \in {"ok", "failed"}
      /\ r.dst # None /\ r.commit # "none" => c = r.commit
      /\ r.dst # None /\ r.commit = "none" => c = IF loop.shards THEN "sent" ELSE "over"
  BY <1>0 DEF JobRecord
<1>3. e \in BOOLEAN /\ l \in Nat /\ l \in {None, r.lock} BY <1>0 DEF None
<1>3a. l # None => r.commit # "none" \/ loop.shards BY <1>0
<1> HIDE DEF c, e, l
<1>4. q1 \in JobRecord
  <2> DEFINE q0 == [r EXCEPT !.node = "committing"]
  <2>1. q0 \in JobRecord BY <1>0 DEF JobRecord, Nodes
  <2>2. q1 = [q0 EXCEPT !.commit = c] BY <1>0 DEF JobRecord
  <2> HIDE DEF q0, q1
  <2> QED BY <1>2, <2>1, <2>2 DEF JobRecord
<1>5. q = [q1 EXCEPT !.early = e, !.lock = l] BY <1>0 DEF JobRecord
<1>6. q \in JobRecord
  <2> HIDE DEF q1, q
  <2> QED BY <1>3, <1>4, <1>5 DEF JobRecord
<1>7. /\ q.node = "committing" /\ q.entry = r.entry /\ q.answers = r.answers
      /\ q.ctx = r.ctx /\ q.commit = c /\ q.lock = l
      /\ q.client = r.client /\ q.dst = r.dst /\ q.tasks = r.tasks
      /\ q.old = r.old /\ q.plans = r.plans /\ q.early = e
  BY <1>0 DEF JobRecord
<1> HIDE DEF q
<1>8. Unanswered(q)
  <2>1. Known(q) BY <1>2, <1>7 DEF Unanswered, Known, Workers
  <2>2. q.lock # None => q.dst # None /\ q.commit \in {"none", "sent"}
    BY <1>2, <1>3, <1>3a, <1>7 DEF Unanswered
  <2> QED BY <1>2, <1>6, <1>7, <2>1, <2>2 DEF Unanswered
<1>9. Sound(q, TRUE) BY <1>7, <1>8, UnansweredSound DEF Nodes
<1>10. AtWork(q) => AtWork(r) BY <1>2, <1>3, <1>7 DEF AtWork, Unanswered
<1> QED BY <1>1, <1>3, <1>6, <1>7, <1>9, <1>10 DEF Follows

\* Discarding a destination drops the entry; finish_job then finds none to answer.
LEMMA DiscardedGoneSound ==
  ASSUME NEW r, Unanswered(r)
  PROVE  Follows(r, Gone(Discarded(r), "error"), TRUE) /\ Gone(Discarded(r), "error").node = "gone"
<1> DEFINE a == Append(<<>>, "gone")
           l == IF r.commit = "none" THEN None ELSE r.lock
           w == Workers(r)
           q == [r EXCEPT !.entry = FALSE, !.answers = a, !.ctx = Cancelled(r.ctx), !.lock = l]
           r2 == [q EXCEPT !.node = "gone", !.tasks = 0, !.old = w]
<1>1. a \in Seq({"ok", "error", "gone"}) /\ Len(a) = 1 OBVIOUS
<1>2. r \in JobRecord /\ Cancelled(r.ctx) = "cancelled" BY DEF Unanswered, JobRecord, Cancelled
<1>2a. l \in Nat /\ w \in 0 .. MaxTasks /\ 0 \in 0 .. MaxTasks
  BY <1>2, LifecycleAssumption DEF JobRecord, None, Unanswered, Known, Workers
<1>3. Discarded(r) = q BY DEF Discarded, Unanswered
<1> HIDE DEF a, l
<1>4. /\ q \in JobRecord /\ q.entry = FALSE /\ q.answers = a /\ q.lock = l
      /\ q.ctx = "cancelled" /\ q.commit = r.commit /\ q.client = r.client /\ q.dst = r.dst
      /\ q.tasks = r.tasks /\ q.old = r.old
  <2> HIDE DEF w
  <2> QED BY <1>1, <1>2, <1>2a DEF JobRecord, None
<1>4a. Workers(q) = w BY <1>4 DEF Workers
<1> HIDE DEF q, w
<1>5. /\ r2 \in JobRecord /\ r2.entry = FALSE /\ r2.answers = a /\ r2.lock = l /\ r2.node = "gone"
      /\ r2.ctx = "cancelled" /\ r2.commit = r.commit /\ r2.client = r.client /\ r2.dst = r.dst
  BY <1>2a, <1>4 DEF JobRecord
<1>6. Gone(Discarded(r), "error") = r2 BY <1>3, <1>4a, <1>5 DEF Gone, Answered
<1> HIDE DEF r2
<1>7. Sound(r2, TRUE)
  <2>1. Len(r2.answers) <= 1
    <3>1. Len(r2.answers) = Len(a) BY <1>5
    <3> QED BY <1>1, <3>1
  <2>2. r2.client = "waiting" BY <1>5 DEF Unanswered
  <2>3. r2.lock # None => r2.dst # None /\ r2.commit = "sent" BY <1>5 DEF Unanswered, l
  <2>4. r2.commit \in {"sent", "unlocked", "renamed"} => r2.dst # None BY <1>5 DEF Unanswered
  <2> QED BY <1>5, <2>1, <2>2, <2>3, <2>4 DEF Sound, Known, Told, Workers, Nodes
<1>8. AtWork(r2) => AtWork(r) BY <1>5 DEF AtWork, l
<1> QED BY <1>5, <1>6, <1>7, <1>8 DEF Follows, l

\* Tasks that a plan loses sight of still run.
LEMMA AbandonedUnanswered ==
  ASSUME NEW r, Unanswered(r), NEW n \in 0 .. MaxTasks, n <= r.tasks
  PROVE  LET q == [r EXCEPT !.tasks = r.tasks - n, !.old = r.old + n, !.plans = "loose"] IN
         /\ Unanswered(q) /\ q.plans = "loose" /\ q.node = r.node
         /\ q.dst = r.dst /\ q.client = r.client /\ q.lock = r.lock /\ q.commit = r.commit
<1>0. /\ r \in JobRecord /\ r.tasks \in 0 .. MaxTasks /\ r.old \in 0 .. MaxTasks
      /\ r.tasks + r.old <= MaxTasks
  BY DEF Unanswered, JobRecord, Known, Workers
<1>1. PICK t \in 0 .. MaxTasks : t = r.tasks - n BY <1>0, LifecycleAssumption
<1>2. PICK o \in 0 .. MaxTasks : o = r.old + n BY <1>0, LifecycleAssumption
<1>3. t + o = r.tasks + r.old BY <1>0, <1>1, <1>2
<1> DEFINE q == [r EXCEPT !.tasks = t, !.old = o, !.plans = "loose"]
<1>4. /\ q \in JobRecord /\ q.entry = r.entry /\ q.answers = r.answers
      /\ q.ctx = r.ctx /\ q.commit = r.commit /\ q.lock = r.lock /\ q.node = r.node
      /\ q.client = r.client /\ q.dst = r.dst /\ q.tasks = t
      /\ q.old = o /\ q.plans = "loose" /\ q.early = r.early
  BY <1>0 DEF JobRecord
<1> HIDE DEF q
<1>5. Known(q) BY <1>0, <1>3, <1>4 DEF Unanswered, Known, Workers
<1>6. Unanswered(q) BY <1>4, <1>5 DEF Unanswered
<1> QED BY <1>1, <1>2, <1>4, <1>6 DEF q

\* A new plan takes the place of the one that knew the tasks.
LEMMA ReplannedUnanswered ==
  ASSUME NEW r, Unanswered(r)
  PROVE  /\ Unanswered(Replanned(r)) /\ Replanned(r).plans = "loose" /\ Replanned(r).node = r.node
         /\ Replanned(r).dst = r.dst /\ Replanned(r).client = r.client
         /\ Replanned(r).lock = r.lock /\ Replanned(r).commit = r.commit
<1>1. r \in JobRecord BY DEF Unanswered
<1>2. r.tasks \in 0 .. MaxTasks /\ r.tasks - r.tasks = 0 /\ r.tasks <= r.tasks
  BY <1>1, LifecycleAssumption DEF JobRecord
<1>3. PICK n \in 0 .. MaxTasks : n = r.tasks BY <1>2
<1> DEFINE q == [r EXCEPT !.tasks = r.tasks - n, !.old = r.old + n, !.plans = "loose"]
<1>4. Replanned(r) = q
  <2>1. r.tasks - n = 0 BY <1>2, <1>3
  <2> QED BY <1>1, <1>3, <2>1 DEF Replanned, JobRecord
<1>5. /\ Unanswered(q) /\ q.plans = "loose" /\ q.node = r.node
      /\ q.dst = r.dst /\ q.client = r.client /\ q.lock = r.lock /\ q.commit = r.commit
  BY <1>2, <1>3, AbandonedUnanswered
<1> HIDE DEF q
<1> QED BY <1>4, <1>5

\* A live job whose plan is loose is sound in every phase.
LEMMA LooseFollows ==
  ASSUME NEW r, NEW q, Unanswered(q), q.plans = "loose", q.node \in Nodes,
         q.dst = r.dst, q.client = r.client, q.lock = r.lock, q.commit = r.commit
  PROVE  Follows(r, q, TRUE)
<1>1. Sound(q, TRUE) BY UnansweredSound
<1>2. q \in JobRecord BY DEF Unanswered
<1> QED BY <1>1, <1>2 DEF Follows, AtWork

-----------------------------------------------------------------------------
(***************************************************************************)
(* The steps.                                                              *)
(***************************************************************************)
\* A step that takes every record to a successor, and touches no lock file,
\* has the mailbox and the leases left to check.
LEMMA FollowsInv ==
  ASSUME LifecycleInv,
         job' \in [Jobs -> JobRecord], \A j \in Jobs : Follows(job[j], job'[j], Running'),
         LoopType', UNCHANGED mail, cancels' \subseteq Jobs,
         dest' \in [Dests -> DestRecord],
         \A d \in Dests : /\ dest'[d].file = dest[d].file /\ dest'[d].other = dest[d].other
                          /\ dest'[d].slipped = dest[d].slipped,
         Leases'
  PROVE  LifecycleInv'
<1>1. LifecycleTypeOK' BY DEF LifecycleInv, LifecycleTypeOK
<1>2. MailOnce'
  <2>1. \A i \in DOMAIN mail : mail[i] # Shutdown => mail[i] \in Jobs
    BY DEF LifecycleInv, LifecycleTypeOK
  <2>2. \A j \in Jobs : job'[j].client = job[j].client BY DEF Follows
  <2> QED BY <2>1, <2>2 DEF LifecycleInv, MailOnce
<1>3. \A j \in Jobs : Sound(job'[j], Running') BY DEF Follows
<1>4. ASSUME NEW d \in Dests PROVE Alone(d)'
  <2>1. \A j \in Jobs : /\ job'[j].dst = job[j].dst /\ job'[j].lock \in {None, job[j].lock}
                        /\ AtWork(job'[j]) => AtWork(job[j])
    BY DEF Follows
  <2>2. OnPart(d) = {j \in Jobs : job[j].dst = d /\ AtWork(job[j])}
    BY DEF OnPart, Committing, AtWork
  <2>3. OnPart(d)' = {j \in Jobs : job'[j].dst = d /\ AtWork(job'[j])}
    BY DEF OnPart, Committing, AtWork
  <2>4. OnPart(d)' \subseteq OnPart(d) BY <2>1, <2>2, <2>3
  <2> QED BY <2>1, <2>4 DEF LifecycleInv, Alone
<1> QED BY <1>1, <1>2, <1>3, <1>4 DEF LifecycleInv

\* One job is finished or goes on, and its lease goes with its node.
LEMMA EndsInv ==
  ASSUME LifecycleInv, NEW j \in Jobs, job' \in [Jobs -> JobRecord],
         \A k \in Jobs : Follows(job[k], job'[k], Running),
         \A k \in Jobs : k # j => job'[k].node = job[k].node,
         job'[j].node = job[j].node \/ (job[j].node \in Nodes /\ job'[j].node \in Nodes \cup {"gone"}),
         dest' = IF job'[j].node = "gone" THEN LeaseFreed({j}) ELSE dest,
         UNCHANGED <<mail, loop>>, cancels' \subseteq Jobs
  PROVE  LifecycleInv'
<1>0. job \in [Jobs -> JobRecord] /\ dest \in [Dests -> DestRecord] BY DEF LifecycleInv, LifecycleTypeOK
<1>1. Running' = Running BY DEF Running, At
<1>4. \A k \in Jobs : Follows(job[k], job'[k], Running') BY <1>1
<1>5. \A d \in Dests : dest[d].lease = j <=> job[j].node \in Nodes /\ job[j].dst = d
  BY DEF LifecycleInv, Leases
<1>6. None \notin Jobs BY LifecycleAssumption DEF None
<1>7. /\ dest' \in [Dests -> DestRecord]
      /\ \A d \in Dests : /\ dest'[d].file = dest[d].file /\ dest'[d].other = dest[d].other
                          /\ dest'[d].slipped = dest[d].slipped
                          /\ dest'[d].lease = IF job'[j].node = "gone" /\ dest[d].lease = j THEN None
                                              ELSE dest[d].lease
  BY <1>0 DEF LeaseFreed, DestRecord
<1>8. Leases'
  <2>1. ASSUME NEW d \in Dests, NEW k \in Jobs, k # j
        PROVE  dest'[d].lease = k <=> job'[k].node \in Nodes /\ job'[k].dst = d
    <3>1. job'[k].node = job[k].node /\ job'[k].dst = job[k].dst BY <2>1 DEF Follows
    <3>2. dest[d].lease = k <=> job[k].node \in Nodes /\ job[k].dst = d BY DEF LifecycleInv, Leases
    <3>3. dest'[d].lease = IF job'[j].node = "gone" /\ dest[d].lease = j THEN None ELSE dest[d].lease
      BY <1>7
    <3> QED BY <1>6, <2>1, <3>1, <3>2, <3>3
  <2>2. ASSUME NEW d \in Dests
        PROVE  dest'[d].lease = j <=> job'[j].node \in Nodes /\ job'[j].dst = d
    <3>1. job'[j].dst = job[j].dst BY DEF Follows
    <3>2. dest'[d].lease = IF job'[j].node = "gone" /\ dest[d].lease = j THEN None ELSE dest[d].lease
      BY <1>7
    <3>3. dest[d].lease = j <=> job[j].node \in Nodes /\ job[j].dst = d BY <1>5
    <3>4. "gone" \notin Nodes BY DEF Nodes
    <3>5. CASE job'[j].node = "gone" BY <1>6, <3>2, <3>4, <3>5
    <3>6. CASE job'[j].node # "gone" BY <3>1, <3>2, <3>3, <3>6
    <3> QED BY <3>5, <3>6
  <2>3. ASSUME NEW d \in Dests, NEW k \in Jobs
        PROVE  dest'[d].lease = k <=> job'[k].node \in Nodes /\ job'[k].dst = d
    <3>1. CASE k = j
      <4>1. dest'[d].lease = j <=> job'[j].node \in Nodes /\ job'[j].dst = d BY <2>2
      <4> QED BY <3>1, <4>1
    <3>2. CASE k # j BY <2>1, <3>2
    <3> QED BY <3>1, <3>2
  <2>4. Nodes' = Nodes BY DEF Nodes
  <2> QED BY <2>3, <2>4, Zenon DEF Leases
<1>9. LoopType' BY DEF LifecycleInv, LoopType
<1> QED BY <1>4, <1>7, <1>8, <1>9, FollowsInv

\* The same of one record.
LEMMA FinishedInv ==
  ASSUME LifecycleInv, NEW j \in Jobs, NEW r, Follows(job[j], r, Running), Finished(j, r),
         r.node = job[j].node \/ (job[j].node \in Nodes /\ r.node \in Nodes \cup {"gone"}),
         UNCHANGED <<mail, loop>>, cancels' \subseteq Jobs
  PROVE  LifecycleInv'
<1>0. job \in [Jobs -> JobRecord] BY DEF LifecycleInv, LifecycleTypeOK
<1>1. job' = [job EXCEPT ![j] = r] /\ r \in JobRecord BY DEF Finished, Follows
<1>2. job' \in [Jobs -> JobRecord] /\ job'[j] = r BY <1>0, <1>1
<1>3. \A k \in Jobs : k # j => job'[k] = job[k] BY <1>0, <1>1
<1>4. \A k \in Jobs : k # j => Follows(job[k], job'[k], Running)
  BY <1>0, <1>3 DEF Follows, LifecycleInv
<1>5. \A k \in Jobs : Follows(job[k], job'[k], Running) BY <1>2, <1>4
<1>6. dest' = IF job'[j].node = "gone" THEN LeaseFreed({j}) ELSE dest BY <1>2 DEF Finished
<1> QED BY <1>2, <1>3, <1>5, <1>6, EndsInv

\* One record changes and its job stays where it is.
LEMMA SameNodeInv ==
  ASSUME LifecycleInv, NEW j \in Jobs, NEW r, Follows(job[j], r, Running),
         job' = [job EXCEPT ![j] = r], r.node = job[j].node,
         UNCHANGED <<dest, mail, loop>>, cancels' \subseteq Jobs
  PROVE  LifecycleInv'
<1>0. job \in [Jobs -> JobRecord] /\ dest \in [Dests -> DestRecord] BY DEF LifecycleInv, LifecycleTypeOK
<1>1. r \in JobRecord /\ r.dst = job[j].dst /\ Running' = Running BY DEF Follows, Running, At
<1>2. job' \in [Jobs -> JobRecord] BY <1>0, <1>1
<1>3. \A k \in Jobs : k # j => Follows(job[k], job'[k], Running)
  BY <1>0, <1>1 DEF Follows, LifecycleInv
<1>4. \A k \in Jobs : Follows(job[k], job'[k], Running') BY <1>0, <1>1, <1>3
<1>5. \A k \in Jobs : job'[k].node = job[k].node /\ job'[k].dst = job[k].dst BY <1>0, <1>1
<1>6. Leases' BY <1>5 DEF LifecycleInv, Leases
<1>7. LoopType' BY DEF LifecycleInv, LoopType
<1> QED BY <1>0, <1>2, <1>4, <1>6, <1>7, FollowsInv

\* Job::cancel only asks.
LEMMA CancelInv == ASSUME LifecycleInv, NEW j \in Jobs, Cancel(j) PROVE LifecycleInv'
<1> DEFINE r == [job[j] EXCEPT !.asked = TRUE]
<1>1. job[j] \in JobRecord /\ Sound(job[j], Running) BY DEF LifecycleInv, LifecycleTypeOK
<1>2. /\ r \in JobRecord /\ r.entry = job[j].entry /\ r.answers = job[j].answers
      /\ r.ctx = job[j].ctx /\ r.commit = job[j].commit /\ r.lock = job[j].lock /\ r.node = job[j].node
      /\ r.client = job[j].client /\ r.dst = job[j].dst /\ r.tasks = job[j].tasks
      /\ r.old = job[j].old /\ r.plans = job[j].plans /\ r.early = job[j].early
  BY <1>1 DEF JobRecord
<1>3. job' = [job EXCEPT ![j] = r] /\ UNCHANGED <<dest, mail, loop>> BY DEF Cancel
<1>4. cancels' \subseteq Jobs BY DEF Cancel, LifecycleInv, LifecycleTypeOK
<1> HIDE DEF r
<1>5. Follows(job[j], r, Running) BY <1>1, <1>2 DEF Follows, Sound, Known, Told, Workers, Untouched, AtWork
<1> QED BY <1>2, <1>3, <1>4, <1>5, SameNodeInv

\* Only a job that is transferring gets tasks.
LEMMA StartTaskInv == ASSUME LifecycleInv, NEW j \in Jobs, StartTask(j) PROVE LifecycleInv'
<1> DEFINE r == [job[j] EXCEPT !.tasks = @ + 1]
<1>1. job[j] \in JobRecord /\ Sound(job[j], Running) BY DEF LifecycleInv, LifecycleTypeOK
<1>2. /\ job[j].tasks \in 0 .. MaxTasks /\ job[j].old \in 0 .. MaxTasks /\ job[j].node = "transferring"
      /\ job[j].tasks + job[j].old < MaxTasks
  BY <1>1, LifecycleAssumption DEF StartTask, JobRecord, Workers, Bound
<1>3. job[j].tasks + 1 \in 0 .. MaxTasks BY <1>2, LifecycleAssumption
<1>4. /\ r \in JobRecord /\ r.entry = job[j].entry /\ r.answers = job[j].answers
      /\ r.ctx = job[j].ctx /\ r.commit = job[j].commit /\ r.lock = job[j].lock /\ r.node = job[j].node
      /\ r.client = job[j].client /\ r.dst = job[j].dst /\ r.tasks = job[j].tasks + 1
      /\ r.old = job[j].old /\ r.plans = job[j].plans /\ r.early = job[j].early
  BY <1>1, <1>3 DEF JobRecord
<1>5. job' = [job EXCEPT ![j] = r] /\ UNCHANGED <<dest, mail, loop, cancels>> BY DEF StartTask
<1>6. cancels' \subseteq Jobs BY <1>5 DEF LifecycleInv, LifecycleTypeOK
<1> HIDE DEF r
<1>7. Known(r)
  <2>1. job[j].plans # "none" /\ (job[j].plans = "sole" => job[j].commit = "none") /\ Known(job[j])
    BY <1>1, <1>2 DEF Sound, Known, Told, Workers, Nodes
  <2>2. job[j].plans \in {"none", "sole", "loose"} BY <1>1 DEF JobRecord
  <2>3. r.tasks + r.old <= MaxTasks BY <1>2, <1>4, LifecycleAssumption
  <2> QED BY <1>2, <1>4, <2>1, <2>2, <2>3 DEF Known, Workers
<1>8. Sound(r, Running) BY <1>1, <1>2, <1>4, <1>7 DEF Sound, Known, Told, Workers, Nodes
<1>9. Follows(job[j], r, Running) BY <1>4, <1>8 DEF Follows, AtWork
<1> QED BY <1>4, <1>5, <1>6, <1>9, SameNodeInv

\* finalize gives the lock up, and is still at work.
LEMMA UnlockInv == ASSUME LifecycleInv, NEW j \in Jobs, Unlock(j) PROVE LifecycleInv'
<1> DEFINE r == [job[j] EXCEPT !.commit = "unlocked", !.lock = None]
<1>1. job[j] \in JobRecord /\ Sound(job[j], Running) /\ job[j].commit = "sent"
  BY DEF LifecycleInv, LifecycleTypeOK, Unlock
<1>2. /\ r \in JobRecord /\ r.entry = job[j].entry /\ r.answers = job[j].answers
      /\ r.ctx = job[j].ctx /\ r.commit = "unlocked" /\ r.lock = None /\ r.node = job[j].node
      /\ r.client = job[j].client /\ r.dst = job[j].dst /\ r.tasks = job[j].tasks
      /\ r.old = job[j].old /\ r.plans = job[j].plans /\ r.early = job[j].early
  BY <1>1 DEF JobRecord, None
<1>3. job' = [job EXCEPT ![j] = r] /\ UNCHANGED <<dest, mail, loop, cancels>> BY DEF Unlock
<1>4. cancels' \subseteq Jobs BY <1>3 DEF LifecycleInv, LifecycleTypeOK
<1> HIDE DEF r
<1>5. Follows(job[j], r, Running) BY <1>1, <1>2 DEF Follows, Sound, Known, Told, Workers, Untouched, AtWork, Nodes
<1> QED BY <1>2, <1>3, <1>4, <1>5, SameNodeInv

\* The rename leaves the lock file alone.
LEMMA RenameInv == ASSUME LifecycleInv, NEW j \in Jobs, Rename(j) PROVE LifecycleInv'
<1>1. job[j] \in JobRecord /\ Sound(job[j], Running) /\ job[j].commit = "unlocked"
  BY DEF LifecycleInv, LifecycleTypeOK, Rename
<1>2. PICK c \in {"renamed", "failed"} : job' = [job EXCEPT ![j].commit = c] BY DEF Rename
<1> DEFINE r == [job[j] EXCEPT !.commit = c]
<1>3. /\ r \in JobRecord /\ r.entry = job[j].entry /\ r.answers = job[j].answers
      /\ r.ctx = job[j].ctx /\ r.commit = c /\ r.lock = job[j].lock /\ r.node = job[j].node
      /\ r.client = job[j].client /\ r.dst = job[j].dst /\ r.tasks = job[j].tasks
      /\ r.old = job[j].old /\ r.plans = job[j].plans /\ r.early = job[j].early
  BY <1>1 DEF JobRecord
<1>4. job' = [job EXCEPT ![j] = r] /\ UNCHANGED <<dest, mail, loop, cancels>> BY <1>2 DEF Rename
<1>5. cancels' \subseteq Jobs BY <1>4 DEF LifecycleInv, LifecycleTypeOK
<1> HIDE DEF r
<1>6. Follows(job[j], r, Running) BY <1>1, <1>3 DEF Follows, Sound, Known, Told, Workers, Untouched, AtWork, Nodes
<1> QED BY <1>3, <1>4, <1>5, <1>6, SameNodeInv

\* A cancellation that is taken drains or finishes the job, or finds it gone.
LEMMA TakeCancelInv == ASSUME LifecycleInv, NEW j \in Jobs, TakeCancel(j) PROVE LifecycleInv'
<1> DEFINE q == IF job[j].entry THEN [job[j] EXCEPT !.ctx = Cancelled(@)] ELSE job[j]
<1>1. job[j] \in JobRecord /\ Sound(job[j], TRUE) /\ Running
  BY DEF LifecycleInv, LifecycleTypeOK, TakeCancel
<1>2. Cancelled(job[j].ctx) \in {"active", "cancelled", "finished"} /\ Cancelled(job[j].ctx) # "active"
  BY <1>1 DEF Cancelled, JobRecord
<1>3. /\ q \in JobRecord /\ q.entry = job[j].entry /\ q.answers = job[j].answers
      /\ q.ctx = IF job[j].entry THEN Cancelled(job[j].ctx) ELSE job[j].ctx
      /\ q.commit = job[j].commit /\ q.lock = job[j].lock /\ q.node = job[j].node
      /\ q.client = job[j].client /\ q.dst = job[j].dst /\ q.tasks = job[j].tasks
      /\ q.old = job[j].old /\ q.plans = job[j].plans /\ q.early = job[j].early
  BY <1>1, <1>2 DEF JobRecord
<1>4. Finished(j, CancelledJob(q)) /\ UNCHANGED <<mail, loop>> BY DEF TakeCancel
<1> HIDE DEF q
<1>5. Sound(q, TRUE) BY <1>1, <1>3 DEF Sound, Known, Told, Workers, Untouched, Cancelled
<1>6. /\ Follows(q, CancelledJob(q), TRUE)
      /\ \/ CancelledJob(q).node = q.node
         \/ q.node \in Nodes /\ CancelledJob(q).node \in {"draining", "gone"}
  BY <1>3, <1>5, CancelledJobSound
<1>7. Follows(job[j], CancelledJob(q), Running) BY <1>1, <1>3, <1>6 DEF Follows, AtWork, Sound, Known, Told, Workers
<1>8. cancels' \subseteq Jobs BY DEF TakeCancel, LifecycleInv, LifecycleTypeOK
<1> QED BY <1>3, <1>4, <1>6, <1>7, <1>8, FinishedInv DEF Nodes

\* A report counts one task down, of the plan's or of the others.
LEMMA ReportedSound ==
  ASSUME NEW r0 \in JobRecord, Sound(r0, TRUE), NEW r \in Reported(r0)
  PROVE  /\ r \in JobRecord /\ Sound(r, TRUE) /\ Follows(r0, r, TRUE)
         /\ r.node = r0.node /\ r.plans = r0.plans /\ (r.node \in Nodes => r.plans # "none")
<1>0. r0.tasks \in 0 .. MaxTasks /\ r0.old \in 0 .. MaxTasks BY DEF JobRecord
<1>1. CASE r0.tasks # 0 /\ r = [r0 EXCEPT !.tasks = @ - 1]
  <2>1. r0.tasks - 1 \in 0 .. MaxTasks BY <1>0, <1>1, LifecycleAssumption
  <2>2. /\ r \in JobRecord /\ r.entry = r0.entry /\ r.answers = r0.answers
        /\ r.ctx = r0.ctx /\ r.commit = r0.commit /\ r.lock = r0.lock
        /\ r.node = r0.node /\ r.client = r0.client /\ r.dst = r0.dst
        /\ r.tasks = r0.tasks - 1 /\ r.old = r0.old /\ r.plans = r0.plans /\ r.early = r0.early
    BY <1>1, <2>1 DEF JobRecord
  <2>3. Known(r0) => Known(r) BY <1>0, <1>1, <2>2, LifecycleAssumption DEF Known, Workers
  <2>4. Told(r) BY <1>0, <1>1, <2>2 DEF Sound, Known, Told, Workers
  <2>5. r.node # "none" BY <1>1, <2>2 DEF Sound, Known, Told, Workers, Untouched
  <2>6. Sound(r, TRUE) BY <2>2, <2>3, <2>4, <2>5 DEF Sound, Known, Told, Workers, Nodes
  <2>7. r.node \in Nodes => r.plans # "none" BY <1>1, <2>2 DEF Sound, Known
  <2> QED BY <2>2, <2>6, <2>7 DEF Follows, AtWork
<1>2. CASE r0.old # 0 /\ r = [r0 EXCEPT !.old = @ - 1]
  <2>1. r0.old - 1 \in 0 .. MaxTasks BY <1>0, <1>2, LifecycleAssumption
  <2>2. /\ r \in JobRecord /\ r.entry = r0.entry /\ r.answers = r0.answers
        /\ r.ctx = r0.ctx /\ r.commit = r0.commit /\ r.lock = r0.lock
        /\ r.node = r0.node /\ r.client = r0.client /\ r.dst = r0.dst
        /\ r.old = r0.old - 1 /\ r.tasks = r0.tasks /\ r.plans = r0.plans /\ r.early = r0.early
    BY <1>2, <2>1 DEF JobRecord
  <2>3. Known(r0) => Known(r) BY <1>0, <1>2, <2>2, LifecycleAssumption DEF Known, Workers
  <2>4. Told(r) BY <1>0, <1>2, <2>2 DEF Sound, Known, Told, Workers
  <2>5. r.node # "none" BY <1>2, <2>2 DEF Sound, Known, Told, Workers, Untouched
  <2>6. Sound(r, TRUE) BY <2>2, <2>3, <2>4, <2>5 DEF Sound, Known, Told, Workers, Nodes
  <2>7. r.node \in Nodes => r.plans # "none" BY <1>2, <2>2 DEF Sound, Known
  <2> QED BY <2>2, <2>6, <2>7 DEF Follows, AtWork
<1> QED BY <1>1, <1>2 DEF Reported

\* What is left of a job after the drain is checked.
LEMMA SettledSound ==
  ASSUME NEW r \in JobRecord, Sound(r, TRUE), r.node \in Nodes
  PROVE  /\ Follows(r, Settled(r), TRUE)
         /\ Settled(r).node = "gone" \/ Settled(r) = r
<1>1. Unanswered(r) BY LiveUnanswered
<1>2. CASE r.node = "draining"
  <2>1. Follows(r, Drained(r), TRUE) BY <1>1, <1>2, DrainedSound
  <2>2. Follows(r, Gone(r, "error"), TRUE) /\ Gone(r, "error").node = "gone"
    BY <1>1, GoneSound DEF Outcomes
  <2> QED BY <1>2, <2>1, <2>2 DEF Settled, Drained
<1>3. CASE r.node # "draining" BY <1>3 DEF Settled, Follows
<1> QED BY <1>2, <1>3

\* Every outcome of a report: a stale one changes nothing more, one of a live job
\* completes the plan, goes on, drains, fails, discards, or starts again.
LEMMA OutcomeSound ==
  ASSUME NEW r \in JobRecord, Sound(r, TRUE), r.node \in Nodes => r.plans # "none",
         loop.shards \in BOOLEAN, NEW r2 \in Outcome(r)
  PROVE  /\ Follows(r, r2, TRUE)
         /\ r2.node = r.node \/ (r.node \in Nodes /\ r2.node \in Nodes \cup {"gone"})
<1>1. CASE r.node \notin Nodes BY <1>1 DEF Outcome, Follows
<1>2. CASE r.node \in Nodes
  <2>0. Unanswered(r) BY <1>2, LiveUnanswered
  <2>1. CASE (r.tasks = 0 \/ r.plans = "loose") /\ r2 \in Commits(r)
    <3>1. PICK ok \in BOOLEAN : r2 = Committed(r, ok) BY <2>1 DEF Commits
    <3>2. Follows(r, r2, TRUE) /\ r2.node = "committing" BY <1>2, <2>0, <2>1, <3>1, CommittedSound
    <3> QED BY <1>2, <3>2 DEF Nodes
  <2>2. CASE r2 = Settled(r)
    <3>1. Follows(r, r2, TRUE) /\ (r2.node = "gone" \/ r2 = r) BY <1>2, <2>2, SettledSound
    <3> QED BY <1>2, <3>1
  <2>3. CASE Settled(r).node # "gone"
             /\ r2 \in {Failing(Settled(r)), Gone(Settled(r), "error"), Gone(Discarded(Settled(r)), "error"),
                        Replanned(Settled(r)), [Settled(r) EXCEPT !.node = "probing"]}
    <3>0. Settled(r) = r BY <1>2, <2>3, SettledSound
    <3>1. CASE r2 = Failing(r)
      <4>1. Follows(r, r2, TRUE) /\ r2.node \in {"draining", "gone"} BY <1>2, <2>0, <3>1, FailingSound
      <4> QED BY <1>2, <4>1 DEF Nodes
    <3>2. CASE r2 = Gone(r, "error")
      <4>1. Follows(r, r2, TRUE) /\ r2.node = "gone" BY <2>0, <3>2, GoneSound DEF Outcomes
      <4> QED BY <1>2, <4>1
    <3>3. CASE r2 = Gone(Discarded(r), "error")
      <4>1. Follows(r, r2, TRUE) /\ r2.node = "gone" BY <2>0, <3>3, DiscardedGoneSound
      <4> QED BY <1>2, <4>1
    <3>4. CASE r2 = Replanned(r)
      <4>1. /\ Unanswered(r2) /\ r2.plans = "loose" /\ r2.node = r.node /\ r2.dst = r.dst
            /\ r2.client = r.client /\ r2.lock = r.lock /\ r2.commit = r.commit
        BY <2>0, <3>4, ReplannedUnanswered
      <4>2. Follows(r, r2, TRUE) BY <1>2, <4>1, LooseFollows
      <4> QED BY <4>1, <4>2
    <3>5. CASE r2 = [r EXCEPT !.node = "probing"]
      <4>1. Follows(r, r2, TRUE) /\ r2.node = "probing" BY <2>0, <3>5, ProbingSound
      <4> QED BY <1>2, <4>1 DEF Nodes
    <3> QED BY <2>3, <3>0, <3>1, <3>2, <3>3, <3>4, <3>5
  <2> QED BY <1>2, <2>1, <2>2, <2>3 DEF Outcome
<1> QED BY <1>1, <1>2

\* Follows is transitive.
LEMMA FollowsOn ==
  ASSUME NEW r0, NEW r, NEW r2, Follows(r0, r, TRUE), Follows(r, r2, TRUE)
  PROVE  Follows(r0, r2, TRUE)
BY DEF Follows

\* A report, with every outcome.
LEMMA ReportInv == ASSUME LifecycleInv, NEW j \in Jobs, Report(j) PROVE LifecycleInv'
<1>1. job[j] \in JobRecord /\ Sound(job[j], TRUE) /\ Running = TRUE /\ loop.shards \in BOOLEAN
  BY DEF LifecycleInv, LifecycleTypeOK, LoopType, Report, Running
<1>2. PICK r \in Reported(job[j]) : \E r2 \in Outcome(r) : Finished(j, r2) BY DEF Report
<1>3. PICK r2 \in Outcome(r) : Finished(j, r2) BY <1>2
<1>4. UNCHANGED <<mail, cancels, loop>> /\ cancels' \subseteq Jobs
  BY DEF Report, LifecycleInv, LifecycleTypeOK
<1>5. /\ r \in JobRecord /\ Sound(r, TRUE) /\ Follows(job[j], r, TRUE)
      /\ r.node = job[j].node /\ (r.node \in Nodes => r.plans # "none")
  BY <1>1, ReportedSound
<1>6. /\ Follows(r, r2, TRUE)
      /\ r2.node = r.node \/ (r.node \in Nodes /\ r2.node \in Nodes \cup {"gone"})
  BY <1>1, <1>5, OutcomeSound
<1>7. Follows(job[j], r2, Running) BY <1>1, <1>5, <1>6, FollowsOn
<1> QED BY <1>3, <1>4, <1>5, <1>6, <1>7, FinishedInv

\* Assignments that a quarantine abandons leave their jobs sound.
LEMMA AbandonedSound ==
  ASSUME NEW r \in JobRecord, Sound(r, TRUE), NEW n \in 0 .. MaxTasks,
         n > 0 => n <= r.tasks /\ r.node \in Nodes
  PROVE  /\ Follows(r, Abandoned(r, n), TRUE) /\ Abandoned(r, n).node = r.node
         /\ r.node \in Nodes => Unanswered(Abandoned(r, n))
<1>1. CASE n = 0 BY <1>1, LiveUnanswered DEF Abandoned, Follows
<1>2. CASE n # 0
  <2>0. n <= r.tasks /\ r.node \in Nodes BY <1>2, LifecycleAssumption
  <2>1. Unanswered(r) BY <2>0, LiveUnanswered
  <2> DEFINE q == [r EXCEPT !.tasks = r.tasks - n, !.old = r.old + n, !.plans = "loose"]
  <2>2. /\ Unanswered(q) /\ q.plans = "loose" /\ q.node = r.node
        /\ q.dst = r.dst /\ q.client = r.client /\ q.lock = r.lock /\ q.commit = r.commit
    BY <2>0, <2>1, AbandonedUnanswered
  <2>3. Abandoned(r, n) = q BY <1>2 DEF Abandoned
  <2> HIDE DEF q
  <2>4. Follows(r, q, TRUE) BY <2>0, <2>2, LooseFollows
  <2> QED BY <2>2, <2>3, <2>4
<1> QED BY <1>1, <1>2

\* A quarantine is a report of one job that takes assignments from several.
LEMMA QuarantineInv == ASSUME LifecycleInv, NEW j \in Jobs, Quarantine(j) PROVE LifecycleInv'
<1>0. job \in [Jobs -> JobRecord] /\ Running = TRUE /\ job[j].node \in Nodes
  BY DEF LifecycleInv, LifecycleTypeOK, Quarantine, Running
<1>1. \A k \in Jobs : job[k] \in JobRecord /\ Sound(job[k], TRUE) BY <1>0 DEF LifecycleInv
<1>2. PICK r \in Reported(job[j]), n \in [Jobs -> 0 .. MaxTasks] :
        LET s == Settled(r)
            q == Abandoned(s, n[j])
        IN  /\ s.node # "gone" /\ n[j] <= r.tasks /\ \E k \in Jobs : n[k] > 0
            /\ \A k \in Jobs \ {j} : n[k] > 0 => n[k] <= job[k].tasks /\ job[k].node \in Nodes /\ k \in Busy
            /\ \E r2 \in {q, [q EXCEPT !.node = "probing"], Gone(q, "error")} :
                 /\ Within(j, r2)
                 /\ job' = [k \in Jobs |-> IF k = j THEN r2 ELSE Abandoned(job[k], n[k])]
                 /\ dest' = IF r2.node = "gone" THEN LeaseFreed({j}) ELSE dest
  BY DEF Quarantine
<1>3. /\ r \in JobRecord /\ Sound(r, TRUE) /\ Follows(job[j], r, TRUE) /\ r.node = job[j].node
  BY <1>1, ReportedSound
<1>4. Settled(r) = r BY <1>0, <1>2, <1>3, SettledSound
<1>5. PICK q : q = Abandoned(r, n[j]) OBVIOUS
<1>6. PICK r2 \in {q, [q EXCEPT !.node = "probing"], Gone(q, "error")} :
        /\ job' = [k \in Jobs |-> IF k = j THEN r2 ELSE Abandoned(job[k], n[k])]
        /\ dest' = IF r2.node = "gone" THEN LeaseFreed({j}) ELSE dest
  BY <1>2, <1>4, <1>5
<1>7. n[j] \in 0 .. MaxTasks /\ n[j] <= r.tasks BY <1>2
<1>8. Follows(r, q, TRUE) /\ q.node = r.node /\ Unanswered(q) /\ q.node \in Nodes
  BY <1>0, <1>3, <1>5, <1>7, AbandonedSound
<1>9. Follows(q, r2, TRUE) /\ (r2.node = q.node \/ r2.node \in {"probing", "gone"})
  <2>1. CASE r2 = q BY <1>8, <2>1 DEF Follows, AtWork
  <2>2. CASE r2 = [q EXCEPT !.node = "probing"] BY <1>8, <2>2, ProbingSound
  <2>3. CASE r2 = Gone(q, "error") BY <1>8, <2>3, GoneSound DEF Outcomes
  <2> QED BY <1>6, <2>1, <2>2, <2>3
<1>10. Follows(job[j], r2, TRUE) BY <1>3, <1>8, <1>9, FollowsOn
<1>11. job'[j] = r2 /\ \A k \in Jobs : k # j => job'[k] = Abandoned(job[k], n[k]) BY <1>6
<1>12. \A k \in Jobs : k # j => Follows(job[k], job'[k], TRUE) /\ job'[k].node = job[k].node
  <2>1. \A k \in Jobs : k # j => n[k] \in 0 .. MaxTasks
                               /\ (n[k] > 0 => n[k] <= job[k].tasks /\ job[k].node \in Nodes)
    BY <1>2
  <2>2. ASSUME NEW k \in Jobs, k # j
        PROVE  Follows(job[k], job'[k], TRUE) /\ job'[k].node = job[k].node
    <3>1. PICK m \in 0 .. MaxTasks : m = n[k] BY <2>1, <2>2
    <3>2. m > 0 => m <= job[k].tasks /\ job[k].node \in Nodes BY <2>1, <2>2, <3>1
    <3>3. job'[k] = Abandoned(job[k], m) BY <1>11, <2>2, <3>1
    <3>4. job[k] \in JobRecord /\ Sound(job[k], TRUE) BY <1>1
    <3> QED BY <3>2, <3>3, <3>4, AbandonedSound
  <2> QED BY <2>2
<1>13. \A k \in Jobs : Follows(job[k], job'[k], Running) BY <1>0, <1>10, <1>11, <1>12
<1>14. job' \in [Jobs -> JobRecord]
  <2>1. \A k \in Jobs : job'[k] \in JobRecord BY <1>13 DEF Follows
  <2> QED BY <1>6, <2>1
<1>15. UNCHANGED <<mail, cancels, loop>> /\ cancels' \subseteq Jobs
  BY DEF Quarantine, LifecycleInv, LifecycleTypeOK
<1>16. dest' = IF job'[j].node = "gone" THEN LeaseFreed({j}) ELSE dest BY <1>6, <1>11
<1>17. job'[j].node = job[j].node \/ (job[j].node \in Nodes /\ job'[j].node \in Nodes \cup {"gone"})
  BY <1>0, <1>3, <1>8, <1>9, <1>11 DEF Nodes
<1> QED BY <1>12, <1>13, <1>14, <1>15, <1>16, <1>17, EndsInv

\* The answer of a probe makes the first plan of a job, or replaces one.
LEMMA ProbedInv == ASSUME LifecycleInv, NEW j \in Jobs, Probed(j) PROVE LifecycleInv'
<1>1. /\ job[j] \in JobRecord /\ Sound(job[j], TRUE) /\ Running = TRUE /\ job[j].node \in Nodes
      /\ loop.shards \in BOOLEAN
  BY DEF LifecycleInv, LifecycleTypeOK, LoopType, Probed, Running
<1>2. PICK p : p = IF job[j].plans = "none" THEN [job[j] EXCEPT !.plans = "sole"] ELSE Replanned(job[j])
  OBVIOUS
<1>3. PICK r \in {[p EXCEPT !.node = "transferring"]} \cup Commits(p) : Finished(j, r)
  BY <1>2 DEF Probed
<1>4. UNCHANGED <<mail, cancels, loop>> /\ cancels' \subseteq Jobs
  BY DEF Probed, LifecycleInv, LifecycleTypeOK
<1>5. Unanswered(job[j]) BY <1>1, LiveUnanswered
<1>6. /\ Unanswered(p) /\ p.node = job[j].node /\ p.dst = job[j].dst /\ p.client = job[j].client
      /\ p.lock = job[j].lock /\ p.commit = job[j].commit
      /\ p.plans = "loose" \/ (p.plans = "sole" /\ p.commit = "none" /\ p.tasks = 0)
  <2>1. CASE job[j].plans = "none"
    <3>1. p = [job[j] EXCEPT !.plans = "sole"] BY <1>2, <2>1
    <3>2. /\ p \in JobRecord /\ p.entry = job[j].entry /\ p.answers = job[j].answers
          /\ p.ctx = job[j].ctx /\ p.commit = job[j].commit /\ p.lock = job[j].lock
          /\ p.node = job[j].node /\ p.client = job[j].client /\ p.dst = job[j].dst
          /\ p.old = job[j].old /\ p.tasks = job[j].tasks /\ p.plans = "sole" /\ p.early = job[j].early
      BY <1>1, <3>1 DEF JobRecord
    <3>3. Known(p) /\ p.commit = "none" /\ p.tasks = 0 BY <1>5, <2>1, <3>2 DEF Unanswered, Known, Workers
    <3>4. Unanswered(p) BY <1>5, <3>2, <3>3 DEF Unanswered
    <3> QED BY <3>2, <3>3, <3>4
  <2>2. CASE job[j].plans # "none" BY <1>2, <1>5, <2>2, ReplannedUnanswered
  <2> QED BY <2>1, <2>2
<1>7. Follows(job[j], r, TRUE) /\ r.node \in {"transferring", "committing"}
  <2>1. CASE r = [p EXCEPT !.node = "transferring"]
    <3>1. /\ Unanswered(r) /\ r.node = "transferring" /\ r.dst = p.dst /\ r.client = p.client
          /\ r.lock = p.lock /\ r.commit = p.commit /\ r.plans = p.plans
      BY <1>6, <2>1, PhaseUnanswered DEF Nodes
    <3>2. Sound(r, TRUE) BY <1>6, <3>1, UnansweredSound DEF Nodes
    <3>3. r \in JobRecord BY <3>1 DEF Unanswered
    <3> QED BY <1>6, <3>1, <3>2, <3>3 DEF Follows, AtWork
  <2>2. CASE r \in Commits(p)
    <3>1. PICK ok \in BOOLEAN : r = Committed(p, ok) BY <1>1, <2>2 DEF Commits
    <3>2. Follows(p, r, TRUE) /\ r.node = "committing" BY <1>1, <1>6, <3>1, CommittedSound
    <3> QED BY <1>6, <3>2 DEF Follows, AtWork
  <2> QED BY <1>3, <2>1, <2>2
<1>8. Follows(job[j], r, Running) BY <1>1, <1>7
<1> QED BY <1>1, <1>3, <1>4, <1>7, <1>8, FinishedInv DEF Nodes

\* A job that is probed again, or begins to fail.
LEMMA ProbingInv == ASSUME LifecycleInv, NEW j \in Jobs, Probing(j) PROVE LifecycleInv'
<1>1. job[j] \in JobRecord /\ Sound(job[j], TRUE) /\ Running = TRUE /\ job[j].node \in Nodes
  BY DEF LifecycleInv, LifecycleTypeOK, Probing, Running
<1>2. Unanswered(job[j]) BY <1>1, LiveUnanswered
<1>3. PICK r \in {[job[j] EXCEPT !.node = "probing"], Failing(job[j])} : Finished(j, r) BY DEF Probing
<1>4. Follows(job[j], r, TRUE) /\ r.node \in {"probing", "draining", "gone"}
  <2>1. CASE r = [job[j] EXCEPT !.node = "probing"] BY <1>2, <2>1, ProbingSound
  <2>2. CASE r = Failing(job[j]) BY <1>1, <1>2, <2>2, FailingSound
  <2> QED BY <1>3, <2>1, <2>2
<1>5. UNCHANGED <<mail, cancels, loop>> /\ cancels' \subseteq Jobs
  BY DEF Probing, LifecycleInv, LifecycleTypeOK
<1>6. Follows(job[j], r, Running) BY <1>1, <1>4
<1> QED BY <1>1, <1>3, <1>4, <1>5, <1>6, FinishedInv DEF Nodes

\* The report of a commit ends the job it finds, and nothing when there is none.
LEMMA CommitReportedInv == ASSUME LifecycleInv, NEW j \in Jobs, CommitReported(j) PROVE LifecycleInv'
<1>1. /\ job[j] \in JobRecord /\ Sound(job[j], TRUE) /\ Running = TRUE
      /\ job[j].early \/ job[j].commit \in {"ok", "failed"}
  BY DEF LifecycleInv, LifecycleTypeOK, CommitReported, Running
<1>2. PICK c : c = IF job[j].early THEN job[j].commit ELSE "over" OBVIOUS
<1>3. PICK o : o = IF job[j].early \/ job[j].commit = "ok" THEN "ok" ELSE "error" OBVIOUS
<1> DEFINE r == [job[j] EXCEPT !.early = FALSE, !.commit = c]
           r2 == IF r.node \notin Nodes THEN r ELSE Gone(r, o)
<1>4. c \in {"none", "sent", "unlocked", "renamed", "ok", "failed", "over"} /\ c \in {job[j].commit, "over"}
  BY <1>1, <1>2 DEF JobRecord
<1>5. /\ r \in JobRecord /\ r.entry = job[j].entry /\ r.answers = job[j].answers
      /\ r.ctx = job[j].ctx /\ r.commit = c /\ r.lock = job[j].lock
      /\ r.node = job[j].node /\ r.client = job[j].client /\ r.dst = job[j].dst
      /\ r.tasks = job[j].tasks /\ r.old = job[j].old /\ r.plans = job[j].plans /\ r.early = FALSE
  <2> DEFINE r0 == [job[j] EXCEPT !.early = FALSE]
  <2>1. r0 \in JobRecord BY <1>1 DEF JobRecord
  <2>2. r = [r0 EXCEPT !.commit = c] BY <1>1 DEF JobRecord
  <2>3. r \in JobRecord
    <3> HIDE DEF r0, r
    <3> QED BY <1>4, <2>1, <2>2 DEF JobRecord
  <2> QED BY <1>1, <2>3 DEF JobRecord
<1>6. Finished(j, r2) BY <1>2, <1>3 DEF CommitReported
<1>7. UNCHANGED <<mail, cancels, loop>> /\ cancels' \subseteq Jobs
  BY DEF CommitReported, LifecycleInv, LifecycleTypeOK
<1>8. o \in Outcomes BY <1>3 DEF Outcomes
<1> HIDE DEF r
<1>9. c = "over" => job[j].commit \in {"ok", "failed", "over"} BY <1>1, <1>2
<1>10. CASE r.node \notin Nodes
  <2>1. Sound(r, TRUE)
    <3>1. r.node # "none" BY <1>1, <1>5 DEF Sound, Known, Told, Workers, Untouched
    <3>2. Told(r) BY <1>1, <1>5 DEF Sound, Known, Told, Workers
    <3> QED BY <1>1, <1>4, <1>5, <1>9, <1>10, <3>1, <3>2 DEF Sound, Known, Told, Workers, Nodes
  <2>2. Follows(job[j], r, Running) BY <1>1, <1>4, <1>5, <2>1 DEF Follows, AtWork
  <2> QED BY <1>5, <1>6, <1>7, <1>10, <2>2, FinishedInv
<1>11. CASE r.node \in Nodes
  <2>1. Unanswered(job[j]) BY <1>1, <1>5, <1>11, LiveUnanswered
  <2>2. job[j].commit # "none" BY <1>1, <2>1 DEF Unanswered, Known
  <2>3. r.tasks = 0 \/ r.plans = "loose" BY <1>5, <2>1, <2>2 DEF Unanswered, Known
  <2>4. Known(r) BY <1>2, <1>5, <2>1, <2>2 DEF Unanswered, Known, Workers
  <2>5. Unanswered(r) BY <1>4, <1>5, <1>9, <2>1, <2>2, <2>4 DEF Unanswered
  <2>6. Follows(r, Gone(r, o), TRUE) /\ Gone(r, o).node = "gone"
    BY <1>8, <2>3, <2>5, GoneSound
  <2>7. Follows(job[j], r2, Running) BY <1>1, <1>4, <1>5, <1>11, <2>6 DEF Follows, AtWork
  <2> QED BY <1>5, <1>6, <1>7, <1>11, <2>6, <2>7, FinishedInv
<1> QED BY <1>10, <1>11

\* A deadline finishes the job at once.
LEMMA JobDeadlineInv == ASSUME LifecycleInv, NEW j \in Jobs, JobDeadline(j) PROVE LifecycleInv'
<1>1. job[j] \in JobRecord /\ Sound(job[j], TRUE) /\ Running /\ job[j].node \in Nodes
  BY DEF LifecycleInv, LifecycleTypeOK, JobDeadline
<1>2. Unanswered(job[j]) BY <1>1, LiveUnanswered
<1> DEFINE r == Gone(job[j], "error")
<1>3. Follows(job[j], r, TRUE) /\ r.node = "gone" BY <1>2, GoneSound DEF Outcomes
<1>4. UNCHANGED <<mail, cancels, loop>> /\ cancels' \subseteq Jobs /\ Finished(j, r)
  BY DEF JobDeadline, LifecycleInv, LifecycleTypeOK
<1> HIDE DEF r
<1>5. Follows(job[j], r, Running) BY <1>1, <1>3
<1> QED BY <1>1, <1>3, <1>4, <1>5, FinishedInv

\* The shutdown cancels every entry.
LEMMA StopJobsInv == ASSUME LifecycleInv, StopJobs PROVE LifecycleInv'
<1>0. job \in [Jobs -> JobRecord] /\ dest \in [Dests -> DestRecord] /\ cancels \subseteq Jobs
  BY DEF LifecycleInv, LifecycleTypeOK
<1>1. loop.pc = "run" /\ loop' = [loop EXCEPT !.pc = "last"] /\ UNCHANGED <<mail, cancels>>
  BY DEF StopJobs, At, Goto
<1>2. LoopType' /\ Running /\ Running' BY <1>1 DEF LifecycleInv, LoopType, Running, At
<1>3. ASSUME NEW j \in Jobs
      PROVE  /\ Follows(job[j], job'[j], TRUE)
             /\ job'[j].node = job[j].node \/ (job[j].node \in Nodes /\ job'[j].node \in {"draining", "gone"})
  <2>1. job'[j] = IF job[j].entry THEN CancelledJob(job[j]) ELSE job[j] BY DEF StopJobs
  <2>2. job[j] \in JobRecord /\ Sound(job[j], TRUE) BY <1>0, <1>2 DEF LifecycleInv
  <2>3. CASE job[j].entry BY <2>1, <2>2, <2>3, CancelledJobSound
  <2>4. CASE ~job[j].entry BY <2>1, <2>2, <2>4 DEF Follows
  <2> QED BY <2>3, <2>4
<1>4. job' \in [Jobs -> JobRecord]
  <2>1. \A j \in Jobs : job'[j] \in JobRecord BY <1>3 DEF Follows
  <2>2. job' = [j \in Jobs |-> IF job[j].entry THEN CancelledJob(job[j]) ELSE job[j]] BY DEF StopJobs
  <2> QED BY <2>1, <2>2
<1> DEFINE S == {j \in Jobs : job[j].node # "gone" /\ job'[j].node = "gone"}
<1>5. None \notin Jobs BY LifecycleAssumption DEF None
<1>6. dest' = LeaseFreed(S) BY DEF StopJobs
<1>7. /\ dest' \in [Dests -> DestRecord]
      /\ \A d \in Dests : /\ dest'[d].file = dest[d].file /\ dest'[d].other = dest[d].other
                          /\ dest'[d].slipped = dest[d].slipped
                          /\ dest'[d].lease = IF dest[d].lease \in S THEN None ELSE dest[d].lease
  <2> HIDE DEF S
  <2> QED BY <1>0, <1>6 DEF LeaseFreed, DestRecord
<1>8. Leases'
  <2>1. ASSUME NEW d \in Dests, NEW j \in Jobs
        PROVE  dest'[d].lease = j <=> job'[j].node \in Nodes /\ job'[j].dst = d
    <3>1. dest[d].lease = j <=> job[j].node \in Nodes /\ job[j].dst = d BY DEF LifecycleInv, Leases
    <3>2. job'[j].dst = job[j].dst BY <1>3 DEF Follows
    <3>3. dest'[d].lease = j <=> dest[d].lease = j /\ j \notin S BY <1>5, <1>7
    <3> QED BY <1>3, <3>1, <3>2, <3>3 DEF Nodes
  <2> QED BY <2>1 DEF Leases
<1>9. \A j \in Jobs : Follows(job[j], job'[j], Running') BY <1>2, <1>3
<1> QED BY <1>0, <1>1, <1>2, <1>4, <1>7, <1>8, <1>9, FollowsInv

\* The drain after the loop answers who is left and leaves the nodes.
LEMMA ExitInv == ASSUME LifecycleInv, Exit PROVE LifecycleInv'
<1>0. job \in [Jobs -> JobRecord] /\ dest \in [Dests -> DestRecord] /\ cancels \subseteq Jobs
  BY DEF LifecycleInv, LifecycleTypeOK
<1>1. /\ loop.pc = "last" /\ loop' = [loop EXCEPT !.pc = "ended"] /\ UNCHANGED <<dest, mail, cancels>>
      /\ job' = [j \in Jobs |-> Answered(job[j], "gone")]
  BY DEF Exit, At, Goto
<1>2. LoopType' /\ Running /\ Running' = FALSE BY <1>1 DEF LifecycleInv, LoopType, Running, At
<1>3. ASSUME NEW j \in Jobs
      PROVE  Follows(job[j], job'[j], FALSE) /\ job'[j].node = job[j].node
  <2>1. job'[j] = Answered(job[j], "gone") /\ job[j] \in JobRecord BY <1>0, <1>1
  <2>2. Sound(job[j], TRUE) BY <1>2 DEF LifecycleInv
  <2>3. CASE ~job[j].entry BY <2>1, <2>2, <2>3 DEF Answered, Follows, Sound, Known, Told, Workers
  <2>4. CASE job[j].entry
    <3> DEFINE r == job[j]
               r2 == job'[j]
    <3>1. r.answers = <<>> BY <2>2, <2>4 DEF Sound
    <3>2. /\ r2 \in JobRecord /\ ~r2.entry /\ Len(r2.answers) = 1
          /\ r2.lock = IF r.commit = "none" THEN None ELSE r.lock
          /\ r2.client = r.client /\ r2.dst = r.dst /\ r2.node = r.node
          /\ r2.tasks = r.tasks /\ r2.commit = r.commit
          /\ r2.old = r.old /\ r2.plans = r.plans /\ r2.early = r.early
      BY <2>1, <2>4, <3>1, AnsweredFields DEF Outcomes
    <3>3. Sound(r2, FALSE)
      <4>1. r.node \in Nodes /\ r2.node \in Nodes BY <2>2, <2>4, <3>2 DEF Sound
      <4>2. Len(r2.answers) <= 1 BY <3>2
      <4>3. Sound(r, TRUE) BY <2>2
      <4> HIDE DEF r, r2
      <4> QED BY <3>2, <4>1, <4>2, <4>3 DEF Sound, Known, Told, Workers, Untouched, Nodes
    <3> QED BY <3>2, <3>3 DEF Follows, AtWork
  <2> QED BY <2>3, <2>4
<1>4. job' \in [Jobs -> JobRecord]
  <2>1. \A j \in Jobs : job'[j] \in JobRecord BY <1>3 DEF Follows
  <2> QED BY <1>1, <2>1
<1>5. Leases'
  <2>1. \A j \in Jobs : job'[j].node = job[j].node /\ job'[j].dst = job[j].dst BY <1>3 DEF Follows
  <2> QED BY <1>1, <2>1 DEF LifecycleInv, Leases
<1>6. \A j \in Jobs : Follows(job[j], job'[j], Running') BY <1>2, <1>3
<1> QED BY <1>0, <1>1, <1>2, <1>4, <1>5, <1>6, FollowsInv

\* Dropping the runtime loses tasks and commits that have not begun.
LEMMA ShardsStopInv == ASSUME LifecycleInv, ShardsStop PROVE LifecycleInv'
<1>0. job \in [Jobs -> JobRecord] /\ dest \in [Dests -> DestRecord] /\ cancels \subseteq Jobs
  BY DEF LifecycleInv, LifecycleTypeOK
<1>1. loop' = [loop EXCEPT !.shards = FALSE] /\ UNCHANGED <<dest, mail, cancels>>
  BY DEF ShardsStop
<1>2. LoopType' /\ Running' = Running BY <1>1 DEF LifecycleInv, LoopType, Running, At
<1>3. ASSUME NEW j \in Jobs
      PROVE  Follows(job[j], job'[j], Running) /\ job'[j].node = job[j].node
  <2> DEFINE r == job[j]
             l == IF r.commit = "sent" THEN None ELSE r.lock
             c == IF r.commit = "sent" THEN "over" ELSE r.commit
             r2 == [r EXCEPT !.tasks = 0, !.old = 0, !.lock = l, !.commit = c]
  <2>1. r \in JobRecord /\ Sound(r, Running) BY <1>0 DEF LifecycleInv
  <2>2. job'[j] = r2 BY DEF ShardsStop
  <2>3. l \in Nat /\ c \in {"none", "unlocked", "renamed", "ok", "failed", "over"}
    BY <2>1 DEF JobRecord, None
  <2>4. 0 \in 0 .. MaxTasks BY LifecycleAssumption
  <2> HIDE DEF r, l, c
  <2>5. /\ r2 \in JobRecord /\ r2.entry = r.entry /\ r2.answers = r.answers
        /\ r2.ctx = r.ctx /\ r2.commit = c /\ r2.lock = l
        /\ r2.node = r.node /\ r2.client = r.client /\ r2.dst = r.dst /\ r2.tasks = 0
        /\ r2.old = 0 /\ r2.plans = r.plans /\ r2.early = r.early
    <3> DEFINE r0 == [r EXCEPT !.tasks = 0, !.old = 0]
               r1 == [r0 EXCEPT !.lock = l]
    <3>a. r0 \in JobRecord BY <2>1, <2>4 DEF JobRecord
    <3>b. r1 \in JobRecord
      <4> HIDE DEF r0
      <4> QED BY <3>a, <2>3 DEF JobRecord
    <3>c. [r1 EXCEPT !.commit = c] \in JobRecord
      <4> HIDE DEF r1
      <4> QED BY <3>b, <2>3 DEF JobRecord
    <3>1. r2 \in JobRecord BY <3>c, <2>1 DEF JobRecord
    <3>2. /\ r2.entry = r.entry /\ r2.answers = r.answers /\ r2.ctx = r.ctx
          /\ r2.node = r.node /\ r2.client = r.client /\ r2.dst = r.dst
          /\ r2.plans = r.plans /\ r2.early = r.early
      BY <2>1 DEF JobRecord
    <3>3. r2.commit = c /\ r2.lock = l /\ r2.tasks = 0 /\ r2.old = 0 BY <2>1 DEF JobRecord
    <3> QED BY <3>1, <3>2, <3>3
  <2> HIDE DEF r2
  <2>6. Sound(r2, Running)
    <3>1. r.tasks \in 0 .. MaxTasks /\ r.old \in 0 .. MaxTasks BY <2>1 DEF JobRecord
    <3>2. Told(r2) BY <2>5 DEF Told, Workers
    <3>3. Known(r) => Known(r2) BY <2>5, <3>1, LifecycleAssumption DEF Known, Workers, c
    <3>4. r.node = "none" => Untouched(r2) BY <2>1, <2>5 DEF Sound, Untouched, l, c
    <3>5. r2.lock # None => r2.dst # None /\ (r2.commit = "sent" \/ (r2.entry /\ r2.commit = "none"))
      BY <2>1, <2>5 DEF Sound, l, c
    <3>6. r2.entry /\ r2.dst # None /\ r2.commit = "none" => r2.lock # None
      BY <2>1, <2>5 DEF Sound, l, c
    <3>7. r2.commit \in {"sent", "unlocked", "renamed"} => r2.dst # None BY <2>1, <2>5 DEF Sound, c
    <3>8. r2.node = "transferring" => r2.plans # "none" /\ (r2.plans = "sole" => r2.commit = "none")
      BY <2>1, <2>5 DEF Sound, c
    <3> QED BY <2>1, <2>5, <3>2, <3>3, <3>4, <3>5, <3>6, <3>7, <3>8 DEF Sound
  <2>7. Follows(r, r2, Running) BY <2>5, <2>6 DEF Follows, AtWork, l, c
  <2> QED BY <2>2, <2>5, <2>7 DEF r
<1>4. job' \in [Jobs -> JobRecord]
  <2>1. \A j \in Jobs : job'[j] \in JobRecord BY <1>3 DEF Follows
  <2> QED BY <2>1 DEF ShardsStop
<1>5. Leases'
  <2>1. \A j \in Jobs : job'[j].node = job[j].node /\ job'[j].dst = job[j].dst BY <1>3 DEF Follows
  <2> QED BY <1>1, <2>1 DEF LifecycleInv, Leases
<1>6. \A j \in Jobs : Follows(job[j], job'[j], Running') BY <1>2, <1>3
<1> QED BY <1>0, <1>1, <1>2, <1>4, <1>5, <1>6, FollowsInv

\* The lock file that a commit removes is not held: nobody else opened it.
LEMMA RemoveLockInv == ASSUME LifecycleInv, NEW j \in Jobs, RemoveLock(j) PROVE LifecycleInv'
<1> DEFINE e == job[j].dst
           r == [job[j] EXCEPT !.commit = "ok"]
<1>0. job \in [Jobs -> JobRecord] /\ dest \in [Dests -> DestRecord] /\ cancels \subseteq Jobs
  BY DEF LifecycleInv, LifecycleTypeOK
<1>1. job[j] \in JobRecord /\ Sound(job[j], Running) /\ job[j].commit = "renamed"
  BY DEF LifecycleInv, LifecycleTypeOK, RemoveLock
<1>2. e \in Dests /\ job[j].lock = None BY <1>1 DEF Sound, Known, Told, Workers, JobRecord
<1>3. /\ r \in JobRecord /\ r.entry = job[j].entry /\ r.answers = job[j].answers
      /\ r.ctx = job[j].ctx /\ r.commit = "ok" /\ r.lock = None /\ r.node = job[j].node
      /\ r.client = job[j].client /\ r.dst = job[j].dst /\ r.tasks = job[j].tasks
      /\ r.old = job[j].old /\ r.plans = job[j].plans /\ r.early = job[j].early
  BY <1>1, <1>2 DEF JobRecord
<1>4. /\ job' = [job EXCEPT ![j] = r] /\ dest' = [dest EXCEPT ![e].file = None]
      /\ UNCHANGED <<mail, cancels, loop>>
  BY DEF RemoveLock
<1> HIDE DEF r
<1>5. Sound(r, Running) BY <1>1, <1>3 DEF Sound, Known, Told, Workers, Untouched, Nodes
<1>6. LifecycleTypeOK' BY <1>0, <1>2, <1>3, <1>4 DEF LifecycleInv, LifecycleTypeOK, DestRecord, None
<1>7. \A k \in Jobs : /\ job'[k].client = job[k].client /\ job'[k].node = job[k].node
                      /\ job'[k].dst = job[k].dst /\ job'[k].lock = job[k].lock
                      /\ k # j => job'[k] = job[k]
  BY <1>0, <1>2, <1>3, <1>4
<1>8. MailOnce'
  <2>1. \A i \in DOMAIN mail : mail[i] # Shutdown => mail[i] \in Jobs
    BY DEF LifecycleInv, LifecycleTypeOK
  <2> QED BY <1>4, <1>7, <2>1 DEF LifecycleInv, MailOnce
<1>9. \A d \in Dests : /\ dest'[d].lease = dest[d].lease /\ dest'[d].other = dest[d].other
                       /\ dest'[d].slipped = dest[d].slipped
                       /\ d # e => dest'[d] = dest[d]
  BY <1>0, <1>4 DEF DestRecord
<1>10. Leases' BY <1>7, <1>9 DEF LifecycleInv, Leases
<1>11. \A k \in Jobs : Sound(job'[k], Running')
  <2>1. Running' = Running /\ job'[j] = r BY <1>0, <1>4 DEF Running, At
  <2> QED BY <1>5, <1>7, <2>1 DEF LifecycleInv
<1>12. ASSUME NEW d \in Dests PROVE Alone(d)'
  <2>1. OnPart(d)' \subseteq OnPart(d)
    BY <1>0, <1>3, <1>4, <1>7 DEF OnPart, Committing
  <2>2. CASE d # e BY <1>7, <1>9, <2>1, <2>2 DEF LifecycleInv, Alone
  <2>3. CASE d = e
    <3>1. SUFFICES ASSUME ~dest[d].slipped
                   PROVE  /\ \A k, l \in OnPart(d) : k = l
                          /\ dest[d].other = None
                          /\ \A k \in Jobs : job[k].dst = d => job[k].lock = None
      BY <1>7, <1>9, <2>1 DEF Alone
    <3>2. j \in OnPart(d) BY <1>1, <2>3 DEF OnPart, Committing
    <3>3. \A k \in Jobs : job[k].dst = d /\ job[k].lock # None => k = j
      BY <3>1, <3>2 DEF LifecycleInv, Alone, OnPart
    <3> QED BY <1>2, <3>1, <3>2, <3>3 DEF LifecycleInv, Alone
  <2> QED BY <2>2, <2>3
<1>13. LoopType' BY <1>4 DEF LifecycleInv, LoopType
<1> QED BY <1>6, <1>8, <1>10, <1>11, <1>12, <1>13 DEF LifecycleInv

\* Append keeps the submissions distinct.
LEMMA ShutdownCallInv == ASSUME LifecycleInv, ShutdownCall PROVE LifecycleInv'
<1>1. /\ mail \in Seq(Jobs \cup {Shutdown}) /\ mail' = Append(mail, Shutdown)
      /\ loop' = [loop EXCEPT !.called = TRUE] /\ UNCHANGED <<job, dest, cancels>>
  BY DEF ShutdownCall, LifecycleInv, LifecycleTypeOK
<1>2. LoopType' /\ Running' = Running BY <1>1 DEF LifecycleInv, LoopType, Running, At
<1>3. /\ mail' \in Seq(Jobs \cup {Shutdown}) /\ DOMAIN mail = 1 .. Len(mail)
      /\ DOMAIN mail' = 1 .. Len(mail) + 1 /\ Len(mail) \in Nat
      /\ \A i \in 1 .. Len(mail) : mail'[i] = mail[i]
      /\ mail'[Len(mail) + 1] = Shutdown
  BY <1>1
<1>4. LifecycleTypeOK' BY <1>1, <1>3 DEF LifecycleInv, LifecycleTypeOK
<1>5. MailOnce' 
  <2>1. \A i \in DOMAIN mail' : mail'[i] # Shutdown => i \in DOMAIN mail /\ mail'[i] = mail[i] BY <1>3
  <2> QED BY <1>1, <2>1 DEF LifecycleInv, MailOnce
<1>6. Leases' /\ \A d \in Dests : Alone(d)'
  BY <1>1 DEF LifecycleInv, Leases, Alone, OnPart, Committing
<1>7. \A j \in Jobs : Sound(job[j], Running)' BY <1>1, <1>2 DEF LifecycleInv
<1> QED BY <1>2, <1>4, <1>5, <1>6, <1>7 DEF LifecycleInv

\* A submission that is taken is new to the mailbox and to the controller.
LEMMA SubmitInv ==
  ASSUME LifecycleInv, NEW j \in Jobs, NEW d \in Dests \cup {None}, Submit(j, d)
  PROVE  LifecycleInv'
<1>0. job \in [Jobs -> JobRecord] /\ mail \in Seq(Jobs \cup {Shutdown}) /\ j # Shutdown
  BY LifecycleAssumption DEF LifecycleInv, LifecycleTypeOK, Shutdown
<1>1. UNCHANGED <<dest, cancels, loop>> /\ job[j].client = "idle" BY DEF Submit
<1>2. LoopType' /\ Running' = Running BY <1>1 DEF LifecycleInv, LoopType, Running, At
<1>3. job[j] \in JobRecord /\ Sound(job[j], Running) BY <1>0 DEF LifecycleInv
<1>4. job[j].node = "none" /\ Untouched(job[j]) BY <1>1, <1>3 DEF Sound
<1>5. \A i \in DOMAIN mail : mail[i] # j BY <1>0, <1>1 DEF LifecycleInv, MailOnce
<1>6. ASSUME NEW r \in JobRecord, job' = [job EXCEPT ![j] = r], r.client # "waiting",
             r.node = "none", Untouched(r)
      PROVE  /\ job' \in [Jobs -> JobRecord] /\ Leases'
             /\ \A k \in Jobs : Sound(job'[k], Running')
             /\ \A e \in Dests : Alone(e)'
  <2>1. job' \in [Jobs -> JobRecord] BY <1>0, <1>6
  <2>2. job'[j] = r /\ \A k \in Jobs : k # j => job'[k] = job[k] BY <1>0, <1>6
  <2>3. Leases' BY <1>1, <1>4, <1>6, <2>2 DEF LifecycleInv, Leases, Nodes
  <2>4. Len(r.answers) <= 1 BY <1>6 DEF Untouched
  <2>5. Sound(r, Running) BY <1>6, <2>4 DEF Sound, Known, Told, Workers, Untouched, Nodes
  <2>6. \A k \in Jobs : Sound(job'[k], Running') BY <1>2, <2>2, <2>5 DEF LifecycleInv
  <2>7. ASSUME NEW e \in Dests PROVE Alone(e)'
    <3>1. OnPart(e)' \subseteq OnPart(e) /\ OnPart(e) \subseteq Jobs
      BY <1>6, <2>2 DEF OnPart, Committing, Untouched
    <3> QED BY <1>1, <1>6, <2>2, <3>1 DEF LifecycleInv, Alone, Untouched
  <2> QED BY <2>1, <2>3, <2>6, <2>7
<1>7. CASE loop.pc = "ended" \/ Len(mail) >= MaxMail
  <2> DEFINE r == [job[j] EXCEPT !.client = "refused"]
  <2>1. job' = [job EXCEPT ![j] = r] /\ mail' = mail BY <1>7 DEF Submit
  <2>2. /\ r \in JobRecord /\ r.client = "refused" /\ r.node = job[j].node /\ r.entry = job[j].entry
        /\ r.ctx = job[j].ctx /\ r.tasks = job[j].tasks /\ r.commit = job[j].commit
        /\ r.old = job[j].old /\ r.plans = job[j].plans /\ r.early = job[j].early
        /\ r.lock = job[j].lock /\ r.answers = job[j].answers
    BY <1>3 DEF JobRecord
  <2>3. Untouched(r) BY <1>4, <2>2 DEF Untouched
  <2> HIDE DEF r
  <2>4. \A k \in Jobs : k # j => job'[k] = job[k] BY <1>0, <2>1
  <2>5. MailOnce'
    <3>1. \A i \in DOMAIN mail : mail[i] # Shutdown => mail[i] \in Jobs /\ mail[i] # j BY <1>0, <1>5
    <3> QED BY <2>1, <2>4, <3>1 DEF LifecycleInv, MailOnce
  <2>6. /\ job' \in [Jobs -> JobRecord] /\ Leases'
        /\ \A k \in Jobs : Sound(job'[k], Running')
        /\ \A e \in Dests : Alone(e)'
    BY <1>4, <1>6, <2>1, <2>2, <2>3
  <2> QED BY <1>1, <1>2, <2>1, <2>5, <2>6 DEF LifecycleInv, LifecycleTypeOK
<1>8. CASE ~(loop.pc = "ended" \/ Len(mail) >= MaxMail)
  <2> DEFINE r == [job[j] EXCEPT !.client = "submitted", !.dst = d]
  <2>1. job' = [job EXCEPT ![j] = r] /\ mail' = Append(mail, j) BY <1>0, <1>8 DEF Submit
  <2>2. /\ r \in JobRecord /\ r.client = "submitted" /\ r.node = job[j].node /\ r.entry = job[j].entry
        /\ r.ctx = job[j].ctx /\ r.tasks = job[j].tasks /\ r.commit = job[j].commit
        /\ r.old = job[j].old /\ r.plans = job[j].plans /\ r.early = job[j].early
        /\ r.lock = job[j].lock /\ r.answers = job[j].answers
    BY <1>3 DEF JobRecord
  <2>3. Untouched(r) BY <1>4, <2>2 DEF Untouched
  <2> HIDE DEF r
  <2>4. job'[j] = r /\ \A k \in Jobs : k # j => job'[k] = job[k] BY <1>0, <2>1
  <2>5. /\ mail' \in Seq(Jobs \cup {Shutdown}) /\ DOMAIN mail = 1 .. Len(mail)
        /\ DOMAIN mail' = 1 .. Len(mail) + 1 /\ Len(mail) \in Nat
        /\ \A i \in 1 .. Len(mail) : mail'[i] = mail[i]
        /\ mail'[Len(mail) + 1] = j
    BY <1>0, <2>1
  <2>6. MailOnce'
    <3>1. \A i \in DOMAIN mail : mail[i] # Shutdown => mail[i] \in Jobs /\ mail[i] # j BY <1>0, <1>5
    <3>2. \A i \in DOMAIN mail' : \/ i \in DOMAIN mail /\ mail'[i] = mail[i]
                                  \/ i = Len(mail) + 1 /\ mail'[i] = j
      BY <2>5
    <3> QED BY <2>2, <2>4, <3>1, <3>2 DEF LifecycleInv, MailOnce
  <2>7. /\ job' \in [Jobs -> JobRecord] /\ Leases'
        /\ \A k \in Jobs : Sound(job'[k], Running')
        /\ \A e \in Dests : Alone(e)'
    BY <1>4, <1>6, <2>1, <2>2, <2>3
  <2> QED BY <1>1, <1>2, <2>5, <2>6, <2>7 DEF LifecycleInv, LifecycleTypeOK
<1> QED BY <1>7, <1>8

\* Who gets the lock of a destination that nobody opened during a commit is
\* alone with its .part.
LEMMA OpenedAlone ==
  ASSUME LifecycleInv, NEW d \in Dests, ~dest[d].slipped, Inode(d) \notin Held(d),
         \A j \in Jobs : job[j].dst = d => ~Committing(j)
  PROVE  /\ dest[d].other = None /\ OnPart(d) = {}
         /\ \A j \in Jobs : job[j].dst = d => job[j].lock = None
<1>1. dest[d].file # None => Inode(d) = dest[d].file BY InodeType DEF LifecycleInv
<1>2. dest[d].other = None BY <1>1 DEF LifecycleInv, Alone, Held
<1>3. ASSUME NEW j \in Jobs, job[j].dst = d, job[j].lock # None PROVE FALSE
  <2>1. job[j].lock = dest[d].file BY <1>3 DEF LifecycleInv, Alone
  <2>2. job[j].lock \in Held(d) BY <1>3 DEF Held
  <2> QED BY <1>1, <1>3, <2>1, <2>2
<1> QED BY <1>2, <1>3 DEF OnPart

\* Another process that gets the lock is alone, or has slipped in during a commit.
LEMMA OtherOpensInv == ASSUME LifecycleInv, NEW d \in Dests, OtherOpens(d) PROVE LifecycleInv'
<1> DEFINE n == Inode(d)
           s == dest[d].slipped \/ \E j \in Jobs : job[j].dst = d /\ Committing(j)
           r == [dest[d] EXCEPT !.file = n, !.slipped = s, !.other = n]
<1>0. job \in [Jobs -> JobRecord] /\ dest \in [Dests -> DestRecord] BY DEF LifecycleInv, LifecycleTypeOK
<1>1. n \in Nat /\ s \in BOOLEAN
  <2>1. dest[d].slipped \in BOOLEAN BY <1>0 DEF DestRecord
  <2> QED BY <2>1, InodeType DEF LifecycleInv
<1>2. dest' = [[dest EXCEPT ![d].file = n, ![d].slipped = s] EXCEPT ![d].other = n]
  BY <1>0 DEF OtherOpens, Opened
<1>3. UNCHANGED <<job, mail, cancels, loop>> /\ n \notin Held(d) BY DEF OtherOpens
<1>4. s = FALSE => ~dest[d].slipped /\ \A j \in Jobs : job[j].dst = d => ~Committing(j) OBVIOUS
<1> HIDE DEF n, s
<1>5. dest' = [dest EXCEPT ![d] = r] BY <1>0, <1>2
<1>6. r \in DestRecord /\ r.lease = dest[d].lease /\ r.file = n /\ r.other = n /\ r.slipped = s
  BY <1>0, <1>1 DEF DestRecord
<1> HIDE DEF r
<1>7. dest' \in [Dests -> DestRecord] /\ dest'[d] = r /\ \A e \in Dests : e # d => dest'[e] = dest[e]
  BY <1>0, <1>5, <1>6
<1>8. LifecycleTypeOK' /\ LoopType' BY <1>3, <1>7 DEF LifecycleInv, LifecycleTypeOK, LoopType
<1>9. MailOnce' /\ \A j \in Jobs : Sound(job[j], Running)'
  BY <1>3 DEF LifecycleInv, MailOnce, Running, At
<1>10. Leases' BY <1>3, <1>6, <1>7 DEF LifecycleInv, Leases
<1>11. ASSUME NEW e \in Dests PROVE Alone(e)'
  <2>1. OnPart(e)' = OnPart(e) BY <1>3 DEF OnPart, Committing
  <2>2. CASE e # d BY <1>3, <1>7, <2>1, <2>2 DEF LifecycleInv, Alone
  <2>3. CASE e = d
    <3>1. SUFFICES ASSUME ~s
                   PROVE  OnPart(d) = {} /\ \A j \in Jobs : job[j].dst = d => job[j].lock = None
      BY <1>3, <1>6, <1>7, <2>1, <2>3 DEF Alone
    <3>2. ~dest[d].slipped /\ \A j \in Jobs : job[j].dst = d => ~Committing(j) BY <1>1, <1>4, <3>1
    <3> QED BY <1>3, <3>2, OpenedAlone DEF n
  <2> QED BY <2>2, <2>3
<1> QED BY <1>8, <1>9, <1>10, <1>11 DEF LifecycleInv

\* The other process is done with the destination.
LEMMA OtherClosesInv == ASSUME LifecycleInv, NEW d \in Dests, OtherCloses(d) PROVE LifecycleInv'
<1>0. dest \in [Dests -> DestRecord] BY DEF LifecycleInv, LifecycleTypeOK
<1>1. dest' = [dest EXCEPT ![d].other = None] /\ UNCHANGED <<job, mail, cancels, loop>> BY DEF OtherCloses
<1>2. dest' \in [Dests -> DestRecord] BY <1>0, <1>1 DEF DestRecord, None
<1>3. \A e \in Dests : /\ dest'[e].lease = dest[e].lease /\ dest'[e].file = dest[e].file
                       /\ dest'[e].slipped = dest[e].slipped
                       /\ dest'[e].other \in {None, dest[e].other}
  BY <1>0, <1>1 DEF DestRecord
<1>4. LifecycleTypeOK' /\ LoopType' BY <1>1, <1>2 DEF LifecycleInv, LifecycleTypeOK, LoopType
<1>5. MailOnce' /\ \A j \in Jobs : Sound(job[j], Running)'
  BY <1>1 DEF LifecycleInv, MailOnce, Running, At
<1>6. Leases' BY <1>1, <1>3 DEF LifecycleInv, Leases
<1>7. ASSUME NEW e \in Dests PROVE Alone(e)'
  <2>1. OnPart(e)' = OnPart(e) BY <1>1 DEF OnPart, Committing
  <2> QED BY <1>1, <1>3, <2>1 DEF LifecycleInv, Alone
<1> QED BY <1>4, <1>5, <1>6, <1>7 DEF LifecycleInv

\* A command leaves the mailbox.
LEMMA TailOnce ==
  ASSUME LifecycleInv, mail # <<>>
  PROVE  /\ Tail(mail) \in Seq(Jobs \cup {Shutdown}) /\ Head(mail) \in Jobs \cup {Shutdown}
         /\ Head(mail) # Shutdown => job[Head(mail)].client = "submitted"
         /\ \A i \in DOMAIN Tail(mail) : i + 1 \in DOMAIN mail /\ Tail(mail)[i] = mail[i + 1]
         /\ \A i \in DOMAIN Tail(mail) : Tail(mail)[i] # Shutdown => Tail(mail)[i] # Head(mail)
<1>1. mail \in Seq(Jobs \cup {Shutdown}) BY DEF LifecycleInv, LifecycleTypeOK
<1>2. /\ Tail(mail) \in Seq(Jobs \cup {Shutdown}) /\ Head(mail) \in Jobs \cup {Shutdown}
      /\ Len(mail) \in Nat /\ DOMAIN mail = 1 .. Len(mail) /\ Len(mail) >= 1
      /\ Head(mail) = mail[1] /\ 1 \in DOMAIN mail
      /\ DOMAIN Tail(mail) = 1 .. Len(mail) - 1
  BY <1>1
<1>3. \A i \in DOMAIN Tail(mail) : /\ i + 1 \in DOMAIN mail /\ i + 1 # 1
                                   /\ Tail(mail)[i] = mail[i + 1]
  BY <1>1, <1>2
<1> QED BY <1>2, <1>3 DEF LifecycleInv, MailOnce

\* A submission is admitted with the lease and the lock, or refused with neither.
LEMMA AdmitInv ==
  ASSUME LifecycleInv, Running, NEW j \in Jobs, mail # <<>>, Head(mail) = j, mail' = Tail(mail),
         Admit(j), UNCHANGED <<cancels, loop>>
  PROVE  LifecycleInv'
<1>0. job \in [Jobs -> JobRecord] /\ dest \in [Dests -> DestRecord] /\ j # None
  BY LifecycleAssumption DEF LifecycleInv, LifecycleTypeOK, None
<1>1. job[j].client = "submitted" /\ mail' \in Seq(Jobs \cup {Shutdown})
  BY <1>0, TailOnce DEF Shutdown, None
<1>2. job[j] \in JobRecord /\ Sound(job[j], TRUE) BY <1>0 DEF LifecycleInv
<1>3. job[j].node = "none" /\ Untouched(job[j]) BY <1>1, <1>2 DEF Sound
<1>4. PICK d \in Dests \cup {None} : job[j].dst = d BY <1>2 DEF JobRecord
<1> DEFINE n == Inode(d)
           s == dest[d].slipped \/ \E k \in Jobs : job[k].dst = d /\ Committing(k)
<1>5. d # None => n \in Nat \ {None} BY <1>4, InodeType DEF LifecycleInv
<1>6. Running' = TRUE /\ LoopType' BY DEF Running, At, LifecycleInv, LoopType
<1>7. ASSUME NEW r \in JobRecord, job' = [job EXCEPT ![j] = r]
      PROVE  /\ job' \in [Jobs -> JobRecord] /\ job'[j] = r /\ \A k \in Jobs : k # j => job'[k] = job[k]
             /\ MailOnce'
  <2>1. job'[j] = r /\ \A k \in Jobs : k # j => job'[k] = job[k] BY <1>0, <1>7
  <2>2. \A i \in DOMAIN mail' : /\ mail'[i] # Shutdown => mail'[i] \in Jobs /\ mail'[i] # j
                                /\ i + 1 \in DOMAIN mail /\ mail'[i] = mail[i + 1]
    BY <1>1, TailOnce
  <2>3. \A i \in DOMAIN mail' : i \in Nat BY <1>1
  <2>4. \A i, k \in DOMAIN mail' : mail'[i] = mail'[k] /\ mail'[i] # Shutdown => i = k
    <3>1. \A i, k \in DOMAIN mail' : mail'[i] = mail'[k] /\ mail'[i] # Shutdown => i + 1 = k + 1
      BY <2>2 DEF LifecycleInv, MailOnce
    <3> QED BY <2>3, <3>1
  <2>5. \A i \in DOMAIN mail' : mail'[i] # Shutdown => job'[mail'[i]].client = "submitted"
    BY <2>1, <2>2 DEF LifecycleInv, MailOnce
  <2> QED BY <1>0, <1>7, <2>1, <2>4, <2>5 DEF MailOnce
<1>8. CASE (d = None \/ Inode(d) \notin Held(d)) /\ Room(j)
  <2>0. PICK l \in Nat : l = IF d = None THEN None ELSE n BY <1>5 DEF None
  <2> DEFINE r == [job[j] EXCEPT !.client = "waiting", !.node = "probing", !.entry = TRUE, !.lock = l]
             q == [dest[d] EXCEPT !.file = n, !.slipped = s, !.lease = j]
  <2>1. /\ job' = [job EXCEPT ![j].client = "waiting", ![j].node = "probing", ![j].entry = TRUE, ![j].lock = l]
        /\ dest' = IF d = None THEN dest ELSE [Opened(d) EXCEPT ![d].lease = j]
    BY <1>4, <1>8, <2>0 DEF Admit
  <2>2. job' = [job EXCEPT ![j] = r] BY <1>0, <2>1
  <2>3. d = None <=> l = None BY <1>5, <2>0
  <2>4. /\ r \in JobRecord /\ r.client = "waiting" /\ r.node = "probing" /\ r.entry = TRUE
        /\ r.ctx = job[j].ctx /\ r.tasks = job[j].tasks /\ r.commit = job[j].commit
        /\ r.old = job[j].old /\ r.plans = job[j].plans /\ r.early = job[j].early
        /\ r.lock = l /\ r.answers = job[j].answers /\ r.dst = job[j].dst
    <3>1. r \in JobRecord
      <4> DEFINE r1 == [job[j] EXCEPT !.client = "waiting", !.node = "probing"]
      <4>1. PICK r0 \in JobRecord : r0 = job[j] BY <1>2
      <4>2. [r0 EXCEPT !.client = "waiting", !.node = "probing"] \in JobRecord
        BY DEF JobRecord, Nodes
      <4>3. r1 \in JobRecord BY <4>1, <4>2
      <4>4. r = [r1 EXCEPT !.entry = TRUE, !.lock = l] BY <1>2 DEF JobRecord
      <4> HIDE DEF r, r1
      <4> QED BY <4>3, <4>4 DEF JobRecord
    <3> QED BY <1>2, <3>1 DEF JobRecord
  <2> HIDE DEF r
  <2>5. Sound(r, TRUE)
    <3>1. Len(r.answers) <= 1 BY <1>3, <2>4 DEF Untouched
    <3>2. Known(r)
      <4>1. r.tasks = 0 /\ r.old = 0 /\ r.plans = "none" /\ r.commit = "none" /\ ~r.early
        BY <1>3, <2>4 DEF Untouched
      <4> QED BY <4>1, LifecycleAssumption DEF Known, Workers
    <3>3. Told(r) BY <2>4 DEF Told
    <3> QED BY <1>3, <1>4, <2>3, <2>4, <3>1, <3>2, <3>3 DEF Sound, Untouched, Nodes
  <2>6. /\ job' \in [Jobs -> JobRecord] /\ job'[j] = r /\ \A k \in Jobs : k # j => job'[k] = job[k]
        /\ MailOnce'
    BY <1>7, <2>2, <2>4
  <2>7. \A k \in Jobs : Sound(job'[k], Running') BY <1>6, <2>5, <2>6 DEF LifecycleInv
  <2>8. \A k \in Jobs : k # j => (Committing(k)' = Committing(k)) BY <2>6 DEF Committing
  <2>9. job[j].lock = None /\ ~Committing(j) /\ ~Committing(j)'
    BY <1>3, <2>4, <2>6 DEF Untouched, Committing
  <2>10. \A e \in Dests : e # d => OnPart(e)' = OnPart(e)
    BY <1>4, <2>4, <2>6, <2>8 DEF OnPart
  <2>11. CASE d = None
    <3>1. dest' = dest BY <2>1, <2>11
    <3>2. LifecycleTypeOK' BY <1>1, <2>6, <3>1 DEF LifecycleInv, LifecycleTypeOK
    <3>3. d \notin Dests BY <2>11, LifecycleAssumption DEF None
    <3>4. Leases' BY <1>3, <1>4, <2>4, <2>6, <3>1, <3>3 DEF LifecycleInv, Leases, Nodes
    <3>5. \A e \in Dests : Alone(e)' BY <1>4, <2>4, <2>6, <2>10, <3>1, <3>3 DEF LifecycleInv, Alone
    <3> QED BY <1>6, <2>6, <2>7, <3>2, <3>4, <3>5 DEF LifecycleInv
  <2>12. CASE d # None
    <3>0. d \in Dests BY <1>4, <2>12
    <3>1. dest' = [[dest EXCEPT ![d].file = n, ![d].slipped = s] EXCEPT ![d].lease = j]
      BY <1>0, <2>1, <2>12, <3>0 DEF Opened
    <3>2. s \in BOOLEAN BY <1>0, <3>0 DEF DestRecord
    <3>3. ~s => ~dest[d].slipped /\ \A k \in Jobs : job[k].dst = d => ~Committing(k) OBVIOUS
    <3>4. n \in Nat \ {None} /\ l = n BY <1>5, <2>0, <2>12
    <3>5. dest[d].lease = None BY <1>4, <1>8, <2>12 DEF Room
    <3>6. ~s => OnPart(d) = {} /\ dest[d].other = None /\ \A k \in Jobs : job[k].dst = d => job[k].lock = None
      BY <1>8, <2>12, <3>0, <3>3, OpenedAlone
    <3> HIDE DEF n, s
    <3>7. dest' = [dest EXCEPT ![d] = q] BY <1>0, <3>0, <3>1
    <3>8. q \in DestRecord /\ q.lease = j /\ q.file = n /\ q.other = dest[d].other /\ q.slipped = s
      BY <1>0, <3>0, <3>2, <3>4 DEF DestRecord
    <3> HIDE DEF q
    <3>9. dest' \in [Dests -> DestRecord] /\ dest'[d] = q /\ \A e \in Dests : e # d => dest'[e] = dest[e]
      BY <1>0, <3>0, <3>7, <3>8
    <3>10. LifecycleTypeOK' BY <1>1, <2>6, <3>9 DEF LifecycleInv, LifecycleTypeOK
    <3>11. Leases'
      <4>1. \A e \in Dests : dest[e].lease # j BY <1>3 DEF LifecycleInv, Leases, Nodes
      <4>2. \A k \in Jobs : ~(job[k].node \in Nodes /\ job[k].dst = d)
        BY <3>0, <3>5, LifecycleAssumption DEF LifecycleInv, Leases, None
      <4>3. \A k \in Jobs : dest'[d].lease = k <=> job'[k].node \in Nodes /\ job'[k].dst = d
        BY <1>4, <2>4, <2>6, <3>8, <3>9, <4>2 DEF Nodes
      <4>4. \A e \in Dests, k \in Jobs :
              e # d => (dest'[e].lease = k <=> job'[k].node \in Nodes /\ job'[k].dst = e)
        BY <1>4, <2>4, <2>6, <3>9, <4>1 DEF LifecycleInv, Leases
      <4> QED BY <4>3, <4>4 DEF Leases
    <3>12. ASSUME NEW e \in Dests PROVE Alone(e)'
      <4>1. CASE e # d BY <1>4, <2>4, <2>6, <2>10, <3>9, <4>1 DEF LifecycleInv, Alone
      <4>2. CASE e = d
        <5>1. SUFFICES ASSUME ~s PROVE Alone(d)' BY <3>2, <3>8, <3>9, <4>2 DEF Alone
        <5>2. OnPart(d)' = {j} BY <1>4, <2>4, <2>6, <2>8, <2>9, <3>4, <3>6, <5>1 DEF OnPart
        <5>3. \A k \in Jobs : job'[k].dst = d /\ job'[k].lock # None => job'[k].lock = n
          BY <1>4, <2>4, <2>6, <3>4, <3>6, <5>1
        <5>4. \A k, l2 \in OnPart(d)' : k = l2 BY <5>2
        <5>5. dest'[d].other = None /\ dest'[d].file = n BY <3>6, <3>8, <3>9, <5>1
        <5> QED BY <5>3, <5>4, <5>5 DEF Alone
      <4> QED BY <4>1, <4>2
    <3> QED BY <1>6, <2>6, <2>7, <3>10, <3>11, <3>12 DEF LifecycleInv
  <2> QED BY <2>11, <2>12
<1>9. CASE ~((d = None \/ Inode(d) \notin Held(d)) /\ Room(j))
  <2> DEFINE r == [job[j] EXCEPT !.client = "refused"]
  <2>1. /\ job' = [job EXCEPT ![j] = r]
        /\ dest' = IF d = None THEN dest ELSE [dest EXCEPT ![d].file = n]
    BY <1>4, <1>9 DEF Admit
  <2>2. /\ r \in JobRecord /\ r.client = "refused" /\ r.node = job[j].node /\ r.entry = job[j].entry
        /\ r.ctx = job[j].ctx /\ r.tasks = job[j].tasks /\ r.commit = job[j].commit
        /\ r.old = job[j].old /\ r.plans = job[j].plans /\ r.early = job[j].early
        /\ r.lock = job[j].lock /\ r.answers = job[j].answers /\ r.dst = job[j].dst
    <3>1. PICK r0 \in JobRecord : r0 = job[j] BY <1>2
    <3>2. [r0 EXCEPT !.client = "refused"] \in JobRecord BY DEF JobRecord
    <3>3. r \in JobRecord BY <3>1, <3>2
    <3> QED BY <1>2, <3>3 DEF JobRecord
  <2> HIDE DEF r
  <2>3. Sound(r, TRUE)
    <3>1. Len(r.answers) <= 1 BY <1>3, <2>2 DEF Untouched
    <3> QED BY <1>3, <2>2, <3>1 DEF Sound, Known, Told, Workers, Untouched, Nodes
  <2>4. /\ job' \in [Jobs -> JobRecord] /\ job'[j] = r /\ \A k \in Jobs : k # j => job'[k] = job[k]
        /\ MailOnce'
    BY <1>7, <2>1, <2>2
  <2>5. \A k \in Jobs : Sound(job'[k], Running') BY <1>6, <2>3, <2>4 DEF LifecycleInv
  <2>6. \A k \in Jobs : /\ job'[k].dst = job[k].dst /\ job'[k].node = job[k].node
                        /\ job'[k].lock = job[k].lock /\ job'[k].commit = job[k].commit
    BY <2>2, <2>4
  <2>7. \A e \in Dests : OnPart(e)' = OnPart(e) BY <2>6 DEF OnPart, Committing
  <2>8. /\ dest' \in [Dests -> DestRecord]
        /\ \A e \in Dests : /\ dest'[e].lease = dest[e].lease /\ dest'[e].other = dest[e].other
                            /\ dest'[e].slipped = dest[e].slipped
                            /\ dest'[e].file = IF e = d /\ d # None THEN n ELSE dest[e].file
    <3> HIDE DEF n
    <3> QED BY <1>0, <1>5, <2>1 DEF DestRecord
  <2>9. \A e \in Dests : dest[e].file # None => dest'[e].file = dest[e].file
    BY <1>4, <2>8, InodeType DEF LifecycleInv
  <2>10. LifecycleTypeOK' BY <1>1, <2>4, <2>8 DEF LifecycleInv, LifecycleTypeOK
  <2>11. Leases' BY <2>6, <2>8 DEF LifecycleInv, Leases
  <2>12. \A e \in Dests : Alone(e)' BY <2>6, <2>7, <2>8, <2>9 DEF LifecycleInv, Alone
  <2> QED BY <1>6, <2>4, <2>5, <2>10, <2>11, <2>12 DEF LifecycleInv
<1> QED BY <1>8, <1>9

\* A command is a submission or the shutdown.
LEMMA TakeCommandInv == ASSUME LifecycleInv, TakeCommand PROVE LifecycleInv'
<1>1. mail # <<>> /\ mail' = Tail(mail) /\ UNCHANGED cancels /\ loop.pc = "run" /\ Running
  BY DEF TakeCommand, At, Running
<1>2. CASE Head(mail) = Shutdown
  <2>1. loop' = [loop EXCEPT !.stop = TRUE] /\ UNCHANGED <<job, dest>> BY <1>2 DEF TakeCommand
  <2>2. LoopType' /\ Running' = Running BY <2>1 DEF LifecycleInv, LoopType, Running, At
  <2>3. /\ mail' \in Seq(Jobs \cup {Shutdown})
        /\ \A i \in DOMAIN mail' : i + 1 \in DOMAIN mail /\ mail'[i] = mail[i + 1]
    BY <1>1, TailOnce
  <2>4. \A i \in DOMAIN mail' : i \in Nat BY <2>3
  <2>5. MailOnce'
    <3>1. \A i, k \in DOMAIN mail' : mail'[i] = mail'[k] /\ mail'[i] # Shutdown => i + 1 = k + 1
      BY <2>3 DEF LifecycleInv, MailOnce
    <3>2. \A i, k \in DOMAIN mail' : mail'[i] = mail'[k] /\ mail'[i] # Shutdown => i = k
      BY <2>4, <3>1
    <3> QED BY <2>1, <2>3, <3>2 DEF LifecycleInv, MailOnce
  <2>6. LifecycleTypeOK' BY <1>1, <2>1, <2>3 DEF LifecycleInv, LifecycleTypeOK
  <2>7. Leases' /\ \A d \in Dests : Alone(d)'
    BY <2>1 DEF LifecycleInv, Leases, Alone, OnPart, Committing
  <2>8. \A j \in Jobs : Sound(job[j], Running)' BY <2>1, <2>2 DEF LifecycleInv
  <2> QED BY <2>2, <2>5, <2>6, <2>7, <2>8 DEF LifecycleInv
<1>3. CASE Head(mail) # Shutdown
  <2>1. Head(mail) \in Jobs BY <1>1, <1>3, TailOnce
  <2>2. Admit(Head(mail)) /\ UNCHANGED loop BY <1>3 DEF TakeCommand
  <2> QED BY <1>1, <2>1, <2>2, AdmitInv
<1> QED BY <1>2, <1>3

-----------------------------------------------------------------------------
(***************************************************************************)
(* The invariant, and what it gives.                                       *)
(***************************************************************************)
\* The engine starts without jobs, leases and lock files.
LEMMA InitLifecycleInv == Init => LifecycleInv
<1> SUFFICES ASSUME Init PROVE LifecycleInv OBVIOUS
<1> DEFINE r == [client |-> "idle", asked |-> FALSE, dst |-> None, node |-> "none",
                 entry |-> FALSE, ctx |-> "active", plans |-> "none", tasks |-> 0, old |-> 0,
                 commit |-> "none", early |-> FALSE, lock |-> None, answers |-> <<>>]
           q == [lease |-> None, file |-> None, other |-> None, slipped |-> FALSE]
<1>1. job = [j \in Jobs |-> r] /\ dest = [d \in Dests |-> q] /\ mail = <<>> /\ cancels = {}
  BY DEF Init
<1>2. <<>> \in Seq({"ok", "error", "gone"}) /\ Len(<<>>) = 0 OBVIOUS
<1>3. r \in JobRecord BY <1>2, LifecycleAssumption DEF JobRecord, None
<1>4. q \in DestRecord BY DEF DestRecord, None
<1>5. Sound(r, Running) /\ Untouched(r) BY <1>2 DEF Sound, Known, Told, Workers, Untouched, Nodes
<1>6. r.lock = None /\ r.commit = "none" /\ r.node = "none" /\ q.lease = None /\ q.other = None
  OBVIOUS
<1> HIDE DEF r, q
<1>7. LifecycleTypeOK BY <1>1, <1>3, <1>4 DEF LifecycleTypeOK
<1>8. LoopType BY DEF Init, LoopType
<1>9. MailOnce BY <1>1 DEF MailOnce
<1>10. \A j \in Jobs : Sound(job[j], Running) BY <1>1, <1>5
<1>11. Leases BY <1>1, <1>6, LifecycleAssumption DEF Leases, Nodes, None
<1>12. \A d \in Dests : Alone(d) BY <1>1, <1>6 DEF Alone, OnPart, Committing
<1> QED BY <1>7, <1>8, <1>9, <1>10, <1>11, <1>12 DEF LifecycleInv

\* Every step keeps the invariant.
LEMMA NextLifecycleInv == LifecycleInv /\ [Next]_vars => LifecycleInv'
<1> SUFFICES ASSUME LifecycleInv, [Next]_vars PROVE LifecycleInv' OBVIOUS
<1>1. CASE UNCHANGED vars
  BY <1>1 DEF vars, LifecycleInv, LifecycleTypeOK, LoopType, MailOnce, Leases, Alone, OnPart,
              Committing, Running, At
<1>2. ASSUME NEW j \in Jobs, (\E d \in Dests \cup {None} : Submit(j, d)) \/ Cancel(j) PROVE LifecycleInv'
  BY <1>2, SubmitInv, CancelInv
<1>3. CASE ShutdownCall BY <1>3, ShutdownCallInv
<1>4. CASE Others BY <1>4, OtherOpensInv, OtherClosesInv DEF Others
<1>5. CASE TakeCommand \/ StopJobs \/ Exit BY <1>5, TakeCommandInv, StopJobsInv, ExitInv
<1>6. ASSUME NEW j \in Jobs, TakeCancel(j) \/ StartTask(j) \/ Report(j) \/ Quarantine(j) \/ Probed(j)
                             \/ Probing(j) \/ CommitReported(j) \/ JobDeadline(j)
      PROVE  LifecycleInv'
  BY <1>6, TakeCancelInv, StartTaskInv, ReportInv, QuarantineInv, ProbedInv, ProbingInv, CommitReportedInv,
     JobDeadlineInv
<1>7. CASE ShardsStop BY <1>7, ShardsStopInv
<1>8. ASSUME NEW j \in Jobs, Unlock(j) \/ Rename(j) \/ RemoveLock(j) PROVE LifecycleInv'
  BY <1>8, UnlockInv, RenameInv, RemoveLockInv
<1> QED BY <1>1, <1>2, <1>3, <1>4, <1>5, <1>6, <1>7, <1>8 DEF Next, Clients, Control, Shards

\* LifecycleInv holds in every state of the engine.
THEOREM LifecycleInvariant == Spec => []LifecycleInv
BY InitLifecycleInv, NextLifecycleInv, PTL DEF Spec

\* The records of jobs and destinations, the mailbox and the cancellations keep
\* their types; open_blocking always finds an inode to make.
THEOREM LifecycleType == Spec => []LifecycleTypeOK
<1>1. LifecycleInv => LifecycleTypeOK BY DEF LifecycleInv
<1> QED BY <1>1, LifecycleInvariant, PTL

\* finish_job, DiscardDestination and the drain of a shutdown keep the leases, the
\* controller's nodes, the loop's entries and the lock files in agreement.
THEOREM AccountsAgree == Spec => []Accounted
<1>1. LifecycleInv => Accounted BY DEF LifecycleInv, Leases, Sound, Known, Told, Workers, Accounted, Running
<1> QED BY <1>1, LifecycleInvariant, PTL

\* No two of finish_job, DiscardDestination and the drain answer one waiter.
THEOREM OneAnswer == Spec => []AnsweredOnce
<1>1. LifecycleInv => AnsweredOnce BY DEF LifecycleInv, Sound, Known, Told, Workers, AnsweredOnce
<1> QED BY <1>1, LifecycleInvariant, PTL

\* A job that goes has its JobContext cancelled, its tasks have ended, or it succeeded
\* with a plan that does not know its tasks: made again, or after a quarantine.
THEOREM ToldToStop == Spec => []StaleTasksStopped
<1>1. LifecycleInv => StaleTasksStopped BY DEF LifecycleInv, Sound, Known, Told, Workers, StaleTasksStopped
<1> QED BY <1>1, LifecycleInvariant, PTL

\* Without an open during a finalize, a .part has one coordinator at most, of this
\* engine or of another process.
THEOREM ExclusivePart == Spec => []ExclusiveOutsideCommit
<1>1. ASSUME LifecycleInv, NEW d \in Dests, ~dest[d].slipped PROVE ~Crowded(d)
  <2>1. /\ \A j, k \in OnPart(d) : j = k
        /\ dest[d].other # None => OnPart(d) = {}
    BY <1>1 DEF LifecycleInv, Alone
  <2>2. CASE OnPart(d) = {}
    <3>1. Cardinality(OnPart(d)) = 0 BY <2>2, FS_EmptySet
    <3> QED BY <3>1 DEF Crowded
  <2>3. CASE OnPart(d) # {}
    <3>1. PICK j : OnPart(d) = {j} BY <2>1, <2>3
    <3>2. Cardinality(OnPart(d)) = 1 BY <3>1, FS_Singleton
    <3> QED BY <2>1, <2>3, <3>2 DEF Crowded
  <2> QED BY <2>2, <2>3
<1>2. LifecycleInv => ExclusiveOutsideCommit BY <1>1 DEF ExclusiveOutsideCommit
<1> QED BY <1>2, LifecycleInvariant, PTL

=============================================================================
