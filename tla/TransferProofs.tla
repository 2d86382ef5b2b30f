--------------------------- MODULE TransferProofs ---------------------------
(***************************************************************************)
(* Proofs about module Transfer, for every artifact, every set of keys,    *)
(* every number of streams and every capacity of the shard's mailbox.      *)
(*                                                                         *)
(* TransferInv is inductive.  It adds to the plan's own invariant what     *)
(* ties the plan to the commands and tasks that work for it: a task, and a *)
(* start on its way, is identified by its key and its plan (Distinct), so  *)
(* a report takes exactly one of them away; what a task reports it has     *)
(* written (Wrote); in the first plan whoever works owns a live assignment *)
(* (FirstPlan).  Whether a dispatched claim really reaches the shard       *)
(* depends on the mailbox: a steal puts a truncation in front of its       *)
(* start, so at most two commands per stream are ever waiting, and a       *)
(* mailbox of that size never refuses one (Roomy, Served).                 *)
(***************************************************************************)
EXTENDS Transfer, SegmentPlanProofs, SequenceTheorems

\* The shard's mailbox has room for two commands per stream.
Roomy == 2 * Streams <= MailboxCap

StartRecord ==
  [op : {"start"}, id : Ids, gen : Nat, lo : 0 .. Total, pos : 0 .. Total,
   hi : 0 .. Total, attempt : 0 .. MaxAttempts, full : BOOLEAN]

Command == StartRecord \cup [op : {"truncate"}, id : Ids, hi : 0 .. Total]

TaskRecord ==
  [id : Ids, gen : Nat, lo : 0 .. Total, hi : 0 .. Total, pos : 0 .. Total,
   end : 0 .. Total, full : BOOLEAN, attempt : 0 .. MaxAttempts,
   state : {"running", "verified", "stopped", "failed"}]

\* What the mailbox of one job looks like.
StartsOf(m) == {c \in ToSet(m) : c.op = "start"}

Key(w) == <<w.id, w.gen>>

Apart(m) ==
  \A p, q \in 1 .. Len(m) :
    m[p].op = "start" /\ m[q].op = "start" /\ Key(m[p]) = Key(m[q]) => p = q

Paired(m) ==
  \A p \in 1 .. Len(m) : m[p].op = "truncate" => p < Len(m) /\ m[p + 1].op = "start"

\* A plan of known length, without empty pieces.
Bounded ==
  /\ mode # "unsized"
  /\ \A i \in Live : asg[i].hi # EOF /\ (mode = "ranged" => asg[i].lo < asg[i].hi)

Typed ==
  /\ phase \in Phases /\ gen \in 1 .. MaxPlans /\ active \in Int
  /\ ranges \in BOOLEAN /\ pumping \in BOOLEAN /\ asked \in BOOLEAN /\ reprobing \in BOOLEAN
  /\ mailbox \in Seq(Command) /\ Len(mailbox) <= MailboxCap
  /\ tasks \subseteq TaskRecord /\ IsFiniteSet(tasks)
  /\ written \subseteq Bytes

Distinct ==
  /\ Apart(mailbox)
  /\ \A t, u \in tasks : Key(t) = Key(u) => t = u
  /\ \A c \in Starts, t \in tasks : Key(c) # Key(t)

Wrote ==
  /\ completed \subseteq written
  /\ \A c \in Starts : c.pos <= c.lo
  /\ \A t \in tasks : \A b \in Bytes : t.lo <= b /\ b < t.pos => b \in written

FirstPlan ==
  /\ \A w \in Starts \cup tasks : w.gen \in 1 .. gen
  /\ gen = 1 /\ ~Gone => \A w \in Starts \cup tasks : w.id \in Live
  /\ QuietFirstPlan

Slots == active <= Streams /\ Cardinality(Starts) + Cardinality(tasks) <= active

Served == Roomy => Paired(mailbox) /\ SlotsExact /\ NoOrphanClaim

TransferInv ==
  PlanInv /\ Bounded /\ Typed /\ Distinct /\ Wrote /\ FirstPlan /\ Slots /\ Served

-----------------------------------------------------------------------------
(***************************************************************************)
(* The mailbox.                                                            *)
(***************************************************************************)
\* A member of the mailbox has a place in it.
LEMMA MailMember ==
  ASSUME NEW m \in Seq(Command)
  PROVE  /\ \A c : c \in StartsOf(m) <=> \E p \in 1 .. Len(m) : m[p] = c /\ c.op = "start"
         /\ StartsOf(m) \subseteq StartRecord
<1>1. \A c : c \in ToSet(m) <=> \E p \in 1 .. Len(m) : m[p] = c BY DEF ToSet
<1>2. \A p \in 1 .. Len(m) : m[p] \in Command OBVIOUS
<1>3. \A c \in Command : c.op = "start" => c \in StartRecord BY DEF Command
<1> QED BY <1>1, <1>2, <1>3 DEF StartsOf

\* The shard takes the oldest command, and only that one.
LEMMA TailMail ==
  ASSUME NEW m \in Seq(Command), m # <<>>
  PROVE  /\ Tail(m) \in Seq(Command) /\ Len(Tail(m)) = Len(m) - 1 /\ Head(m) \in Command
         /\ Apart(m) => Apart(Tail(m)) /\ StartsOf(Tail(m)) = StartsOf(m) \ {Head(m)}
         /\ Paired(m) => Paired(Tail(m))
<1> DEFINE r == Tail(m)
<1>1. Len(m) \in Nat \ {0} BY EmptySeq
<1>2. r \in Seq(Command) /\ Len(r) = Len(m) - 1 /\ Head(m) = m[1] /\ Head(m) \in Command
  BY <1>1, HeadTailProperties
<1>3. \A p \in 1 .. Len(r) : r[p] = m[p + 1] /\ p + 1 \in 1 .. Len(m)
  BY <1>1, <1>2
<1> HIDE DEF r
<1>4. ASSUME Apart(m) PROVE Apart(r)
  <2> SUFFICES ASSUME NEW p \in 1 .. Len(r), NEW q \in 1 .. Len(r),
                      r[p].op = "start", r[q].op = "start", Key(r[p]) = Key(r[q])
               PROVE  p = q
    BY DEF Apart
  <2>1. p + 1 = q + 1 BY <1>3, <1>4 DEF Apart
  <2> QED BY <2>1
<1>5. ASSUME Apart(m) PROVE StartsOf(r) = StartsOf(m) \ {Head(m)}
  <2>1. ASSUME NEW c \in StartsOf(r) PROVE c \in StartsOf(m) \ {Head(m)}
    <3>1. PICK p \in 1 .. Len(r) : r[p] = c /\ c.op = "start" BY <1>2, MailMember
    <3>2. m[p + 1] = c /\ p + 1 \in 1 .. Len(m) /\ p + 1 # 1 BY <1>3, <3>1
    <3>3. c \in StartsOf(m) BY <3>1, <3>2, MailMember
    <3>4. 1 \in 1 .. Len(m) BY <1>1
    <3>5. c # m[1] BY <1>5, <3>1, <3>2, <3>4 DEF Apart
    <3> QED BY <1>2, <3>3, <3>5
  <2>2. ASSUME NEW c \in StartsOf(m), c # Head(m) PROVE c \in StartsOf(r)
    <3>1. PICK p \in 1 .. Len(m) : m[p] = c /\ c.op = "start" BY MailMember
    <3>2. p # 1 BY <1>2, <2>2, <3>1
    <3>3. p - 1 \in 1 .. Len(r) /\ (p - 1) + 1 = p BY <1>1, <1>2, <3>1, <3>2
    <3>4. r[p - 1] = c BY <1>3, <3>1, <3>3
    <3> QED BY <1>2, <3>1, <3>3, <3>4, MailMember
  <2> QED BY <2>1, <2>2
<1>6. ASSUME Paired(m) PROVE Paired(r)
  <2> SUFFICES ASSUME NEW p \in 1 .. Len(r), r[p].op = "truncate"
               PROVE  p < Len(r) /\ r[p + 1].op = "start"
    BY DEF Paired
  <2>1. p + 1 < Len(m) /\ m[(p + 1) + 1].op = "start" BY <1>3, <1>6 DEF Paired
  <2>2. p < Len(r) /\ p + 1 \in 1 .. Len(r) BY <1>1, <1>2, <2>1
  <2> QED BY <1>3, <2>1, <2>2
<1> QED BY <1>2, <1>4, <1>5, <1>6 DEF r

\* The commands of one claim: its start, behind the victim's truncation.
ClaimCommands(cmds, s) ==
  cmds = <<s>> \/ \E cut \in Command : cut.op = "truncate" /\ cmds = <<cut, s>>

\* r is what a mailbox m holds after as many of the commands as make it n long.
Received(r, m, cmds, n) == r = SubSeq(m \o cmds, 1, n)

\* What send_shard appends, as far as there is room.
LEMMA SendMail ==
  ASSUME NEW m \in Seq(Command), NEW s \in StartRecord, NEW cmds, ClaimCommands(cmds, s),
         Apart(m), \A c \in StartsOf(m) : Key(c) # Key(s),
         NEW n \in Nat, n <= Len(m) + Len(cmds), n >= Len(m),
         NEW r, Received(r, m, cmds, n)
  PROVE  /\ r \in Seq(Command) /\ Len(r) = n
         /\ Apart(r) /\ s \notin StartsOf(m)
         /\ StartsOf(r) = StartsOf(m) \/ StartsOf(r) = StartsOf(m) \cup {s}
         /\ n = Len(m) + Len(cmds) =>
              StartsOf(r) = StartsOf(m) \cup {s} /\ (Paired(m) => Paired(r))
<1>1. /\ cmds \in Seq(Command) /\ Len(cmds) \in 1 .. 2
      /\ cmds[Len(cmds)] = s
      /\ Len(cmds) = 2 => cmds[1].op # "start"
      /\ s.op = "start" /\ s \in Command
  <2>1. s.op = "start" /\ s \in Command BY DEF StartRecord, Command
  <2>2. CASE cmds = <<s>>
    <3>1. Len(cmds) = 1 /\ cmds[1] = s /\ cmds \in Seq(Command) BY <2>1, <2>2
    <3> QED BY <2>1, <3>1
  <2>3. ASSUME NEW cut \in Command, cut.op = "truncate", cmds = <<cut, s>>
        PROVE  /\ cmds \in Seq(Command) /\ Len(cmds) \in 1 .. 2
               /\ cmds[Len(cmds)] = s
               /\ Len(cmds) = 2 => cmds[1].op # "start"
    <3>1. Len(cmds) = 2 /\ cmds[1] = cut /\ cmds[2] = s /\ cmds \in Seq(Command) BY <2>1, <2>3
    <3> QED BY <2>3, <3>1
  <2> QED BY <2>1, <2>2, <2>3 DEF ClaimCommands
<1> DEFINE w == m \o cmds
           l == Len(m)
<1>2. w \in Seq(Command) /\ Len(w) = l + Len(cmds) /\ l \in Nat BY <1>1, ConcatProperties
<1>3. /\ \A p \in 1 .. l : w[p] = m[p]
      /\ \A p \in 1 .. Len(cmds) : w[l + p] = cmds[p]
  BY <1>1, <1>2
<1> HIDE DEF w
<1>4. r \in Seq(Command) /\ Len(r) = n /\ \A p \in 1 .. n : r[p] = w[p]
  <2>1. r = SubSeq(w, 1, n) BY DEF w, Received
  <2> QED BY <1>1, <1>2, <2>1, SubSeqProperties
<1>5. /\ \A p \in 1 .. l : r[p] = m[p]
      /\ \A p \in l + 1 .. n : \/ p = l + Len(cmds) /\ r[p] = s
                               \/ p = l + 1 /\ Len(cmds) = 2 /\ r[p].op # "start"
  <2>1. \A p \in 1 .. l : r[p] = m[p] BY <1>2, <1>3, <1>4
  <2>2. ASSUME NEW p \in l + 1 .. n
        PROVE  \/ p = l + Len(cmds) /\ r[p] = s
               \/ p = l + 1 /\ Len(cmds) = 2 /\ r[p].op # "start"
    <3>1. p - l \in 1 .. Len(cmds) /\ l + (p - l) = p BY <1>1, <1>2
    <3>2. r[p] = cmds[p - l]
      <4>1. r[p] = w[p] BY <1>2, <1>4
      <4>2. w[l + (p - l)] = cmds[p - l] BY <1>3, <3>1
      <4> QED BY <3>1, <4>1, <4>2
    <3> QED BY <1>1, <3>1, <3>2
  <2> QED BY <2>1, <2>2
<1>6. \A p \in 1 .. n : p \in 1 .. l \/ p \in l + 1 .. n BY <1>2
<1>7. \A p \in 1 .. l : m[p].op = "start" => m[p] \in StartsOf(m) BY MailMember
<1>8. s \notin StartsOf(m) OBVIOUS
<1>9. Apart(r)
  <2> SUFFICES ASSUME NEW p \in 1 .. n, NEW q \in 1 .. n,
                      r[p].op = "start", r[q].op = "start", Key(r[p]) = Key(r[q])
               PROVE  p = q
    BY <1>4 DEF Apart
  <2>1. CASE p \in 1 .. l /\ q \in 1 .. l BY <1>5, <2>1 DEF Apart
  <2>2. CASE p \in l + 1 .. n /\ q \in l + 1 .. n BY <1>1, <1>5, <2>2
  <2>3. CASE p \in 1 .. l /\ q \in l + 1 .. n BY <1>1, <1>5, <1>7, <2>3
  <2>4. CASE p \in l + 1 .. n /\ q \in 1 .. l BY <1>1, <1>5, <1>7, <2>4
  <2> QED BY <1>6, <2>1, <2>2, <2>3, <2>4
<1>10. StartsOf(m) \subseteq StartsOf(r)
  <2> SUFFICES ASSUME NEW c \in StartsOf(m) PROVE c \in StartsOf(r) OBVIOUS
  <2>1. PICK p \in 1 .. l : m[p] = c /\ c.op = "start" BY MailMember
  <2>2. p \in 1 .. n /\ r[p] = c BY <1>2, <1>5, <2>1
  <2> QED BY <1>4, <2>1, <2>2, MailMember
<1>11. StartsOf(r) \subseteq StartsOf(m) \cup {s}
  <2> SUFFICES ASSUME NEW c \in StartsOf(r), c # s PROVE c \in StartsOf(m) OBVIOUS
  <2>0. \E p \in 1 .. Len(r) : r[p] = c /\ c.op = "start" BY <1>4, MailMember
  <2>1. PICK p \in 1 .. n : r[p] = c /\ c.op = "start" BY <1>4, <2>0
  <2>2. p \in 1 .. l BY <1>1, <1>5, <1>6, <2>1
  <2> QED BY <1>5, <1>7, <2>1, <2>2
<1>12. ASSUME n = l + Len(cmds) PROVE n \in 1 .. n /\ r[n] = s /\ s \in StartsOf(r)
  <2>1. \A k \in 1 .. 2 : k \in 1 .. k OBVIOUS
  <2>2. n \in 1 .. n
    <3>1. \A k \in 1 .. 2, x \in Nat : x + k \in 1 .. x + k OBVIOUS
    <3> QED BY <1>1, <1>2, <1>12, <3>1
  <2>3. w[l + Len(cmds)] = cmds[Len(cmds)] BY <1>1, <1>3, <2>1
  <2>4. r[n] = s BY <1>1, <1>4, <1>12, <2>2, <2>3
  <2> QED BY <1>1, <1>4, <2>2, <2>4, MailMember
<1>13. ASSUME n = l + Len(cmds), Paired(m) PROVE Paired(r)
  <2> SUFFICES ASSUME NEW p \in 1 .. n, r[p].op = "truncate"
               PROVE  p < n /\ r[p + 1].op = "start"
    BY <1>4 DEF Paired
  <2>1. CASE p \in 1 .. l
    <3>1. p < l /\ m[p + 1].op = "start" BY <1>5, <1>13, <2>1 DEF Paired
    <3>2. p + 1 \in 1 .. l BY <1>2, <2>1, <3>1
    <3> QED BY <1>2, <1>5, <3>1, <3>2
  <2>2. CASE p \in l + 1 .. n
    <3>1. p = l + 1 /\ Len(cmds) = 2 BY <1>1, <1>5, <2>2
    <3>2. p + 1 = n BY <1>2, <1>13, <3>1
    <3>3. r[p + 1].op = "start" BY <1>1, <1>12, <1>13, <3>2
    <3>4. p < n BY <1>2, <3>1, <3>2
    <3> QED BY <3>3, <3>4
  <2> QED BY <1>6, <2>1, <2>2
<1> QED BY <1>4, <1>8, <1>9, <1>10, <1>11, <1>12, <1>13

\* At most two commands wait per start: a truncation travels ahead of the start of
\* the steal it belongs to.
LEMMA MailBound ==
  ASSUME NEW m \in Seq(Command)
  PROVE  /\ IsFiniteSet(StartsOf(m))
         /\ Apart(m) /\ Paired(m) => Len(m) <= 2 * Cardinality(StartsOf(m))
<1> DEFINE I == 1 .. Len(m)
           S == {p \in I : m[p].op = "start"}
           T == {p \in I : m[p].op = "truncate"}
           f == [p \in T |-> p + 1]
           g == [p \in S |-> m[p]]
<1>1. Len(m) \in Nat BY LenProperties
<1>2. IsFiniteSet(I) /\ Cardinality(I) = Len(m) BY <1>1, FS_Interval
<1>3. IsFiniteSet(S) /\ IsFiniteSet(T) BY <1>2, FS_Subset
<1>4. g \in Surjection(S, StartsOf(m))
  <2>1. \A c : c \in StartsOf(m) <=> \E p \in I : m[p] = c /\ c.op = "start" BY MailMember
  <2>2. \A p \in S : m[p] \in StartsOf(m) BY <2>1
  <2>3. \A c \in StartsOf(m) : \E p \in S : m[p] = c BY <2>1
  <2> QED BY <2>2, <2>3 DEF Surjection
<1>5. IsFiniteSet(StartsOf(m)) BY <1>3, <1>4, FS_Surjection
<1>6. ASSUME Apart(m), Paired(m) PROVE Len(m) <= 2 * Cardinality(StartsOf(m))
  <2>1. g \in Injection(S, StartsOf(m))
    <3>1. \A p, q \in S : m[p] = m[q] => p = q BY <1>6 DEF Apart
    <3>2. g \in [S -> StartsOf(m)] BY <1>4 DEF Surjection
    <3> QED BY <3>1, <3>2 DEF Injection, IsInjective
  <2>2. Cardinality(StartsOf(m)) = Cardinality(S) BY <1>3, <1>4, <2>1, FS_Surjection
  <2>3. f \in Injection(T, S)
    <3>1. \A p \in T : p + 1 \in S BY <1>1, <1>6 DEF Paired
    <3>2. \A p, q \in T : p + 1 = q + 1 => p = q BY <1>1
    <3> QED BY <3>1, <3>2 DEF Injection, IsInjective
  <2>4. Cardinality(T) <= Cardinality(S) BY <1>3, <2>3, FS_Injection
  <2>5. S \cup T = I /\ S \cap T = {}
    <3>1. \A p \in I : m[p] \in Command OBVIOUS
    <3>2. \A c \in Command : c.op = "start" \/ c.op = "truncate" BY DEF Command, StartRecord
    <3> QED BY <3>1, <3>2
  <2>6. Cardinality(S \cup T) = Cardinality(S) + Cardinality(T) - Cardinality(S \cap T)
    BY <1>3, FS_Union
  <2>7. Cardinality(S) \in Nat /\ Cardinality(T) \in Nat BY <1>3, FS_CardinalityType
  <2> HIDE DEF I, S, T
  <2>8. Cardinality(S \cup T) = Len(m) /\ Cardinality(S \cap T) = 0 BY <1>2, <2>5, FS_EmptySet
  <2>9. Len(m) = Cardinality(S) + Cardinality(T) BY <2>6, <2>7, <2>8
  <2> QED BY <2>2, <2>4, <2>7, <2>9
<1> QED BY <1>5, <1>6

-----------------------------------------------------------------------------
(***************************************************************************)
(* The pump.                                                               *)
(***************************************************************************)
\* A claim adds one assignment to the plan, of known length and not empty.
LEMMA ClaimPlan ==
  ASSUME PlanInv, Bounded, NEW id \in Ids \ Live,
         StreamClaim(id) \/ \E dur \in {0, MaxPiece} : FreshClaim(id, dur)
  PROVE  PlanInv' /\ Bounded' /\ Live' = Live \cup {id} /\ completed' = completed
<1>1. CASE StreamClaim(id)
  <2>1. PlanInv' BY <1>1, StreamClaimInv
  <2>2. mode = "stream" /\ mode' = mode /\ Live = {} /\ completed' = completed
    BY <1>1 DEF StreamClaim, Bounded
  <2>3. PICK p \in 0 .. Total : asg' = Push(asg, id, NewAssignment(p, Total, 0, 0))
    BY <1>1, <2>2 DEF StreamClaim
  <2>4. Live' = {id} /\ asg'[id].hi = Total BY <2>2, <2>3 DEF Live, Push, NewAssignment
  <2> QED BY <2>1, <2>2, <2>4, PlanAssumption DEF Bounded
<1>2. ASSUME NEW dur \in {0, MaxPiece}, FreshClaim(id, dur)
      PROVE  PlanInv' /\ Bounded' /\ Live' = Live \cup {id} /\ completed' = completed
  <2>0. dur \in 0 .. MaxPiece BY PlanAssumption
  <2>1. PlanInv' BY <1>2, <2>0, FreshClaimInv
  <2>2. mode = "ranged" /\ mode' = mode /\ completed' = completed BY <1>2 DEF FreshClaim
  <2>3. PICK p \in Bytes, e \in 0 .. Total, attempt \in 0 .. MaxAttempts :
          asg' = Push(asg, id, NewAssignment(p, SnapEnd(p, Lesser(e, p + TakeLen(dur))),
                                             OverlapAt(p), attempt))
    BY <1>2 DEF FreshClaim
  <2> DEFINE hi == SnapEnd(p, Lesser(e, p + TakeLen(dur)))
  <2>4. p < hi
    <3>1. TakeLen(dur) \in Int BY <2>0, TakeLenType DEF PlanInv
    <3>2. Lesser(e, p + TakeLen(dur)) \in Int BY <3>1 DEF Lesser, Bytes
    <3>3. p \in 0 .. Total - 1 BY DEF Bytes
    <3> QED BY <3>2, <3>3, SnapEndBounds
  <2> HIDE DEF hi
  <2>5. /\ Live' = Live \cup {id} /\ asg'[id].lo = p /\ asg'[id].hi = hi
        /\ \A i \in Live : asg'[i] = asg[i]
    BY <2>3 DEF Live, Push, NewAssignment, hi
  <2>6. \A i \in Live' : asg'[i].hi # EOF BY <2>1, <2>2 DEF PlanInv, Sized
  <2> QED BY <2>1, <2>2, <2>4, <2>5, <2>6 DEF Bounded
<1> QED BY <1>1, <1>2

\* So does a steal; both parts are non-empty.
LEMMA StealPlan ==
  ASSUME PlanInv, Bounded, NEW id \in Ids \ Live, NEW victim \in Ids, NEW keep \in 0 .. Total,
         Steal(id, victim, keep)
  PROVE  /\ PlanInv' /\ Bounded' /\ Live' = Live \cup {id} /\ completed' = completed
         /\ asg'[victim].hi \in 0 .. Total
<1> DEFINE cut == CutPoint(victim, keep)
           stolen == NewAssignment(cut, asg[victim].hi, 0, 0)
           kept == Shortened(asg[victim], cut)
<1>1. PlanInv' BY StealInv
<1>2. mode = "ranged" /\ mode' = mode /\ completed' = completed BY DEF Steal
<1>3. victim \in Live /\ asg[victim].lo < cut /\ cut < asg[victim].hi BY DEF Steal
<1>4. asg' = Push(Push(asg, victim, kept), id, stolen) BY DEF Steal
<1>5. asg[victim] \in Assignment BY <1>3 DEF PlanInv, TypeOK
<1>6. kept.lo = asg[victim].lo /\ kept.hi = cut
  <2> HIDE DEF cut
  <2> QED BY <1>5 DEF Shortened, Assignment
<1>7. stolen.lo = cut /\ stolen.hi = asg[victim].hi BY DEF NewAssignment
<1> HIDE DEF cut, stolen, kept
<1>8. /\ Live' = Live \cup {id} /\ asg'[id] = stolen /\ asg'[victim] = kept
      /\ \A i \in Live \ {victim} : asg'[i] = asg[i]
  BY <1>3, <1>4 DEF Live, Push
<1>9. \A i \in Live' : asg'[i].hi # EOF BY <1>1, <1>2 DEF PlanInv, Sized
<1>10. asg'[victim] \in Assignment BY <1>1, <1>3, <1>8 DEF PlanInv, TypeOK
<1>11. asg'[victim].hi \in 0 .. Total BY <1>3, <1>8, <1>9, <1>10 DEF Assignment
<1> QED BY <1>1, <1>2, <1>3, <1>6, <1>7, <1>8, <1>9, <1>11 DEF Bounded

\* The wire request of a claim starts at or before the claim, within the artifact.
LEMMA StartCommandType ==
  ASSUME TypeOK', Bounded', ranges \in BOOLEAN, gen \in Nat, NEW id \in Live', id \in Ids
  PROVE  LET s == StartCommand(id) IN
         s \in StartRecord /\ s.pos <= s.lo /\ s.op = "start" /\ s.id = id /\ s.gen = gen
<1>1. PICK a \in Assignment : a = asg'[id] BY DEF TypeOK
<1>2. a.lo \in 0 .. Total /\ a.hi \in 0 .. Total /\ a.overlap \in Nat /\ a.attempt \in 0 .. MaxAttempts
  BY <1>1 DEF Assignment, Bounded
<1> DEFINE from == Greater(0, a.lo - a.overlap)
           lo == IF ranges THEN from ELSE 0
           pos == IF ranges THEN Greater(0, from - a.overlap) ELSE 0
           hi == IF ranges THEN a.hi ELSE Total
           attempt == IF ranges THEN a.attempt ELSE 0
<1>3. from \in 0 .. Total BY <1>2, PlanAssumption DEF Greater
<1>4. lo \in 0 .. Total /\ pos \in 0 .. Total /\ pos <= lo
  <2> HIDE DEF from
  <2> QED BY <1>2, <1>3, PlanAssumption DEF Greater
<1>5. hi \in 0 .. Total /\ attempt \in 0 .. MaxAttempts BY <1>2, PlanAssumption
<1>6. StartCommand(id) = [op |-> "start", id |-> id, gen |-> gen, lo |-> lo, pos |-> pos,
                          hi |-> hi, attempt |-> attempt, full |-> ~ranges]
  BY <1>1 DEF StartCommand
<1> HIDE DEF lo, pos, hi, attempt, from
<1> QED BY <1>4, <1>5, <1>6 DEF StartRecord

\* The commands and the tasks can be counted.
LEMMA Counted ==
  ASSUME Typed
  PROVE  /\ Starts = StartsOf(mailbox) /\ Starts \subseteq StartRecord /\ IsFiniteSet(Starts)
         /\ Cardinality(Starts) \in Nat /\ Cardinality(tasks) \in Nat
<1>1. Starts = StartsOf(mailbox) BY DEF Starts, StartsOf
<1>2. Starts \subseteq StartRecord /\ IsFiniteSet(Starts)
  BY <1>1, MailMember, MailBound DEF Typed
<1> QED BY <1>1, <1>2, FS_CardinalityType DEF Typed

\* A dispatched claim takes one slot; the mailbox takes all of its commands when it
\* has room for two per stream.
LEMMA DispatchedInv ==
  ASSUME TransferInv, MayPump, NEW id \in Unused,
         PlanInv', Bounded', Live' = Live \cup {id}, completed' = completed,
         NEW s, s = StartCommand(id), NEW cmds, ClaimCommands(cmds, s), Dispatched(cmds)
  PROVE  TransferInv'
<1> USE DEF TransferInv
<1>1. /\ UNCHANGED <<phase, reprobing, asked, ranges, gen, pumping, tasks, flags, written, failures>>
      /\ active' = active + 1 /\ Send(cmds)
  BY DEF Dispatched
<1>2. phase = "transferring" /\ active < Streams BY DEF MayPump
<1>3. id \in Ids \ Live /\ \A w \in Workers : w.id # id BY DEF Unused
<1>4. gen \in Nat BY DEF Typed
<1>5. s \in StartRecord /\ s.pos <= s.lo /\ s.op = "start" /\ s.id = id /\ s.gen = gen
  BY <1>3, <1>4, StartCommandType DEF PlanInv, Typed
<1>6. \A w \in Starts \cup tasks : Key(w) # Key(s) BY <1>3, <1>5 DEF Key, Workers
<1> DEFINE n == Lesser(MailboxCap, Len(mailbox) + Len(cmds))
<1>7. mailbox' = SubSeq(mailbox \o cmds, 1, n) BY <1>1 DEF Send
<1>8. Len(cmds) \in 1 .. 2
  <2>1. Len(<<s>>) = 1 /\ \A cut : Len(<<cut, s>>) = 2 OBVIOUS
  <2> QED BY <2>1 DEF ClaimCommands
<1>9. /\ Len(mailbox) \in Nat /\ n \in Nat /\ n <= Len(mailbox) + Len(cmds) /\ n >= Len(mailbox)
      /\ n <= MailboxCap
  <2>1. Len(mailbox) \in Nat /\ Len(mailbox) <= MailboxCap BY LenProperties DEF Typed
  <2>2. \A k \in Nat, c \in 1 .. 2 : k <= MailboxCap =>
          /\ Lesser(MailboxCap, k + c) \in Nat /\ Lesser(MailboxCap, k + c) <= k + c
          /\ Lesser(MailboxCap, k + c) >= k /\ Lesser(MailboxCap, k + c) <= MailboxCap
    BY TransferAssumption DEF Lesser
  <2> QED BY <1>8, <2>1, <2>2
<1>10. Starts = StartsOf(mailbox) /\ IsFiniteSet(Starts)
       /\ Cardinality(Starts) \in Nat /\ Cardinality(tasks) \in Nat
  BY Counted
<1>11. Starts' = StartsOf(mailbox') BY DEF Starts, StartsOf
<1>12. mailbox \in Seq(Command) /\ Apart(mailbox) BY DEF Typed, Distinct
<1>13. ASSUME Roomy PROVE n = Len(mailbox) + Len(cmds)
  <2>1. Len(mailbox) <= 2 * Cardinality(Starts) BY <1>10, <1>12, <1>13, MailBound DEF Served
  <2>2. Cardinality(Starts) <= Streams - 1
    BY <1>2, <1>10, TransferAssumption DEF Slots, Typed
  <2>3. \A k \in Nat, c \in 1 .. 2, x \in Nat :
          k <= 2 * x /\ x <= Streams - 1 => Lesser(MailboxCap, k + c) = k + c
    BY <1>13, TransferAssumption DEF Lesser, Roomy
  <2> QED BY <1>8, <1>9, <1>10, <2>1, <2>2, <2>3
<1> HIDE DEF n
<1>14. /\ mailbox' \in Seq(Command) /\ Len(mailbox') = n
       /\ Apart(mailbox') /\ s \notin Starts
       /\ Starts' = Starts \/ Starts' = Starts \cup {s}
       /\ n = Len(mailbox) + Len(cmds) =>
            Starts' = Starts \cup {s} /\ (Paired(mailbox) => Paired(mailbox'))
  <2>1. PICK m \in Seq(Command) : m = mailbox BY <1>12
  <2>2. PICK r : r = mailbox' OBVIOUS
  <2>3. Apart(m) /\ \A c \in StartsOf(m) : Key(c) # Key(s) BY <1>6, <1>10, <1>12, <2>1
  <2>4. Received(r, m, cmds, n) BY <1>7, <2>1, <2>2 DEF Received
  <2>5. n \in Nat /\ n <= Len(m) + Len(cmds) /\ n >= Len(m) BY <1>9, <2>1
  <2>6. /\ r \in Seq(Command) /\ Len(r) = n
        /\ Apart(r) /\ s \notin StartsOf(m)
        /\ StartsOf(r) = StartsOf(m) \/ StartsOf(r) = StartsOf(m) \cup {s}
        /\ n = Len(m) + Len(cmds) =>
             StartsOf(r) = StartsOf(m) \cup {s} /\ (Paired(m) => Paired(r))
    BY <1>5, <2>3, <2>4, <2>5, SendMail
  <2> QED BY <1>10, <1>11, <2>1, <2>2, <2>6
<1>15. Typed' BY <1>1, <1>9, <1>14 DEF Typed
<1>16. Distinct' BY <1>1, <1>6, <1>14 DEF Distinct
<1>17. Wrote' BY <1>1, <1>5, <1>14 DEF Wrote
<1>18. FirstPlan'
  <2>1. \A w \in Starts' \cup tasks' : w = s \/ w \in Starts \cup tasks BY <1>1, <1>14
  <2>2. s.gen \in 1 .. gen /\ s.id \in Live' BY <1>5 DEF Typed
  <2>3. QuietFirstPlan' BY <1>1, <1>2 DEF QuietFirstPlan, QuietCommit
  <2> QED BY <1>1, <2>1, <2>2, <2>3 DEF FirstPlan, Gone
<1>19. Cardinality(Starts \cup {s}) = Cardinality(Starts) + 1 BY <1>10, <1>14, FS_AddElement
<1>20. Slots'
  <2>1. Cardinality(Starts') = Cardinality(Starts) \/ Cardinality(Starts') = Cardinality(Starts) + 1
    <3>1. CASE Starts' = Starts BY <3>1
    <3>2. CASE Starts' = Starts \cup {s} BY <1>19, <3>2
    <3> QED BY <1>14, <3>1, <3>2
  <2>3. active \in Int /\ Cardinality(Starts) + Cardinality(tasks) <= active BY DEF Typed, Slots
  <2> QED BY <1>1, <1>2, <1>10, <2>1, <2>3, TransferAssumption DEF Slots
<1>21. ASSUME Roomy PROVE Paired(mailbox') /\ SlotsExact' /\ NoOrphanClaim'
  <2>1. Starts' = Starts \cup {s} /\ Paired(mailbox') BY <1>13, <1>14, <1>21 DEF Served
  <2>2. SlotsExact' BY <1>1, <1>10, <1>19, <1>21, <2>1 DEF SlotsExact, Served
  <2>3. NoOrphanClaim'
    <3>1. Workers \cup {s} \subseteq Workers' BY <1>1, <1>5, <2>1 DEF Workers
    <3>2. \A i \in Live : \E w \in Workers : w.id = i
      BY <1>2, <1>21 DEF Served, NoOrphanClaim, Gone
    <3> QED BY <1>5, <3>1, <3>2 DEF NoOrphanClaim
  <2> QED BY <2>1, <2>2, <2>3
<1>22. Served' BY <1>21 DEF Served, Roomy
<1> QED BY <1>15, <1>16, <1>17, <1>18, <1>20, <1>22

\* A step that leaves the plan alone.
LEMMA SamePlan ==
  ASSUME PlanInv, Bounded, UNCHANGED planVars
  PROVE  PlanInv' /\ Bounded' /\ Live' = Live /\ completed' = completed
<1>1. PlanInv' BY NextPlanInv
<1>2. Live' = Live BY DEF Live, planVars
<1> QED BY <1>1, <1>2 DEF Bounded, planVars

\* A claim or a steal of the pump.
LEMMA PumpInv ==
  ASSUME TransferInv, NEW id \in Ids,
         \/ PumpClaim(id)
         \/ \E victim \in Ids, keep \in {0, Total}, told \in BOOLEAN :
              PumpSteal(id, victim, keep, told)
  PROVE  TransferInv'
<1> USE DEF TransferInv
<1>1. MayPump /\ id \in Unused /\ id \in Ids \ Live
  BY DEF PumpClaim, PumpSteal, FreshId, Unused
<1>2. PICK s : s = StartCommand(id) OBVIOUS
<1>3. CASE PumpClaim(id)
  <2>1. PlanInv' /\ Bounded' /\ Live' = Live \cup {id} /\ completed' = completed
    BY <1>1, <1>3, ClaimPlan DEF PumpClaim
  <2>2. PICK cmds : cmds = <<s>> OBVIOUS
  <2>3. Dispatched(cmds) BY <1>2, <1>3, <2>2 DEF PumpClaim
  <2>4. ClaimCommands(cmds, s) BY <2>2 DEF ClaimCommands
  <2> HIDE DEF TransferInv
  <2> QED BY <1>1, <1>2, <2>1, <2>3, <2>4, DispatchedInv
<1>4. ASSUME NEW victim \in Ids, NEW keep \in {0, Total}, NEW told \in BOOLEAN,
             PumpSteal(id, victim, keep, told)
      PROVE  TransferInv'
  <2>0. keep \in 0 .. Total BY PlanAssumption
  <2>1. /\ PlanInv' /\ Bounded' /\ Live' = Live \cup {id} /\ completed' = completed
        /\ asg'[victim].hi \in 0 .. Total
    BY <1>1, <1>4, <2>0, StealPlan DEF PumpSteal
  <2>2. PICK cut : cut = TruncateCommand(victim) OBVIOUS
  <2>3. cut \in Command /\ cut.op = "truncate" BY <2>1, <2>2 DEF TruncateCommand, Command
  <2>4. PICK cmds : cmds = IF told THEN <<cut, s>> ELSE <<s>> OBVIOUS
  <2>5. Dispatched(cmds) BY <1>2, <1>4, <2>2, <2>4 DEF PumpSteal
  <2>6. ClaimCommands(cmds, s) BY <2>3, <2>4 DEF ClaimCommands
  <2> HIDE DEF TransferInv
  <2> QED BY <1>1, <1>2, <2>1, <2>5, <2>6, DispatchedInv
<1> QED BY <1>3, <1>4

-----------------------------------------------------------------------------
(***************************************************************************)
(* The shard and its tasks.                                                *)
(***************************************************************************)
\* A start command becomes a task with the same key: the slot moves with it.
LEMMA TakeStartInv == ASSUME TransferInv, TakeStart PROVE TransferInv'
<1> USE DEF TransferInv
<1>1. /\ mailbox # <<>> /\ Head(mailbox).op = "start" /\ mailbox' = Tail(mailbox)
      /\ UNCHANGED <<planVars, phase, reprobing, asked, ranges, gen, active, pumping, written, failures>>
  BY DEF TakeStart
<1>2. PICK c : c = Head(mailbox) OBVIOUS
<1> DEFINE t == [id |-> c.id, gen |-> c.gen, lo |-> c.lo, hi |-> c.hi, pos |-> c.pos,
                 end |-> c.hi, full |-> c.full, attempt |-> c.attempt, state |-> "running"]
<1>3. tasks' = tasks \cup {t} BY <1>2 DEF TakeStart
<1>4. mailbox \in Seq(Command) /\ Apart(mailbox) BY DEF Typed, Distinct
<1>5. /\ mailbox' \in Seq(Command) /\ Len(mailbox') = Len(mailbox) - 1 /\ c \in Command
      /\ Apart(mailbox') /\ StartsOf(mailbox') = StartsOf(mailbox) \ {c}
      /\ Paired(mailbox) => Paired(mailbox')
  BY <1>1, <1>2, <1>4, TailMail
<1>6. /\ Starts = StartsOf(mailbox) /\ IsFiniteSet(Starts)
      /\ Cardinality(Starts) \in Nat /\ Cardinality(tasks) \in Nat
  BY Counted
<1>7. Starts' = Starts \ {c} BY <1>5, <1>6 DEF Starts, StartsOf
<1>8. c \in Starts /\ c \in StartRecord
  <2>1. Len(mailbox) \in Nat \ {0} BY <1>1, <1>4, EmptySeq
  <2>2. 1 \in 1 .. Len(mailbox) /\ mailbox[1] = c BY <1>1, <1>2, <1>4, <2>1
  <2>3. c.op = "start" BY <1>1, <1>2
  <2> QED BY <1>4, <1>6, <2>2, <2>3, MailMember
<1>9. t \in TaskRecord /\ Key(t) = Key(c) BY <1>8 DEF StartRecord, TaskRecord, Key
<1>10. t.lo = c.lo /\ t.pos = c.pos /\ t.id = c.id /\ t.gen = c.gen OBVIOUS
<1> HIDE DEF t
<1>11. \A u \in tasks : Key(u) # Key(t) BY <1>8, <1>9 DEF Distinct
<1>12. \A d \in Starts' : Key(d) # Key(c)
  <2> SUFFICES ASSUME NEW d \in Starts' PROVE Key(d) # Key(c) OBVIOUS
  <2>1. d \in StartsOf(mailbox) /\ d # c BY <1>6, <1>7
  <2>2. PICK p \in 1 .. Len(mailbox) : mailbox[p] = d /\ d.op = "start" BY <1>4, <2>1, MailMember
  <2>3. PICK q \in 1 .. Len(mailbox) : mailbox[q] = c /\ c.op = "start"
    BY <1>4, <1>6, <1>8, MailMember
  <2> QED BY <1>4, <2>1, <2>2, <2>3 DEF Apart
<1>13. PlanInv' /\ Bounded' /\ Live' = Live /\ completed' = completed BY <1>1, SamePlan
<1>14. Typed'
  <2>1. IsFiniteSet(tasks') BY <1>3, FS_AddElement DEF Typed
  <2>2. Len(mailbox') <= MailboxCap
    BY <1>4, <1>5, LenProperties, TransferAssumption DEF Typed
  <2> QED BY <1>1, <1>3, <1>5, <1>9, <2>1, <2>2 DEF Typed
<1>15. Distinct' BY <1>3, <1>5, <1>7, <1>9, <1>11, <1>12 DEF Distinct
<1>16. Wrote'
  <2>1. c.pos \in 0 .. Total /\ c.lo \in 0 .. Total /\ c.pos <= c.lo BY <1>8 DEF StartRecord, Wrote
  <2>2. \A b \in Bytes : ~(t.lo <= b /\ b < t.pos) BY <1>10, <2>1, PlanAssumption DEF Bytes
  <2> QED BY <1>1, <1>3, <1>7, <1>13, <2>2 DEF Wrote
<1>17. FirstPlan'
  <2>1. \A w \in Starts' \cup tasks' : w = t \/ w \in Starts \cup tasks BY <1>3, <1>7
  <2>2. QuietFirstPlan' BY <1>1, <1>8 DEF FirstPlan, QuietFirstPlan, QuietCommit
  <2> QED BY <1>1, <1>8, <1>10, <1>13, <2>1, <2>2 DEF FirstPlan, Gone
<1>18. Cardinality(Starts') = Cardinality(Starts) - 1 /\ Cardinality(tasks') = Cardinality(tasks) + 1
  <2>1. Cardinality(Starts \ {c}) = Cardinality(Starts) - 1 BY <1>6, <1>8, FS_RemoveElement
  <2>2. t \notin tasks BY <1>11
  <2>3. Cardinality(tasks \cup {t}) = Cardinality(tasks) + 1 BY <2>2, FS_AddElement DEF Typed
  <2> QED BY <1>3, <1>7, <2>1, <2>3
<1>19. Slots' BY <1>1, <1>6, <1>18, TransferAssumption DEF Slots, Typed
<1>20. ASSUME Roomy PROVE Paired(mailbox') /\ SlotsExact' /\ NoOrphanClaim'
  <2>1. SlotsExact' BY <1>1, <1>6, <1>18, <1>20 DEF SlotsExact, Served
  <2>2. NoOrphanClaim'
    <3> SUFFICES ASSUME ~Gone', NEW i \in Live' PROVE \E w \in Workers' : w.id = i
      BY DEF NoOrphanClaim
    <3>1. PICK w \in Workers : w.id = i BY <1>1, <1>13, <1>20 DEF Served, NoOrphanClaim, Gone
    <3>2. CASE w = c
      <4>1. t \in Workers' BY <1>1, <1>3, <1>10, <3>1, <3>2 DEF Workers
      <4> QED BY <1>10, <3>1, <3>2, <4>1
    <3>3. CASE w # c
      <4>1. w \in Workers' BY <1>1, <1>3, <1>7, <3>1, <3>3 DEF Workers
      <4> QED BY <3>1, <4>1
    <3> QED BY <3>2, <3>3
  <2> QED BY <1>5, <1>20, <2>1, <2>2 DEF Served
<1>21. Served' BY <1>20 DEF Served, Roomy
<1> QED BY <1>13, <1>14, <1>15, <1>16, <1>17, <1>19, <1>21

\* Tasks that change, each keeping its key and its range, keep everything that
\* concerns slots and plans.
LEMMA TasksChangeInv ==
  ASSUME TransferInv,
         NEW f \in [tasks -> TaskRecord], tasks' = {f[t] : t \in tasks},
         \A t \in tasks : /\ f[t].id = t.id /\ f[t].gen = t.gen
                          /\ \A b \in Bytes : f[t].lo <= b /\ b < f[t].pos => b \in written',
         written \subseteq written', written' \subseteq Bytes,
         Starts' = Starts, mailbox' \in Seq(Command), Len(mailbox') <= MailboxCap,
         Apart(mailbox'), Paired(mailbox) => Paired(mailbox'),
         UNCHANGED <<planVars, phase, reprobing, asked, ranges, gen, active, pumping>>
  PROVE  TransferInv'
<1> USE DEF TransferInv
<1>1. PlanInv' /\ Bounded' /\ Live' = Live /\ completed' = completed BY SamePlan
<1>2. \A t \in tasks : Key(f[t]) = Key(t) BY DEF Key
<1>3. \A u \in tasks' : \E t \in tasks : u = f[t] OBVIOUS
<1>4. /\ IsFiniteSet(tasks') /\ Cardinality(tasks') = Cardinality(tasks)
      /\ Cardinality(Starts) \in Nat /\ Cardinality(tasks) \in Nat
  <2>1. f \in Surjection(tasks, tasks')
    <3>1. PICK T : T = tasks' OBVIOUS
    <3>2. f \in [tasks -> T] /\ \A u \in T : \E t \in tasks : f[t] = u BY <3>1
    <3> QED BY <3>1, <3>2 DEF Surjection
  <2>2. f \in Injection(tasks, tasks')
    <3>1. \A t, u \in tasks : f[t] = f[u] => t = u BY <1>2 DEF Distinct
    <3>2. f \in [tasks -> tasks'] OBVIOUS
    <3> QED BY <3>1, <3>2 DEF Injection, IsInjective
  <2> QED BY <2>1, <2>2, FS_Surjection, Counted DEF Typed
<1>5. Typed' BY <1>4 DEF Typed
<1>6. Distinct'
  <2>1. \A u, v \in tasks' : Key(u) = Key(v) => u = v BY <1>2, <1>3 DEF Distinct
  <2>2. \A c \in Starts', u \in tasks' : Key(c) # Key(u) BY <1>2, <1>3 DEF Distinct
  <2> QED BY <2>1, <2>2 DEF Distinct
<1>7. Wrote'
  <2>1. \A u \in tasks' : \A b \in Bytes : u.lo <= b /\ b < u.pos => b \in written' BY <1>3
  <2> QED BY <1>1, <2>1 DEF Wrote
<1>8. FirstPlan'
  <2>1. \A u \in tasks' : \E t \in tasks : u.id = t.id /\ u.gen = t.gen BY <1>3
  <2>2. QuietFirstPlan' BY <1>3 DEF FirstPlan, QuietFirstPlan, QuietCommit
  <2>3. \A w \in Starts' \cup tasks' : \E v \in Starts \cup tasks : w.id = v.id /\ w.gen = v.gen
    BY <2>1
  <2> QED BY <1>1, <2>2, <2>3 DEF FirstPlan, Gone
<1>9. Slots' BY <1>4 DEF Slots
<1>10. ASSUME Roomy PROVE Paired(mailbox') /\ SlotsExact' /\ NoOrphanClaim'
  <2>1. SlotsExact' BY <1>4, <1>10 DEF SlotsExact, Served
  <2>2. NoOrphanClaim'
    <3> SUFFICES ASSUME ~Gone', NEW i \in Live' PROVE \E w \in Workers' : w.id = i
      BY DEF NoOrphanClaim
    <3>1. PICK w \in Workers : w.id = i BY <1>1, <1>10 DEF Served, NoOrphanClaim, Gone
    <3>2. CASE w \in tasks
      <4>1. f[w] \in tasks' /\ f[w].id = i /\ f[w].gen = gen BY <3>1, <3>2 DEF Workers
      <4> QED BY <4>1 DEF Workers
    <3>3. CASE w \in Starts BY <3>1, <3>3 DEF Workers
    <3> QED BY <3>1, <3>2, <3>3 DEF Workers
  <2> QED BY <1>10, <2>1, <2>2 DEF Served
<1>11. Served' BY <1>10 DEF Served, Roomy
<1> QED BY <1>1, <1>5, <1>6, <1>7, <1>8, <1>9, <1>11

\* A truncation moves the end flag of running tasks and nothing else.
LEMMA TakeTruncateInv == ASSUME TransferInv, TakeTruncate PROVE TransferInv'
<1>1. /\ mailbox # <<>> /\ Head(mailbox).op = "truncate" /\ mailbox' = Tail(mailbox)
      /\ tasks' = {Truncated(t, Head(mailbox)) : t \in tasks}
      /\ UNCHANGED <<planVars, phase, reprobing, asked, ranges, gen, active, pumping, flags, written, failures>>
  BY DEF TakeTruncate
<1>2. mailbox \in Seq(Command) /\ Apart(mailbox) /\ Len(mailbox) <= MailboxCap
  BY DEF TransferInv, Typed, Distinct
<1>3. PICK c : c = Head(mailbox) OBVIOUS
<1>4. /\ mailbox' \in Seq(Command) /\ Len(mailbox') = Len(mailbox) - 1 /\ c \in Command
      /\ Apart(mailbox') /\ StartsOf(mailbox') = StartsOf(mailbox) \ {c}
      /\ Paired(mailbox) => Paired(mailbox')
  BY <1>1, <1>2, <1>3, TailMail
<1>5. c.hi \in 0 .. Total /\ c.op # "start" BY <1>1, <1>3, <1>4 DEF Command, StartRecord
<1>6. Starts' = Starts BY <1>4, <1>5 DEF Starts, StartsOf
<1>7. Len(mailbox') <= MailboxCap BY <1>2, <1>4, LenProperties, TransferAssumption
<1> DEFINE f == [t \in tasks |-> Truncated(t, c)]
<1>8. ASSUME NEW t \in tasks
      PROVE  /\ f[t] \in TaskRecord /\ f[t].id = t.id /\ f[t].gen = t.gen
             /\ f[t].lo = t.lo /\ f[t].pos = t.pos
  <2>1. t \in TaskRecord BY DEF TransferInv, Typed
  <2> QED BY <1>5, <2>1 DEF Truncated, TaskRecord
<1>9. tasks' = {f[t] : t \in tasks} BY <1>1, <1>3
<1>10. f \in [tasks -> TaskRecord] BY <1>8
<1>11. \A t \in tasks : \A b \in Bytes : f[t].lo <= b /\ b < f[t].pos => b \in written'
  BY <1>1, <1>8 DEF TransferInv, Wrote
<1>12. written' = written /\ written' \subseteq Bytes BY <1>1 DEF TransferInv, Typed
<1> HIDE DEF f
<1> QED BY <1>1, <1>4, <1>6, <1>7, <1>8, <1>9, <1>10, <1>11, <1>12, TasksChangeInv

\* A task that writes, ends, stops or fails stays what it was for the plan.
LEMMA TaskInv ==
  ASSUME TransferInv, NEW t \in tasks,
         \/ WriteChunk(t) \/ TaskFinishes(t) \/ TaskStops(t) \/ BodyEndsEarly(t) \/ TaskFails(t)
  PROVE  TransferInv'
<1>1. t \in TaskRecord BY DEF TransferInv, Typed
<1>2. UNCHANGED <<planVars, phase, reprobing, asked, ranges, gen, active, pumping, mailbox>>
  BY DEF WriteChunk, TaskFinishes, TaskStops, BodyEndsEarly, TaskFails
<1>3. PICK u \in TaskRecord :
        /\ tasks' = (tasks \ {t}) \cup {u}
        /\ u.id = t.id /\ u.gen = t.gen /\ u.lo = t.lo
        /\ \/ u.pos = t.pos /\ written' = written
           \/ t.pos \in Bytes /\ u.pos = t.pos + 1 /\ written' = written \cup {t.pos}
  <2>1. CASE WriteChunk(t)
    <3> DEFINE u == [t EXCEPT !.pos = t.pos + 1]
    <3>1. t.pos \in 0 .. Total /\ t.pos < Total
      BY <1>1, <2>1, PlanAssumption DEF WriteChunk, StopAt, Lesser, TaskRecord
    <3>2. u \in TaskRecord /\ u.id = t.id /\ u.gen = t.gen /\ u.lo = t.lo /\ u.pos = t.pos + 1
      <4>1. t.pos + 1 \in 0 .. Total BY <3>1, PlanAssumption
      <4> QED BY <1>1, <4>1 DEF TaskRecord
    <3>3. t.pos \in Bytes BY <3>1, PlanAssumption DEF Bytes
    <3> QED BY <2>1, <3>2, <3>3 DEF WriteChunk
  <2>2. CASE ~WriteChunk(t)
    <3>1. PICK st \in {"verified", "stopped", "failed"} :
            tasks' = (tasks \ {t}) \cup {[t EXCEPT !.state = st]} /\ written' = written
      BY <2>2 DEF TaskFinishes, TaskStops, BodyEndsEarly, TaskFails
    <3> DEFINE u == [t EXCEPT !.state = st]
    <3>2. u \in TaskRecord /\ u.id = t.id /\ u.gen = t.gen /\ u.lo = t.lo /\ u.pos = t.pos
      BY <1>1 DEF TaskRecord
    <3> QED BY <3>1, <3>2
  <2> QED BY <2>1, <2>2
<1>4. written \subseteq written' /\ written' \subseteq Bytes BY <1>3 DEF TransferInv, Typed
<1> DEFINE f == [x \in tasks |-> IF x = t THEN u ELSE x]
<1>5. tasks' = {f[x] : x \in tasks} BY <1>3
<1>6. f \in [tasks -> TaskRecord] BY DEF TransferInv, Typed
<1>7. ASSUME NEW x \in tasks
      PROVE  /\ f[x].id = x.id /\ f[x].gen = x.gen
             /\ \A b \in Bytes : f[x].lo <= b /\ b < f[x].pos => b \in written'
  <2>1. CASE x # t BY <1>4, <2>1 DEF TransferInv, Wrote
  <2>2. CASE x = t
    <3>1. f[x] = u BY <2>2
    <3>2. \A b \in Bytes : t.lo <= b /\ b < t.pos => b \in written' BY <1>4 DEF TransferInv, Wrote
    <3>3. t.pos \in Int /\ Bytes \subseteq Int BY <1>1 DEF TaskRecord, Bytes
    <3>4. \A b \in Bytes : b < t.pos + 1 => b < t.pos \/ b = t.pos BY <3>3
    <3> QED BY <1>3, <2>2, <3>1, <3>2, <3>4
  <2> QED BY <2>1, <2>2
<1>8. Starts' = Starts BY <1>2 DEF Starts
<1>9. /\ mailbox' = mailbox /\ mailbox \in Seq(Command) /\ Len(mailbox) <= MailboxCap
      /\ Apart(mailbox)
  BY <1>2 DEF TransferInv, Typed, Distinct
<1> HIDE DEF f
<1> QED BY <1>2, <1>4, <1>5, <1>6, <1>7, <1>8, <1>9, TasksChangeInv

-----------------------------------------------------------------------------
(***************************************************************************)
(* The control thread.                                                     *)
(***************************************************************************)
\* A step that changes no command, no task and no owner: timers, the end of a pump
\* and a cancellation.
LEMMA IdleInv ==
  ASSUME TransferInv, PlanInv', Bounded', Live' = Live, completed' = completed,
         UNCHANGED <<ranges, reprobing, gen, active, mailbox, tasks, written>>,
         pumping' \in BOOLEAN, asked' \in BOOLEAN, phase' \in Phases,
         phase' = phase \/ (~Gone /\ phase' # "committing")
  PROVE  TransferInv'
<1> USE DEF TransferInv
<1>1. Starts' = Starts /\ Workers' = Workers BY DEF Starts, Workers
<1>2. ~Gone' => ~Gone BY DEF Gone
<1>3. Typed' BY DEF Typed
<1>4. Distinct' /\ Wrote' BY <1>1 DEF Distinct, Wrote
<1>5. QuietFirstPlan' BY <1>1 DEF FirstPlan, QuietFirstPlan, QuietCommit
<1>6. FirstPlan' BY <1>1, <1>2, <1>5 DEF FirstPlan
<1>7. Slots' BY <1>1 DEF Slots
<1>8. Served' BY <1>1, <1>2 DEF Served, Roomy, SlotsExact, NoOrphanClaim
<1> QED BY <1>3, <1>4, <1>6, <1>7, <1>8

\* A report takes its task, its slot and, when the plan still knows its key, its
\* assignment away.
LEMMA ReportInv ==
  ASSUME TransferInv, NEW t \in tasks, tasks' = tasks \ {t}, active' = active - 1,
         UNCHANGED <<mailbox, written, asked>>,
         PlanInv', Bounded', completed' \subseteq written,
         phase' \in Phases, ranges' \in BOOLEAN, pumping' \in BOOLEAN, reprobing' \in BOOLEAN,
         ~Gone' => ~Gone,
         gen' = gen \/ (gen' = gen + 1 /\ gen' <= MaxPlans),
         ~Gone' /\ gen' = gen => Live' = Live \ {t.id},
         gen' # gen => Live' = {},
         gen' = 1 /\ phase' = "committing" => Live' = {}
  PROVE  TransferInv'
<1> USE DEF TransferInv
<1>1. Starts' = Starts BY DEF Starts
<1>2. gen \in 1 .. MaxPlans /\ gen' \in 1 .. MaxPlans BY TransferAssumption DEF Typed
<1>3. /\ IsFiniteSet(tasks') /\ Cardinality(tasks') = Cardinality(tasks) - 1
      /\ Cardinality(Starts) \in Nat /\ Cardinality(tasks) \in Nat
  <2>1. IsFiniteSet(tasks) BY DEF Typed
  <2>2. IsFiniteSet(tasks \ {t}) /\ Cardinality(tasks \ {t}) = Cardinality(tasks) - 1
    BY <2>1, FS_RemoveElement
  <2> QED BY <2>2, Counted
<1>4. Typed' BY <1>2, <1>3 DEF Typed
<1>5. Distinct' BY <1>1 DEF Distinct
<1>6. Wrote' BY <1>1 DEF Wrote
<1>7. FirstPlan'
  <2>1. \A w \in Starts' \cup tasks' : w.gen \in 1 .. gen' BY <1>1, <1>2 DEF FirstPlan
  <2>2. ASSUME gen' = 1, ~Gone', NEW w \in Starts' \cup tasks' PROVE w.id \in Live'
    <3>1. gen = 1 /\ gen' = gen BY <1>2, <2>2
    <3>2. w \in Starts \cup tasks /\ w # t BY <1>1, <2>2, Counted DEF Distinct
    <3>3. w.gen = 1 /\ t.gen = 1 /\ w.id \in Live
      BY <2>2, <3>1, <3>2 DEF FirstPlan
    <3>4. w.id # t.id BY <3>2, <3>3 DEF Distinct, Key
    <3> QED BY <2>2, <3>1, <3>3, <3>4
  <2>3. QuietFirstPlan'
    <3> SUFFICES ASSUME gen' = 1, phase' = "committing" PROVE Starts' = {} /\ tasks' = {}
      BY DEF QuietFirstPlan, QuietCommit
    <3>1. ~Gone' BY DEF Gone
    <3>2. Starts' \cup tasks' = {} BY <2>2, <3>1
    <3> QED BY <3>2
  <2> QED BY <2>1, <2>2, <2>3 DEF FirstPlan
<1>8. Slots' BY <1>1, <1>3, TransferAssumption DEF Slots, Typed
<1>9. ASSUME Roomy PROVE Paired(mailbox') /\ SlotsExact' /\ NoOrphanClaim'
  <2>1. SlotsExact' BY <1>1, <1>3, <1>9 DEF SlotsExact, Served
  <2>2. NoOrphanClaim'
    <3> SUFFICES ASSUME ~Gone', NEW i \in Live' PROVE \E w \in Workers' : w.id = i
      BY DEF NoOrphanClaim
    <3>1. gen' = gen /\ i \in Live /\ i # t.id OBVIOUS
    <3>2. PICK w \in Workers : w.id = i BY <1>9, <3>1 DEF Served, NoOrphanClaim
    <3>3. w \in Workers' BY <1>1, <3>1, <3>2 DEF Workers
    <3> QED BY <3>2, <3>3
  <2> QED BY <1>9, <2>1, <2>2 DEF Served
<1>10. Served' BY <1>9 DEF Served, Roomy
<1> QED BY <1>4, <1>5, <1>6, <1>7, <1>8, <1>10

\* A completed plan of known length has no owner left.
LEMMA CompleteIsEmpty == PlanInv /\ Bounded /\ mode = "ranged" /\ IsComplete => Live = {}
<1> SUFFICES ASSUME PlanInv, Bounded, mode = "ranged", IsComplete, NEW i \in Live PROVE FALSE
  OBVIOUS
<1>1. asg[i] \in Assignment BY DEF PlanInv, TypeOK
<1>2. asg[i].lo < asg[i].hi /\ asg[i].lo \in 0 .. Total /\ asg[i].hi \in 0 .. Total
  BY <1>1 DEF Bounded, Assignment
<1>3. asg[i].lo \in Span(asg[i]) BY <1>2, PlanAssumption DEF Span, Bytes
<1>4. asg[i].lo \in Owned /\ asg[i].lo \in Bytes BY <1>3 DEF Owned, Span
<1>5. Owned \cap completed = {} BY DEF PlanInv, DisjointOwners
<1> QED BY <1>4, <1>5 DEF IsComplete

\* Dropping an assignment leaves the others as they are.
LEMMA DropPlan ==
  ASSUME PlanInv, Bounded, PlanInv', NEW id \in Live, asg' = Keep(Live \ {id}), mode' = mode
  PROVE  Bounded' /\ Live' = Live \ {id}
<1>1. Live' = Live \ {id} /\ \A i \in Live' : asg'[i] = asg[i] BY WorkerEnds
<1> QED BY <1>1 DEF Bounded

\* abandon, when the plan knows the key.
LEMMA AbandonedPlan ==
  ASSUME PlanInv, Bounded, NEW t, Abandoned(t)
  PROVE  /\ PlanInv' /\ Bounded' /\ completed' = completed
         /\ ~Gone => Live' = Live \ {t.id}
<1>1. CASE Known(t)
  <2>1. Abandon(t.id) /\ t.id \in Live BY <1>1 DEF Abandoned, Known
  <2>2. PlanInv' BY <2>1, AbandonInv
  <2>3. asg' = Keep(Live \ {t.id}) /\ mode' = mode /\ completed' = completed
    BY <2>1 DEF Abandon
  <2>4. PICK i : i = t.id OBVIOUS
  <2>5. Bounded' /\ Live' = Live \ {i} BY <2>1, <2>2, <2>3, <2>4, DropPlan
  <2> QED BY <2>2, <2>3, <2>4, <2>5
<1>2. CASE ~Known(t)
  <2>1. UNCHANGED planVars BY <1>2 DEF Abandoned
  <2>2. PlanInv' /\ Bounded' /\ Live' = Live /\ completed' = completed BY <2>1, SamePlan
  <2> QED BY <1>2, <2>2 DEF Known
<1> QED BY <1>1, <1>2

\* try_complete_drain never brings a job back, nor does it commit one.
LEMMA DrainedPhase ==
  ASSUME NEW ph \in Phases, NEW live
  PROVE  /\ Drained(ph, live) \in Phases
         /\ Drained(ph, live) = ph \/ (ph \in {"failing", "cancelling"}
                                       /\ Drained(ph, live) \in {"failed", "cancelled"})
  BY DEF Drained, Phases

\* A verified report credits bytes its task wrote.
LEMMA HandleVerifiedInv ==
  ASSUME TransferInv, NEW t \in tasks, HandleVerified(t) PROVE TransferInv'
<1>1. /\ tasks' = tasks \ {t} /\ active' = active - 1
      /\ UNCHANGED <<asked, mailbox, flags, written, failures, reprobing, ranges, gen>>
      /\ phase' = IF ~Gone /\ IsComplete' THEN "committing" ELSE Drained(phase, Live')
      /\ pumping' \in BOOLEAN
      /\ IF Known(t) THEN Verified(t.id, t.lo, ReportedEnd(t)) ELSE UNCHANGED planVars
  BY DEF HandleVerified, Reported
<1>2. t \in TaskRecord BY DEF TransferInv, Typed
<1>3. phase \in Phases /\ PlanInv /\ Bounded BY DEF TransferInv, Typed
<1>4. phase' \in Phases /\ (~Gone' => ~Gone)
  <2>1. Drained(phase, Live') \in Phases BY <1>3, DrainedPhase
  <2>2. Gone => phase' = phase BY <1>1 DEF Gone, Drained
  <2> QED BY <1>1, <2>1, <2>2 DEF Phases, Gone
<1>5. /\ PlanInv' /\ Bounded' /\ completed' \subseteq written
      /\ ~Gone => Live' = Live \ {t.id}
      /\ mode' = mode
  <2>1. CASE Known(t)
    <3>1. PICK i \in Live, lo \in 0 .. Total, hi \in 0 .. Total :
            i = t.id /\ lo = t.lo /\ hi = ReportedEnd(t)
      BY <1>2, <2>1 DEF Known, ReportedEnd, Greater, TaskRecord
    <3>2. Verified(i, lo, hi) BY <1>1, <2>1, <3>1
    <3>3. PlanInv' BY <1>3, <3>2, VerifiedInv
    <3>4. /\ asg' = Keep(Live \ {i}) /\ mode' = mode
          /\ completed' = completed \cup VerifiedPart(asg[i], lo, hi)
      BY <3>2 DEF Verified
    <3>5. Bounded' /\ Live' = Live \ {i} BY <1>3, <3>3, <3>4, DropPlan
    <3>6. VerifiedPart(asg[i], lo, hi) \subseteq written
      <4> SUFFICES ASSUME NEW b \in Bytes, lo <= b, b < hi PROVE b \in written
        BY DEF VerifiedPart
      <4>1. b \in Int BY DEF Bytes
      <4>2. t.pos \in Int /\ t.lo \in Int BY <1>2 DEF TaskRecord
      <4>3. t.lo <= b /\ b < t.pos BY <3>1, <4>1, <4>2 DEF ReportedEnd, Greater
      <4> QED BY <4>3 DEF TransferInv, Wrote
    <3> QED BY <3>1, <3>3, <3>4, <3>5, <3>6 DEF TransferInv, Wrote
  <2>2. CASE ~Known(t)
    <3>1. UNCHANGED planVars BY <1>1, <2>2
    <3>2. PlanInv' /\ Bounded' /\ Live' = Live /\ completed' = completed /\ mode' = mode
      BY <1>3, <3>1, SamePlan DEF planVars
    <3> QED BY <2>2, <3>2 DEF Known, TransferInv, Wrote
  <2> QED BY <2>1, <2>2
<1>6. ASSUME gen' = 1, phase' = "committing" PROVE Live' = {}
  <2>1. gen = 1 /\ ~Gone BY <1>1, <1>4, <1>6 DEF Gone
  <2>2. phase # "committing" BY <2>1 DEF TransferInv, FirstPlan, QuietFirstPlan, QuietCommit
  <2>3. IsComplete' BY <1>1, <1>3, <1>6, <2>2, DrainedPhase
  <2>4. CASE mode = "ranged"
    <3>1. mode' = "ranged" BY <1>5, <2>4
    <3>2. (PlanInv /\ Bounded /\ mode = "ranged" /\ IsComplete => Live = {})'
      BY CompleteIsEmpty, PTL
    <3> QED BY <1>5, <2>3, <3>1, <3>2
  <2>5. CASE mode # "ranged"
    <3>1. t.id \in Live BY <2>1 DEF TransferInv, FirstPlan
    <3>2. Live = {t.id} BY <2>5, <3>1 DEF TransferInv, PlanInv, AtMostOne
    <3> QED BY <1>5, <2>1, <3>2
  <2> QED BY <2>4, <2>5
<1> QED BY <1>1, <1>4, <1>5, <1>6, ReportInv DEF TransferInv, Typed

\* The first plan is not committing while a task is out.
LEMMA BusyFirstPlan == ASSUME TransferInv, NEW t \in tasks, gen = 1 PROVE phase # "committing"
  BY DEF TransferInv, FirstPlan, QuietFirstPlan, QuietCommit

\* A failed report that keeps the plan: retried later, or abandoned.
LEMMA FailureKeepsPlan ==
  ASSUME TransferInv, NEW t \in tasks, tasks' = tasks \ {t}, active' = active - 1,
         UNCHANGED <<asked, mailbox, written, gen>>,
         Abandoned(t) \/ (Known(t) /\ RetryLater(t.id)),
         phase' \in Phases \ {"committing"} \/ phase' = phase, Gone => phase' = phase,
         ranges' \in BOOLEAN, pumping' \in BOOLEAN, reprobing' \in BOOLEAN
  PROVE  TransferInv'
<1>1. PlanInv /\ Bounded /\ phase \in Phases BY DEF TransferInv, Typed
<1>2. PlanInv' /\ Bounded' /\ completed' = completed /\ (~Gone => Live' = Live \ {t.id})
  <2>1. CASE Abandoned(t) BY <1>1, <2>1, AbandonedPlan
  <2>2. CASE Known(t) /\ RetryLater(t.id)
    <3>1. PICK i : i = t.id OBVIOUS
    <3>2. RetryLater(i) /\ i \in Live BY <2>2, <3>1 DEF Known
    <3>3. PlanInv' BY <1>1, <3>2, RetryLaterInv
    <3>4. asg' = Keep(Live \ {i}) /\ mode' = mode /\ completed' = completed
      BY <3>2 DEF RetryLater
    <3>5. Bounded' /\ Live' = Live \ {i} BY <1>1, <3>2, <3>3, <3>4, DropPlan
    <3> QED BY <3>1, <3>3, <3>4, <3>5
  <2> QED BY <2>1, <2>2
<1>3. ~Gone' => ~Gone BY DEF Gone
<1>4. completed' \subseteq written BY <1>2 DEF TransferInv, Wrote
<1>5. gen' = 1 => phase' # "committing" BY BusyFirstPlan
<1> QED BY <1>1, <1>2, <1>3, <1>4, <1>5, ReportInv

\* Every disposition of a failed fetch.
LEMMA HandleFailureInv ==
  ASSUME TransferInv, NEW t \in tasks, NEW lost \in BOOLEAN,
         HandleRetry(t) \/ HandleBackOff(t, lost) \/ HandleFatal(t) \/ HandleRecheck(t)
  PROVE  TransferInv'
<1>1. /\ tasks' = tasks \ {t} /\ active' = active - 1
      /\ UNCHANGED <<asked, mailbox, written, gen>>
      /\ pumping' \in BOOLEAN
  BY DEF HandleRetry, HandleBackOff, HandleFatal, HandleRecheck, Reported
<1>2. phase \in Phases /\ ranges \in BOOLEAN /\ reprobing \in BOOLEAN BY DEF TransferInv, Typed
<1>3. ranges' \in BOOLEAN /\ reprobing' \in BOOLEAN
  <2>1. (ranges /\ ~lost) \in BOOLEAN OBVIOUS
  <2> QED BY <1>2, <2>1 DEF HandleRetry, HandleBackOff, HandleFatal, HandleRecheck
<1>4. Abandoned(t) \/ (Known(t) /\ RetryLater(t.id))
  BY DEF HandleRetry, HandleBackOff, HandleFatal, HandleRecheck, Abandoned
<1>5. PICK live : live = Live' OBVIOUS
<1>6. Gone => Drained(phase, live) = phase BY DEF Gone, Drained
<1>7. /\ phase' \in Phases \ {"committing"} \/ phase' = phase
      /\ Gone => phase' = phase
  <2>1. CASE HandleRetry(t)
    <3>1. PICK ph \in {phase, "failing"} : phase' = Drained(ph, live) /\ (Gone => ph = phase)
      BY <1>5, <2>1 DEF HandleRetry
    <3>2. ph \in Phases BY <1>2, <3>1 DEF Phases
    <3>3. Drained(ph, live) = ph \/ Drained(ph, live) \in {"failed", "cancelled"}
      BY <3>2, DrainedPhase
    <3> QED BY <1>6, <3>1, <3>3 DEF Phases
  <2>2. CASE HandleBackOff(t, lost)
    <3>1. phase' = Drained(phase, live) BY <1>5, <2>2 DEF HandleBackOff
    <3>2. Drained(phase, live) = phase \/ Drained(phase, live) \in {"failed", "cancelled"}
      BY <1>2, DrainedPhase
    <3> QED BY <1>6, <3>1, <3>2 DEF Phases
  <2>3. CASE HandleFatal(t)
    <3>1. \/ phase' = Drained(phase, live) /\ (Drained(phase, live) = "cancelled" \/ Gone)
          \/ phase' = "failed" /\ ~Gone
      BY <1>5, <2>3 DEF HandleFatal
    <3>2. Drained(phase, live) \in Phases BY <1>2, DrainedPhase
    <3> QED BY <1>6, <3>1, <3>2 DEF Phases
  <2>4. CASE HandleRecheck(t) BY <2>4 DEF HandleRecheck, StillThere, Phases
  <2> QED BY <2>1, <2>2, <2>3, <2>4
<1> QED BY <1>1, <1>3, <1>4, <1>7, FailureKeepsPlan

\* A full body in answer to a range request: the new plan owns nothing yet.
LEMMA HandleFullBodyInv ==
  ASSUME TransferInv, NEW t \in tasks, HandleFullBody(t) PROVE TransferInv'
<1>1. /\ tasks' = tasks \ {t} /\ active' = active - 1
      /\ UNCHANGED <<asked, mailbox, written, reprobing, phase>>
      /\ pumping' = TRUE /\ ranges' = FALSE /\ gen' = gen + 1 /\ PlansLeft /\ Downgrade
  BY DEF HandleFullBody, Reported
<1>2. /\ gen \in 1 .. MaxPlans /\ phase \in Phases /\ reprobing \in BOOLEAN
      /\ PlanInv /\ Bounded
  BY DEF TransferInv, Typed
<1>3. gen' <= MaxPlans /\ gen' # gen /\ gen' # 1
  BY <1>1, <1>2, TransferAssumption DEF PlansLeft
<1>4. PlanInv' BY <1>1, <1>2, NewPlanInv DEF Downgrade, PlanInv, TypeOK, Modes
<1>5. Live' = {} /\ completed' = completed /\ mode' # "unsized"
  BY <1>1, <1>2 DEF Downgrade, Keep, Live, Bounded
<1>6. Bounded' BY <1>5 DEF Bounded
<1>7. completed' \subseteq written BY <1>5 DEF TransferInv, Wrote
<1>8. ~Gone' => ~Gone BY <1>1 DEF Gone
<1> QED BY <1>1, <1>2, <1>3, <1>4, <1>5, <1>6, <1>7, <1>8, ReportInv

\* A second probe: the workers of the old plan stay, and keep their slots.
LEMMA ProbedInv ==
  ASSUME TransferInv, NEW m \in {"ranged", "stream"}, NEW r \in BOOLEAN, Probed(m, r)
  PROVE  TransferInv'
<1> USE DEF TransferInv
<1>1. /\ UNCHANGED <<asked, active, mailbox, tasks, flags, written, failures>>
      /\ ~Gone /\ gen < MaxPlans /\ Replan(m)
      /\ reprobing' = FALSE /\ ranges' = r /\ gen' = gen + 1
      /\ phase' \in {"committing", "transferring"} /\ pumping' \in BOOLEAN
  BY DEF Probed
<1>2. PlanInv' BY <1>1, NewPlanInv DEF Replan, Modes
<1>3. Live' = {} /\ completed' = {} /\ mode' # "unsized" BY <1>1 DEF Replan, Keep, Live
<1>4. Bounded' BY <1>3 DEF Bounded
<1>5. Starts' = Starts BY <1>1 DEF Starts
<1>6. gen \in 1 .. MaxPlans /\ gen' \in 1 .. MaxPlans /\ gen' # 1
  BY <1>1, TransferAssumption DEF Typed
<1>7. Typed' BY <1>1, <1>6 DEF Typed, Phases
<1>8. Distinct' /\ Wrote' BY <1>1, <1>3, <1>5 DEF Distinct, Wrote
<1>9. FirstPlan' BY <1>1, <1>5, <1>6 DEF FirstPlan, QuietFirstPlan
<1>10. Slots' BY <1>1, <1>5 DEF Slots
<1>11. Served' BY <1>1, <1>3, <1>5 DEF Served, Roomy, SlotsExact, NoOrphanClaim
<1> QED BY <1>2, <1>4, <1>7, <1>8, <1>9, <1>10, <1>11

\* The end of a pump, a cancellation and the timers change no owner.
LEMMA OtherInv ==
  ASSUME TransferInv,
         PumpEnds \/ Cancel \/ RetryReady \/ \E d \in deferred : TimePasses(d)
  PROVE  TransferInv'
<1>1. /\ PlanInv /\ Bounded /\ phase \in Phases /\ pumping \in BOOLEAN /\ asked \in BOOLEAN
  BY DEF TransferInv, Typed
<1>2. CASE PumpEnds
  <2>1. UNCHANGED <<planVars, phase, reprobing, asked, ranges, gen, active, mailbox, tasks, flags, written, failures>>
        /\ pumping' = FALSE
    BY <1>2 DEF PumpEnds
  <2>2. PlanInv' /\ Bounded' /\ Live' = Live /\ completed' = completed BY <1>1, <2>1, SamePlan
  <2> QED BY <1>1, <2>1, <2>2, IdleInv
<1>3. CASE Cancel
  <2>1. UNCHANGED <<planVars, reprobing, ranges, gen, active, pumping, mailbox, tasks, flags, written, failures>>
        /\ asked' = TRUE /\ ~Gone
    BY <1>3 DEF Cancel
  <2>2. PlanInv' /\ Bounded' /\ Live' = Live /\ completed' = completed BY <1>1, <2>1, SamePlan
  <2>3. phase' \in {"cancelling", "cancelled"} BY <1>3 DEF Cancel, Drained
  <2>4. phase' \in Phases /\ phase' # "committing" BY <2>3 DEF Phases
  <2> QED BY <1>1, <2>1, <2>2, <2>4, IdleInv
<1>4. ASSUME UNCHANGED <<phase, reprobing, asked, ranges, gen, active, mailbox, tasks, written>>,
             pumping' \in BOOLEAN,
             ReleaseDue \/ \E d \in deferred : BackoffElapses(d)
      PROVE  TransferInv'
  <2>1. PlanInv' BY <1>1, <1>4, ReleaseDueInv, BackoffElapsesInv
  <2>2. UNCHANGED <<mode, completed, asg>> BY <1>4 DEF ReleaseDue, BackoffElapses
  <2>3. Live' = Live BY <2>2 DEF Live
  <2>4. Bounded' BY <1>1, <2>2, <2>3 DEF Bounded
  <2> QED BY <1>1, <1>4, <2>1, <2>2, <2>3, <2>4, IdleInv
<1>5. CASE RetryReady BY <1>4, <1>5 DEF RetryReady
<1>6. CASE \E d \in deferred : TimePasses(d) BY <1>1, <1>4, <1>6 DEF TimePasses, xferVars
<1> QED BY <1>2, <1>3, <1>5, <1>6

-----------------------------------------------------------------------------
\* The first plan starts with an empty mailbox and no task.
LEMMA InitTransferInv == TransferInit => TransferInv
<1> SUFFICES ASSUME TransferInit PROVE TransferInv OBVIOUS
<1>1. PlanInv BY InitPlanInv DEF TransferInit
<1>2. Live = {} BY DEF TransferInit, Init, Live
<1>3. mailbox = <<>> /\ tasks = {} /\ active = 0 /\ gen = 1 /\ phase = "transferring"
  BY DEF TransferInit
<1>4. mailbox \in Seq(Command) /\ Len(mailbox) = 0 BY <1>3
<1>5. Starts = {}
  <2>1. \A c : c \in StartsOf(mailbox) => \E p \in 1 .. Len(mailbox) : mailbox[p] = c
    BY <1>4, MailMember
  <2>2. StartsOf(mailbox) = {} BY <1>4, <2>1
  <2> QED BY <2>2 DEF Starts, StartsOf
<1>6. Bounded BY <1>2 DEF TransferInit, Bounded
<1>7. completed = written /\ written \subseteq Bytes BY DEF TransferInit, Init
<1>8. Typed
  <2>1. gen \in 1 .. MaxPlans /\ active \in Int /\ Len(mailbox) <= MailboxCap
    BY <1>3, <1>4, TransferAssumption
  <2>2. phase \in Phases /\ ranges \in BOOLEAN /\ pumping \in BOOLEAN /\ asked \in BOOLEAN
        /\ reprobing \in BOOLEAN
    BY DEF TransferInit, Phases
  <2>3. tasks \subseteq TaskRecord /\ IsFiniteSet(tasks) BY <1>3, FS_EmptySet
  <2> QED BY <1>4, <1>7, <2>1, <2>2, <2>3 DEF Typed
<1>9. Apart(mailbox) /\ Paired(mailbox) BY <1>4 DEF Apart, Paired
<1>10. Distinct /\ Wrote BY <1>3, <1>5, <1>7, <1>9 DEF Distinct, Wrote
<1>11. FirstPlan BY <1>3, <1>5 DEF FirstPlan, QuietFirstPlan, QuietCommit
<1>12. Cardinality(Starts) + Cardinality(tasks) = 0 BY <1>3, <1>5, FS_EmptySet
<1>13. Slots BY <1>3, <1>12, TransferAssumption DEF Slots
<1>14. Served BY <1>2, <1>3, <1>9, <1>12 DEF Served, SlotsExact, NoOrphanClaim
<1> QED BY <1>1, <1>6, <1>8, <1>10, <1>11, <1>13, <1>14 DEF TransferInv

\* Every step of the data plane preserves the invariant.
LEMMA NextTransferInv == TransferInv /\ [TransferNext]_vars => TransferInv'
<1> SUFFICES ASSUME TransferInv, [TransferNext]_vars PROVE TransferInv' OBVIOUS
<1>1. CASE UNCHANGED vars
  <2>1. PlanInv /\ Bounded /\ phase \in Phases /\ pumping \in BOOLEAN /\ asked \in BOOLEAN
    BY DEF TransferInv, Typed
  <2>2. UNCHANGED planVars /\ UNCHANGED xferVars BY <1>1 DEF vars
  <2>3. PlanInv' /\ Bounded' /\ Live' = Live /\ completed' = completed BY <2>1, <2>2, SamePlan
  <2> QED BY <2>1, <2>2, <2>3, IdleInv DEF xferVars
<1>2. CASE Pump BY <1>2, PumpInv, OtherInv DEF Pump
<1>3. CASE Shard BY <1>3, TakeStartInv, TakeTruncateInv DEF Shard
<1>4. CASE Task \/ (\E t \in tasks : BodyEndsEarly(t)) \/ (\E t \in tasks : TaskFails(t))
  BY <1>4, TaskInv DEF Task
<1>5. CASE Control
  <2>1. ASSUME NEW t \in tasks, HandleVerified(t) PROVE TransferInv' BY <2>1, HandleVerifiedInv
  <2>2. ASSUME NEW t \in tasks, NEW lost \in BOOLEAN,
               HandleRetry(t) \/ HandleBackOff(t, lost) \/ HandleFatal(t) \/ HandleRecheck(t)
        PROVE  TransferInv'
    BY <2>2, HandleFailureInv
  <2>3. ASSUME NEW t \in tasks, HandleFullBody(t) PROVE TransferInv' BY <2>3, HandleFullBodyInv
  <2>4. ASSUME NEW m \in {"ranged", "stream"}, NEW r \in BOOLEAN, Probed(m, r) PROVE TransferInv'
    BY <2>4, ProbedInv
  <2>5. CASE RetryReady BY <2>5, OtherInv
  <2>6. TRUE \in BOOLEAN OBVIOUS
  <2> QED BY <1>5, <2>1, <2>2, <2>3, <2>4, <2>5, <2>6 DEF Control
<1>6. CASE Cancel \/ \E d \in deferred : TimePasses(d) BY <1>6, OtherInv
<1> QED BY <1>1, <1>2, <1>3, <1>4, <1>5, <1>6 DEF TransferNext

\* The invariant holds in every state of every transfer.
THEOREM TransferInvariant == TransferSpec => []TransferInv
  BY InitTransferInv, NextTransferInv, PTL DEF TransferSpec

\* Every command and task lies within the artifact, whatever overlaps, steals and
\* retries computed, the mailbox keeps its bound and the slot count is never negative.
THEOREM TransferType == TransferSpec => []TransferTypeOK
<1>1. TransferInv => TransferTypeOK
  <2> SUFFICES ASSUME TransferInv PROVE TransferTypeOK OBVIOUS
  <2>1. Typed /\ TypeOK BY DEF TransferInv, PlanInv
  <2>2. active \in Nat BY <2>1, Counted DEF TransferInv, Slots, Typed
  <2>3. \A t \in tasks : t.pos \in 0 .. Total /\ t.lo \in 0 .. Total /\ t.hi \in 0 .. Total
    BY <2>1 DEF Typed, TaskRecord
  <2> QED BY <2>1, <2>2, <2>3 DEF Typed, TransferTypeOK
<1> QED BY <1>1, TransferInvariant, PTL

\* A byte counts as verified only when a task wrote it, also when the report meets
\* the assignment of a later plan that has the same key.
THEOREM VerifiedWereWritten == TransferSpec => []CreditedIsWritten
<1>1. TransferInv => CreditedIsWritten BY DEF TransferInv, Wrote, CreditedIsWritten
<1> QED BY <1>1, TransferInvariant, PTL

\* While the job keeps its first plan nobody is still to write when it commits.
THEOREM FirstPlanCommitsQuietly == TransferSpec => []QuietFirstPlan
<1>1. TransferInv => QuietFirstPlan BY DEF TransferInv, FirstPlan
<1> QED BY <1>1, TransferInvariant, PTL

\* With a mailbox of two commands per stream no try_send is ever refused and no slot
\* leaks: active_assignment_count is the number of starts, tasks and reports.
THEOREM SlotsNeverLeak == ASSUME Roomy PROVE TransferSpec => []SlotsExact
<1>1. TransferInv => SlotsExact BY DEF TransferInv, Served
<1> QED BY <1>1, TransferInvariant, PTL

\* Under the same condition every live claim has a command or a task behind it.
THEOREM ClaimsAreServed == ASSUME Roomy PROVE TransferSpec => []NoOrphanClaim
<1>1. TransferInv => NoOrphanClaim BY DEF TransferInv, Served
<1> QED BY <1>1, TransferInvariant, PTL
=============================================================================
