---------------------------- MODULE MirrorsProofs ----------------------------
(***************************************************************************)
(* Mirrors, for any number of sources, pieces, streams and requests: its   *)
(* types, the agreement of the sources' bytes, and the books of sources    *)
(* and connections.                                                        *)
(*                                                                         *)
(* None of the properties is inductive.  For the bytes, Agreed says what a *)
(* piece holds while requests are between their check, their write and     *)
(* their record, and that a request which did compare went on with the     *)
(* owner's bytes.  For the books, Booked says which lists exclude each     *)
(* other, which connections a request or a question can be on, and what a  *)
(* mirror that is asked one thing at a time cannot be in.                  *)
(***************************************************************************)
EXTENDS Mirrors, FiniteSetTheorems, SequenceTheorems, TLAPS

\* Where a request and a connection can be.
Steps == {"check", "write", "record", "ok", "mismatch", "error", "refused"}
Links == {"none", "resolving", "dialing", "ready"}

Task ==
  [conn : Sources, src : Sources, piece : Pieces, at : Pieces, step : Steps, due : BOOLEAN,
   live : BOOLEAN, lost : BOOLEAN, cut : BOOLEAN]

Question == [at : Pieces, verdict : {"none", "same", "differs"}]

EnvTyped ==
  env \in [up : SUBSET Sources, wrong : Sources \cup {None}, from : Pieces, mux : BOOLEAN]

\* An active source is listed once, and a job has one until it fails.
ListsTyped ==
  /\ phase \in {"connecting", "transferring", "committing", "failed"}
  /\ home \in Sources /\ active \in Seq(Sources)
  /\ \A i, k \in DOMAIN active : active[i] = active[k] => i = k
  /\ active # <<>> \/ phase = "failed"
  /\ tries \in 0 .. MaxTries
  /\ probing \subseteq Sources /\ sampling \subseteq Sources /\ failed \subseteq Sources

NetTyped ==
  /\ known \subseteq Sources /\ probes \subseteq Sources /\ tagged \subseteq Sources
  /\ link \in [Sources -> Links] /\ load \in [Sources -> Nat]

PlanTyped == done \subseteq Pieces /\ deferred \subseteq Pieces

TasksTyped == task \in [Tasks -> Task \cup {NoTask}]
SamplesTyped == samples \in [Sources -> Seq(Question)]
PumpTyped == pumping \in Seq(Sources)

FileTyped ==
  /\ owner \in [Pieces -> Sources \cup {None}] /\ writers \subseteq Sources
  /\ file \in [Pieces -> Values] /\ first \in [Pieces -> Values]
  /\ blind \subseteq Pieces

\* MirrorsTypeOK, with what the fields and the functions range over.
Typed ==
  /\ EnvTyped /\ ListsTyped /\ NetTyped /\ PlanTyped
  /\ TasksTyped /\ SamplesTyped /\ PumpTyped /\ FileTyped

\* Request t has written piece q and not yet recorded it; it compared the piece
\* before it went on to write it.
Recorder(t, q) == task[t] # NoTask /\ task[t].step = "record" /\ task[t].at = q
Compared(t, q) ==
  task[t] # NoTask /\ task[t].step \in {"write", "record"} /\ task[t].at = q /\ task[t].due

\* A recorder that makes its piece blind.
Doomed(t, q) ==
  /\ Recorder(t, q)
  /\ task[t].conn # task[t].src \/ (~task[t].due /\ owner[q] \notin {None, task[t].src})

\* What the file holds of piece q.  Nobody owns it: the last chunk written.  It has
\* an owner: the owner's bytes, unless it is blind or a recorder will make it so.
AgreedAt(q) ==
  /\ first[q] = NoBytes <=> owner[q] = None
  /\ owner[q] = None /\ (\E t \in Tasks : Recorder(t, q))
       => \E t \in Tasks : Recorder(t, q) /\ file[q] = Bytes(task[t].conn, q)
  /\ \A t \in Tasks : Compared(t, q) => owner[q] \notin {None, task[t].src}
  /\ q \notin blind /\ owner[q] # None =>
       /\ first[q] = Bytes(owner[q], q)
       /\ file[q] = first[q] \/ \E t \in Tasks : Doomed(t, q)
       /\ \A t \in Tasks :
            Compared(t, q) => first[q] = Bytes(task[t].conn, q) \/ \E u \in Tasks : Doomed(u, q)

Agreed == \A q \in Pieces : AgreedAt(q)

\* What the controller's lists have to do with each other.
Listed ==
  /\ probing \cap ToSet(active) = {} /\ probing \cap failed = {}
  /\ home \in ToSet(active) \cup failed /\ home \notin tagged
  /\ \A s \in probing : /\ link[s] = "dialing" => s \in tagged
                        /\ link[s] = "none" => s \in stranded

\* Whose requests are on the shards.
Employed ==
  /\ \A t \in Running : task[t].conn \in ToSet(active) \cup failed
  /\ phase = "connecting" => \A t \in Running : task[t].conn \in failed

\* A mirror that is asked one thing at a time.
Orderly(s) ==
  /\ samples[s] # <<>> => /\ s \in probing \ probes /\ Len(samples[s]) = 1
                          /\ link[s] \notin {"resolving", "dialing"}
  /\ s \in probes => s \in probing \cup ToSet(active) \cup failed
  /\ s \in probes \cap probing => link[s] \notin {"resolving", "dialing"}
  /\ s \in probes \cap ToSet(active) /\ phase = "connecting" => s = home /\ link[s] = "ready"
  /\ s \in tagged /\ link[s] = "dialing" => s \in probing
  /\ s \in ToSet(active) /\ link[s] = "resolving" => s = home
  /\ s \in ToSet(active) \cap failed => s = home /\ doubled # {} /\ phase # "connecting"

\* As long as every mirror is.
Undisturbed ==
  doubled = {} => /\ \A s \in probes \ probing : s = home /\ link[s] = "ready" /\ phase # "transferring"
                  /\ phase = "transferring" /\ home \in ToSet(active) => link[home] # "resolving"
                  /\ phase = "connecting" => home \in ToSet(active)

Booked == Listed /\ Employed /\ (\A s \in Sources \ doubled : Orderly(s)) /\ Undisturbed

\* The job's own source fails, and the job goes on, only on a multiplexed connection.
HomeFailed == doubled = {} /\ home \in failed => env.mux

Counted == dropped \in [Sources -> Nat] /\ LoadExact

MirrorsInv == Typed /\ Agreed /\ Counted /\ Booked /\ HomeFailed

-----------------------------------------------------------------------------
(***************************************************************************)
(* Numbers, sequences and records.                                         *)
(***************************************************************************)
\* A set of naturals that is not empty has a least element.
LEMMA LeastExists ==
  ASSUME NEW S, S \subseteq Nat, S # {} PROVE \E x \in S : \A y \in S : x <= y
<1>0. OpToRel(<, Nat) = {ss \in Nat \X Nat : ss[1] < ss[2]} BY Zenon DEF OpToRel
<1>1. PICK x \in S : \A y \in S : ~(<<y, x>> \in {ss \in Nat \X Nat : ss[1] < ss[2]})
  BY <1>0, NatLessThanWellFounded, WFMin
<1>2. ASSUME NEW y \in S PROVE x <= y
  <2>1. <<y, x>> \in Nat \X Nat /\ <<y, x>>[1] = y /\ <<y, x>>[2] = x OBVIOUS
  <2>2. ~(y < x) BY <1>1, <2>1
  <2> QED BY <2>2
<1> QED BY <1>2

LEMMA MinMember ==
  ASSUME NEW S, S \subseteq Nat, S # {} PROVE Min(S) \in S
BY LeastExists DEF Min

LEMMA MaxMember ==
  ASSUME NEW n \in Nat, NEW S, S \subseteq 0 .. n, S # {} PROVE Max(S) \in S
<1> DEFINE T == {m \in 0 .. n : n - m \in S}
<1>1. T \subseteq Nat OBVIOUS
<1>2. PICK x \in S : TRUE OBVIOUS
<1>3. x \in 0 .. n /\ n - x \in 0 .. n /\ n - (n - x) = x BY <1>2
<1>4. T # {} BY <1>2, <1>3
<1>5. PICK m \in T : \A k \in T : m <= k BY <1>1, <1>4, LeastExists
<1>6. ASSUME NEW y \in S PROVE n - m >= y
  <2>1. y \in 0 .. n /\ n - y \in 0 .. n /\ n - (n - y) = y OBVIOUS
  <2>2. n - y \in T BY <2>1
  <2>3. m <= n - y BY <1>5, <2>2
  <2> QED BY <2>1, <2>3
<1> QED BY <1>5, <1>6 DEF Max

\* The numbers of sources, pieces and requests.
LEMMA Counts ==
  /\ NumSources \in Nat \ {0} /\ NumPieces \in Nat \ {0} /\ SampleLen \in Nat \ {0}
  /\ MaxTasks \in Nat \ {0} /\ Streams \in Nat \ {0} /\ MaxTries \in Nat /\ MaxFaults \in Nat
BY MirrorsAssumption

LEMMA Ranges ==
  /\ Sources \subseteq Nat /\ None \notin Sources /\ 1 \in Sources
  /\ Pieces \subseteq Nat /\ 1 \in Pieces /\ Tasks \subseteq Nat
  /\ IsFiniteSet(Tasks) /\ Cardinality(Tasks) = MaxTasks
  /\ NoBytes \in Nat /\ NoBytes \notin Sources \cup {Right, None}
<1>1. IsFiniteSet(Tasks) /\ Cardinality(Tasks) = MaxTasks BY Counts, FS_Interval DEF Tasks
<1> QED BY <1>1, Counts DEF Sources, Pieces, Tasks, None, NoBytes, Right

LEMMA TaskRecord == \A k \in Task : k # NoTask /\ k.conn \in Sources
BY Ranges DEF Task, NoTask

LEMMA PrefixRange == Prefix \in 0 .. NumPieces
<1> DEFINE S == {q \in 0 .. NumPieces : 1 .. q \subseteq done}
<1>1. 0 \in S BY Counts
<1>2. Max(S) \in S BY <1>1, Counts, MaxMember
<1> QED BY <1>2 DEF Prefix

\* An element taken out of a sequence.
LEMMA RemoveAtMembers ==
  ASSUME NEW S, NEW seq \in Seq(S), NEW i \in 1 .. Len(seq)
  PROVE  /\ RemoveAt(seq, i) \in Seq(S) /\ Len(RemoveAt(seq, i)) = Len(seq) - 1
         /\ \A k \in 1 .. Len(seq) - 1 :
              RemoveAt(seq, i)[k] = IF k < i THEN seq[k] ELSE seq[k + 1]
<1> DEFINE a == SubSeq(seq, 1, i - 1)
           b == SubSeq(seq, i + 1, Len(seq))
<1>1. Len(seq) \in Nat /\ i \in Nat BY LenProperties
<1>2. a \in Seq(S) /\ Len(a) = i - 1 /\ \A k \in 1 .. i - 1 : a[k] = seq[k]
  BY <1>1, SubSeqProperties
<1>3. b \in Seq(S) /\ Len(b) = Len(seq) - i /\ \A k \in 1 .. Len(seq) - i : b[k] = seq[i + k]
  <2>1. \A k \in 1 .. Len(seq) - i : i + 1 + k - 1 = i + k BY <1>1
  <2>2. CASE i < Len(seq) BY <1>1, <2>1, <2>2, SubSeqProperties
  <2>3. CASE i = Len(seq) BY <1>1, <2>1, <2>3, SubSeqProperties
  <2> QED BY <1>1, <2>2, <2>3
<1>4. RemoveAt(seq, i) = a \o b BY DEF RemoveAt
<1>5. /\ a \o b \in Seq(S) /\ Len(a \o b) = Len(a) + Len(b)
      /\ \A k \in 1 .. Len(a) + Len(b) : (a \o b)[k] = IF k <= Len(a) THEN a[k] ELSE b[k - Len(a)]
  BY <1>2, <1>3, ConcatProperties
<1>6. ASSUME NEW k \in 1 .. Len(seq) - 1
      PROVE  RemoveAt(seq, i)[k] = IF k < i THEN seq[k] ELSE seq[k + 1]
  <2> HIDE DEF a, b
  <2>1. k \in Nat /\ k \in 1 .. Len(a) + Len(b) BY <1>1, <1>2, <1>3
  <2>2. CASE k < i
    <3>1. k <= Len(a) /\ k \in 1 .. i - 1 BY <1>1, <1>2, <2>1, <2>2
    <3> QED BY <1>2, <1>4, <1>5, <2>1, <2>2, <3>1
  <2>3. CASE ~(k < i)
    <3>1. ~(k <= Len(a)) /\ k - Len(a) = k - i + 1 /\ k - i + 1 \in 1 .. Len(seq) - i
          /\ i + (k - i + 1) = k + 1
      BY <1>1, <1>2, <2>1, <2>3
    <3> QED BY <1>3, <1>4, <1>5, <2>1, <2>3, <3>1
  <2> QED BY <2>2, <2>3
<1> HIDE DEF a, b
<1>7. Len(a) + Len(b) = Len(seq) - 1 BY <1>1, <1>2, <1>3
<1>8. RemoveAt(seq, i) \in Seq(S) /\ Len(RemoveAt(seq, i)) = Len(seq) - 1 BY <1>4, <1>5, <1>7
<1> QED BY <1>6, <1>8

\* A request whose connection the controller has dropped.
LEMMA LostTasks ==
  ASSUME NEW tasks \in [Tasks -> Task \cup {NoTask}], NEW s \in Sources
  PROVE  /\ Lost(tasks, s) \in [Tasks -> Task \cup {NoTask}]
         /\ \A t \in Tasks :
              /\ Lost(tasks, s)[t] = NoTask <=> tasks[t] = NoTask
              /\ tasks[t] # NoTask =>
                   /\ Lost(tasks, s)[t] = [tasks[t] EXCEPT !.lost = @ \/ tasks[t].conn = s]
                   /\ Lost(tasks, s)[t].lost <=> tasks[t].lost \/ tasks[t].conn = s
<1>1. NoTask.conn # s BY Ranges DEF NoTask
<1>2. ASSUME NEW t \in Tasks
      PROVE  /\ Lost(tasks, s)[t] \in Task \cup {NoTask}
             /\ Lost(tasks, s)[t] = NoTask <=> tasks[t] = NoTask
             /\ tasks[t] # NoTask =>
                   /\ Lost(tasks, s)[t] = [tasks[t] EXCEPT !.lost = @ \/ tasks[t].conn = s]
                   /\ Lost(tasks, s)[t].lost <=> tasks[t].lost \/ tasks[t].conn = s
  <2>1. CASE tasks[t] = NoTask BY <1>1, <2>1 DEF Lost
  <2>2. CASE tasks[t] # NoTask /\ tasks[t].conn = s
    <3>1. tasks[t] \in Task BY <2>2
    <3>2. Lost(tasks, s)[t] = [tasks[t] EXCEPT !.lost = TRUE] BY <2>2 DEF Lost
    <3>3. [tasks[t] EXCEPT !.lost = TRUE] \in Task /\ [tasks[t] EXCEPT !.lost = TRUE].lost
      BY <3>1 DEF Task
    <3> QED BY <2>2, <3>1, <3>2, <3>3, TaskRecord
  <2>3. CASE tasks[t] # NoTask /\ tasks[t].conn # s
    <3>1. tasks[t] \in Task BY <2>3
    <3>2. Lost(tasks, s)[t] = tasks[t] BY <2>3 DEF Lost
    <3>3. [tasks[t] EXCEPT !.lost = tasks[t].lost \/ FALSE] = tasks[t] BY <3>1 DEF Task
    <3> QED BY <2>3, <3>1, <3>2, <3>3
  <2> QED BY <2>1, <2>2, <2>3
<1>3. Lost(tasks, s) = [t \in Tasks |-> Lost(tasks, s)[t]] BY DEF Lost
<1> QED BY <1>2, <1>3

-----------------------------------------------------------------------------
(***************************************************************************)
(* Every step keeps the types.                                             *)
(***************************************************************************)
LEMMA FirstUnused ==
  ASSUME NEW U \in SUBSET Unused, U # {}
  PROVE  /\ Min(U) \in Sources \ (probing \cup failed \cup ToSet(active)) /\ Min(U) \in U
<1>1. Min(U) \in U BY MinMember, Ranges DEF Unused
<1> QED BY <1>1 DEF Unused

\* What none of these variables' changes touches keeps its type.
LEMMA Unmoved ==
  /\ UNCHANGED env /\ EnvTyped => EnvTyped'
  /\ UNCHANGED jobVars /\ ListsTyped => ListsTyped'
  /\ UNCHANGED <<known, netVars>> /\ NetTyped => NetTyped'
  /\ UNCHANGED planVars /\ PlanTyped => PlanTyped'
  /\ UNCHANGED task /\ TasksTyped => TasksTyped'
  /\ UNCHANGED samples /\ SamplesTyped => SamplesTyped'
  /\ UNCHANGED pumping /\ PumpTyped => PumpTyped'
  /\ UNCHANGED fileVars /\ FileTyped => FileTyped'
<1>1. UNCHANGED jobVars /\ ListsTyped => ListsTyped' BY DEF jobVars, ListsTyped
<1>2. UNCHANGED <<known, netVars>> /\ NetTyped => NetTyped' BY DEF netVars, NetTyped
<1>3. UNCHANGED fileVars /\ FileTyped => FileTyped' BY DEF fileVars, FileTyped
<1> QED BY <1>1, <1>2, <1>3
  DEF EnvTyped, planVars, PlanTyped, TasksTyped, SamplesTyped, PumpTyped

LEMMA RetryResolveType ==
  ASSUME ListsTyped, NetTyped, RetryResolve
  PROVE  /\ tries' \in 0 .. MaxTries /\ link' \in [Sources -> Links]
         /\ home' = home /\ active' = active /\ phase' \in {phase, "failed"}
<1>1. tries \in 0 .. MaxTries /\ MaxTries \in Nat BY Counts DEF ListsTyped
<1>2. link \in [Sources -> Links] BY DEF NetTyped
<1>3. tries' \in 0 .. MaxTries BY <1>1 DEF RetryResolve, Fail
<1>4. link' \in [Sources -> Links] BY <1>2 DEF RetryResolve, Links
<1> QED BY <1>3, <1>4 DEF RetryResolve, Fail

LEMMA ActivateNextType ==
  ASSUME NEW U \in SUBSET Unused, U # {}, NEW lk \in [Sources -> Links], ActivateNext(U, lk),
         tagged \subseteq Sources
  PROVE  /\ tries' \in 0 .. MaxTries /\ link' \in [Sources -> Links]
         /\ home' \in Sources /\ active' \in Seq(Sources) /\ active' # <<>>
         /\ \A i, k \in DOMAIN active' : active'[i] = active'[k] => i = k
         /\ phase' = "connecting" /\ tagged' \subseteq Sources
<1>1. Min(U) \in Sources BY FirstUnused
<1> QED BY <1>1, Counts DEF ActivateNext, Links

LEMMA ResolvedType == ASSUME Typed, NEW s \in Sources, Resolved(s) PROVE Typed'
<1>1. ListsTyped' BY Counts DEF Typed, ListsTyped, Resolved
<1>2. NetTyped' BY DEF Typed, NetTyped, Resolved, Links
<1> QED BY <1>1, <1>2, Unmoved DEF Typed, Resolved

LEMMA ResolveFailsType == ASSUME Typed, NEW s \in Sources, ResolveFails(s) PROVE Typed'
<1>1. CASE RetryResolve /\ UNCHANGED <<probing, failed>>
  <2>1. ListsTyped' BY <1>1, RetryResolveType DEF Typed, ListsTyped, ResolveFails
  <2>2. NetTyped' BY <1>1, RetryResolveType DEF Typed, NetTyped, ResolveFails, setting
  <2> QED BY <2>1, <2>2, Unmoved DEF Typed, ResolveFails, setting
<1>2. CASE ~(RetryResolve /\ UNCHANGED <<probing, failed>>)
  <2>1. ListsTyped' BY <1>2 DEF Typed, ListsTyped, ResolveFails, Reject
  <2>2. NetTyped' BY <1>2 DEF Typed, NetTyped, ResolveFails, setting, Links
  <2> QED BY <2>1, <2>2, Unmoved DEF Typed, ResolveFails, setting
<1> QED BY <1>1, <1>2

LEMMA ConnectionReadyType == ASSUME Typed, NEW s \in Sources, ConnectionReady(s) PROVE Typed'
<1>1. NetTyped' BY DEF Typed, NetTyped, ConnectionReady, Links, setting
<1>2. PumpTyped'
  <2>1. <<s>> \in Seq(Sources) OBVIOUS
  <2> QED BY <2>1 DEF Typed, PumpTyped, ConnectionReady
<1> QED BY <1>1, <1>2, Unmoved DEF Typed, ConnectionReady, setting

LEMMA ConnectionFailedType == ASSUME Typed, NEW s \in Sources, ConnectionFailed(s) PROVE Typed'
<1>0. [link EXCEPT ![s] = "none"] \in [Sources -> Links] /\ link \in [Sources -> Links]
  BY DEF Links, NetTyped, Typed
<1>1. CASE s \in tagged
  <2>1. ListsTyped' BY <1>1 DEF Typed, ListsTyped, ConnectionFailed, Reject, Waiting
  <2>2. NetTyped' BY <1>0, <1>1 DEF Typed, NetTyped, ConnectionFailed, setting, Waiting
  <2> QED BY <2>1, <2>2, Unmoved DEF Typed, ConnectionFailed, setting
<1>2. CASE Waiting(s)
  <2>0. tagged \subseteq Sources BY DEF Typed, NetTyped
  <2>1. CASE Unused # {} /\ ActivateNext(Unused, [link EXCEPT ![s] = "none"])
    <3>1. ListsTyped' BY <1>0, <1>2, <2>0, <2>1, ActivateNextType DEF Typed, ListsTyped, ConnectionFailed, Waiting
    <3>2. NetTyped'
      BY <1>0, <1>2, <2>0, <2>1, ActivateNextType DEF Typed, NetTyped, ConnectionFailed, Waiting, setting
    <3> QED BY <3>1, <3>2, Unmoved DEF Typed, ConnectionFailed, setting
  <2>2. CASE RetryResolve /\ UNCHANGED tagged
    <3>1. ListsTyped' BY <1>2, <2>2, RetryResolveType DEF Typed, ListsTyped, ConnectionFailed, Waiting
    <3>2. NetTyped' BY <1>2, <2>2, RetryResolveType DEF Typed, NetTyped, ConnectionFailed, Waiting, setting
    <3> QED BY <3>1, <3>2, Unmoved DEF Typed, ConnectionFailed, setting
  <2>3. CASE Fail /\ link' = [link EXCEPT ![s] = "none"] /\ UNCHANGED tagged
    <3>1. ListsTyped' BY <1>2, <2>3 DEF Typed, ListsTyped, ConnectionFailed, Fail, Waiting
    <3>2. NetTyped' BY <1>0, <1>2, <2>3 DEF Typed, NetTyped, ConnectionFailed, setting, Waiting
    <3> QED BY <3>1, <3>2, Unmoved DEF Typed, ConnectionFailed, setting
  <2> QED BY <1>2, <2>1, <2>2, <2>3 DEF Waiting, ConnectionFailed
<1>3. CASE s \notin tagged /\ ~Waiting(s)
  <2>1. ListsTyped' BY <1>3 DEF Typed, ListsTyped, ConnectionFailed
  <2>2. NetTyped' BY <1>0, <1>3 DEF Typed, NetTyped, ConnectionFailed, setting
  <2> QED BY <2>1, <2>2, Unmoved DEF Typed, ConnectionFailed, setting
<1> QED BY <1>1, <1>2, <1>3

\* Requests that a new plan does not know.
LEMMA UnplannedTasks ==
  ASSUME Typed
  PROVE  /\ Unplanned \in [Tasks -> Task \cup {NoTask}]
         /\ \A t \in Tasks :
              /\ task[t] = NoTask => Unplanned[t] = NoTask
              /\ task[t] # NoTask => /\ Unplanned[t] = [task[t] EXCEPT !.live = FALSE]
                                     /\ Unplanned[t] \in Task
                                     /\ Unplanned[t].conn = task[t].conn
                                     /\ Unplanned[t].lost <=> task[t].lost
<1>1. ASSUME NEW t \in Tasks, task[t] # NoTask
      PROVE  /\ Unplanned[t] = [task[t] EXCEPT !.live = FALSE]
             /\ Unplanned[t] \in Task
             /\ Unplanned[t].conn = task[t].conn
             /\ Unplanned[t].lost <=> task[t].lost
  <2>1. PICK k \in Task : k = task[t] BY <1>1 DEF Typed, TasksTyped
  <2>2. Unplanned[t] = [k EXCEPT !.live = FALSE] BY <1>1, <2>1 DEF Unplanned
  <2>3. [k EXCEPT !.live = FALSE] \in Task BY DEF Task
  <2>4. [k EXCEPT !.live = FALSE].conn = k.conn /\ [k EXCEPT !.live = FALSE].lost = k.lost BY DEF Task
  <2> QED BY <2>1, <2>2, <2>3, <2>4
<1>2. \A t \in Tasks : task[t] = NoTask => Unplanned[t] = NoTask BY DEF Unplanned
<1>3. \A t \in Tasks : Unplanned[t] \in Task \cup {NoTask} BY <1>1, <1>2
<1>4. Unplanned = [t \in Tasks |-> Unplanned[t]] BY DEF Unplanned
<1>5. Unplanned \in [Tasks -> Task \cup {NoTask}]
  <2> HIDE DEF Unplanned
  <2> QED BY <1>3, <1>4
<1> QED BY <1>1, <1>2, <1>5

\* The two ends of Probed.
ProbeKeeps(s) ==
  link' = Scaled(link) /\ task' = Unplanned /\ UNCHANGED <<load, tagged>>
ProbeCloses(s) ==
  /\ link[s] = "ready" /\ link' = Scaled([link EXCEPT ![s] = "none"]) /\ task' = Lost(Unplanned, s)
  /\ load' = [load EXCEPT ![s] = 0] /\ tagged' = tagged \ {s}

LEMMA ProbedSplit == ASSUME NEW s, Probed(s) PROVE ProbeKeeps(s) \/ ProbeCloses(s)
BY DEF Probed, ProbeKeeps, ProbeCloses

LEMMA ScaledLinks ==
  ASSUME NEW lk \in [Sources -> Links], home \in Sources
  PROVE  /\ Scaled(lk) \in [Sources -> Links]
         /\ \A x \in Sources : Scaled(lk)[x] = IF x = home /\ lk[x] = "none" THEN "dialing" ELSE lk[x]
BY DEF Scaled, Links

LEMMA ProbedType == ASSUME Typed, NEW s \in Sources, Probed(s) PROVE Typed'
<1>0. home \in Sources /\ link \in [Sources -> Links] /\ load \in [Sources -> Nat]
  BY DEF Typed, NetTyped, ListsTyped
<1>1. ListsTyped' BY DEF Typed, ListsTyped, Probed, NewPlan, Idle, Ended
<1>2. NetTyped'
  <2>1. PICK lk \in [Sources -> Links] : lk = [link EXCEPT ![s] = "none"] BY <1>0 DEF Links
  <2>2. link' \in {Scaled(link), Scaled(lk)} BY <2>1, ProbedSplit DEF ProbeKeeps, ProbeCloses
  <2>3. link' \in [Sources -> Links] BY <1>0, <2>2, ScaledLinks
  <2>a. load' = load \/ load' = [load EXCEPT ![s] = 0] BY ProbedSplit DEF ProbeKeeps, ProbeCloses
  <2>4. load' \in [Sources -> Nat] BY <1>0, <2>a
  <2>5. tagged' \subseteq tagged /\ UNCHANGED known /\ probes' = probes \ {s}
    BY ProbedSplit DEF ProbeKeeps, ProbeCloses, Probed, setting
  <2> QED BY <2>3, <2>4, <2>5 DEF Typed, NetTyped
<1>3. PlanTyped' BY DEF PlanTyped, Probed, NewPlan
<1>4. TasksTyped'
  <2>1. PICK g \in [Tasks -> Task \cup {NoTask}] : g = Unplanned BY UnplannedTasks
  <2>2. task' \in {g, Lost(g, s)} BY <2>1, ProbedSplit DEF ProbeKeeps, ProbeCloses
  <2> QED BY <2>2, LostTasks DEF TasksTyped
<1>5. PumpTyped'
  <2>1. <<home>> \in Seq(Sources) BY <1>0
  <2> QED BY <2>1 DEF PumpTyped, Probed, NewPlan
<1> QED BY <1>1, <1>2, <1>3, <1>4, <1>5, Unmoved DEF Typed, Probed, setting

LEMMA SendSampleType ==
  ASSUME Typed, NEW s \in Sources, SendSample(s), Prefix # 0 PROVE SamplesTyped'
<1>1. Prefix \in Pieces BY PrefixRange, Counts DEF Pieces
<1>2. [at |-> Prefix, verdict |-> "none"] \in Question BY <1>1 DEF Question
<1>3. samples[s] \in Seq(Question) BY DEF Typed, SamplesTyped
<1>4. Append(samples[s], [at |-> Prefix, verdict |-> "none"]) \in Seq(Question)
  BY <1>2, <1>3, AppendProperties
<1> QED BY <1>4 DEF Typed, SamplesTyped, SendSample

LEMMA MirrorProbedType == ASSUME Typed, NEW s \in Sources, MirrorProbed(s) PROVE Typed'
<1>1. ListsTyped' BY DEF Typed, ListsTyped, MirrorProbed, Reject
<1>2. NetTyped' BY DEF Typed, NetTyped, MirrorProbed, Drop, setting, Links
<1>3. SamplesTyped' BY SendSampleType, Unmoved DEF Typed, MirrorProbed
<1>4. TasksTyped'
  <2>1. TasksTyped BY DEF Typed
  <2> QED BY <2>1, LostTasks DEF MirrorProbed, TasksTyped
<1> QED BY <1>1, <1>2, <1>3, <1>4, Unmoved DEF Typed, MirrorProbed, setting

LEMMA ProbeFailedType == ASSUME Typed, NEW s \in Sources, ProbeFailed(s) PROVE Typed'
<1>1. ListsTyped' BY DEF Typed, ListsTyped, ProbeFailed, Reject
<1>2. NetTyped' BY DEF Typed, NetTyped, ProbeFailed, setting
<1> QED BY <1>1, <1>2, Unmoved DEF Typed, ProbeFailed, setting

LEMMA RebalanceTickType == ASSUME Typed, RebalanceTick PROVE Typed'
<1>0. home \in Sources BY DEF Typed, ListsTyped
<1>1. Unused # {} => NextUnused \in Sources BY FirstUnused DEF NextUnused
<1>2. Pending \subseteq Sources BY DEF Pending, Typed, ListsTyped
<1>3. ListsTyped' BY <1>1, <1>2 DEF Typed, ListsTyped, RebalanceTick
<1>4. NetTyped' BY <1>1 DEF Typed, NetTyped, RebalanceTick, setting, Links
<1>5. SamplesTyped'
  <2>1. ASSUME NEW s \in Pending PROVE Append(samples[s], [at |-> Prefix, verdict |-> "none"]) \in Seq(Question)
    <3>1. Prefix \in Pieces BY PrefixRange, Counts DEF Pending, Pieces
    <3>2. [at |-> Prefix, verdict |-> "none"] \in Question BY <3>1 DEF Question
    <3>3. samples[s] \in Seq(Question) BY <1>2 DEF Typed, SamplesTyped
    <3> QED BY <3>2, <3>3, AppendProperties
  <2>2. ASSUME NEW s \in Sources PROVE samples[s] \in Seq(Question) BY DEF Typed, SamplesTyped
  <2> QED BY <2>1, <2>2 DEF SamplesTyped, RebalanceTick
<1>6. PumpTyped'
  <2>1. <<home>> \in Seq(Sources) BY <1>0
  <2> QED BY <2>1 DEF PumpTyped, RebalanceTick
<1> QED BY <1>3, <1>4, <1>5, <1>6, Unmoved DEF Typed, RebalanceTick, setting

LEMMA CompareSampleType == ASSUME Typed, NEW s \in Sources, CompareSample(s) PROVE Typed'
<1>1. PICK i \in 1 .. Len(samples[s]), ok \in BOOLEAN :
        samples' = [samples EXCEPT ![s][i].verdict = IF ok THEN "same" ELSE "differs"]
  BY DEF CompareSample
<1> DEFINE v == IF ok THEN "same" ELSE "differs"
           seq == samples[s]
           new == [seq EXCEPT ![i] = [seq[i] EXCEPT !.verdict = v]]
<1>2. seq \in Seq(Question) BY DEF Typed, SamplesTyped
<1>3. Len(seq) \in Nat /\ seq \in [1 .. Len(seq) -> Question] BY <1>2, LenProperties
<1>4. seq[i] \in Question BY <1>3
<1>5. [seq[i] EXCEPT !.verdict = v] \in Question BY <1>4 DEF Question
<1>6. new \in [1 .. Len(seq) -> Question]
  <2> HIDE DEF seq, v
  <2> QED BY <1>3, <1>5
<1>7. new \in Seq(Question) BY <1>3, <1>6, IsASeq
<1>8. samples' = [samples EXCEPT ![s] = new] BY <1>1
<1>9. SamplesTyped'
  <2> HIDE DEF new
  <2> QED BY <1>7, <1>8 DEF Typed, SamplesTyped
<1> QED BY <1>9, Unmoved DEF Typed, CompareSample, setting

LEMMA MirrorSampledType == ASSUME Typed, NEW s \in Sources, MirrorSampled(s) PROVE Typed'
<1>1. PICK i \in 1 .. Len(samples[s]) : samples' = [samples EXCEPT ![s] = RemoveAt(@, i)]
  BY DEF MirrorSampled
<1>2. samples[s] \in Seq(Question) BY DEF Typed, SamplesTyped
<1>3. SamplesTyped' BY <1>1, <1>2, RemoveAtMembers DEF Typed, SamplesTyped
<1>4. active' \in Seq(Sources) /\ active' # <<>>
      /\ \A j, k \in DOMAIN active' : active'[j] = active'[k] => j = k
  <2>1. CASE active' = active
    <3>1. ~Ended BY DEF MirrorSampled, Idle
    <3> QED BY <2>1, <3>1 DEF Typed, ListsTyped, Ended
  <2>2. CASE s \notin ToSet(active) /\ active' = Append(active, s)
    <3>1. active \in Seq(Sources) /\ Len(active) \in Nat /\ DOMAIN active = 1 .. Len(active)
      BY LenProperties DEF Typed, ListsTyped
    <3>2. /\ active' \in Seq(Sources) /\ DOMAIN active' = 1 .. Len(active) + 1
          /\ active'[Len(active) + 1] = s /\ \A j \in 1 .. Len(active) : active'[j] = active[j]
      BY <2>2, <3>1, AppendProperties, LenProperties
    <3>3. \A j \in 1 .. Len(active) : active[j] # s BY <2>2, <3>1 DEF ToSet
    <3>4. \A j, k \in 1 .. Len(active) : active[j] = active[k] => j = k
      BY <3>1 DEF Typed, ListsTyped
    <3>5. active' # <<>> BY <3>1, <3>2
    <3>6. \A j \in 1 .. Len(active) + 1 : j \in 1 .. Len(active) \/ j = Len(active) + 1 BY <3>1
    <3> QED BY <3>2, <3>3, <3>4, <3>5, <3>6
  <2> QED BY <2>1, <2>2 DEF MirrorSampled
<1>5. ListsTyped' BY <1>4 DEF Typed, ListsTyped, MirrorSampled
<1>6. NetTyped' BY DEF Typed, NetTyped, MirrorSampled, netVars, Drop, setting, Links
<1>7. TasksTyped'
  <2>1. TasksTyped BY DEF Typed
  <2> QED BY <2>1, LostTasks DEF MirrorSampled, TasksTyped
<1>8. PumpTyped'
  <2>1. <<s>> \in Seq(Sources) OBVIOUS
  <2> QED BY <2>1 DEF Typed, PumpTyped, MirrorSampled
<1> QED BY <1>3, <1>5, <1>6, <1>7, <1>8, Unmoved DEF Typed, MirrorSampled, setting

\* A claim on a connection that may take one is a request for a piece.
LEMMA StartType ==
  ASSUME Typed, NEW c \in Sources, CanClaim(c), NEW q \in Pieces
  PROVE  Start(c, q) \in Task
<1>1. active \in Seq(Sources) /\ active # <<>>
  BY DEF Typed, ListsTyped, CanClaim, Runnable
<1>2. SourceFor(c) \in Sources BY <1>1, HeadTailProperties DEF SourceFor
<1>3. Max({1, q - 1}) \in Pieces
  <2>1. q \in Nat /\ q \in 1 .. NumPieces /\ NumPieces \in Nat \ {0} BY Counts DEF Pieces
  <2>2. {1, q - 1} \subseteq 0 .. NumPieces BY <2>1
  <2>3. Max({1, q - 1}) \in {1, q - 1} BY <2>1, <2>2, MaxMember
  <2>4. CASE q = 1
    <3>1. Max({1, 0}) \in {1, 0} /\ \E x \in {1, 0} : \A y \in {1, 0} : x >= y
      <4>1. \A y \in {1, 0} : 1 >= y OBVIOUS
      <4> QED BY <2>3, <2>4, <4>1
    <3>2. \A y \in {1, 0} : Max({1, 0}) >= y BY <3>1 DEF Max
    <3>3. q - 1 = 0 BY <2>4
    <3> QED BY <2>1, <3>1, <3>2, <3>3, Ranges
  <2>5. CASE q # 1 BY <2>1, <2>3, <2>5, Ranges DEF Pieces
  <2> QED BY <2>4, <2>5
<1> QED BY <1>2, <1>3 DEF Start, Task, Steps

LEMMA FreeTask ==
  ASSUME NEW c \in Sources, CanClaim(c)
  PROVE  /\ Min(Tasks \ Running) \in Tasks /\ task[Min(Tasks \ Running)] = NoTask
         /\ Min(Todo) \in Pieces
<1>1. Tasks \ Running # {} /\ Tasks \ Running \subseteq Nat
  BY Ranges DEF CanClaim, Running
<1>2. Min(Tasks \ Running) \in Tasks \ Running BY <1>1, MinMember
<1>3. Min(Todo) \in Todo BY MinMember, Ranges DEF CanClaim, Todo
<1> QED BY <1>2, <1>3 DEF Running, Todo

LEMMA PumpClaimType == ASSUME Typed, PumpClaim PROVE Typed'
<1>0. pumping \in Seq(Sources) /\ pumping # <<>> BY DEF Typed, PumpTyped, PumpClaim
<1> DEFINE c == Head(pumping)
<1>1. c \in Sources /\ Tail(pumping) \in Seq(Sources) BY <1>0, HeadTailProperties
<1> HIDE DEF c
<1>2. CASE CanClaim(c)
  <2>1. PICK t \in Tasks, q \in Pieces : t = Min(Tasks \ Running) /\ q = Min(Todo)
    BY <1>1, <1>2, FreeTask
  <2>2. /\ task' = [task EXCEPT ![t] = Start(c, q)] /\ load' = [load EXCEPT ![c] = @ + 1]
        /\ UNCHANGED pumping
    BY <1>2, <2>1 DEF PumpClaim, c
  <2>3. Start(c, q) \in Task BY <1>1, <1>2, StartType
  <2>4. TasksTyped' BY <2>2, <2>3 DEF Typed, TasksTyped
  <2>5. NetTyped' BY <1>1, <2>2 DEF Typed, NetTyped, PumpClaim, setting
  <2> QED BY <2>2, <2>4, <2>5, Unmoved DEF Typed, PumpClaim, setting
<1>3. CASE ~CanClaim(c)
  <2>1. pumping' = Tail(pumping) /\ UNCHANGED <<task, load>> BY <1>3 DEF PumpClaim, c
  <2>2. PumpTyped' BY <1>1, <2>1 DEF PumpTyped
  <2>3. NetTyped' BY <2>1 DEF Typed, NetTyped, PumpClaim, setting
  <2> QED BY <2>1, <2>2, <2>3, Unmoved DEF Typed, PumpClaim, setting
<1> QED BY <1>2, <1>3

LEMMA BytesType == ASSUME NEW s \in Sources, NEW q PROVE Bytes(s, q) \in Values
BY DEF Bytes, Values

\* The record of a request under way.
LEMMA RunningTask == ASSUME Typed, NEW t \in Running PROVE t \in Tasks /\ task[t] \in Task
BY DEF Running, Typed, TasksTyped

LEMMA FetchType == ASSUME Typed, NEW t \in Tasks, Fetch(t) PROVE Typed'
<1>0. t \in Running BY DEF Fetch, CheckChunk, WriteChunk, RecordChunk, TaskFails
<1>1. task[t] \in Task BY <1>0, RunningTask
<1>2. \A st \in Steps : [task[t] EXCEPT !.step = st] \in Task BY <1>1 DEF Task
<1>3. \A st \in Steps : Go(t, st) => TasksTyped' BY <1>2 DEF Typed, TasksTyped, Go
<1>4. CASE CheckChunk(t)
  <2>1. TasksTyped'
    <3>1. CASE Go(t, "ok") \/ Go(t, "mismatch") BY <1>3, <3>1 DEF Steps
    <3>2. CASE \E b \in BOOLEAN : task' = [task EXCEPT ![t].step = "write", ![t].due = b]
      <4>1. PICK b \in BOOLEAN : task' = [task EXCEPT ![t].step = "write", ![t].due = b] BY <3>2
      <4>2. [task[t] EXCEPT !.step = "write", !.due = b] \in Task BY <1>1 DEF Task, Steps
      <4> QED BY <4>1, <4>2 DEF Typed, TasksTyped
    <3> QED BY <1>4, <3>1, <3>2 DEF CheckChunk
  <2> QED BY <1>4, <2>1, Unmoved DEF Typed, CheckChunk, setting
<1>5. CASE WriteChunk(t)
  <2>1. TasksTyped' BY <1>3, <1>5 DEF WriteChunk, Steps
  <2>2. Bytes(task[t].conn, task[t].at) \in Values BY <1>1, BytesType DEF Task
  <2>3. FileTyped' BY <1>5, <2>2 DEF Typed, FileTyped, WriteChunk
  <2> QED BY <1>5, <2>1, <2>3, Unmoved DEF Typed, WriteChunk, setting
<1>6. CASE RecordChunk(t)
  <2>1. PICK k \in Task : k = task[t] BY <1>1
  <2>2. [k EXCEPT !.step = "ok"] \in Task /\ [k EXCEPT !.step = "check", !.at = k.piece] \in Task
    BY DEF Task, Steps
  <2>3. TasksTyped' BY <1>6, <2>1, <2>2 DEF Typed, TasksTyped, RecordChunk
  <2>4. Bytes(k.conn, k.at) \in Values /\ k.at \in Pieces /\ k.src \in Sources BY BytesType DEF Task
  <2>5. /\ writers' = writers \cup {k.src}
        /\ owner' = [owner EXCEPT ![k.at] = IF @ = None THEN k.src ELSE @]
        /\ first' = [first EXCEPT ![k.at] = IF @ = NoBytes THEN Bytes(k.conn, k.at) ELSE @]
        /\ blind' \in {blind, blind \cup {k.at}} /\ file' = file
    BY <1>6, <2>1 DEF RecordChunk
  <2>6. FileTyped' BY <2>4, <2>5 DEF Typed, FileTyped
  <2> QED BY <1>6, <2>3, <2>6, Unmoved DEF Typed, RecordChunk, setting
<1>7. CASE TaskFails(t)
  <2>1. TasksTyped' BY <1>3, <1>7 DEF TaskFails, Steps
  <2> QED BY <1>7, <2>1, Unmoved DEF Typed, TaskFails, setting
<1> QED BY <1>4, <1>5, <1>6, <1>7 DEF Fetch

\* A source taken off the list of the active ones.
LEMMA ListWithout ==
  ASSUME NEW S, NEW seq \in Seq(S), \A i, k \in DOMAIN seq : seq[i] = seq[k] => i = k,
         NEW n \in DOMAIN seq
  PROVE  /\ RemoveAt(seq, n) \in Seq(S) /\ ToSet(RemoveAt(seq, n)) = ToSet(seq) \ {seq[n]}
         /\ \A i, k \in DOMAIN RemoveAt(seq, n) :
              RemoveAt(seq, n)[i] = RemoveAt(seq, n)[k] => i = k
<1>3. Len(seq) \in Nat /\ DOMAIN seq = 1 .. Len(seq) BY LenProperties
<1> DEFINE r == RemoveAt(seq, n)
<1>4. /\ r \in Seq(S) /\ Len(r) = Len(seq) - 1
      /\ \A k \in 1 .. Len(seq) - 1 : r[k] = IF k < n THEN seq[k] ELSE seq[k + 1]
  <2>1. n \in 1 .. Len(seq) BY <1>3
  <2> QED BY <2>1, RemoveAtMembers, Zenon
<1>5. DOMAIN r = 1 .. Len(seq) - 1 BY <1>4, LenProperties
<1> HIDE DEF r
<1> DEFINE f(k) == IF k < n THEN k ELSE k + 1
<1>6. \A k \in 1 .. Len(seq) - 1 : f(k) \in 1 .. Len(seq) /\ f(k) # n /\ r[k] = seq[f(k)]
  BY <1>3, <1>4
<1>7. \A i, k \in 1 .. Len(seq) - 1 : f(i) = f(k) => i = k BY <1>3
<1>8. \A m \in 1 .. Len(seq) : m # n => \E k \in 1 .. Len(seq) - 1 : f(k) = m
  <2> SUFFICES ASSUME NEW m \in 1 .. Len(seq), m # n PROVE \E k \in 1 .. Len(seq) - 1 : f(k) = m
    OBVIOUS
  <2>1. CASE m < n
    <3>1. m \in 1 .. Len(seq) - 1 /\ f(m) = m BY <1>3, <2>1
    <3> QED BY <3>1
  <2>2. CASE m > n
    <3>1. m - 1 \in 1 .. Len(seq) - 1 /\ f(m - 1) = m BY <1>3, <2>2
    <3> QED BY <3>1
  <2> QED BY <1>3, <2>1, <2>2
<1> HIDE DEF f
<1>9. \A i, k \in DOMAIN r : r[i] = r[k] => i = k BY <1>3, <1>5, <1>6, <1>7
<1>10. ToSet(r) = ToSet(seq) \ {seq[n]}
  <2>1. ASSUME NEW y \in ToSet(r) PROVE y \in ToSet(seq) \ {seq[n]}
    <3>1. PICK k \in 1 .. Len(seq) - 1 : y = r[k] BY <1>5 DEF ToSet
    <3>2. y = seq[f(k)] /\ f(k) \in DOMAIN seq /\ f(k) # n BY <1>3, <1>6, <3>1
    <3> QED BY <3>2 DEF ToSet
  <2>2. ASSUME NEW y \in ToSet(seq), y # seq[n] PROVE y \in ToSet(r)
    <3>1. PICK m \in 1 .. Len(seq) : y = seq[m] BY <1>3 DEF ToSet
    <3>2. m # n BY <2>2, <3>1
    <3>3. PICK k \in 1 .. Len(seq) - 1 : f(k) = m BY <1>8, <3>2
    <3>4. y = r[k] /\ k \in DOMAIN r BY <1>5, <1>6, <3>1, <3>3
    <3> QED BY <3>4 DEF ToSet
  <2> QED BY <2>1, <2>2
<1> QED BY <1>4, <1>9, <1>10 DEF r

LEMMA GoneTasks ==
  ASSUME Typed, NEW t \in Tasks
  PROVE  /\ Gone(t) \in [Tasks -> Task \cup {NoTask}] /\ Gone(t)[t] = NoTask
         /\ \A u \in Tasks \ {t} : Gone(t)[u] = task[u]
BY DEF Typed, TasksTyped, Gone

LEMMA ReleasedLoad ==
  ASSUME Typed, NEW t \in Running
  PROVE  /\ Released(t) \in [Sources -> Nat]
         /\ task[t].conn \in Sources
         /\ \A c \in Sources : Released(t)[c] = IF ~task[t].lost /\ c = task[t].conn
                                                THEN Less(load[c]) ELSE load[c]
<1>1. task[t].conn \in Sources BY RunningTask, TaskRecord
<1>2. load \in [Sources -> Nat] BY DEF Typed, NetTyped
<1>3. \A n \in Nat : Less(n) \in Nat BY DEF Less
<1> QED BY <1>1, <1>2, <1>3 DEF Released

LEMMA RedialedLinks ==
  ASSUME NEW lk \in [Sources -> Links], home \in Sources PROVE Redialed(lk) \in [Sources -> Links]
BY DEF Redialed, Scaled, Links

LEMMA AssignmentVerifiedType == ASSUME Typed, NEW t \in Tasks, AssignmentVerified(t) PROVE Typed'
<1>0. t \in Running /\ ~Ended BY DEF AssignmentVerified, Idle
<1>1. PICK k \in Task : k = task[t] BY <1>0, RunningTask
<1>2. k.conn \in Sources /\ k.piece \in Pieces BY DEF Task
<1>3. PICK closed \in BOOLEAN :
        /\ task' = IF closed THEN Lost(Gone(t), k.conn) ELSE Gone(t)
        /\ load' = IF closed THEN [load EXCEPT ![k.conn] = 0] ELSE Released(t)
        /\ tagged' = IF closed THEN tagged \ {k.conn} ELSE tagged
        /\ link' \in {IF closed THEN [link EXCEPT ![k.conn] = "none"] ELSE link,
                      Redialed(IF closed THEN [link EXCEPT ![k.conn] = "none"] ELSE link)}
        /\ phase' \in {phase, "committing"} /\ pumping' \in {pumping, <<home>>, <<>>}
  BY <1>1 DEF AssignmentVerified
<1>4. done' \subseteq Pieces BY <1>1, <1>2 DEF AssignmentVerified, Typed, PlanTyped
<1>5. home \in Sources BY DEF Typed, ListsTyped
<1>6. TasksTyped' BY <1>2, <1>3, GoneTasks, LostTasks DEF TasksTyped
<1>7. NetTyped'
  <2>1. link' \in [Sources -> Links]
    <3>1. PICK lk \in [Sources -> Links] :
            lk = IF closed THEN [link EXCEPT ![k.conn] = "none"] ELSE link
      BY <1>2 DEF Typed, NetTyped, Links
    <3> QED BY <1>3, <1>5, <3>1, RedialedLinks
  <2>2. load' \in [Sources -> Nat] BY <1>0, <1>2, <1>3, ReleasedLoad DEF Typed, NetTyped
  <2> QED BY <1>3, <2>1, <2>2 DEF Typed, NetTyped, AssignmentVerified, setting
<1>8. ListsTyped' BY <1>0, <1>3 DEF Typed, ListsTyped, AssignmentVerified, Ended
<1>9. PumpTyped'
  <2>1. <<home>> \in Seq(Sources) /\ <<>> \in Seq(Sources) BY <1>5
  <2> QED BY <1>3, <2>1 DEF Typed, PumpTyped
<1>10. PlanTyped' BY <1>4 DEF Typed, PlanTyped, AssignmentVerified
<1> QED BY <1>6, <1>7, <1>8, <1>9, <1>10, Unmoved DEF Typed, AssignmentVerified, setting

LEMMA RetryRangeType == ASSUME Typed, NEW t \in Tasks, RetryRange(t) PROVE Typed'
<1>0. t \in Running BY DEF RetryRange
<1>1. PICK k \in Task : k = task[t] BY <1>0, RunningTask
<1>2. k.conn \in Sources /\ k.piece \in Pieces BY DEF Task
<1>3. PICK poisoned \in BOOLEAN :
        /\ task' = IF poisoned THEN Lost(Gone(t), k.conn) ELSE Gone(t)
        /\ load' = IF poisoned THEN [load EXCEPT ![k.conn] = 0] ELSE Released(t)
        /\ tagged' = IF poisoned THEN tagged \ {k.conn} ELSE tagged
        /\ link' \in {IF poisoned THEN [link EXCEPT ![k.conn] = "none"] ELSE link,
                      Redialed(IF poisoned THEN [link EXCEPT ![k.conn] = "none"] ELSE link)}
  BY <1>1 DEF RetryRange
<1>5. home \in Sources BY DEF Typed, ListsTyped
<1>6. TasksTyped' BY <1>2, <1>3, GoneTasks, LostTasks DEF TasksTyped
<1>7. NetTyped'
  <2>1. link' \in [Sources -> Links]
    <3>1. PICK lk \in [Sources -> Links] :
            lk = IF poisoned THEN [link EXCEPT ![k.conn] = "none"] ELSE link
      BY <1>2 DEF Typed, NetTyped, Links
    <3> QED BY <1>3, <1>5, <3>1, RedialedLinks
  <2>2. load' \in [Sources -> Nat] BY <1>0, <1>2, <1>3, ReleasedLoad DEF Typed, NetTyped
  <2> QED BY <1>3, <2>1, <2>2 DEF Typed, NetTyped, RetryRange, setting
<1>8. PumpTyped' BY DEF Typed, PumpTyped, ListsTyped, RetryRange
<1>9. PlanTyped' BY <1>1, <1>2 DEF Typed, PlanTyped, RetryRange
<1> QED BY <1>6, <1>7, <1>8, <1>9, Unmoved DEF Typed, RetryRange, setting

LEMMA RetryReadyType == ASSUME Typed, NEW q \in Pieces, RetryReady(q) PROVE Typed'
<1>1. home \in Sources /\ link \in [Sources -> Links] BY DEF Typed, ListsTyped, NetTyped
<1>2. NetTyped' BY <1>1, RedialedLinks DEF Typed, NetTyped, RetryReady, setting
<1>3. PumpTyped'
  <2>1. <<home>> \in Seq(Sources) BY <1>1
  <2> QED BY <2>1 DEF PumpTyped, RetryReady
<1>4. PlanTyped' BY DEF Typed, PlanTyped, RetryReady
<1> QED BY <1>2, <1>3, <1>4, Unmoved DEF Typed, RetryReady, setting

LEMMA RefusedType == ASSUME Typed, NEW t \in Tasks, Refused(t) PROVE Typed'
<1>0. t \in Running BY DEF Refused
<1>1. ListsTyped' BY DEF Typed, ListsTyped, Refused, Fail
<1>2. NetTyped' BY <1>0, ReleasedLoad DEF Typed, NetTyped, Refused, setting
<1>3. TasksTyped' BY GoneTasks DEF TasksTyped, Refused
<1> QED BY <1>1, <1>2, <1>3, Unmoved DEF Typed, Refused, setting

\* What a mismatch does: the job fails, or the source leaves it and the job goes
\* on with the others, fails over or fails.
QuarantineFails(t) ==
  /\ Fail /\ UNCHANGED <<failed, tagged, pumping, dropped>>
  /\ task' = Gone(t) /\ load' = Released(t)
  /\ link' \in {link, [link EXCEPT ![task[t].conn] = "none"]}
  /\ ~task[t].lost \/ link' = link

QuarantineLeaves(t, left) ==
  /\ task[t].conn \in ToSet(active) /\ ~task[t].lost /\ env.mux
  /\ failed' = failed \cup {task[t].conn}
  /\ \A i, k \in DOMAIN left : left[i] = left[k] => i = k
  /\ ToSet(left) = ToSet(active) \ {task[t].conn}
  /\ task'[t] = NoTask
  /\ \A u \in Tasks \ {t} :
       \/ task'[u] = task[u]
       \/ task[u] # NoTask /\ task'[u] = [task[u] EXCEPT !.live = FALSE, !.cut = TRUE]
  /\ \E n, v \in Nat : /\ load' = [load EXCEPT ![task[t].conn] = n]
                       /\ dropped' = [dropped EXCEPT ![task[t].conn] = @ + v]
                       /\ n <= Less(load[task[t].conn]) /\ Less(load[task[t].conn]) <= n + v
  /\ \/ /\ left # <<>> /\ active' = left /\ link' \in {link, Redialed(link)} /\ pumping' = left
        /\ UNCHANGED <<phase, home, tries, tagged>>
     \/ /\ left = <<>> /\ UNCHANGED pumping
        /\ Unused \ {task[t].conn} # {} /\ ActivateNext(Unused \ {task[t].conn}, link)
     \/ /\ left = <<>> /\ active' = left /\ phase' = "failed"
        /\ UNCHANGED <<home, tries, link, tagged, pumping>>

LEMMA QuarantineSplit ==
  ASSUME Typed, NEW t \in Tasks, Quarantine(t)
  PROVE  /\ t \in Running /\ task[t] \in Task /\ ~Ended /\ task[t].step = "mismatch"
         /\ TasksTyped'
         /\ QuarantineFails(t) \/ \E left \in Seq(Sources) : QuarantineLeaves(t, left)
<1>0. t \in Running /\ ~Ended /\ task[t].step = "mismatch" BY DEF Quarantine, Idle
<1>1. PICK k \in Task : k = task[t] BY <1>0, RunningTask
<1>2. k.conn \in Sources /\ k.lost \in BOOLEAN BY DEF Task
<1> DEFINE there == env.mux /\ ~k.lost
           out == IF there THEN ToSet(active) \cap {k.conn} ELSE {}
           victims == {u \in Running \ {t} : task[u].conn = k.conn /\ task[u].live /\ ~task[u].lost}
           left == RemoveAt(active, CHOOSE i \in DOMAIN active : active[i] = k.conn)
           spare == Unused \ out
           n == Max({0, Less(load[k.conn]) - Cardinality(victims)})
           Fails ==
             /\ out = {} /\ Fail
             /\ task' = Gone(t) /\ load' = Released(t)
             /\ link' = (IF env.mux \/ k.lost THEN link ELSE [link EXCEPT ![k.conn] = "none"])
             /\ UNCHANGED <<failed, tagged, pumping, dropped>>
           Leaves ==
             /\ out # {}
             /\ failed' = failed \cup out
             /\ task' = [u \in Tasks |->
                           IF u = t THEN NoTask
                           ELSE IF u \in victims THEN [task[u] EXCEPT !.live = FALSE, !.cut = TRUE]
                           ELSE task[u]]
             /\ load' = [load EXCEPT ![k.conn] = n]
             /\ dropped' = [dropped EXCEPT ![k.conn] = @ + Cardinality(victims)]
             /\ \/ /\ left # <<>> /\ active' = left
                   /\ link' = (IF home \in ToSet(left) THEN Redialed(link) ELSE link)
                   /\ pumping' = left
                   /\ UNCHANGED <<phase, home, tries, tagged>>
                \/ /\ left = <<>> /\ spare # {}
                   /\ ActivateNext(spare, link) /\ UNCHANGED pumping
                \/ /\ left = <<>> /\ spare = {}
                   /\ active' = left /\ phase' = "failed"
                   /\ UNCHANGED <<home, tries, link, tagged, pumping>>
<1>3. CASE Fails
  <2>1. QuarantineFails(t) BY <1>1, <1>3 DEF QuarantineFails
  <2>2. TasksTyped' BY <1>3, GoneTasks DEF TasksTyped
  <2> QED BY <1>0, <1>1, <2>1, <2>2
<1>4. CASE Leaves
  <2>1. out = {k.conn} /\ k.conn \in ToSet(active) /\ ~k.lost /\ env.mux BY <1>4
  <2>2. /\ left \in Seq(Sources) /\ ToSet(left) = ToSet(active) \ {k.conn}
        /\ \A i, j \in DOMAIN left : left[i] = left[j] => i = j
    <3>1. active \in Seq(Sources) /\ \A i, j \in DOMAIN active : active[i] = active[j] => i = j
      BY DEF Typed, ListsTyped
    <3>2. PICK m \in DOMAIN active : m = CHOOSE i \in DOMAIN active : active[i] = k.conn
      BY <2>1 DEF ToSet
    <3>3. active[m] = k.conn /\ left = RemoveAt(active, m) BY <2>1, <3>2 DEF ToSet
    <3> HIDE DEF left
    <3> QED BY <3>1, <3>3, ListWithout
  <2>3. PICK v \in Nat : /\ v = Cardinality(victims)
                         /\ n \in Nat /\ n <= Less(load[k.conn]) /\ Less(load[k.conn]) <= n + v
    <3>1. load[k.conn] \in Nat BY <1>2 DEF Typed, NetTyped
    <3>2. PICK l \in Nat : l = Less(load[k.conn]) BY <3>1 DEF Less
    <3>3. victims \subseteq Tasks BY DEF Running
    <3>4. PICK v \in Nat : v = Cardinality(victims)
      BY <3>3, Ranges, FS_Subset, FS_CardinalityType
    <3>5. n = Max({0, l - v}) BY <3>2, <3>4
    <3>6. \E x \in {0, l - v} : \A y \in {0, l - v} : x >= y
      <4>1. CASE l >= v BY <4>1
      <4>2. CASE l < v BY <4>2
      <4> QED BY <4>1, <4>2
    <3>7. Max({0, l - v}) \in {0, l - v} /\ \A y \in {0, l - v} : Max({0, l - v}) >= y
      BY <3>6 DEF Max
    <3>8. n \in Nat /\ n <= l /\ l <= n + v BY <3>5, <3>7
    <3> HIDE DEF n, victims
    <3> QED BY <3>2, <3>4, <3>8
  <2>4. ASSUME NEW u \in Tasks
        PROVE  /\ task'[u] \in Task \cup {NoTask}
               /\ u = t => task'[u] = NoTask
               /\ u # t => \/ task'[u] = task[u]
                           \/ task[u] # NoTask /\ task'[u] = [task[u] EXCEPT !.live = FALSE, !.cut = TRUE]
    <3>1. CASE u = t BY <1>4, <3>1
    <3>2. CASE u # t /\ u \in victims
      <4>1. task[u] # NoTask /\ task[u] \in Task BY <3>2, RunningTask DEF Running
      <4>2. [task[u] EXCEPT !.live = FALSE, !.cut = TRUE] \in Task BY <4>1 DEF Task
      <4>3. task'[u] = [task[u] EXCEPT !.live = FALSE, !.cut = TRUE] BY <1>4, <3>2
      <4> QED BY <3>2, <4>1, <4>2, <4>3
    <3>3. CASE u # t /\ u \notin victims
      <4>1. task'[u] = task[u] BY <1>4, <3>3
      <4> QED BY <3>3, <4>1 DEF Typed, TasksTyped
    <3> QED BY <3>1, <3>2, <3>3
  <2>5. TasksTyped'
    <3> HIDE DEF victims
    <3>1. task' = [u \in Tasks |-> task'[u]] BY <1>4
    <3> QED BY <2>4, <3>1 DEF TasksTyped
  <2>6. spare = Unused \ {k.conn} BY <2>1
  <2>7. QuarantineLeaves(t, left)
    <3> HIDE DEF left, n, victims, spare, out
    <3> QED BY <1>1, <1>4, <2>1, <2>2, <2>3, <2>4, <2>6 DEF QuarantineLeaves
  <2> HIDE DEF left
  <2> QED BY <1>0, <1>1, <2>2, <2>5, <2>7
<1>5. Fails \/ Leaves BY <1>1 DEF Quarantine
<1> QED BY <1>3, <1>4, <1>5

LEMMA QuarantineType == ASSUME Typed, NEW t \in Tasks, Quarantine(t) PROVE Typed'
<1>0. TasksTyped' BY QuarantineSplit
<1>1. t \in Running /\ task[t].conn \in Sources BY QuarantineSplit, TaskRecord
<1>2. home \in Sources /\ link \in [Sources -> Links] /\ tagged \subseteq Sources
      /\ active \in Seq(Sources) /\ load \in [Sources -> Nat]
  BY DEF Typed, ListsTyped, NetTyped
<1>3. /\ UNCHANGED <<setting, probing, sampling, planVars, probes, samples, fileVars>>
  BY DEF Quarantine
<1>4. CASE QuarantineFails(t)
  <2>1. ListsTyped' BY <1>3, <1>4 DEF Typed, ListsTyped, QuarantineFails, Fail
  <2>2. NetTyped' BY <1>1, <1>2, <1>3, <1>4, ReleasedLoad DEF Typed, NetTyped, QuarantineFails, setting, Links
  <2> QED BY <1>0, <1>3, <1>4, <2>1, <2>2, Unmoved DEF Typed, QuarantineFails, setting
<1>5. ASSUME NEW left \in Seq(Sources), QuarantineLeaves(t, left) PROVE Typed'
  <2>1. failed' \subseteq Sources BY <1>1, <1>5 DEF QuarantineLeaves, Typed, ListsTyped
  <2>2. load' \in [Sources -> Nat] BY <1>1, <1>2, <1>5 DEF QuarantineLeaves
  <2>3. CASE /\ left # <<>> /\ active' = left /\ link' \in {link, Redialed(link)} /\ pumping' = left
             /\ UNCHANGED <<phase, home, tries, tagged>>
    <3>1. ListsTyped' BY <1>3, <1>5, <2>1, <2>3 DEF Typed, ListsTyped, QuarantineLeaves
    <3>2. NetTyped' BY <1>2, <1>3, <2>2, <2>3, RedialedLinks DEF Typed, NetTyped, setting
    <3>3. PumpTyped' BY <2>3 DEF PumpTyped
    <3> QED BY <1>0, <1>3, <3>1, <3>2, <3>3, Unmoved DEF Typed, setting
  <2>4. CASE /\ left = <<>> /\ UNCHANGED pumping
             /\ Unused \ {task[t].conn} # {} /\ ActivateNext(Unused \ {task[t].conn}, link)
    <3>1. PICK U \in SUBSET Unused : U = Unused \ {task[t].conn} OBVIOUS
    <3>2. /\ tries' \in 0 .. MaxTries /\ link' \in [Sources -> Links]
          /\ home' \in Sources /\ active' \in Seq(Sources) /\ active' # <<>>
          /\ \A i, k \in DOMAIN active' : active'[i] = active'[k] => i = k
          /\ phase' = "connecting" /\ tagged' \subseteq Sources
      BY <1>2, <2>4, <3>1, ActivateNextType
    <3>3. ListsTyped' BY <1>3, <2>1, <3>2 DEF Typed, ListsTyped
    <3>4. NetTyped' BY <1>3, <2>2, <3>2 DEF Typed, NetTyped, setting
    <3> QED BY <1>0, <1>3, <2>4, <3>3, <3>4, Unmoved DEF Typed, setting
  <2>5. CASE /\ left = <<>> /\ active' = left /\ phase' = "failed"
             /\ UNCHANGED <<home, tries, link, tagged, pumping>>
    <3>1. ListsTyped' BY <1>3, <1>5, <2>1, <2>5 DEF Typed, ListsTyped, QuarantineLeaves
    <3>2. NetTyped' BY <1>3, <2>2, <2>5 DEF Typed, NetTyped, setting
    <3> QED BY <1>0, <1>3, <2>5, <3>1, <3>2, Unmoved DEF Typed, setting
  <2> QED BY <1>5, <2>3, <2>4, <2>5 DEF QuarantineLeaves
<1> QED BY <1>4, <1>5, QuarantineSplit

LEMMA NextType == Typed /\ [Next]_vars => Typed'
<1> SUFFICES ASSUME Typed, [Next]_vars PROVE Typed' OBVIOUS
<1>1. CASE UNCHANGED vars
  BY <1>1, Unmoved DEF vars, setting, Typed
<1>2. ASSUME NEW s \in Sources, Net(s) \/ Sample(s) PROVE Typed'
  BY <1>2, ResolvedType, ResolveFailsType, ConnectionReadyType, ConnectionFailedType, ProbedType,
     MirrorProbedType, ProbeFailedType, CompareSampleType, MirrorSampledType DEF Net, Sample
<1>3. ASSUME NEW t \in Tasks, Fetch(t) \/ Report(t) PROVE Typed'
  BY <1>3, FetchType, AssignmentVerifiedType, RetryRangeType, QuarantineType, RefusedType DEF Report
<1>4. ASSUME NEW q \in Pieces, RetryReady(q) PROVE Typed' BY <1>4, RetryReadyType
<1> QED BY <1>1, <1>2, <1>3, <1>4, RebalanceTickType, PumpClaimType DEF Next

LEMMA InitType == Init => Typed
<1> SUFFICES ASSUME Init PROVE Typed OBVIOUS
<1> USE DEF Init
<1>1. EnvTyped BY DEF EnvTyped
<1>2. <<1>> \in Seq(Sources) /\ <<1>> # <<>> /\ DOMAIN <<1>> = {1} BY Ranges
<1>3. ListsTyped BY <1>2, Ranges, Counts DEF ListsTyped
<1>4. NetTyped BY DEF NetTyped, Links
<1>5. TasksTyped BY DEF TasksTyped
<1>6. SamplesTyped BY DEF SamplesTyped
<1>7. FileTyped BY DEF FileTyped, Values
<1> QED BY <1>1, <1>3, <1>4, <1>5, <1>6, <1>7 DEF Typed, PlanTyped, PumpTyped

-----------------------------------------------------------------------------
(***************************************************************************)
(* What the file holds.                                                    *)
(***************************************************************************)
\* Request t is as far with piece q as before.
Steady(t, q) ==
  /\ Recorder(t, q)' <=> Recorder(t, q)
  /\ Compared(t, q)' <=> Compared(t, q)
  /\ Recorder(t, q) \/ Compared(t, q) =>
       /\ task'[t].conn = task[t].conn /\ task'[t].src = task[t].src
       /\ task'[t].due <=> task[t].due

LEMMA AgreedStays ==
  ASSUME NEW q, AgreedAt(q), \A t \in Tasks : Steady(t, q), env' = env,
         owner'[q] = owner[q], file'[q] = file[q], first'[q] = first[q], q \in blind' <=> q \in blind
  PROVE  AgreedAt(q)'
<1>2. \A t \in Tasks : Doomed(t, q)' <=> Doomed(t, q) BY DEF Doomed, Steady
<1>3. ASSUME owner'[q] = None, NEW t \in Tasks, Recorder(t, q)'
      PROVE  \E u \in Tasks : Recorder(u, q)' /\ file'[q] = Bytes(task[u].conn, q)'
  <2>1. Recorder(t, q) BY <1>3 DEF Steady
  <2>2. PICK u \in Tasks : Recorder(u, q) /\ file[q] = Bytes(task[u].conn, q)
    BY <1>3, <2>1 DEF AgreedAt
  <2>3. Recorder(u, q)' /\ task'[u].conn = task[u].conn BY <2>2 DEF Steady
  <2> QED BY <2>2, <2>3 DEF Bytes
<1>4. ASSUME NEW t \in Tasks, Compared(t, q)'
      PROVE  /\ owner'[q] \notin {None, task'[t].src}
             /\ q \notin blind' => \/ first'[q] = Bytes(task[t].conn, q)'
                                   \/ \E u \in Tasks : Doomed(u, q)'
  <2>1. Compared(t, q) /\ task'[t].src = task[t].src /\ task'[t].conn = task[t].conn
    BY <1>4 DEF Steady
  <2> QED BY <1>2, <2>1 DEF AgreedAt, Bytes
<1>5. ASSUME q \notin blind', owner'[q] # None
      PROVE  /\ first'[q] = Bytes(owner[q], q)'
             /\ file'[q] = first'[q] \/ \E t \in Tasks : Doomed(t, q)'
  BY <1>2, <1>5 DEF AgreedAt, Bytes
<1> QED BY <1>3, <1>4, <1>5 DEF AgreedAt

\* A request that is not about to write, or that is at another piece, is steady
\* as long as it stays so.
Elsewhere(k, q) == k = NoTask \/ k.step \notin {"write", "record"} \/ k.at # q

LEMMA SteadyElsewhere ==
  ASSUME NEW t, NEW q, Elsewhere(task[t], q), Elsewhere(task'[t], q) PROVE Steady(t, q)
BY DEF Steady, Recorder, Compared, Elsewhere

\* The record keeps what Steady looks at.
Alike(k, l) ==
  /\ k = NoTask <=> l = NoTask
  /\ k # NoTask => /\ l.step = k.step /\ l.at = k.at
                   /\ l.conn = k.conn /\ l.src = k.src /\ l.due = k.due

LEMMA SteadyAlike ==
  ASSUME NEW t, NEW q, Alike(task[t], task'[t]) PROVE Steady(t, q)
BY DEF Steady, Recorder, Compared, Alike

\* The steps outside LaneSink: no request writes, starts or ends between the check
\* of a chunk and its record.
LEMMA AgreedFrame ==
  ASSUME Agreed, UNCHANGED <<env, fileVars>>,
         \A t \in Tasks :
           \/ Alike(task[t], task'[t])
           \/ \A q \in Pieces : Elsewhere(task[t], q) /\ Elsewhere(task'[t], q)
  PROVE  Agreed'
<1> SUFFICES ASSUME NEW q \in Pieces PROVE AgreedAt(q)' BY DEF Agreed
<1>1. \A t \in Tasks : Steady(t, q) BY SteadyElsewhere, SteadyAlike
<1>2. AgreedAt(q) BY DEF Agreed
<1>3. owner' = owner /\ file' = file /\ first' = first /\ blind' = blind BY DEF fileVars
<1> QED BY <1>1, <1>2, <1>3, AgreedStays

LEMMA CheckAgreed == ASSUME Typed, Agreed, NEW t \in Tasks, CheckChunk(t) PROVE Agreed'
<1>0. t \in Running /\ task[t].step = "check" BY DEF CheckChunk
<1>1. PICK k \in Task : k = task[t] BY <1>0, RunningTask
<1>2. k.at \in Pieces /\ k # NoTask BY TaskRecord DEF Task
<1>3. env' = env /\ owner' = owner /\ file' = file /\ first' = first /\ blind' = blind
      /\ writers' = writers
  BY DEF CheckChunk, setting, fileVars
<1>4. \A u \in Tasks \ {t} : task'[u] = task[u]
  BY DEF CheckChunk, Go, Typed, TasksTyped
<1>5. CASE Go(t, "ok") \/ Go(t, "mismatch")
  <2>1. task'[t].step \in {"ok", "mismatch"} BY <1>1, <1>5 DEF Go, Typed, TasksTyped, Task
  <2>2. \A q \in Pieces : Elsewhere(task[t], q) /\ Elsewhere(task'[t], q)
    BY <1>0, <2>1 DEF Elsewhere
  <2>3. \A u \in Tasks \ {t} : Alike(task[u], task'[u]) BY <1>4 DEF Alike
  <2> QED BY <1>3, <2>2, <2>3, AgreedFrame DEF fileVars
<1>6. CASE /\ Foreign(k.at, k.src) => file[k.at] = Bytes(k.conn, k.at)
           /\ task' = [task EXCEPT ![t].step = "write",
                                   ![t].due = Cardinality(writers) > 1
                                              /\ owner[k.at] \notin {None, k.src}]
  <2> DEFINE p == k.at
             b == Cardinality(writers) > 1 /\ owner[p] \notin {None, k.src}
  <2>1. task'[t] = [k EXCEPT !.step = "write", !.due = b]
    BY <1>1, <1>6 DEF Typed, TasksTyped
  <2>2. /\ task'[t].step = "write" /\ task'[t].at = p /\ task'[t].due = b
        /\ task'[t].conn = k.conn /\ task'[t].src = k.src /\ task'[t] # NoTask
    <3>1. b \in BOOLEAN OBVIOUS
    <3> HIDE DEF b
    <3>2. [k EXCEPT !.step = "write", !.due = b] \in Task BY <3>1 DEF Task, Steps
    <3> QED BY <2>1, <3>2, TaskRecord DEF Task
  <2>3. b => file[p] = Bytes(k.conn, p) BY <1>6 DEF Foreign
  <2> SUFFICES ASSUME NEW q \in Pieces PROVE AgreedAt(q)' BY DEF Agreed
  <2>4. AgreedAt(q) BY DEF Agreed
  <2>5. \A u \in Tasks \ {t} : Steady(u, q) BY <1>4, SteadyAlike DEF Alike
  <2>6. CASE q # p
    <3>1. Steady(t, q) BY <1>0, <2>2, <2>6, SteadyElsewhere DEF Elsewhere
    <3> QED BY <1>3, <2>4, <2>5, <3>1, AgreedStays
  <2>7. CASE q = p /\ ~b
    <3>1. Steady(t, q) BY <1>0, <2>2, <2>7 DEF Steady, Recorder, Compared
    <3> QED BY <1>3, <2>4, <2>5, <3>1, AgreedStays
  <2>8. CASE q = p /\ b
    <3>1. ~Recorder(t, q) /\ ~Compared(t, q) /\ ~Recorder(t, q)' /\ Compared(t, q)'
      BY <1>0, <2>2, <2>8 DEF Recorder, Compared
    <3>3. \A u \in Tasks : Doomed(u, q)' <=> Doomed(u, q)
      BY <1>3, <2>5, <3>1 DEF Doomed, Steady
    <3>4. \A u \in Tasks : Recorder(u, q)' <=> Recorder(u, q) BY <2>5, <3>1 DEF Steady
    <3>5. owner[q] \notin {None, k.src} BY <2>8
    <3>6. file[q] = Bytes(k.conn, q) BY <2>3, <2>8
    <3>7. q \notin blind => first[q] = Bytes(k.conn, q) \/ \E u \in Tasks : Doomed(u, q)
      BY <2>4, <3>5, <3>6 DEF AgreedAt
    <3> HIDE DEF b, p
    <3>8. ASSUME NEW u \in Tasks, Compared(u, q)'
          PROVE  /\ owner'[q] \notin {None, task'[u].src}
                 /\ q \notin blind' => \/ first'[q] = Bytes(task[u].conn, q)'
                                       \/ \E v \in Tasks : Doomed(v, q)'
      <4>1. CASE u = t BY <1>3, <2>2, <3>3, <3>5, <3>7, <4>1 DEF Bytes
      <4>2. CASE u # t
        <5>1. Compared(u, q) /\ task'[u] = task[u] BY <1>4, <2>5, <3>8, <4>2 DEF Steady
        <5> QED BY <1>3, <2>4, <3>3, <3>5, <5>1 DEF AgreedAt, Bytes
      <4> QED BY <4>1, <4>2
    <3>9. ASSUME q \notin blind', owner'[q] # None
          PROVE  /\ first'[q] = Bytes(owner[q], q)'
                 /\ file'[q] = first'[q] \/ \E u \in Tasks : Doomed(u, q)'
      BY <1>3, <2>4, <3>3, <3>9 DEF AgreedAt, Bytes
    <3>10. (first'[q] = NoBytes <=> owner'[q] = None) /\ owner'[q] # None
      BY <1>3, <2>4, <3>5 DEF AgreedAt
    <3> QED BY <3>8, <3>9, <3>10 DEF AgreedAt
  <2> QED BY <2>6, <2>7, <2>8
<1> QED BY <1>1, <1>5, <1>6 DEF CheckChunk

LEMMA WriteAgreed == ASSUME Typed, Agreed, NEW t \in Tasks, WriteChunk(t) PROVE Agreed'
<1>0. t \in Running /\ task[t].step = "write" BY DEF WriteChunk
<1>1. PICK k \in Task : k = task[t] BY <1>0, RunningTask
<1>2. PICK p \in Pieces : p = k.at BY DEF Task
<1>3. env' = env /\ owner' = owner /\ first' = first /\ blind' = blind
      /\ file' = [file EXCEPT ![p] = Bytes(k.conn, p)]
  BY <1>1, <1>2 DEF WriteChunk, setting
<1>4. \A u \in Tasks \ {t} : task'[u] = task[u] BY DEF WriteChunk, Go, Typed, TasksTyped
<1>5. /\ task'[t].step = "record" /\ task'[t].at = p /\ task'[t].due = k.due
      /\ task'[t].conn = k.conn /\ task'[t].src = k.src /\ task'[t] # NoTask
  <2>1. task'[t] = [k EXCEPT !.step = "record"] BY <1>1 DEF WriteChunk, Go, Typed, TasksTyped
  <2>2. [k EXCEPT !.step = "record"] \in Task BY DEF Task, Steps
  <2> QED BY <1>2, <2>1, <2>2, TaskRecord DEF Task
<1>6. file \in [Pieces -> Values] BY DEF Typed, FileTyped
<1> SUFFICES ASSUME NEW q \in Pieces PROVE AgreedAt(q)' BY DEF Agreed
<1>7. AgreedAt(q) BY DEF Agreed
<1>8. \A u \in Tasks \ {t} : Steady(u, q) BY <1>4, SteadyAlike DEF Alike
<1>9. CASE q # p
  <2>1. Steady(t, q) BY <1>1, <1>2, <1>5, <1>9, SteadyElsewhere DEF Elsewhere
  <2> QED BY <1>3, <1>6, <1>7, <1>8, <1>9, <2>1, AgreedStays
<1>10. CASE q = p
  <2>1. k # NoTask BY TaskRecord
  <2>2. ~Recorder(t, q) /\ Recorder(t, q)' /\ (Compared(t, q)' <=> Compared(t, q))
        /\ (Compared(t, q) <=> k.due)
    BY <1>0, <1>1, <1>2, <1>5, <1>10, <2>1 DEF Recorder, Compared
  <2>3. file'[q] = Bytes(k.conn, q) BY <1>3, <1>6, <1>10
  <2>4. \A u \in Tasks : Doomed(u, q) => u # t /\ Doomed(u, q)'
    BY <1>3, <1>4, <1>8, <2>2 DEF Doomed, Steady
  <2>5. owner'[q] = None /\ (\E u \in Tasks : Recorder(u, q)')
          => \E u \in Tasks : Recorder(u, q)' /\ file'[q] = Bytes(task[u].conn, q)'
    BY <1>3, <1>5, <2>2, <2>3 DEF Bytes
  <2>6. \A u \in Tasks : Compared(u, q)' => Compared(u, q) /\ task'[u].conn = task[u].conn
                                            /\ task'[u].src = task[u].src
    BY <1>1, <1>5, <1>8, <2>2 DEF Steady
  <2>7. \A u \in Tasks : Compared(u, q)' => owner'[q] \notin {None, task'[u].src}
    BY <1>3, <1>7, <2>6 DEF AgreedAt
  <2>8. ASSUME q \notin blind', owner'[q] # None
        PROVE  /\ first'[q] = Bytes(owner[q], q)'
               /\ file'[q] = first'[q] \/ \E u \in Tasks : Doomed(u, q)'
               /\ \A u \in Tasks : Compared(u, q)'
                    => first'[q] = Bytes(task[u].conn, q)' \/ \E v \in Tasks : Doomed(v, q)'
    <3>1. first[q] = Bytes(owner[q], q) BY <1>3, <1>7, <2>8 DEF AgreedAt
    <3>2. first'[q] = Bytes(owner[q], q)' BY <1>3, <3>1 DEF Bytes
    <3>3. file'[q] = first'[q] \/ \E u \in Tasks : Doomed(u, q)'
      <4>1. CASE k.conn # k.src \/ (~k.due /\ owner[q] \notin {None, k.src})
        <5>1. Doomed(t, q)' BY <1>3, <1>5, <2>2, <4>1 DEF Doomed
        <5> QED BY <5>1
      <4>2. CASE k.conn = k.src /\ owner[q] = k.src
        BY <1>3, <2>3, <3>1, <4>2
      <4>3. CASE k.due
        <5>1. first[q] = Bytes(k.conn, q) \/ \E u \in Tasks : Doomed(u, q)
          BY <1>1, <1>3, <1>7, <2>2, <2>8, <4>3 DEF AgreedAt
        <5> QED BY <1>3, <2>3, <2>4, <5>1
      <4> QED BY <1>3, <2>8, <4>1, <4>2, <4>3
    <3>4. ASSUME NEW u \in Tasks, Compared(u, q)'
          PROVE  first'[q] = Bytes(task[u].conn, q)' \/ \E v \in Tasks : Doomed(v, q)'
      <4>1. Compared(u, q) /\ task'[u].conn = task[u].conn BY <2>6, <3>4
      <4>2. first[q] = Bytes(task[u].conn, q) \/ \E v \in Tasks : Doomed(v, q)
        BY <1>3, <1>7, <2>8, <4>1 DEF AgreedAt
      <4> QED BY <1>3, <2>4, <4>1, <4>2 DEF Bytes
    <3> QED BY <3>2, <3>3, <3>4
  <2>9. first'[q] = NoBytes <=> owner'[q] = None BY <1>3, <1>7 DEF AgreedAt
  <2> QED BY <2>5, <2>7, <2>8, <2>9 DEF AgreedAt
<1> QED BY <1>9, <1>10

LEMMA RecordAgreed == ASSUME Typed, Agreed, NEW t \in Tasks, RecordChunk(t) PROVE Agreed'
<1>0. t \in Running /\ task[t].step = "record" BY DEF RecordChunk
<1>1. PICK k \in Task : k = task[t] BY <1>0, RunningTask
<1>2. PICK p \in Pieces : p = k.at BY DEF Task
<1>3. /\ env' = env /\ file' = file
      /\ owner' = [owner EXCEPT ![p] = IF @ = None THEN k.src ELSE @]
      /\ first' = [first EXCEPT ![p] = IF @ = NoBytes THEN Bytes(k.conn, p) ELSE @]
      /\ blind' = IF k.conn = k.src /\ (k.due \/ owner[p] \in {None, k.src})
                  THEN blind ELSE blind \cup {p}
  BY <1>1, <1>2 DEF RecordChunk, setting
<1>4. \A u \in Tasks \ {t} : task'[u] = task[u] BY DEF RecordChunk, Typed, TasksTyped
<1>5. task'[t] # NoTask /\ task'[t].step \notin {"write", "record"}
  <2>1. task'[t] \in {[k EXCEPT !.step = "ok"], [k EXCEPT !.step = "check", !.at = k.piece]}
    BY <1>1 DEF RecordChunk, Typed, TasksTyped
  <2>2. [k EXCEPT !.step = "ok"] \in Task /\ [k EXCEPT !.step = "check", !.at = k.piece] \in Task
    BY DEF Task, Steps
  <2> QED BY <2>1, <2>2, TaskRecord DEF Task
<1>6. owner \in [Pieces -> Sources \cup {None}] /\ first \in [Pieces -> Values]
  BY DEF Typed, FileTyped
<1> SUFFICES ASSUME NEW q \in Pieces PROVE AgreedAt(q)' BY DEF Agreed
<1>7. AgreedAt(q) BY DEF Agreed
<1>8. \A u \in Tasks \ {t} : Steady(u, q) BY <1>4, SteadyAlike DEF Alike
<1>9. CASE q # p
  <2>1. Steady(t, q) BY <1>1, <1>2, <1>5, <1>9, SteadyElsewhere DEF Elsewhere
  <2>2. owner'[q] = owner[q] /\ first'[q] = first[q] /\ (q \in blind' <=> q \in blind)
    BY <1>3, <1>6, <1>9
  <2> QED BY <1>3, <1>7, <1>8, <2>1, <2>2, AgreedStays
<1>10. CASE q = p
  <2>1. k # NoTask /\ k.src \in Sources /\ k.conn \in Sources BY TaskRecord DEF Task
  <2>2. /\ Recorder(t, q) /\ ~Recorder(t, q)' /\ ~Compared(t, q)' /\ (Compared(t, q) <=> k.due)
    BY <1>0, <1>1, <1>2, <1>5, <1>10, <2>1 DEF Recorder, Compared
  <2>3. owner'[q] = (IF owner[q] = None THEN k.src ELSE owner[q])
        /\ first'[q] = (IF first[q] = NoBytes THEN Bytes(k.conn, q) ELSE first[q])
    BY <1>3, <1>6, <1>10
  <2>4. owner'[q] # None /\ first'[q] # NoBytes
    <3>1. Bytes(k.conn, q) # NoBytes BY <2>1, Ranges DEF Bytes
    <3> QED BY <2>1, <2>3, <3>1, Ranges
  <2>5. ASSUME NEW u \in Tasks, Compared(u, q)'
        PROVE  /\ u # t /\ Compared(u, q) /\ task'[u] = task[u] /\ owner[q] \notin {None, task[u].src}
               /\ owner'[q] \notin {None, task'[u].src}
    <3>1. u # t BY <2>2, <2>5
    <3>2. Compared(u, q) /\ task'[u] = task[u] BY <1>4, <1>8, <2>5, <3>1 DEF Steady
    <3>3. owner[q] \notin {None, task[u].src} BY <1>7, <3>2 DEF AgreedAt
    <3> QED BY <2>3, <3>1, <3>2, <3>3
  <2>6. ASSUME q \notin blind'
        PROVE  /\ first'[q] = Bytes(owner[q], q)'
               /\ file'[q] = first'[q] \/ \E u \in Tasks : Doomed(u, q)'
               /\ \A u \in Tasks : Compared(u, q)'
                    => first'[q] = Bytes(task[u].conn, q)' \/ \E v \in Tasks : Doomed(v, q)'
    <3>1. q \notin blind /\ k.conn = k.src /\ (k.due \/ owner[q] \in {None, k.src})
      BY <1>3, <1>10, <2>6
    <3>2. ~Doomed(t, q) BY <1>1, <3>1 DEF Doomed
    <3>3. ASSUME NEW u \in Tasks, Recorder(u, q), u # t
          PROVE  /\ Recorder(u, q)' /\ task'[u] = task[u]
                 /\ Doomed(u, q) => Doomed(u, q)'
      <4>1. Recorder(u, q)' /\ task'[u] = task[u] BY <1>4, <1>8, <3>3 DEF Steady
      <4> QED BY <2>3, <4>1 DEF Doomed
    <3>4. \A u \in Tasks : Doomed(u, q) => Doomed(u, q)' BY <3>2, <3>3 DEF Doomed
    <3>5. CASE owner[q] = None
      <4>1. owner'[q] = k.src /\ first'[q] = Bytes(k.conn, q) BY <1>7, <2>3, <3>5 DEF AgreedAt
      <4>2. first'[q] = Bytes(owner[q], q)' BY <1>3, <3>1, <4>1 DEF Bytes
      <4>3. PICK u \in Tasks : Recorder(u, q) /\ file[q] = Bytes(task[u].conn, q)
        BY <1>7, <2>2, <3>5 DEF AgreedAt
      <4>4. file'[q] = first'[q] \/ \E v \in Tasks : Doomed(v, q)'
        <5>1. CASE u = t BY <1>1, <1>3, <4>1, <4>3, <5>1
        <5>2. CASE u # t
          <6>1. Recorder(u, q)' /\ task'[u] = task[u] BY <3>3, <4>3, <5>2
          <6>2. ~task[u].due
            <7>1. ~Compared(u, q) BY <1>7, <3>5 DEF AgreedAt
            <7> QED BY <4>3, <7>1 DEF Compared, Recorder
          <6>3. CASE task[u].conn = task[u].src /\ task[u].src = k.src
            BY <1>3, <3>1, <4>1, <4>3, <6>3
          <6>4. CASE task[u].conn # task[u].src \/ task[u].src # k.src
            <7>1. Doomed(u, q)' BY <2>1, <4>1, <6>1, <6>2, <6>4, Ranges DEF Doomed
            <7> QED BY <7>1
          <6> QED BY <6>3, <6>4
        <5> QED BY <5>1, <5>2
      <4>5. \A v \in Tasks : ~Compared(v, q)' BY <2>5, <3>5
      <4> QED BY <4>2, <4>4, <4>5
    <3>6. CASE owner[q] # None
      <4>1. owner'[q] = owner[q] /\ first'[q] = first[q] BY <1>7, <2>3, <3>6 DEF AgreedAt
      <4>2. first'[q] = Bytes(owner[q], q)' BY <1>3, <1>7, <3>1, <3>6, <4>1 DEF AgreedAt, Bytes
      <4>3. file[q] = first[q] \/ \E u \in Tasks : Doomed(u, q) BY <1>7, <3>1, <3>6 DEF AgreedAt
      <4>4. file'[q] = first'[q] \/ \E u \in Tasks : Doomed(u, q)' BY <1>3, <3>4, <4>1, <4>3
      <4>5. ASSUME NEW u \in Tasks, Compared(u, q)'
            PROVE  first'[q] = Bytes(task[u].conn, q)' \/ \E v \in Tasks : Doomed(v, q)'
        <5>1. Compared(u, q) /\ task'[u] = task[u] BY <2>5, <4>5
        <5>2. first[q] = Bytes(task[u].conn, q) \/ \E v \in Tasks : Doomed(v, q)
          BY <1>7, <3>1, <3>6, <5>1 DEF AgreedAt
        <5> QED BY <1>3, <3>4, <4>1, <5>1, <5>2 DEF Bytes
      <4> QED BY <4>2, <4>4, <4>5
    <3> QED BY <3>5, <3>6
  <2> QED BY <2>4, <2>5, <2>6 DEF AgreedAt
<1> QED BY <1>9, <1>10

\* The updates of a record that Steady does not see.
LEMMA AlikeUpdates ==
  ASSUME NEW k \in Task, NEW b \in BOOLEAN
  PROVE  /\ Alike(k, k) /\ Alike(k, [k EXCEPT !.live = FALSE])
         /\ Alike(k, [k EXCEPT !.lost = b])
         /\ Alike(k, [k EXCEPT !.live = FALSE, !.cut = TRUE])
<1>1. /\ [k EXCEPT !.live = FALSE] \in Task /\ [k EXCEPT !.lost = b] \in Task
      /\ [k EXCEPT !.live = FALSE, !.cut = TRUE] \in Task
  BY DEF Task
<1> QED BY <1>1, TaskRecord DEF Alike, Task

LEMMA AlikeSelf == \A k : Alike(k, k)
BY DEF Alike

LEMMA AlikeLost ==
  ASSUME NEW tasks \in [Tasks -> Task \cup {NoTask}], NEW s \in Sources, NEW t \in Tasks
  PROVE  Alike(tasks[t], Lost(tasks, s)[t])
<1>1. CASE tasks[t] = NoTask BY <1>1, LostTasks DEF Alike
<1>2. CASE tasks[t] # NoTask
  <2>1. PICK k \in Task : k = tasks[t] BY <1>2
  <2>2. (k.lost \/ k.conn = s) \in BOOLEAN BY DEF Task
  <2>3. Lost(tasks, s)[t] = [k EXCEPT !.lost = k.lost \/ k.conn = s] BY <1>2, <2>1, LostTasks
  <2> QED BY <2>1, <2>2, <2>3, AlikeUpdates
<1> QED BY <1>1, <1>2

LEMMA NextAgreed == Typed /\ Agreed /\ [Next]_vars => Agreed'
<1> SUFFICES ASSUME Typed, Agreed, [Next]_vars PROVE Agreed' OBVIOUS
<1>0. task \in [Tasks -> Task \cup {NoTask}] BY DEF Typed, TasksTyped
<1>1. CASE UNCHANGED <<task, env, fileVars>> BY <1>1, AlikeSelf, AgreedFrame
<1>2. ASSUME NEW s \in Sources, Net(s) \/ Sample(s) PROVE Agreed'
  <2>1. CASE Resolved(s) \/ ResolveFails(s) \/ ConnectionReady(s) \/ ConnectionFailed(s)
             \/ ProbeFailed(s) \/ CompareSample(s)
    <3>1. UNCHANGED <<task, env, fileVars>>
      BY <2>1 DEF Resolved, ResolveFails, ConnectionReady, ConnectionFailed, ProbeFailed,
                  CompareSample, setting
    <3> QED BY <1>1, <3>1
  <2>2. CASE Probed(s)
    <3>1. UNCHANGED <<env, fileVars>> BY <2>2 DEF Probed, setting
    <3>2. ASSUME NEW t \in Tasks PROVE Alike(task[t], task'[t])
      <4>1. PICK g \in [Tasks -> Task \cup {NoTask}] : g = Unplanned BY UnplannedTasks
      <4>2. Alike(task[t], g[t])
        <5>1. CASE task[t] = NoTask BY <4>1, <5>1, UnplannedTasks, AlikeSelf
        <5>2. CASE task[t] # NoTask
          <6>1. PICK k \in Task : k = task[t] BY <1>0, <5>2
          <6>2. g[t] = [k EXCEPT !.live = FALSE] BY <4>1, <5>2, <6>1, UnplannedTasks
          <6> QED BY <6>1, <6>2, AlikeUpdates
        <5> QED BY <5>1, <5>2
      <4>3. Alike(g[t], Lost(g, s)[t]) BY AlikeLost
      <4>4. Alike(task[t], Lost(g, s)[t]) BY <4>2, <4>3 DEF Alike
      <4>5. task' \in {g, Lost(g, s)} BY <2>2, <4>1, ProbedSplit DEF ProbeKeeps, ProbeCloses
      <4> QED BY <4>2, <4>4, <4>5
    <3> QED BY <3>1, <3>2, AgreedFrame
  <2>3. CASE MirrorProbed(s) \/ MirrorSampled(s)
    <3>1. UNCHANGED <<env, fileVars>> /\ task' \in {task, Lost(task, s)}
      BY <2>3 DEF MirrorProbed, MirrorSampled, setting
    <3>2. \A t \in Tasks : Alike(task[t], task'[t]) BY <1>0, <3>1, AlikeSelf, AlikeLost
    <3> QED BY <3>1, <3>2, AgreedFrame
  <2> QED BY <1>2, <2>1, <2>2, <2>3 DEF Net, Sample
<1>3. ASSUME NEW t \in Tasks, Fetch(t) PROVE Agreed'
  <2>1. CASE TaskFails(t)
    <3>1. UNCHANGED <<env, fileVars>> BY <2>1 DEF TaskFails, setting
    <3>2. PICK k \in Task : k = task[t] BY <2>1, RunningTask DEF TaskFails
    <3>3. k.step = "check" /\ \E st \in {"error", "refused"} : task' = [task EXCEPT ![t].step = st]
      BY <2>1, <3>2 DEF TaskFails, Go
    <3>4. task'[t].step \in {"error", "refused"} BY <1>0, <3>2, <3>3 DEF Task
    <3>5. \A u \in Tasks \ {t} : task'[u] = task[u] BY <1>0, <3>3
    <3>6. \A q \in Pieces : Elsewhere(task[t], q) /\ Elsewhere(task'[t], q)
      BY <3>2, <3>3, <3>4 DEF Elsewhere
    <3> QED BY <3>1, <3>5, <3>6, AlikeSelf, AgreedFrame
  <2> QED BY <1>3, <2>1, CheckAgreed, WriteAgreed, RecordAgreed DEF Fetch
<1>4. ASSUME NEW t \in Tasks, Report(t) PROVE Agreed'
  <2>1. t \in Running /\ task[t].step \in {"ok", "error", "mismatch", "refused"}
    BY <1>4 DEF Report, AssignmentVerified, RetryRange, Quarantine, Refused
  <2>2. UNCHANGED <<env, fileVars>>
    BY <1>4 DEF Report, AssignmentVerified, RetryRange, Quarantine, Refused, setting
  <2>3. PICK c \in Sources : c = task[t].conn BY <2>1, RunningTask, TaskRecord
  <2>4. task'[t] = NoTask /\ \A u \in Tasks \ {t} : Alike(task[u], task'[u])
    <3>1. CASE AssignmentVerified(t) \/ RetryRange(t) \/ Refused(t)
      <4>1. task' \in {Gone(t), Lost(Gone(t), c)}
        BY <2>3, <3>1 DEF AssignmentVerified, RetryRange, Refused
      <4>2. \A u \in Tasks : Alike(Gone(t)[u], Lost(Gone(t), c)[u])
        BY GoneTasks, AlikeLost
      <4>3. Lost(Gone(t), c)[t] = NoTask BY GoneTasks, <4>2 DEF Alike
      <4> QED BY <4>1, <4>2, <4>3, GoneTasks, AlikeSelf
    <3>2. CASE Quarantine(t)
      <4>1. CASE QuarantineFails(t) BY <4>1, GoneTasks, AlikeSelf DEF QuarantineFails
      <4>2. ASSUME NEW left, QuarantineLeaves(t, left)
            PROVE  task'[t] = NoTask /\ \A u \in Tasks \ {t} : Alike(task[u], task'[u])
        <5>1. ASSUME NEW u \in Tasks \ {t} PROVE Alike(task[u], task'[u])
          <6>1. CASE task'[u] = task[u] BY <6>1, AlikeSelf
          <6>2. CASE task[u] # NoTask /\ task'[u] = [task[u] EXCEPT !.live = FALSE, !.cut = TRUE]
            <7>1. PICK k \in Task : k = task[u] BY <1>0, <6>2
            <7> QED BY <6>2, <7>1, AlikeUpdates
          <6> QED BY <4>2, <6>1, <6>2 DEF QuarantineLeaves
        <5> QED BY <4>2, <5>1 DEF QuarantineLeaves
      <4> QED BY <3>2, <4>1, <4>2, QuarantineSplit
    <3> QED BY <1>4, <3>1, <3>2 DEF Report
  <2>5. \A q \in Pieces : Elsewhere(task[t], q) /\ Elsewhere(task'[t], q)
    BY <2>1, <2>4 DEF Elsewhere
  <2> QED BY <2>2, <2>4, <2>5, AgreedFrame
<1>5. ASSUME NEW q \in Pieces, RetryReady(q) PROVE Agreed'
  BY <1>1, <1>5 DEF RetryReady, setting
<1>6. CASE RebalanceTick BY <1>1, <1>6 DEF RebalanceTick, setting
<1>7. CASE PumpClaim
  <2>0. pumping \in Seq(Sources) /\ pumping # <<>> BY <1>7 DEF Typed, PumpTyped, PumpClaim
  <2>1. PICK c \in Sources : c = Head(pumping) BY <2>0, HeadTailProperties
  <2>2. UNCHANGED <<env, fileVars>> BY <1>7 DEF PumpClaim, setting
  <2>3. CASE ~CanClaim(c) BY <1>1, <1>7, <2>1, <2>2, <2>3 DEF PumpClaim
  <2>4. CASE CanClaim(c)
    <3>1. PICK t \in Tasks, q \in Pieces : t = Min(Tasks \ Running) /\ q = Min(Todo) /\ task[t] = NoTask
      BY <2>4, FreeTask
    <3>2. task' = [task EXCEPT ![t] = Start(c, q)] BY <1>7, <2>1, <2>4, <3>1 DEF PumpClaim
    <3>3. task'[t].step = "check" BY <1>0, <3>2 DEF Start
    <3>4. \A p \in Pieces : Elsewhere(task[t], p) /\ Elsewhere(task'[t], p)
      BY <3>1, <3>3 DEF Elsewhere
    <3>5. \A u \in Tasks \ {t} : Alike(task[u], task'[u]) BY <1>0, <3>2, AlikeSelf
    <3> QED BY <2>2, <3>4, <3>5, AgreedFrame
  <2> QED BY <2>3, <2>4
<1>8. CASE UNCHANGED vars BY <1>1, <1>8 DEF vars, setting
<1> QED BY <1>2, <1>3, <1>4, <1>5, <1>6, <1>7, <1>8 DEF Next

LEMMA InitAgreed == Init => Agreed
<1> SUFFICES ASSUME Init, NEW q \in Pieces PROVE AgreedAt(q) BY DEF Agreed
<1>1. \A t \in Tasks : task[t] = NoTask BY DEF Init
<1>2. owner[q] = None /\ first[q] = NoBytes BY DEF Init
<1> QED BY <1>1, <1>2 DEF AgreedAt, Recorder, Compared

-----------------------------------------------------------------------------
(***************************************************************************)
(* The counter of a connection.                                            *)
(***************************************************************************)
\* The new requests and counter of a connection come from the old in one of these
\* ways: none and nothing, the same, one less, and one more.
LEMMA LoadBound ==
  ASSUME Typed, Typed', Counted, NEW c \in Sources, dropped'[c] \in Nat,
         \/ load'[c] = 0 /\ OnConn(c)' = {}
         \/ load'[c] = load[c] /\ dropped'[c] = dropped[c] /\ OnConn(c)' = OnConn(c)
         \/ \E t \in OnConn(c) : /\ OnConn(c)' = OnConn(c) \ {t}
                                 /\ load'[c] <= Less(load[c])
                                 /\ Less(load[c]) + dropped[c] <= load'[c] + dropped'[c]
         \/ \E t : /\ t \notin OnConn(c) /\ OnConn(c)' = OnConn(c) \cup {t}
                   /\ load'[c] = load[c] + 1 /\ dropped'[c] = dropped[c]
  PROVE  load'[c] <= Cardinality(OnConn(c)') /\ Cardinality(OnConn(c)') <= load'[c] + dropped'[c]
<1>1. OnConn(c) \subseteq Tasks BY DEF OnConn, Running
<1>2. IsFiniteSet(OnConn(c)) BY <1>1, Ranges, FS_Subset
<1>3. PICK n \in Nat : n = Cardinality(OnConn(c)) BY <1>2, FS_CardinalityType
<1>4. PICK l, d, m, e \in Nat : l = load[c] /\ d = dropped[c] /\ m = load'[c] /\ e = dropped'[c]
  BY DEF Typed, NetTyped, Counted
<1>5. l <= n /\ n <= l + d BY <1>3, <1>4 DEF Counted, LoadExact
<1>6. CASE load'[c] = 0 /\ OnConn(c)' = {} BY <1>4, <1>6, FS_EmptySet
<1>7. CASE load'[c] = load[c] /\ dropped'[c] = dropped[c] /\ OnConn(c)' = OnConn(c)
  BY <1>3, <1>4, <1>5, <1>7
<1>8. ASSUME NEW t \in OnConn(c), OnConn(c)' = OnConn(c) \ {t},
             m <= Less(l), Less(l) + d <= m + e
      PROVE  m <= Cardinality(OnConn(c)') /\ Cardinality(OnConn(c)') <= m + e
  <2>1. Cardinality(OnConn(c) \ {t}) = n - 1 /\ IsFiniteSet(OnConn(c) \ {t})
    BY <1>2, <1>3, FS_RemoveElement
  <2>2. PICK k \in Nat : k = Cardinality(OnConn(c) \ {t}) BY <2>1, FS_CardinalityType
  <2>3. k = n - 1 BY <2>1, <2>2
  <2>4. m <= k /\ k <= m + e
    <3>1. CASE l = 0 BY <1>5, <1>8, <2>3, <3>1 DEF Less
    <3>2. CASE l # 0 BY <1>5, <1>8, <2>3, <3>2 DEF Less
    <3> QED BY <3>1, <3>2
  <2> QED BY <1>8, <2>2, <2>4
<1>9. ASSUME NEW t, t \notin OnConn(c), OnConn(c)' = OnConn(c) \cup {t}, m = l + 1, e = d
      PROVE  m <= Cardinality(OnConn(c)') /\ Cardinality(OnConn(c)') <= m + e
  <2>1. Cardinality(OnConn(c) \cup {t}) = n + 1 BY <1>2, <1>3, <1>9, FS_AddElement
  <2> QED BY <1>5, <1>9, <2>1
<1> QED BY <1>4, <1>6, <1>7, <1>8, <1>9

LEMMA Recounted ==
  ASSUME dropped' \in [Sources -> Nat],
         \A c \in Sources : /\ load'[c] <= Cardinality(OnConn(c)')
                            /\ Cardinality(OnConn(c)') <= load'[c] + dropped'[c]
  PROVE  Counted'
BY DEF Counted, LoadExact

\* A request stays what it is to its connection.
Bound(k, l) ==
  /\ l = NoTask <=> k = NoTask
  /\ k # NoTask => l.conn = k.conn /\ (l.lost <=> k.lost)

LEMMA BoundUpdates ==
  ASSUME NEW k \in Task, NEW st \in Steps, NEW b \in BOOLEAN
  PROVE  /\ Bound(k, [k EXCEPT !.step = st])
         /\ Bound(k, [k EXCEPT !.step = "check", !.at = k.piece])
         /\ Bound(k, [k EXCEPT !.step = "write", !.due = b])
<1>1. /\ [k EXCEPT !.step = st] \in Task /\ [k EXCEPT !.step = "check", !.at = k.piece] \in Task
      /\ [k EXCEPT !.step = "write", !.due = b] \in Task
  BY DEF Task, Steps
<1> QED BY <1>1, TaskRecord DEF Bound, Task

LEMMA BoundAbandoned ==
  ASSUME NEW k \in Task
  PROVE  Bound(k, [k EXCEPT !.live = FALSE, !.cut = TRUE])
<1>1. [k EXCEPT !.live = FALSE, !.cut = TRUE] \in Task BY DEF Task
<1> QED BY <1>1, TaskRecord DEF Bound, Task

LEMMA BoundSelf == \A k : Bound(k, k)
BY DEF Bound

LEMMA BoundUnplanned == ASSUME Typed, NEW t \in Tasks PROVE Bound(task[t], Unplanned[t])
<1>1. CASE task[t] = NoTask BY <1>1, UnplannedTasks DEF Bound
<1>2. CASE task[t] # NoTask
  <2>1. /\ Unplanned[t] \in Task /\ Unplanned[t].conn = task[t].conn
        /\ Unplanned[t].lost <=> task[t].lost
    BY <1>2, UnplannedTasks
  <2>2. Unplanned[t] # NoTask BY <2>1, TaskRecord
  <2> QED BY <1>2, <2>1, <2>2 DEF Bound
<1> QED BY <1>1, <1>2

LEMMA LoadStays ==
  ASSUME Typed, Typed', Counted, UNCHANGED <<load, dropped>>,
         \A t \in Tasks : Bound(task[t], task'[t])
  PROVE  Counted'
<1>1. ASSUME NEW c \in Sources
      PROVE  load'[c] <= Cardinality(OnConn(c)') /\ Cardinality(OnConn(c)') <= load'[c] + dropped'[c]
  <2>1. OnConn(c)' = OnConn(c) BY DEF OnConn, Running, Bound
  <2>2. dropped'[c] \in Nat BY DEF Counted
  <2> QED BY <2>1, <2>2, LoadBound
<1> QED BY <1>1, Recounted DEF Counted

\* A connection is dropped: its counter goes, its requests are lost, the others
\* stay.
Cleared(l, s) == l # NoTask => l.conn = s /\ l.lost

LEMMA LoadDropped ==
  ASSUME Typed, Typed', Counted, NEW s \in Sources, load'[s] = 0, UNCHANGED dropped,
         \A c \in Sources \ {s} : load'[c] = load[c],
         \A t \in Tasks : IF task[t] # NoTask /\ task[t].conn # s
                          THEN Bound(task[t], task'[t]) ELSE Cleared(task'[t], s)
  PROVE  Counted'
<1>1. ASSUME NEW c \in Sources
      PROVE  load'[c] <= Cardinality(OnConn(c)') /\ Cardinality(OnConn(c)') <= load'[c] + dropped'[c]
  <2>1. dropped'[c] \in Nat BY DEF Counted
  <2>2. CASE c = s
    <3>1. OnConn(c)' = {} BY <2>2 DEF OnConn, Running, Bound, Cleared
    <3> QED BY <2>1, <2>2, <3>1, LoadBound
  <2>3. CASE c # s
    <3>1. OnConn(c)' = OnConn(c) BY <2>3 DEF OnConn, Running, Bound, Cleared
    <3> QED BY <2>1, <2>3, <3>1, LoadBound
  <2> QED BY <2>2, <2>3
<1> QED BY <1>1, Recounted DEF Counted

\* A request has reported: its slot is released if its connection is still there.
LEMMA LoadReported ==
  ASSUME Typed, Typed', Counted, NEW t \in Running, dropped' \in [Sources -> Nat],
         task'[t] = NoTask, \A u \in Tasks \ {t} : Bound(task[u], task'[u]),
         \A c \in Sources : \/ /\ c # task[t].conn \/ task[t].lost
                               /\ load'[c] = load[c] /\ dropped'[c] = dropped[c]
                            \/ /\ c = task[t].conn /\ ~task[t].lost
                               /\ load'[c] <= Less(load[c])
                               /\ Less(load[c]) + dropped[c] <= load'[c] + dropped'[c]
  PROVE  Counted'
<1>1. ASSUME NEW c \in Sources
      PROVE  load'[c] <= Cardinality(OnConn(c)') /\ Cardinality(OnConn(c)') <= load'[c] + dropped'[c]
  <2>0. dropped'[c] \in Nat OBVIOUS
  <2>1. OnConn(c)' = OnConn(c) \ {t} BY DEF OnConn, Running, Bound
  <2>2. CASE (c # task[t].conn \/ task[t].lost) /\ load'[c] = load[c] /\ dropped'[c] = dropped[c]
    <3>1. t \notin OnConn(c) BY <2>2 DEF OnConn
    <3>2. OnConn(c)' = OnConn(c) BY <2>1, <3>1
    <3> QED BY <2>0, <2>2, <3>2, LoadBound
  <2>3. CASE /\ c = task[t].conn /\ ~task[t].lost /\ load'[c] <= Less(load[c])
             /\ Less(load[c]) + dropped[c] <= load'[c] + dropped'[c]
    <3>1. t \in OnConn(c) BY <2>3 DEF OnConn
    <3> QED BY <2>0, <2>1, <2>3, <3>1, LoadBound
  <2> QED BY <2>2, <2>3
<1> QED BY <1>1, Recounted

LEMMA LostBound ==
  ASSUME NEW tasks \in [Tasks -> Task \cup {NoTask}], NEW s \in Sources, NEW t \in Tasks
  PROVE  IF tasks[t] # NoTask /\ tasks[t].conn # s
         THEN Lost(tasks, s)[t] = tasks[t] ELSE Cleared(Lost(tasks, s)[t], s)
<1>1. CASE tasks[t] # NoTask /\ tasks[t].conn # s BY <1>1 DEF Lost
<1>2. CASE tasks[t] = NoTask BY <1>2, LostTasks DEF Cleared
<1>3. CASE tasks[t] # NoTask /\ tasks[t].conn = s
  <2>1. PICK k \in Task : k = tasks[t] BY <1>3
  <2>2. Lost(tasks, s)[t] = [k EXCEPT !.lost = TRUE] BY <1>3, <2>1 DEF Lost
  <2>3. [k EXCEPT !.lost = TRUE].conn = k.conn /\ [k EXCEPT !.lost = TRUE].lost BY DEF Task
  <2> QED BY <1>3, <2>1, <2>2, <2>3 DEF Cleared
<1> QED BY <1>1, <1>2, <1>3

LEMMA NextLoad == Typed /\ Counted /\ [Next]_vars => Counted'
<1> SUFFICES ASSUME Typed, Counted, [Next]_vars PROVE Counted' OBVIOUS
<1>a. Typed' BY NextType
<1>0. /\ task \in [Tasks -> Task \cup {NoTask}] /\ load \in [Sources -> Nat]
      /\ dropped \in [Sources -> Nat]
  BY DEF Typed, TasksTyped, NetTyped, Counted
<1>1. CASE UNCHANGED <<task, load, dropped>> BY <1>a, <1>1, BoundSelf, LoadStays
<1>2. ASSUME NEW s \in Sources, Net(s) \/ Sample(s) PROVE Counted'
  <2>1. CASE Resolved(s) \/ ResolveFails(s) \/ ConnectionReady(s) \/ ConnectionFailed(s)
             \/ ProbeFailed(s) \/ CompareSample(s)
    <3>1. UNCHANGED <<task, load, dropped>>
      BY <2>1 DEF Resolved, ResolveFails, ConnectionReady, ConnectionFailed, ProbeFailed,
                  CompareSample, netVars, history
    <3> QED BY <1>1, <3>1
  <2>2. CASE Probed(s)
    <3>0. UNCHANGED dropped BY <2>2 DEF Probed, history
    <3>1. CASE ProbeKeeps(s)
      BY <1>a, <3>0, <3>1, BoundUnplanned, LoadStays DEF ProbeKeeps
    <3>2. CASE ProbeCloses(s)
      <4>1. PICK g \in [Tasks -> Task \cup {NoTask}] : g = Unplanned BY UnplannedTasks
      <4>2. task' = Lost(g, s) /\ load' = [load EXCEPT ![s] = 0] BY <3>2, <4>1 DEF ProbeCloses
      <4>3. ASSUME NEW t \in Tasks
            PROVE  IF task[t] # NoTask /\ task[t].conn # s
                   THEN Bound(task[t], task'[t]) ELSE Cleared(task'[t], s)
        <5>1. Bound(task[t], g[t]) BY <4>1, BoundUnplanned
        <5> QED BY <4>2, <5>1, LostBound DEF Bound
      <4> QED BY <1>a, <1>0, <3>0, <4>2, <4>3, LoadDropped
    <3> QED BY <2>2, <3>1, <3>2, ProbedSplit
  <2>3. CASE MirrorProbed(s) \/ MirrorSampled(s)
    <3>1. /\ UNCHANGED <<task, load>> \/ (task' = Lost(task, s) /\ load' = [load EXCEPT ![s] = 0])
          /\ UNCHANGED dropped
      BY <2>3 DEF MirrorProbed, MirrorSampled, Drop, netVars, history
    <3>2. CASE task' = Lost(task, s) /\ load' = [load EXCEPT ![s] = 0]
      <4>1. \A t \in Tasks : IF task[t] # NoTask /\ task[t].conn # s
                             THEN Bound(task[t], task'[t]) ELSE Cleared(task'[t], s)
        BY <1>0, <3>2, LostBound, BoundSelf
      <4> QED BY <1>a, <1>0, <3>1, <3>2, <4>1, LoadDropped
    <3> QED BY <1>1, <3>1, <3>2
  <2> QED BY <1>2, <2>1, <2>2, <2>3 DEF Net, Sample
<1>3. ASSUME NEW t \in Tasks, Fetch(t) PROVE Counted'
  <2>0. t \in Running BY <1>3 DEF Fetch, CheckChunk, WriteChunk, RecordChunk, TaskFails
  <2>1. PICK k \in Task : k = task[t] BY <2>0, RunningTask
  <2>2. UNCHANGED <<load, dropped>>
    BY <1>3 DEF Fetch, CheckChunk, WriteChunk, RecordChunk, TaskFails, netVars, history
  <2>3. /\ \A u \in Tasks \ {t} : task'[u] = task[u]
        /\ \/ \E st \in Steps : task'[t] = [k EXCEPT !.step = st]
           \/ task'[t] = [k EXCEPT !.step = "check", !.at = k.piece]
           \/ \E b \in BOOLEAN : task'[t] = [k EXCEPT !.step = "write", !.due = b]
    <3>1. CASE CheckChunk(t) BY <1>0, <2>1, <3>1 DEF CheckChunk, Go, Steps
    <3>2. CASE WriteChunk(t) BY <1>0, <2>1, <3>2 DEF WriteChunk, Go, Steps
    <3>3. CASE RecordChunk(t) BY <1>0, <2>1, <3>3 DEF RecordChunk, Steps
    <3>4. CASE TaskFails(t) BY <1>0, <2>1, <3>4 DEF TaskFails, Go, Steps
    <3> QED BY <1>3, <3>1, <3>2, <3>3, <3>4 DEF Fetch
  <2>4. Bound(task[t], task'[t]) BY <2>1, <2>3, BoundUpdates DEF Steps
  <2>5. \A u \in Tasks : Bound(task[u], task'[u]) BY <2>3, <2>4, BoundSelf
  <2> QED BY <1>a, <2>2, <2>5, LoadStays
<1>4. ASSUME NEW t \in Tasks, Report(t) PROVE Counted'
  <2>0. t \in Running BY <1>4 DEF Report, AssignmentVerified, RetryRange, Quarantine, Refused
  <2>1. PICK c \in Sources : c = task[t].conn BY <2>0, RunningTask, TaskRecord
  <2>2. CASE task' = Lost(Gone(t), c) /\ load' = [load EXCEPT ![c] = 0] /\ UNCHANGED dropped
    <3>1. PICK g \in [Tasks -> Task \cup {NoTask}] :
            g = Gone(t) /\ g[t] = NoTask /\ \A u \in Tasks \ {t} : g[u] = task[u]
      BY GoneTasks
    <3>2. ASSUME NEW u \in Tasks
          PROVE  IF task[u] # NoTask /\ task[u].conn # c
                 THEN Bound(task[u], task'[u]) ELSE Cleared(task'[u], c)
      <4>1. task' = Lost(g, c) BY <2>2, <3>1
      <4> QED BY <2>1, <3>1, <4>1, LostBound, BoundSelf
    <3> QED BY <1>a, <1>0, <2>2, <3>2, LoadDropped
  <2>3. CASE task' = Gone(t) /\ load' = Released(t) /\ UNCHANGED dropped
    <3>1. task'[t] = NoTask /\ \A u \in Tasks \ {t} : Bound(task[u], task'[u])
      BY <2>3, GoneTasks, BoundSelf
    <3>2. \A n \in Nat : Less(n) \in Nat /\ Less(n) <= Less(n) BY DEF Less
    <3>3. ASSUME NEW d \in Sources
          PROVE  \/ /\ d # task[t].conn \/ task[t].lost
                    /\ load'[d] = load[d] /\ dropped'[d] = dropped[d]
                 \/ /\ d = task[t].conn /\ ~task[t].lost
                    /\ load'[d] <= Less(load[d])
                    /\ Less(load[d]) + dropped[d] <= load'[d] + dropped'[d]
      <4>1. load'[d] = IF ~task[t].lost /\ d = task[t].conn THEN Less(load[d]) ELSE load[d]
        BY <2>0, <2>3, ReleasedLoad
      <4>2. PICK l, e, n \in Nat : l = load[d] /\ e = dropped[d] /\ n = Less(load[d]) BY <1>0, <3>2
      <4>3. CASE ~task[t].lost /\ d = task[t].conn
        <5>1. load'[d] = n /\ dropped'[d] = e BY <2>3, <4>1, <4>2, <4>3
        <5> QED BY <4>2, <4>3, <5>1
      <4>4. CASE ~(~task[t].lost /\ d = task[t].conn) BY <2>3, <4>1, <4>4
      <4> QED BY <4>3, <4>4
    <3>4. dropped' \in [Sources -> Nat] BY <1>0, <2>3
    <3> QED BY <1>a, <2>0, <3>1, <3>3, <3>4, LoadReported
  <2>4. ASSUME NEW left, QuarantineLeaves(t, left) PROVE Counted'
    <3>1. ASSUME NEW u \in Tasks \ {t} PROVE Bound(task[u], task'[u])
      <4>1. CASE task'[u] = task[u] BY <4>1, BoundSelf
      <4>2. CASE task[u] # NoTask /\ task'[u] = [task[u] EXCEPT !.live = FALSE, !.cut = TRUE]
        <5>1. PICK k \in Task : k = task[u] BY <1>0, <4>2
        <5> QED BY <4>2, <5>1, BoundAbandoned
      <4> QED BY <2>4, <4>1, <4>2 DEF QuarantineLeaves
    <3>2. PICK n, v \in Nat : /\ load' = [load EXCEPT ![c] = n]
                              /\ dropped' = [dropped EXCEPT ![c] = @ + v]
                              /\ n <= Less(load[c]) /\ Less(load[c]) <= n + v
      BY <2>1, <2>4 DEF QuarantineLeaves
    <3>3. ~task[t].lost /\ task'[t] = NoTask BY <2>4 DEF QuarantineLeaves
    <3>4. dropped' \in [Sources -> Nat] BY <1>0, <3>2
    <3>5. ASSUME NEW d \in Sources
          PROVE  \/ /\ d # task[t].conn \/ task[t].lost
                    /\ load'[d] = load[d] /\ dropped'[d] = dropped[d]
                 \/ /\ d = task[t].conn /\ ~task[t].lost
                    /\ load'[d] <= Less(load[d])
                    /\ Less(load[d]) + dropped[d] <= load'[d] + dropped'[d]
      <4>1. CASE d # c BY <1>0, <2>1, <3>2, <4>1
      <4>2. CASE d = c
        <5>1. PICK e, l \in Nat : e = dropped[c] /\ l = Less(load[c]) BY <1>0 DEF Less
        <5>2. load'[d] = n /\ dropped'[d] = e + v BY <1>0, <3>2, <4>2, <5>1
        <5>3. n <= l /\ l + e <= n + (e + v) BY <3>2, <5>1
        <5> QED BY <2>1, <3>3, <4>2, <5>1, <5>2, <5>3
      <4> QED BY <4>1, <4>2
    <3> QED BY <1>a, <2>0, <3>1, <3>3, <3>4, <3>5, LoadReported
  <2>5. CASE AssignmentVerified(t) \/ RetryRange(t) \/ Refused(t)
    <3>1. /\ \/ task' = Lost(Gone(t), c) /\ load' = [load EXCEPT ![c] = 0]
             \/ task' = Gone(t) /\ load' = Released(t)
          /\ UNCHANGED dropped
      BY <2>1, <2>5 DEF AssignmentVerified, RetryRange, Refused, history
    <3> QED BY <2>2, <2>3, <3>1
  <2>6. CASE Quarantine(t) BY <2>3, <2>4, <2>6, QuarantineSplit DEF QuarantineFails
  <2> QED BY <1>4, <2>5, <2>6 DEF Report
<1>5. ASSUME NEW q \in Pieces, RetryReady(q) PROVE Counted' BY <1>1, <1>5 DEF RetryReady, history
<1>6. CASE RebalanceTick BY <1>1, <1>6 DEF RebalanceTick
<1>7. CASE PumpClaim
  <2>0. pumping \in Seq(Sources) /\ pumping # <<>> /\ UNCHANGED dropped
    BY <1>7 DEF Typed, PumpTyped, PumpClaim, history
  <2>1. PICK c \in Sources : c = Head(pumping) BY <2>0, HeadTailProperties
  <2>2. CASE ~CanClaim(c) BY <1>1, <1>7, <2>0, <2>1, <2>2 DEF PumpClaim
  <2>3. CASE CanClaim(c)
    <3>1. PICK t \in Tasks, q \in Pieces : t = Min(Tasks \ Running) /\ q = Min(Todo) /\ task[t] = NoTask
      BY <2>3, FreeTask
    <3>2. task' = [task EXCEPT ![t] = Start(c, q)] /\ load' = [load EXCEPT ![c] = @ + 1]
      BY <1>7, <2>1, <2>3, <3>1 DEF PumpClaim
    <3>3. Start(c, q) \in Task /\ Start(c, q).conn = c /\ ~Start(c, q).lost
      BY <2>3, StartType DEF Start
    <3>4. task'[t] = Start(c, q) /\ \A u \in Tasks \ {t} : task'[u] = task[u] BY <1>0, <3>2
    <3>5. task'[t] # NoTask /\ task'[t].conn = c /\ ~task'[t].lost BY <3>3, <3>4, TaskRecord
    <3> HIDE DEF Start
    <3>6. ASSUME NEW d \in Sources
          PROVE  /\ load'[d] <= Cardinality(OnConn(d)')
                 /\ Cardinality(OnConn(d)') <= load'[d] + dropped'[d]
      <4>0. dropped'[d] \in Nat /\ dropped'[d] = dropped[d] BY <1>0, <2>0
      <4>1. t \notin OnConn(d) BY <3>1 DEF OnConn, Running
      <4>2. CASE d = c
        <5>1. OnConn(d)' = OnConn(d) \cup {t} BY <3>4, <3>5, <4>1, <4>2 DEF OnConn, Running
        <5>2. load'[d] = load[d] + 1 BY <1>0, <3>2, <4>2
        <5> QED BY <1>a, <4>0, <4>1, <5>1, <5>2, LoadBound
      <4>3. CASE d # c
        <5>1. OnConn(d)' = OnConn(d) BY <3>4, <3>5, <4>1, <4>3 DEF OnConn, Running
        <5>2. load'[d] = load[d] BY <1>0, <3>2, <4>3
        <5> QED BY <1>a, <4>0, <5>1, <5>2, LoadBound
      <4> QED BY <4>2, <4>3
    <3> QED BY <1>0, <2>0, <3>6, Recounted
  <2> QED BY <2>2, <2>3
<1>8. CASE UNCHANGED vars BY <1>1, <1>8 DEF vars, netVars, history
<1> QED BY <1>2, <1>3, <1>4, <1>5, <1>6, <1>7, <1>8 DEF Next

LEMMA InitLoad == Init => Counted
<1> SUFFICES ASSUME Init PROVE Counted OBVIOUS
<1>1. dropped \in [Sources -> Nat] BY DEF Init
<1>2. ASSUME NEW c \in Sources
      PROVE  load[c] <= Cardinality(OnConn(c)) /\ Cardinality(OnConn(c)) <= load[c] + dropped[c]
  <2>1. OnConn(c) = {} BY DEF OnConn, Running, Init
  <2>2. Cardinality(OnConn(c)) = 0 BY <2>1, FS_EmptySet
  <2> QED BY <2>2 DEF Init
<1> QED BY <1>1, <1>2 DEF Counted, LoadExact

-----------------------------------------------------------------------------
(***************************************************************************)
(* Every step keeps the controller's books of its sources.                 *)
(***************************************************************************)
\* No request starts, and none changes its connection.
NoneHired == \A t \in Tasks : task'[t] # NoTask => task[t] # NoTask /\ task'[t].conn = task[t].conn

LEMMA StillEmployed ==
  ASSUME Employed, NoneHired,
         \/ phase = "connecting" /\ failed \subseteq failed'
         \/ phase' # "connecting" /\ ToSet(active) \cup failed \subseteq ToSet(active') \cup failed'
         \/ ToSet(active) \cup failed \subseteq failed'
  PROVE  Employed'
<1>1. \A t \in Running' : t \in Running /\ task'[t].conn = task[t].conn BY DEF Running, NoneHired
<1> QED BY <1>1 DEF Employed

LEMMA NoneHiredSame == UNCHANGED task => NoneHired
BY DEF NoneHired

\* The steps of a request and the controller's that leave the sources alone.
LEMMA BookedStays ==
  ASSUME Booked, NoneHired,
         UNCHANGED <<phase, home, active, probing, failed, link, probes, tagged, samples, history>>
  PROVE  Booked'
<1>1. Employed' BY StillEmployed DEF Booked
<1>2. Listed' BY DEF Booked, Listed, history
<1>3. \A s \in Sources \ doubled' : Orderly(s)' BY DEF Booked, Orderly, history
<1>4. Undisturbed' BY DEF Booked, Undisturbed, history
<1> QED BY <1>1, <1>2, <1>3, <1>4 DEF Booked

LEMMA ResolvedBooked ==
  ASSUME Typed, Booked, NEW s \in Sources, Resolved(s) PROVE Booked'
<1>0. link \in [Sources -> Links] /\ active \in Seq(Sources) /\ probing \subseteq Sources
      /\ home \in Sources
  BY DEF Typed, NetTyped, ListsTyped
<1>1. Employed'
  <2>1. UNCHANGED <<task, phase, failed, active>> BY DEF Resolved
  <2> QED BY <2>1, NoneHiredSame, StillEmployed DEF Booked
<1>2. Listed' BY <1>0 DEF Booked, Listed, Resolved, Waiting
<1>3. ASSUME NEW x \in Sources \ doubled' PROVE Orderly(x)'
  <2>1. Orderly(x) BY <1>3 DEF Booked, Resolved
  <2> QED BY <1>0, <2>1 DEF Booked, Listed, Orderly, Resolved, Waiting
<1>4. Undisturbed' BY <1>0 DEF Booked, Listed, Undisturbed, Resolved, Waiting
<1> QED BY <1>1, <1>2, <1>3, <1>4 DEF Booked

LEMMA ResolveFailsBooked ==
  ASSUME Typed, Booked, NEW s \in Sources, ResolveFails(s) PROVE Booked'
<1>0. link \in [Sources -> Links] /\ active \in Seq(Sources) /\ probing \subseteq Sources
      /\ home \in Sources
  BY DEF Typed, NetTyped, ListsTyped
<1>1. Employed'
  <2>1. UNCHANGED <<task, active>> /\ failed \subseteq failed' /\ phase' \in {phase, "failed"}
    BY DEF ResolveFails, RetryResolve, Fail, Reject
  <2> QED BY <2>1, NoneHiredSame, StillEmployed DEF Booked
<1>2. Listed' BY <1>0 DEF Booked, Listed, ResolveFails, RetryResolve, Fail, Reject, Waiting
<1>3. ASSUME NEW x \in Sources \ doubled' PROVE Orderly(x)'
  <2>1. Orderly(x) BY <1>3 DEF Booked, ResolveFails
  <2> QED BY <1>0, <2>1 DEF Booked, Listed, Orderly, Undisturbed, ResolveFails, RetryResolve, Fail, Reject, Waiting
<1>4. Undisturbed'
  <2>1. CASE doubled = {}
    <3>1. Orderly(s) BY <2>1 DEF Booked
    <3> QED BY <1>0, <2>1, <3>1
        DEF Booked, Listed, Orderly, Undisturbed, ResolveFails, RetryResolve, Fail, Reject, Waiting
  <2> QED BY <2>1 DEF Undisturbed, ResolveFails
<1> QED BY <1>1, <1>2, <1>3, <1>4 DEF Booked

LEMMA ConnectionReadyBooked ==
  ASSUME Typed, Booked, NEW s \in Sources, ConnectionReady(s) PROVE Booked'
<1>0. link \in [Sources -> Links] /\ active \in Seq(Sources) /\ probing \subseteq Sources
      /\ home \in Sources
  BY DEF Typed, NetTyped, ListsTyped
<1>1. Employed'
  <2>1. UNCHANGED <<task, phase, failed, active>> BY DEF ConnectionReady, jobVars
  <2> QED BY <2>1, NoneHiredSame, StillEmployed DEF Booked
<1>2. Listed' BY <1>0 DEF Booked, Listed, ConnectionReady, Waiting, jobVars
<1>3. ASSUME NEW x \in Sources \ doubled' PROVE Orderly(x)'
  <2>1. Orderly(x) BY <1>3 DEF Booked, ConnectionReady
  <2> QED BY <1>0, <2>1 DEF Booked, Listed, Orderly, ConnectionReady, Waiting, jobVars
<1>4. Undisturbed'
  <2>1. CASE doubled = {}
    <3>1. Orderly(s) BY <2>1 DEF Booked
    <3> QED BY <1>0, <2>1, <3>1
        DEF Booked, Listed, Orderly, Undisturbed, ConnectionReady, Waiting, jobVars
  <2> QED BY <2>1 DEF Undisturbed, ConnectionReady
<1> QED BY <1>1, <1>2, <1>3, <1>4 DEF Booked

LEMMA ConnectionFailedBooked ==
  ASSUME Typed, Booked, NEW s \in Sources, ConnectionFailed(s) PROVE Booked'
<1>0. link \in [Sources -> Links] /\ active \in Seq(Sources) /\ probing \subseteq Sources
      /\ home \in Sources
  BY DEF Typed, NetTyped, ListsTyped
<1>a. UNCHANGED <<task, samples, probes, doubled, stranded>> BY DEF ConnectionFailed, history
<1>1. CASE s \in tagged
  <2>1. /\ Reject(s) /\ tagged' = tagged \ {s} /\ link' = [link EXCEPT ![s] = "none"]
        /\ UNCHANGED <<phase, home, active>> /\ link[s] = "dialing" /\ s # home
    BY <1>1 DEF ConnectionFailed, Waiting, Booked, Listed
  <2>2. Employed' BY <1>a, <2>1, NoneHiredSame, StillEmployed DEF Booked, Reject
  <2>3. Listed' BY <1>0, <1>a, <2>1 DEF Booked, Listed, Reject
  <2>4. ASSUME NEW x \in Sources \ doubled' PROVE Orderly(x)'
    <3>1. Orderly(x) BY <1>a, <2>4 DEF Booked
    <3> QED BY <1>0, <1>a, <1>1, <2>1, <3>1 DEF Booked, Listed, Orderly, Reject
  <2>5. Undisturbed'
    <3>1. CASE doubled = {}
      <4>1. Orderly(s) BY <3>1 DEF Booked
      <4> QED BY <1>0, <1>a, <1>1, <2>1, <3>1, <4>1 DEF Booked, Listed, Orderly, Undisturbed, Reject
    <3> QED BY <1>a, <3>1 DEF Undisturbed
  <2> QED BY <2>2, <2>3, <2>4, <2>5 DEF Booked
<1>2. CASE Waiting(s)
  <2>0. UNCHANGED <<probing, failed>> /\ link[s] = "dialing" /\ s = home /\ phase = "connecting"
    BY <1>2 DEF ConnectionFailed, Waiting
  <2>1. Employed' BY <1>a, <2>0, NoneHiredSame, StillEmployed DEF Booked
  <2>2. CASE Unused # {} /\ ActivateNext(Unused, [link EXCEPT ![s] = "none"])
    <3>1. PICK m \in Sources \ (probing \cup failed \cup ToSet(active)) : m = Min(Unused)
      BY <2>2, FirstUnused
    <3>2. /\ active' = <<m>> /\ home' = m /\ phase' = "connecting" /\ tagged' = tagged \ {m}
          /\ link' = [[link EXCEPT ![s] = "none"] EXCEPT ![m] = "resolving"]
      BY <2>2, <3>1 DEF ActivateNext
    <3>3. ToSet(active') = {m} BY <3>2 DEF ToSet
    <3>4. Listed' BY <1>0, <1>a, <2>0, <3>1, <3>2, <3>3 DEF Booked, Listed
    <3>5. ASSUME NEW x \in Sources \ doubled' PROVE Orderly(x)'
      <4>1. Orderly(x) BY <1>a, <3>5 DEF Booked
      <4> QED BY <1>0, <1>a, <2>0, <3>1, <3>2, <3>3, <4>1 DEF Booked, Listed, Orderly
    <3>6. Undisturbed' BY <1>0, <1>a, <2>0, <3>1, <3>2, <3>3 DEF Booked, Listed, Undisturbed
    <3> QED BY <2>1, <3>4, <3>5, <3>6 DEF Booked
  <2>3. CASE UNCHANGED <<home, active, tagged>> /\ phase' \in {phase, "failed"}
             /\ link' \in {[link EXCEPT ![s] = "none"], [link EXCEPT ![s] = "resolving"]}
    <3>4. Listed' BY <1>0, <1>a, <2>0, <2>3 DEF Booked, Listed
    <3>5. ASSUME NEW x \in Sources \ doubled' PROVE Orderly(x)'
      <4>1. Orderly(x) BY <1>a, <3>5 DEF Booked
      <4> QED BY <1>0, <1>a, <2>0, <2>3, <4>1 DEF Booked, Listed, Orderly
    <3>6. Undisturbed' BY <1>0, <1>a, <2>0, <2>3 DEF Booked, Listed, Undisturbed
    <3> QED BY <2>1, <3>4, <3>5, <3>6 DEF Booked
  <2> QED BY <1>2, <2>0, <2>2, <2>3 DEF ConnectionFailed, Waiting, RetryResolve, Fail
<1>3. CASE s \notin tagged /\ ~Waiting(s)
  <2>1. /\ UNCHANGED <<phase, home, active, probing, failed, tagged>> /\ link[s] = "dialing"
        /\ link' \in {link, [link EXCEPT ![s] = "none"]}
    BY <1>3 DEF ConnectionFailed
  <2>2. Employed' BY <1>a, <2>1, NoneHiredSame, StillEmployed DEF Booked
  <2>3. Listed' BY <1>0, <1>a, <1>3, <2>1 DEF Booked, Listed
  <2>4. ASSUME NEW x \in Sources \ doubled' PROVE Orderly(x)'
    <3>1. Orderly(x) BY <1>a, <2>4 DEF Booked
    <3> QED BY <1>0, <1>a, <1>3, <2>1, <3>1 DEF Booked, Listed, Orderly
  <2>5. Undisturbed' BY <1>0, <1>a, <2>1 DEF Booked, Listed, Undisturbed
  <2> QED BY <2>2, <2>3, <2>4, <2>5 DEF Booked
<1> QED BY <1>1, <1>2, <1>3

LEMMA ProbedBooked == ASSUME Typed, Booked, NEW s \in Sources, Probed(s) PROVE Booked'
<1>0. /\ task \in [Tasks -> Task \cup {NoTask}] /\ home \in Sources /\ probing \subseteq Sources
      /\ link \in [Sources -> Links]
  BY DEF Typed, TasksTyped, ListsTyped, NetTyped
<1>a. /\ UNCHANGED <<home, active, probing, failed, samples, doubled, stranded>>
      /\ probes' = probes \ {s} /\ phase' = "transferring" /\ s \in probes \ probing
  BY DEF Probed, NewPlan, history
<1>b. /\ tagged' \subseteq tagged /\ tagged \ tagged' \subseteq {s}
      /\ \A x \in Sources : \/ link'[x] = link[x]
                            \/ x = home /\ link'[x] = "dialing"
                            \/ x = s /\ link[x] = "ready" /\ link'[x] = "none"
  <2>1. CASE ProbeKeeps(s) BY <1>0, <2>1, ScaledLinks DEF ProbeKeeps
  <2>2. CASE ProbeCloses(s)
    <3>1. PICK lk \in [Sources -> Links] : lk = [link EXCEPT ![s] = "none"] BY <1>0 DEF Links
    <3>2. link' = Scaled(lk) /\ link[s] = "ready" /\ tagged' = tagged \ {s}
      BY <2>2, <3>1 DEF ProbeCloses
    <3>3. \A x \in Sources : lk[x] = IF x = s THEN "none" ELSE link[x] BY <1>0, <3>1
    <3>4. \A x \in Sources : link'[x] = IF x = home /\ lk[x] = "none" THEN "dialing" ELSE lk[x]
      BY <1>0, <3>2, ScaledLinks
    <3> QED BY <3>2, <3>3, <3>4
  <2> QED BY <2>1, <2>2, ProbedSplit
<1>1. NoneHired
  <2>1. PICK g \in [Tasks -> Task \cup {NoTask}] : g = Unplanned BY UnplannedTasks
  <2>2. task' \in {g, Lost(g, s)} BY <2>1, ProbedSplit DEF ProbeKeeps, ProbeCloses
  <2>3. ASSUME NEW t \in Tasks, task'[t] # NoTask
        PROVE  task[t] # NoTask /\ task'[t].conn = task[t].conn
    <3>0. Lost(g, s)[t] = NoTask <=> g[t] = NoTask BY LostTasks
    <3>1. g[t] # NoTask BY <2>2, <2>3, <3>0
    <3>2. PICK k \in Task : k = g[t] BY <3>1
    <3>3. task[t] # NoTask /\ k.conn = task[t].conn BY <2>1, <3>1, <3>2, UnplannedTasks
    <3>4. task'[t] \in {k, [k EXCEPT !.lost = TRUE]} BY <2>2, <3>2 DEF Lost
    <3>5. [k EXCEPT !.lost = TRUE].conn = k.conn BY DEF Task
    <3> QED BY <3>3, <3>4, <3>5
  <2> QED BY <2>3 DEF NoneHired
<1>2. Employed' BY <1>a, <1>1, StillEmployed DEF Booked
<1>c. home \notin probing /\ home \notin tagged BY DEF Booked, Listed
<1>3. Listed'
  <2>1. \A x \in probing : link'[x] = link[x] /\ (x \in tagged => x \in tagged')
    BY <1>0, <1>a, <1>b, <1>c
  <2> QED BY <1>a, <1>b, <2>1 DEF Booked, Listed
<1>4. ASSUME NEW x \in Sources \ doubled' PROVE Orderly(x)'
  <2>1. Orderly(x) BY <1>a, <1>4 DEF Booked
  <2>2. CASE link'[x] = link[x] BY <1>a, <1>b, <2>1, <2>2 DEF Booked, Listed, Orderly
  <2>3. CASE x = home /\ link'[x] = "dialing" BY <1>a, <1>b, <1>c, <2>1, <2>3 DEF Booked, Listed, Orderly
  <2>4. CASE x = s /\ link[x] = "ready" /\ link'[x] = "none"
    BY <1>a, <1>b, <2>1, <2>4 DEF Booked, Listed, Orderly
  <2> QED BY <1>b, <2>2, <2>3, <2>4
<1>5. Undisturbed' BY <1>0, <1>a, <1>b DEF Booked, Listed, Undisturbed
<1> QED BY <1>2, <1>3, <1>4, <1>5 DEF Booked

LEMMA LostNoneHired ==
  ASSUME Typed, NEW s \in Sources, task' = Lost(task, s) PROVE NoneHired
<1>0. task \in [Tasks -> Task \cup {NoTask}] BY DEF Typed, TasksTyped
<1>1. ASSUME NEW t \in Tasks, task'[t] # NoTask
      PROVE  task[t] # NoTask /\ task'[t].conn = task[t].conn
  <2>1. task[t] # NoTask BY <1>0, <1>1, LostTasks
  <2>2. PICK k \in Task : k = task[t] BY <1>0, <2>1
  <2>3. task'[t] \in {k, [k EXCEPT !.lost = TRUE]} BY <2>2 DEF Lost
  <2> QED BY <2>1, <2>2, <2>3 DEF Task
<1> QED BY <1>1 DEF NoneHired

LEMMA ProbeFailedBooked == ASSUME Typed, Booked, NEW s \in Sources, ProbeFailed(s) PROVE Booked'
<1>a. /\ UNCHANGED <<phase, home, active, link, tagged, samples, doubled, stranded, task>>
      /\ probes' = (IF Waiting(s) THEN probes ELSE probes \ {s}) /\ s \in probes
      /\ IF s \in probing THEN Reject(s) ELSE UNCHANGED <<probing, failed>>
  BY DEF ProbeFailed, history
<1>2. Employed' BY <1>a, NoneHiredSame, StillEmployed DEF Booked, Reject
<1>3. Listed' BY <1>a DEF Booked, Listed, Reject
<1>4. ASSUME NEW x \in Sources \ doubled' PROVE Orderly(x)'
  <2>1. Orderly(x) BY <1>a, <1>4 DEF Booked
  <2> QED BY <1>a, <2>1 DEF Booked, Listed, Orderly, Reject, Waiting
<1>5. Undisturbed' BY <1>a DEF Booked, Listed, Undisturbed, Reject, Waiting
<1> QED BY <1>2, <1>3, <1>4, <1>5 DEF Booked

LEMMA MirrorProbedBooked == ASSUME Typed, Booked, NEW s \in Sources, MirrorProbed(s) PROVE Booked'
<1>0. link \in [Sources -> Links] /\ samples \in [Sources -> Seq(Question)] /\ home \in Sources
      /\ probing \subseteq Sources
  BY DEF Typed, NetTyped, SamplesTyped, ListsTyped
<1>a. /\ UNCHANGED <<phase, home, active, stranded>>
      /\ probes' = probes \ {s} /\ s \in probes \cap probing
  BY DEF MirrorProbed
<1>1. CASE Reject(s) /\ UNCHANGED <<samples, doubled>>
           /\ (UNCHANGED <<link, tagged, task>> \/ (Drop(s) /\ task' = Lost(task, s)))
  <2>1. NoneHired BY <1>1, NoneHiredSame, LostNoneHired
  <2>2. Employed' BY <1>1, <1>a, <2>1, StillEmployed DEF Booked, Reject
  <2>3. Listed' BY <1>0, <1>1, <1>a DEF Booked, Listed, Reject, Drop
  <2>4. ASSUME NEW x \in Sources \ doubled' PROVE Orderly(x)'
    <3>1. Orderly(x) BY <1>1, <2>4 DEF Booked
    <3> QED BY <1>0, <1>1, <1>a, <3>1 DEF Booked, Listed, Orderly, Reject, Drop
  <2>5. Undisturbed' BY <1>0, <1>1, <1>a DEF Booked, Listed, Undisturbed, Reject, Drop
  <2> QED BY <2>2, <2>3, <2>4, <2>5 DEF Booked
<1>2. CASE UNCHANGED <<probing, failed, link, tagged, task>>
           /\ (UNCHANGED <<samples, doubled>> \/ SendSample(s))
  <2>2. Employed' BY <1>2, <1>a, NoneHiredSame, StillEmployed DEF Booked
  <2>3. Listed' BY <1>2, <1>a DEF Booked, Listed
  <2>4. doubled \subseteq doubled' BY <1>2 DEF SendSample
  <2>5. ASSUME NEW x \in Sources \ doubled' PROVE Orderly(x)'
    <3>1. Orderly(x) BY <2>4, <2>5 DEF Booked
    <3>2. CASE samples'[x] = samples[x] BY <1>2, <1>a, <2>4, <3>1, <3>2 DEF Booked, Listed, Orderly
    <3>3. CASE samples'[x] # samples[x]
      <4>1. SendSample(s) /\ x = s BY <1>0, <1>2, <3>3 DEF SendSample
      <4>2. samples[x] = <<>> BY <2>5, <4>1 DEF SendSample
      <4>3. samples'[x] = Append(<<>>, [at |-> Prefix, verdict |-> "none"])
        BY <1>0, <4>1, <4>2 DEF SendSample
      <4>4. Len(samples'[x]) = 1 BY <4>3
      <4> QED BY <1>2, <1>a, <2>4, <3>1, <4>1, <4>4 DEF Orderly
    <3> QED BY <3>2, <3>3
  <2>6. Undisturbed' BY <1>2, <1>a, <2>4 DEF Booked, Listed, Undisturbed
  <2> QED BY <2>2, <2>3, <2>5, <2>6 DEF Booked
<1> QED BY <1>1, <1>2 DEF MirrorProbed

LEMMA RebalanceTickBooked == ASSUME Typed, Booked, RebalanceTick PROVE Booked'
<1>0. link \in [Sources -> Links] /\ samples \in [Sources -> Seq(Question)] /\ home \in Sources
      /\ probing \subseteq Sources
  BY DEF Typed, NetTyped, SamplesTyped, ListsTyped
<1>a. /\ UNCHANGED <<phase, home, active, failed, probes, task, stranded>> /\ phase = "transferring"
      /\ doubled' = doubled \cup {s \in Pending : s \in probes \/ samples[s] # <<>>}
      /\ \A x \in Sources : samples'[x] = IF x \in Pending
             THEN Append(samples[x], [at |-> Prefix, verdict |-> "none"]) ELSE samples[x]
  BY <1>0 DEF RebalanceTick
<1>b. \A x \in Pending : x \in probing \cap tagged /\ link[x] = "ready" BY DEF Pending
<1>1. PICK m \in Sources \cup {None} :
        \/ m = None /\ UNCHANGED <<probing, link, tagged>>
        \/ /\ m \in Sources \ (probing \cup failed \cup ToSet(active)) /\ link[m] = "none"
           /\ probing' = probing \cup {m}
           /\ \/ link' = [link EXCEPT ![m] = "resolving"] /\ UNCHANGED tagged
              \/ link' = [link EXCEPT ![m] = "dialing"] /\ tagged' = tagged \cup {m}
  <2>1. CASE UNCHANGED <<probing, link, tagged>> BY <2>1
  <2>2. CASE Unused # {} /\ link[NextUnused] = "none"
    <3>1. PICK n \in Sources \ (probing \cup failed \cup ToSet(active)) : n = NextUnused
      BY <2>2, FirstUnused DEF NextUnused
    <3> QED BY <2>1, <2>2, <3>1 DEF RebalanceTick
  <2> QED BY <2>1, <2>2 DEF RebalanceTick
<1>2. Employed' BY <1>a, NoneHiredSame, StillEmployed DEF Booked
<1>3. Listed' BY <1>0, <1>a, <1>1 DEF Booked, Listed
<1>4. ASSUME NEW x \in Sources \ doubled' PROVE Orderly(x)'
  <2>1. Orderly(x) BY <1>a, <1>4 DEF Booked
  <2>2. CASE x \notin Pending
    <3>1. samples'[x] = samples[x] BY <1>a, <2>2
    <3> QED BY <1>0, <1>a, <1>1, <2>1, <3>1 DEF Booked, Listed, Orderly
  <2>3. CASE x \in Pending
    <3>1. x \notin probes /\ samples[x] = <<>> BY <1>a, <1>4, <2>3
    <3>2. samples'[x] = Append(<<>>, [at |-> Prefix, verdict |-> "none"]) BY <1>a, <2>3, <3>1
    <3>3. Len(samples'[x]) = 1 BY <3>2
    <3>4. x \in probing /\ link[x] = "ready" BY <1>b, <2>3
    <3>5. x # m /\ x \in probing' /\ link'[x] = "ready" BY <1>0, <1>1, <3>4, Ranges
    <3> QED BY <1>a, <2>1, <3>1, <3>3, <3>4, <3>5 DEF Booked, Listed, Orderly
  <2> QED BY <2>2, <2>3
<1>5. Undisturbed' BY <1>0, <1>a, <1>1 DEF Booked, Listed, Undisturbed
<1> QED BY <1>2, <1>3, <1>4, <1>5 DEF Booked

LEMMA CompareSampleBooked == ASSUME Typed, Booked, NEW s \in Sources, CompareSample(s) PROVE Booked'
<1>0. samples \in [Sources -> Seq(Question)] BY DEF Typed, SamplesTyped
<1>a. UNCHANGED <<phase, home, active, probing, failed, link, probes, tagged, task, doubled, stranded>>
  BY DEF CompareSample, jobVars, netVars, history
<1>1. \A x \in Sources : Len(samples'[x]) = Len(samples[x])
  <2>0. PICK i \in 1 .. Len(samples[s]), ok \in BOOLEAN :
          samples' = [samples EXCEPT ![s][i].verdict = IF ok THEN "same" ELSE "differs"]
    BY DEF CompareSample
  <2>1. samples[s] \in Seq(Question) BY <1>0
  <2>2. \E y : samples'[s] = [samples[s] EXCEPT ![i] = y] BY <1>0, <2>0
  <2>3. Len(samples'[s]) = Len(samples[s])
    <3>1. PICK y : samples'[s] = [samples[s] EXCEPT ![i] = y] BY <2>2
    <3>2. DOMAIN samples'[s] = DOMAIN samples[s] BY <3>1
    <3>3. samples'[s] \in Seq(Question) BY CompareSampleType DEF Typed, SamplesTyped
    <3>4. /\ Len(samples'[s]) \in Nat /\ DOMAIN samples'[s] = 1 .. Len(samples'[s])
          /\ Len(samples[s]) \in Nat /\ DOMAIN samples[s] = 1 .. Len(samples[s])
      BY <2>1, <3>3, LenProperties
    <3>5. ASSUME NEW a \in Nat, NEW b \in Nat, 1 .. a = 1 .. b PROVE a = b
      <4>1. a < b => b \in 1 .. b /\ b \notin 1 .. a OBVIOUS
      <4>2. b < a => a \in 1 .. a /\ a \notin 1 .. b OBVIOUS
      <4> QED BY <3>5, <4>1, <4>2
    <3>6. PICK a \in Nat, b \in Nat : a = Len(samples'[s]) /\ b = Len(samples[s]) BY <3>4
    <3>7. 1 .. a = 1 .. b BY <3>2, <3>4, <3>6
    <3> QED BY <3>5, <3>6, <3>7
  <2>4. \A x \in Sources \ {s} : samples'[x] = samples[x] BY <1>0, <2>0
  <2> QED BY <2>3, <2>4
<1>2. \A x \in Sources : samples'[x] # <<>> => samples[x] # <<>>
  <2>1. samples' \in [Sources -> Seq(Question)] BY CompareSampleType DEF Typed, SamplesTyped
  <2> QED BY <1>0, <1>1, <2>1, EmptySeq
<1>3. Employed' BY <1>a, NoneHiredSame, StillEmployed DEF Booked
<1>4. Listed' BY <1>a DEF Booked, Listed
<1>5. ASSUME NEW x \in Sources \ doubled' PROVE Orderly(x)'
  <2>1. Orderly(x) BY <1>a, <1>5 DEF Booked
  <2> QED BY <1>1, <1>2, <1>a, <2>1 DEF Booked, Orderly
<1>6. Undisturbed' BY <1>a DEF Booked, Undisturbed
<1> QED BY <1>3, <1>4, <1>5, <1>6 DEF Booked

LEMMA MirrorSampledBooked == ASSUME Typed, Booked, NEW s \in Sources, MirrorSampled(s) PROVE Booked'
<1>0. /\ link \in [Sources -> Links] /\ samples \in [Sources -> Seq(Question)] /\ home \in Sources
      /\ probing \subseteq Sources /\ active \in Seq(Sources)
  BY DEF Typed, NetTyped, SamplesTyped, ListsTyped
<1>a. UNCHANGED <<phase, home, probes, doubled, stranded>> /\ probing' = probing \ {s}
  BY DEF MirrorSampled, netVars, history
<1>1. PICK i \in 1 .. Len(samples[s]) : samples' = [samples EXCEPT ![s] = RemoveAt(@, i)]
  BY DEF MirrorSampled
<1>2. samples[s] \in Seq(Question) /\ samples[s] # <<>> BY <1>0, <1>1, EmptySeq
<1>3. Len(samples[s]) = 1 => samples'[s] = <<>>
  <2>1. /\ RemoveAt(samples[s], i) \in Seq(Question)
        /\ Len(RemoveAt(samples[s], i)) = Len(samples[s]) - 1
    BY <1>1, <1>2, RemoveAtMembers
  <2>2. samples'[s] = RemoveAt(samples[s], i) BY <1>0, <1>1
  <2> QED BY <2>1, <2>2, EmptySeq
<1>4. \A x \in Sources \ {s} : samples'[x] = samples[x] BY <1>0, <1>1
<1>5. s \notin doubled => s \in probing \ probes /\ samples'[s] = <<>>
                          /\ link[s] \notin {"resolving", "dialing"}
  BY <1>2, <1>3 DEF Booked, Orderly
<1>6. CASE UNCHANGED <<failed, link, tagged, task>> /\ ToSet(active') = ToSet(active) \cup {s}
  <2>1. Employed' BY <1>6, <1>a, NoneHiredSame, StillEmployed DEF Booked
  <2>2. Listed' BY <1>6, <1>a DEF Booked, Listed
  <2>3. ASSUME NEW x \in Sources \ doubled' PROVE Orderly(x)'
    <3>1. Orderly(x) BY <1>a, <2>3 DEF Booked
    <3>2. CASE x = s BY <1>5, <1>6, <1>a, <2>3, <3>1, <3>2 DEF Booked, Listed, Orderly
    <3>3. CASE x # s BY <1>4, <1>6, <1>a, <2>3, <3>1, <3>3 DEF Orderly
    <3> QED BY <3>2, <3>3
  <2>4. Undisturbed' BY <1>5, <1>6, <1>a DEF Booked, Listed, Undisturbed
  <2> QED BY <2>1, <2>2, <2>3, <2>4 DEF Booked
<1>7. CASE failed' = failed \cup {s} /\ Drop(s) /\ task' = Lost(task, s) /\ UNCHANGED active
  <2>1. NoneHired BY <1>7, LostNoneHired
  <2>2. Employed' BY <1>7, <1>a, <2>1, StillEmployed DEF Booked
  <2>3. Listed' BY <1>0, <1>7, <1>a DEF Booked, Listed, Drop
  <2>4. ASSUME NEW x \in Sources \ doubled' PROVE Orderly(x)'
    <3>1. Orderly(x) BY <1>a, <2>4 DEF Booked
    <3>2. CASE x = s BY <1>0, <1>5, <1>7, <1>a, <2>4, <3>1, <3>2 DEF Booked, Listed, Orderly, Drop
    <3>3. CASE x # s BY <1>0, <1>4, <1>7, <1>a, <2>4, <3>1, <3>3 DEF Orderly, Drop
    <3> QED BY <3>2, <3>3
  <2>5. Undisturbed' BY <1>0, <1>5, <1>7, <1>a DEF Booked, Listed, Undisturbed, Drop
  <2> QED BY <2>2, <2>3, <2>4, <2>5 DEF Booked
<1>8. ToSet(Append(active, s)) = ToSet(active) \cup {s}
  <2>1. Len(active) \in Nat /\ DOMAIN active = 1 .. Len(active) BY <1>0, LenProperties
  <2>2. PICK new \in Seq(Sources) : new = Append(active, s) BY <1>0, AppendProperties
  <2>3. /\ DOMAIN new = 1 .. Len(active) + 1
        /\ new[Len(active) + 1] = s /\ \A j \in 1 .. Len(active) : new[j] = active[j]
    BY <1>0, <2>1, <2>2, AppendProperties, LenProperties
  <2>4. \A j : j \in 1 .. Len(active) + 1 <=> j \in 1 .. Len(active) \/ j = Len(active) + 1 BY <2>1
  <2>5. ToSet(new) = ToSet(active) \cup {s} BY <2>1, <2>3, <2>4 DEF ToSet
  <2> QED BY <2>2, <2>5
<1> QED BY <1>6, <1>7, <1>8 DEF MirrorSampled, netVars

LEMMA PumpClaimBooked == ASSUME Typed, Booked, PumpClaim PROVE Booked'
<1>0. task \in [Tasks -> Task \cup {NoTask}] BY DEF Typed, TasksTyped
<1>a. UNCHANGED <<phase, home, active, probing, failed, link, probes, tagged, samples, doubled, stranded>>
  BY DEF PumpClaim, jobVars, history
<1>1. Employed'
  <2>0. pumping \in Seq(Sources) /\ pumping # <<>> BY DEF Typed, PumpTyped, PumpClaim
  <2>1. PICK c \in Sources : c = Head(pumping) BY <2>0, HeadTailProperties
  <2>2. CASE ~CanClaim(c) BY <1>a, <2>1, <2>2, NoneHiredSame, StillEmployed DEF PumpClaim, Booked
  <2>3. CASE CanClaim(c)
    <3>1. PICK t \in Tasks, q \in Pieces : t = Min(Tasks \ Running) /\ q = Min(Todo) /\ task[t] = NoTask
      BY <2>3, FreeTask
    <3>2. task' = [task EXCEPT ![t] = Start(c, q)] BY <2>1, <2>3, <3>1 DEF PumpClaim
    <3>3. task'[t].conn = c BY <1>0, <3>2 DEF Start
    <3>4. phase = "transferring" /\ c \in ToSet(active) \cup failed
      BY <2>3 DEF CanClaim, Runnable, Booked, Listed
    <3>5. \A u \in Running' : u = t \/ (u \in Running /\ task'[u] = task[u])
      BY <1>0, <3>2 DEF Running
    <3> QED BY <1>a, <3>3, <3>4, <3>5 DEF Booked, Employed
  <2> QED BY <2>2, <2>3
<1>2. Listed' BY <1>a DEF Booked, Listed
<1>3. \A s \in Sources \ doubled' : Orderly(s)' BY <1>a DEF Booked, Orderly
<1>4. Undisturbed' BY <1>a DEF Booked, Undisturbed
<1> QED BY <1>1, <1>2, <1>3, <1>4 DEF Booked

LEMMA FetchBooked == ASSUME Typed, Booked, NEW t \in Tasks, Fetch(t) PROVE Booked'
<1>0. task \in [Tasks -> Task \cup {NoTask}] BY DEF Typed, TasksTyped
<1>a. UNCHANGED <<phase, home, active, probing, failed, link, probes, tagged, samples, history>>
  BY DEF Fetch, CheckChunk, WriteChunk, RecordChunk, TaskFails, jobVars, netVars
<1>1. t \in Running BY DEF Fetch, CheckChunk, WriteChunk, RecordChunk, TaskFails
<1>2. PICK k \in Task : k = task[t] BY <1>1, RunningTask
<1>3. /\ \A u \in Tasks \ {t} : task'[u] = task[u]
      /\ task'[t].conn = k.conn
  <2>1. CASE CheckChunk(t) BY <1>0, <1>2, <2>1 DEF CheckChunk, Go, Task
  <2>2. CASE WriteChunk(t) BY <1>0, <1>2, <2>2 DEF WriteChunk, Go, Task
  <2>3. CASE RecordChunk(t) BY <1>0, <1>2, <2>3 DEF RecordChunk, Task
  <2>4. CASE TaskFails(t) BY <1>0, <1>2, <2>4 DEF TaskFails, Go, Task
  <2> QED BY <2>1, <2>2, <2>3, <2>4 DEF Fetch
<1>4. NoneHired BY <1>1, <1>2, <1>3 DEF NoneHired, Running
<1> QED BY <1>a, <1>4, BookedStays

LEMMA GoneNoneHired == ASSUME Typed, NEW t \in Tasks, task' = Gone(t) PROVE NoneHired
BY GoneTasks DEF NoneHired

LEMMA GoneLostNoneHired ==
  ASSUME Typed, NEW t \in Tasks, NEW s \in Sources, task' = Lost(Gone(t), s) PROVE NoneHired
<1>1. PICK g \in [Tasks -> Task \cup {NoTask}] : g = Gone(t) BY GoneTasks
<1>2. ASSUME NEW u \in Tasks, task'[u] # NoTask
      PROVE  task[u] # NoTask /\ task'[u].conn = task[u].conn
  <2>1. g[u] # NoTask /\ task' = Lost(g, s) BY <1>1, <1>2, LostTasks
  <2>2. PICK k \in Task : k = g[u] BY <2>1
  <2>3. task'[u] \in {k, [k EXCEPT !.lost = TRUE]} BY <2>1, <2>2 DEF Lost
  <2>4. u # t /\ g[u] = task[u] BY <1>1, <2>1, GoneTasks
  <2> QED BY <2>1, <2>2, <2>3, <2>4 DEF Task
<1> QED BY <1>2 DEF NoneHired

\* A source that requests may be under way to.
Serves(c) == c \in ToSet(active) \cup failed /\ (phase = "connecting" => c \in failed)

\* A request has reported: its connection may be gone and the job's own may be
\* dialed again, and the job may be done.
LEMMA ReportedBooked ==
  ASSUME Typed, Booked, NoneHired, ~Ended, NEW c \in Sources, NEW lk,
         \/ lk = link /\ tagged' = tagged
         \/ lk = [link EXCEPT ![c] = "none"] /\ tagged' \in {tagged, tagged \ {c}} /\ Serves(c),
         link' \in {lk, Redialed(lk)},
         \/ phase' = phase \/ phase' \in {"committing", "failed"},
         UNCHANGED <<home, active, probing, failed, probes, samples, doubled, stranded>>
  PROVE  Booked'
<1>0. /\ link \in [Sources -> Links] /\ home \in Sources /\ probing \subseteq Sources
      /\ lk \in [Sources -> Links]
  BY DEF Typed, NetTyped, ListsTyped, Links
<1>1. Employed' BY StillEmployed DEF Booked
<1>2. /\ phase \in {"connecting", "transferring"}
      /\ \A x \in Sources : \/ link'[x] = link[x]
                            \/ x = c /\ Serves(c) /\ link'[x] = "none"
                            \/ x = home /\ link'[x] = "dialing" /\ phase = "transferring"
  <2>1. phase \in {"connecting", "transferring"} BY DEF Ended, Typed, ListsTyped
  <2>2. CASE link' = lk BY <1>0, <2>1, <2>2
  <2>3. CASE link' # lk BY <1>0, <2>1, <2>3 DEF Redialed, Scaled
  <2> QED BY <2>2, <2>3
<1>3. Listed'
  <2>1. Serves(c) => c \notin probing BY DEF Booked, Listed, Serves
  <2>2. home \notin probing BY DEF Booked, Listed
  <2>3. \A x \in probing : link'[x] = link[x] BY <1>0, <1>2, <2>1, <2>2
  <2> QED BY <2>1, <2>3 DEF Booked, Listed
<1>4. ASSUME NEW x \in Sources \ doubled' PROVE Orderly(x)'
  <2>1. Orderly(x) BY <1>4 DEF Booked
  <2>2. CASE link'[x] = link[x] BY <1>2, <2>1, <2>2 DEF Orderly
  <2>3. CASE x = c /\ Serves(c) /\ link'[x] = "none"
    <3>1. x \notin probing /\ (phase = "connecting" => x \notin ToSet(active))
      BY <2>1, <2>3 DEF Booked, Listed, Orderly, Serves
    <3> QED BY <1>2, <2>1, <2>3, <3>1 DEF Orderly
  <2>4. CASE x = home /\ link'[x] = "dialing" /\ phase = "transferring"
    <3>1. x \notin probing /\ x \notin tagged BY <2>4 DEF Booked, Listed
    <3> QED BY <1>2, <2>1, <2>4, <3>1 DEF Orderly
  <2> QED BY <1>2, <2>2, <2>3, <2>4
<1>5. Undisturbed'
  <2>1. CASE doubled = {}
    <3>1. Orderly(home) BY <1>0, <2>1 DEF Booked
    <3> QED BY <1>0, <1>2, <2>1, <3>1 DEF Booked, Undisturbed, Orderly, Serves
  <2> QED BY <2>1 DEF Undisturbed
<1> QED BY <1>1, <1>3, <1>4, <1>5 DEF Booked

\* The connection of a request is that of a source which is, or was, active.
LEMMA ConnPlaces ==
  ASSUME Typed, Booked, NEW t \in Running, NEW c, c = task[t].conn
  PROVE  c \in Sources /\ Serves(c)
BY RunningTask, TaskRecord DEF Booked, Employed, Serves

LEMMA AssignmentVerifiedBooked ==
  ASSUME Typed, Booked, NEW t \in Tasks, AssignmentVerified(t) PROVE Booked'
<1>0. t \in Running /\ ~Ended BY DEF AssignmentVerified, Idle
<1>1. PICK c \in Sources : c = task[t].conn BY <1>0, RunningTask, TaskRecord
<1>2. Serves(c) BY <1>0, <1>1, ConnPlaces
<1>3. UNCHANGED <<home, active, probing, failed, probes, samples, doubled, stranded>>
  BY DEF AssignmentVerified, history
<1>4. phase' = phase \/ phase' \in {"committing", "failed"} BY DEF AssignmentVerified
<1>5. \/ task' = Gone(t) /\ tagged' = tagged /\ link' \in {link, Redialed(link)}
      \/ /\ task' = Lost(Gone(t), c) /\ tagged' = tagged \ {c}
         /\ link' \in {[link EXCEPT ![c] = "none"], Redialed([link EXCEPT ![c] = "none"])}
  BY <1>1 DEF AssignmentVerified
<1>6. NoneHired BY <1>5, GoneNoneHired, GoneLostNoneHired
<1>7. CASE tagged' = tagged /\ link' \in {link, Redialed(link)}
  BY <1>0, <1>3, <1>4, <1>6, <1>7, ReportedBooked
<1>8. CASE /\ tagged' = tagged \ {c}
           /\ link' \in {[link EXCEPT ![c] = "none"], Redialed([link EXCEPT ![c] = "none"])}
  BY <1>0, <1>2, <1>3, <1>4, <1>6, <1>8, ReportedBooked
<1> QED BY <1>5, <1>7, <1>8

LEMMA RetryRangeBooked == ASSUME Typed, Booked, NEW t \in Tasks, RetryRange(t) PROVE Booked'
<1>0. t \in Running /\ ~Ended BY DEF RetryRange, Idle
<1>1. PICK c \in Sources : c = task[t].conn BY <1>0, RunningTask, TaskRecord
<1>2. Serves(c) BY <1>0, <1>1, ConnPlaces
<1>3. UNCHANGED <<home, active, probing, failed, probes, samples, doubled, stranded>>
  BY DEF RetryRange, history, jobVars
<1>4. phase' = phase BY DEF RetryRange, jobVars
<1>5. \/ task' = Gone(t) /\ tagged' = tagged /\ link' \in {link, Redialed(link)}
      \/ /\ task' = Lost(Gone(t), c) /\ tagged' = tagged \ {c}
         /\ link' \in {[link EXCEPT ![c] = "none"], Redialed([link EXCEPT ![c] = "none"])}
  BY <1>1 DEF RetryRange
<1>6. NoneHired BY <1>5, GoneNoneHired, GoneLostNoneHired
<1>7. CASE tagged' = tagged /\ link' \in {link, Redialed(link)}
  BY <1>0, <1>3, <1>4, <1>6, <1>7, ReportedBooked
<1>8. CASE /\ tagged' = tagged \ {c}
           /\ link' \in {[link EXCEPT ![c] = "none"], Redialed([link EXCEPT ![c] = "none"])}
  BY <1>0, <1>2, <1>3, <1>4, <1>6, <1>8, ReportedBooked
<1> QED BY <1>5, <1>7, <1>8

LEMMA RetryReadyBooked == ASSUME Typed, Booked, NEW q \in Pieces, RetryReady(q) PROVE Booked'
<1>0. ~Ended /\ home \in Sources BY DEF RetryReady, Idle, Typed, ListsTyped
<1>1. UNCHANGED <<home, active, probing, failed, probes, samples, doubled, stranded, phase, tagged, task>>
      /\ link' = Redialed(link)
  BY DEF RetryReady, jobVars, history
<1> QED BY <1>0, <1>1, NoneHiredSame, ReportedBooked

LEMMA RefusedBooked == ASSUME Typed, Booked, NEW t \in Tasks, Refused(t) PROVE Booked'
<1>0. ~Ended /\ home \in Sources BY DEF Refused, Idle, Typed, ListsTyped
<1>1. /\ UNCHANGED <<home, active, probing, failed, probes, samples, doubled, stranded, tagged, link>>
      /\ phase' = "failed" /\ task' = Gone(t)
  BY DEF Refused, Fail, history
<1> QED BY <1>0, <1>1, GoneNoneHired, ReportedBooked

LEMMA QuarantineBooked == ASSUME Typed, Booked, NEW t \in Tasks, Quarantine(t) PROVE Booked'
<1>0. t \in Running /\ ~Ended /\ home \in Sources /\ link \in [Sources -> Links]
  BY QuarantineSplit DEF Typed, NetTyped, ListsTyped
<1>1. PICK c \in Sources : c = task[t].conn BY <1>0, RunningTask, TaskRecord
<1>2. Serves(c) BY <1>0, <1>1, ConnPlaces
<1>3. UNCHANGED <<probing, probes, samples, doubled, stranded>> BY DEF Quarantine, history
<1>4. CASE QuarantineFails(t)
  <2>1. /\ UNCHANGED <<home, active, failed, tagged>> /\ phase' = "failed" /\ task' = Gone(t)
        /\ link' \in {link, [link EXCEPT ![c] = "none"]}
    BY <1>1, <1>4 DEF QuarantineFails, Fail
  <2>2. CASE link' = link BY <1>0, <1>3, <2>1, <2>2, GoneNoneHired, ReportedBooked
  <2>3. CASE link' = [link EXCEPT ![c] = "none"]
    BY <1>0, <1>2, <1>3, <2>1, <2>3, GoneNoneHired, ReportedBooked
  <2> QED BY <2>1, <2>2, <2>3
<1>5. ASSUME NEW left \in Seq(Sources), QuarantineLeaves(t, left) PROVE Booked'
  <2>1. /\ c \in ToSet(active) /\ failed' = failed \cup {c} /\ ToSet(left) = ToSet(active) \ {c}
        /\ task'[t] = NoTask
    BY <1>1, <1>5 DEF QuarantineLeaves
  <2>2. NoneHired
    <3>1. ASSUME NEW u \in Tasks \ {t}
          PROVE  task'[u] # NoTask => task[u] # NoTask /\ task'[u].conn = task[u].conn
      <4>1. CASE task'[u] = task[u] BY <4>1
      <4>2. CASE task[u] # NoTask /\ task'[u] = [task[u] EXCEPT !.live = FALSE, !.cut = TRUE]
        <5>1. PICK k \in Task : k = task[u] BY <4>2 DEF Typed, TasksTyped
        <5> QED BY <4>2, <5>1 DEF Task
      <4> QED BY <1>5, <4>1, <4>2 DEF QuarantineLeaves
    <3> QED BY <2>1, <3>1 DEF NoneHired
  \* The source that leaves is the job's, and it is not failing over, unless a
  \* source was asked two things at a time.
  <2>3. phase = "transferring" \/ c \in doubled
    <3>1. c \notin doubled => Orderly(c) BY DEF Booked
    <3> QED BY <1>0, <1>2, <2>1, <3>1 DEF Orderly, Serves, Ended, Typed, ListsTyped
  <2>4. CASE /\ left # <<>> /\ active' = left /\ link' \in {link, Redialed(link)}
             /\ UNCHANGED <<phase, home, tagged>>
    <3>1. ToSet(active') = ToSet(active) \ {c} BY <2>1, <2>4
    <3>2. \A x \in Sources : \/ link'[x] = link[x]
                             \/ x = home /\ link'[x] = "dialing" /\ phase = "transferring"
      BY <1>0, <2>4 DEF Redialed, Scaled
    <3>3. Employed' BY <2>1, <2>2, <2>4, <3>1, StillEmployed DEF Booked
    <3>4. Listed'
      <4>1. probing \subseteq Sources /\ home \notin probing /\ c \notin probing
        BY <2>1 DEF Typed, ListsTyped, Booked, Listed
      <4>2. \A x \in probing : link'[x] = link[x] BY <3>2, <4>1
      <4> QED BY <1>3, <2>1, <2>4, <3>1, <4>1, <4>2 DEF Booked, Listed
    <3>5. ASSUME NEW x \in Sources \ doubled' PROVE Orderly(x)'
      <4>1. Orderly(x) BY <1>3, <3>5 DEF Booked
      <4>2. CASE link'[x] = link[x] BY <1>3, <2>1, <2>4, <3>1, <4>1, <4>2 DEF Orderly
      <4>3. CASE x = home /\ link'[x] = "dialing" /\ phase = "transferring"
        <5>1. x \notin probing /\ x \notin tagged BY <4>3 DEF Booked, Listed
        <5> QED BY <1>3, <2>1, <2>4, <3>1, <4>1, <4>3, <5>1 DEF Orderly
      <4> QED BY <3>2, <4>2, <4>3
    <3>6. Undisturbed'
      <4>1. CASE doubled = {}
        <5>1. phase = "transferring" BY <2>3, <4>1
        <5> QED BY <1>0, <1>3, <2>4, <3>1, <3>2, <4>1, <5>1 DEF Booked, Undisturbed
      <4> QED BY <1>3, <4>1 DEF Undisturbed
    <3> QED BY <3>3, <3>4, <3>5, <3>6 DEF Booked
  <2>5. CASE left = <<>> /\ Unused \ {c} # {} /\ ActivateNext(Unused \ {c}, link)
    <3>0. ToSet(active) = {c}
      <4>1. ToSet(left) = {} BY <2>5 DEF ToSet
      <4> QED BY <2>1, <4>1
    <3>1. PICK m \in Sources \ (probing \cup failed \cup ToSet(active)) : m = Min(Unused \ {c})
      BY <2>5, FirstUnused
    <3>2. /\ active' = <<m>> /\ home' = m /\ phase' = "connecting" /\ tagged' = tagged \ {m}
          /\ link' = [link EXCEPT ![m] = "resolving"]
      BY <2>5, <3>1 DEF ActivateNext
    <3>3. ToSet(active') = {m} BY <3>2 DEF ToSet
    <3>4. Employed' BY <2>1, <2>2, <3>0, StillEmployed DEF Booked
    <3>5. Listed'
      <4>1. probing \subseteq Sources /\ m \notin probing /\ c \notin probing
        BY <2>1, <3>1 DEF Typed, ListsTyped, Booked, Listed
      <4> QED BY <1>0, <1>3, <2>1, <3>2, <3>3, <4>1 DEF Booked, Listed
    <3>6. ASSUME NEW x \in Sources \ doubled' PROVE Orderly(x)'
      <4>1. Orderly(x) BY <1>3, <3>6 DEF Booked
      <4>2. CASE x = m BY <1>0, <1>3, <2>1, <3>1, <3>2, <3>3, <4>1, <4>2 DEF Booked, Listed, Orderly
      <4>3. CASE x # m BY <1>0, <1>3, <2>1, <3>0, <3>2, <3>3, <4>1, <4>3 DEF Orderly
      <4> QED BY <4>2, <4>3
    <3>7. Undisturbed'
      <4>1. CASE doubled = {}
        <5>1. phase = "transferring" BY <2>3, <4>1
        <5>2. probes \ probing = {} BY <4>1, <5>1 DEF Booked, Undisturbed
        <5> QED BY <1>3, <3>2, <3>3, <5>2 DEF Undisturbed
      <4> QED BY <1>3, <4>1 DEF Undisturbed
    <3> QED BY <3>4, <3>5, <3>6, <3>7 DEF Booked
  <2>6. CASE left = <<>> /\ active' = left /\ phase' = "failed" /\ UNCHANGED <<home, link, tagged>>
    <3>1. ToSet(active') = {} /\ ToSet(active) = {c}
      <4>1. ToSet(left) = {} BY <2>6 DEF ToSet
      <4> QED BY <2>1, <2>6, <4>1
    <3>2. Employed' BY <2>1, <2>2, <3>1, StillEmployed DEF Booked
    <3>3. Listed' BY <1>3, <2>1, <2>6, <3>1 DEF Booked, Listed
    <3>4. ASSUME NEW x \in Sources \ doubled' PROVE Orderly(x)'
      <4>1. Orderly(x) BY <1>3, <3>4 DEF Booked
      <4> QED BY <1>3, <2>1, <2>6, <3>1, <4>1 DEF Orderly
    <3>5. Undisturbed'
      <4>1. CASE doubled = {}
        <5>1. phase = "transferring" BY <2>3, <4>1
        <5>2. probes \ probing = {} BY <4>1, <5>1 DEF Booked, Undisturbed
        <5> QED BY <1>3, <2>6, <3>1, <5>2 DEF Undisturbed
      <4> QED BY <1>3, <4>1 DEF Undisturbed
    <3> QED BY <3>2, <3>3, <3>4, <3>5 DEF Booked
  <2> QED BY <1>1, <1>5, <2>4, <2>5, <2>6 DEF QuarantineLeaves
<1> QED BY <1>4, <1>5, QuarantineSplit

LEMMA NextBooked == Typed /\ Booked /\ [Next]_vars => Booked'
<1> SUFFICES ASSUME Typed, Booked, [Next]_vars PROVE Booked' OBVIOUS
<1>1. ASSUME NEW s \in Sources, Net(s) \/ Sample(s) PROVE Booked'
  BY <1>1, ResolvedBooked, ResolveFailsBooked, ConnectionReadyBooked, ConnectionFailedBooked,
     ProbedBooked, MirrorProbedBooked, ProbeFailedBooked, CompareSampleBooked, MirrorSampledBooked
     DEF Net, Sample
<1>2. ASSUME NEW t \in Tasks, Fetch(t) \/ Report(t) PROVE Booked'
  BY <1>2, FetchBooked, AssignmentVerifiedBooked, RetryRangeBooked, QuarantineBooked, RefusedBooked
     DEF Report
<1>3. CASE UNCHANGED vars
  <2>1. UNCHANGED <<phase, home, active, probing, failed, link, probes, tagged, samples, task, history>>
    BY <1>3 DEF vars, jobVars, netVars
  <2> QED BY <2>1, NoneHiredSame, BookedStays
<1> QED BY <1>1, <1>2, <1>3, RetryReadyBooked, RebalanceTickBooked, PumpClaimBooked DEF Next

LEMMA InitBooked == Init => Booked
<1> SUFFICES ASSUME Init PROVE Booked OBVIOUS
<1>0. 1 \in Sources BY Ranges
<1>1. ToSet(active) = {1} BY DEF Init, ToSet
<1>2. Running = {} BY DEF Init, Running
<1>3. Listed BY <1>1 DEF Init, Listed
<1>4. Employed BY <1>2 DEF Employed
<1>5. ASSUME NEW s \in Sources PROVE Orderly(s) BY <1>1 DEF Init, Orderly
<1>6. Undisturbed BY <1>0, <1>1 DEF Init, Undisturbed
<1> QED BY <1>3, <1>4, <1>5, <1>6 DEF Booked

-----------------------------------------------------------------------------
(***************************************************************************)
(* The job's own source.                                                   *)
(***************************************************************************)
LEMMA NetHome ==
  ASSUME Typed, Booked, HomeFailed, NEW s \in Sources, Net(s) \/ Sample(s) PROVE HomeFailed'
<1>0. home \notin probing /\ home \notin tagged /\ home \in ToSet(active) \cup failed /\ home \in Sources
  BY DEF Booked, Listed, Typed, ListsTyped
<1>1. CASE Resolved(s) \/ ConnectionReady(s) \/ Probed(s) \/ CompareSample(s)
  <2>1. UNCHANGED <<env, doubled, home, failed>>
    BY <1>1 DEF Resolved, ConnectionReady, Probed, CompareSample, setting, history, jobVars
  <2> QED BY <2>1 DEF HomeFailed
<1>2. CASE ResolveFails(s)
  <2>1. UNCHANGED <<env, doubled, home>> /\ link[s] = "resolving"
    BY <1>2 DEF ResolveFails, setting, RetryResolve, Fail
  <2>2. failed' = failed \/ (failed' = failed \cup {s} /\ phase = "transferring")
    BY <1>2 DEF ResolveFails, Reject
  <2>3. CASE doubled = {} /\ failed' = failed \cup {s} /\ phase = "transferring"
    <3>1. home \in ToSet(active) => s # home BY <2>1, <2>3 DEF Booked, Undisturbed
    <3> QED BY <1>0, <2>1, <2>3, <3>1 DEF HomeFailed
  <2> QED BY <2>1, <2>2, <2>3 DEF HomeFailed
<1>3. CASE ConnectionFailed(s)
  <2>1. UNCHANGED <<env, doubled>> BY <1>3 DEF ConnectionFailed, setting, history
  <2>2. CASE failed' = failed /\ home' = home BY <2>1, <2>2 DEF HomeFailed
  <2>3. CASE s \in tagged /\ Reject(s) /\ UNCHANGED home BY <1>0, <2>1, <2>3 DEF HomeFailed, Reject
  <2>4. CASE Unused # {} /\ home' = Min(Unused) /\ UNCHANGED failed
    <3>1. home' \notin failed BY <2>4, FirstUnused
    <3> QED BY <2>1, <2>4, <3>1 DEF HomeFailed
  <2> QED BY <1>3, <2>2, <2>3, <2>4 DEF ConnectionFailed, ActivateNext, RetryResolve, Fail
<1>4. CASE MirrorProbed(s) \/ ProbeFailed(s)
  <2>1. UNCHANGED <<env, home>> /\ doubled \subseteq doubled'
    BY <1>4 DEF MirrorProbed, ProbeFailed, SendSample, setting, history
  <2>2. failed' = failed \/ (failed' = failed \cup {s} /\ s \in probing)
    BY <1>4 DEF MirrorProbed, ProbeFailed, Reject
  <2> QED BY <1>0, <2>1, <2>2 DEF HomeFailed
<1>5. CASE MirrorSampled(s)
  <2>1. UNCHANGED <<env, home, doubled>> BY <1>5 DEF MirrorSampled, setting, history
  <2>2. samples[s] # <<>> /\ (failed' = failed \/ failed' = failed \cup {s})
    BY <1>5 DEF MirrorSampled
  <2>3. CASE doubled = {}
    <3>1. Orderly(s) BY <2>3 DEF Booked
    <3>2. s # home BY <1>0, <2>2, <3>1 DEF Orderly
    <3> QED BY <2>1, <2>2, <3>2 DEF HomeFailed
  <2> QED BY <2>1, <2>3 DEF HomeFailed
<1> QED BY <1>1, <1>2, <1>3, <1>4, <1>5 DEF Net, Sample

LEMMA NextHome == Typed /\ Booked /\ HomeFailed /\ [Next]_vars => HomeFailed'
<1> SUFFICES ASSUME Typed, Booked, HomeFailed, [Next]_vars PROVE HomeFailed' OBVIOUS
<1>1. CASE UNCHANGED <<env, doubled, home, failed>> BY <1>1 DEF HomeFailed
<1>2. ASSUME NEW t \in Tasks, Fetch(t) PROVE HomeFailed'
  BY <1>1, <1>2 DEF Fetch, CheckChunk, WriteChunk, RecordChunk, TaskFails, setting, history, jobVars
<1>3. ASSUME NEW t \in Tasks, Report(t) PROVE HomeFailed'
  <2>1. CASE AssignmentVerified(t) \/ RetryRange(t) \/ Refused(t)
    BY <1>1, <2>1 DEF AssignmentVerified, RetryRange, Refused, Fail, setting, history, jobVars
  <2>2. CASE Quarantine(t)
    <3>1. UNCHANGED <<env, doubled>> BY <2>2 DEF Quarantine, setting
    <3>2. CASE QuarantineFails(t) BY <1>1, <3>1, <3>2 DEF QuarantineFails, Fail
    <3>3. CASE \E left : QuarantineLeaves(t, left) BY <3>1, <3>3 DEF QuarantineLeaves, HomeFailed
    <3> QED BY <2>2, <3>2, <3>3, QuarantineSplit
  <2> QED BY <1>3, <2>1, <2>2 DEF Report
<1>4. ASSUME NEW q \in Pieces, RetryReady(q) PROVE HomeFailed'
  BY <1>1, <1>4 DEF RetryReady, setting, history, jobVars
<1>5. CASE RebalanceTick BY <1>5 DEF RebalanceTick, setting, HomeFailed
<1>6. CASE PumpClaim BY <1>1, <1>6 DEF PumpClaim, setting, history, jobVars
<1>7. CASE UNCHANGED vars BY <1>1, <1>7 DEF vars, setting, history, jobVars
<1> QED BY <1>2, <1>3, <1>4, <1>5, <1>6, <1>7, NetHome DEF Next

-----------------------------------------------------------------------------
(***************************************************************************)
(* The theorems.                                                           *)
(***************************************************************************)
\* The inductive invariant holds of the mirrors' handlers and requests.
THEOREM MirrorsInvariant == Spec => []MirrorsInv
<1>0. Init => HomeFailed BY DEF Init, HomeFailed
<1>1. Init => MirrorsInv BY <1>0, InitType, InitAgreed, InitLoad, InitBooked DEF MirrorsInv
<1>2. MirrorsInv /\ [Next]_vars => MirrorsInv'
  BY NextType, NextAgreed, NextLoad, NextBooked, NextHome DEF MirrorsInv
<1> QED BY <1>1, <1>2, PTL DEF Spec

\* Types; no connection counts more requests than the shards may hold.
THEOREM MirrorsType == Spec => []MirrorsTypeOK
<1>1. MirrorsInv => MirrorsTypeOK
  <2> SUFFICES ASSUME MirrorsInv PROVE MirrorsTypeOK OBVIOUS
  <2>0. Typed /\ LoadExact BY DEF MirrorsInv, Counted
  <2>1. ASSUME NEW s \in Sources PROVE load[s] \in 0 .. MaxTasks
    <3>1. OnConn(s) \subseteq Tasks BY DEF OnConn, Running
    <3>2. Cardinality(OnConn(s)) <= MaxTasks /\ Cardinality(OnConn(s)) \in Nat
      BY <3>1, Ranges, FS_Subset, FS_CardinalityType
    <3>3. load[s] \in Nat /\ load[s] <= Cardinality(OnConn(s))
      BY <2>0 DEF Typed, NetTyped, LoadExact
    <3> QED BY <3>2, <3>3, Counts
  <2>2. ASSUME NEW s \in Sources, NEW i \in 1 .. Len(samples[s]) PROVE samples[s][i].at \in Pieces
    <3>1. samples[s] \in Seq(Question) BY <2>0 DEF Typed, SamplesTyped
    <3>2. samples[s][i] \in Question BY <3>1
    <3> QED BY <3>2 DEF Question
  <2>3. \A s \in Sources : link[s] \in {"none", "resolving", "dialing", "ready"}
    BY <2>0 DEF Typed, NetTyped, Links
  <2>4. \A q \in Pieces : owner[q] \in Sources \cup {None} /\ {file[q], first[q]} \subseteq Values
    BY <2>0 DEF Typed, FileTyped
  <2>5. \A t \in Running : /\ {task[t].conn, task[t].src} \subseteq Sources
                           /\ {task[t].piece, task[t].at} \subseteq Pieces
    BY <2>0, RunningTask DEF Task
  <2>6. /\ phase \in {"connecting", "transferring", "committing", "failed"}
        /\ home \in Sources /\ active \in Seq(Sources) /\ tries \in 0 .. MaxTries
        /\ probing \cup sampling \cup failed \cup probes \cup tagged \cup writers
             \cup known \subseteq Sources
        /\ done \cup deferred \cup blind \subseteq Pieces
    BY <2>0 DEF Typed, ListsTyped, NetTyped, PlanTyped, FileTyped
  <2> QED BY <2>1, <2>2, <2>3, <2>4, <2>5, <2>6 DEF MirrorsTypeOK
<1> QED BY <1>1, MirrorsInvariant, PTL

\* The cross-source check of LaneSink: bytes of a piece that was never written blind
\* are those of its first writer as soon as no write of it waits to be recorded.
THEOREM NoSilentReplacement == Spec => []AgreeUnlessBlind
<1>1. MirrorsInv => AgreeUnlessBlind
  <2> SUFFICES ASSUME MirrorsInv, NEW q \in Pieces \ blind, first[q] # NoBytes,
                      \A t \in Running : ~(task[t].step = "record" /\ task[t].at = q)
               PROVE  file[q] = first[q]
    BY DEF AgreeUnlessBlind
  <2>1. AgreedAt(q) BY DEF MirrorsInv, Agreed
  <2>2. \A t \in Tasks : ~Doomed(t, q) BY DEF Doomed, Recorder, Running
  <2> QED BY <2>1, <2>2 DEF AgreedAt
<1> QED BY <1>1, MirrorsInvariant, PTL

\* The controller's books: no claim is booked on a failed source, and none goes over
\* its connection unless it is the job's own and multiplexed; a candidate has
\* something under way; both but for the answers that came too late.  A connection
\* is thought as busy as it is, but for the requests a quarantine has abandoned.
THEOREM BooksAreKept == Spec => []Bookkept
<1>1. MirrorsInv => Bookkept
  <2> SUFFICES ASSUME MirrorsInv PROVE Bookkept OBVIOUS
  <2>1. FailedStaysOut
    <3>1. ASSUME NEW s \in ToSet(active) \cap failed PROVE s \in Readmitted
      <4>1. s \in Sources BY DEF MirrorsInv, Typed, ListsTyped
      <4>2. s \notin doubled => Orderly(s) BY <4>1 DEF MirrorsInv, Booked
      <4> QED BY <3>1, <4>2 DEF Orderly, Readmitted
    <3>2. ASSUME NEW c \in Sources, CanClaim(c)
          PROVE  /\ SourceFor(c) \in failed => SourceFor(c) \in Readmitted
                 /\ c \in failed => c \in Readmitted \/ (c = home /\ env.mux)
      <4>1. c = home \/ c \in ToSet(active) BY <3>2 DEF CanClaim, Runnable
      <4>2. home \notin tagged BY DEF MirrorsInv, Booked, Listed
      <4>3. active \in Seq(Sources) /\ active # <<>>
        BY <3>2 DEF MirrorsInv, Typed, ListsTyped, CanClaim, Runnable
      <4>4. Head(active) \in ToSet(active) BY <4>3 DEF ToSet
      <4>5. SourceFor(c) \in ToSet(active) BY <4>1, <4>2, <4>4 DEF SourceFor
      <4>6. c = home /\ c \in failed => env.mux \/ c \in Readmitted
        BY DEF MirrorsInv, HomeFailed, Readmitted
      <4> QED BY <3>1, <4>1, <4>5, <4>6
    <3> QED BY <3>1, <3>2 DEF FailedStaysOut
  <2>2. CandidateUnderWay BY DEF MirrorsInv, Booked, Listed, CandidateUnderWay
  <2>3. LoadExact BY DEF MirrorsInv, Counted
  <2> QED BY <2>1, <2>2, <2>3 DEF Bookkept
<1> QED BY <1>1, MirrorsInvariant, PTL
=============================================================================
