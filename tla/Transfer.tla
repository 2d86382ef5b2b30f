------------------------------- MODULE Transfer -------------------------------
(***************************************************************************)
(* One job's data plane: the controller's plan (module SegmentPlan), the   *)
(* control thread that pumps claims into a shard's bounded mailbox, the    *)
(* shard's fetch tasks and their reports.                                  *)
(*                                                                         *)
(*   control thread   handles one report, answer or timer at a time and    *)
(*                    then pumps (controller.rs handle, pump, claim_one);  *)
(*   mailbox          try_send of StartRange, StartFullBody and            *)
(*                    TruncateAssignment (control.rs send_shard);          *)
(*   shard            takes one command at a time, runs a task per start   *)
(*                    and keeps an end flag per assignment (shard.rs run); *)
(*   task             writes chunk after chunk into the .part and reports  *)
(*                    once (shard.rs run_range, http/fetch.rs).            *)
(*                                                                         *)
(* A task knows the plan that started it (gen); the program does not: keys *)
(* restart with every new plan, so a report or a truncation can meet an    *)
(* assignment of a later plan that has the same key.                       *)
(*                                                                         *)
(* Streams are a fixed pool: connections that die are replaced elsewhere.  *)
(* Plans of unknown length are left to module SegmentPlan.                 *)
(***************************************************************************)
EXTENDS SegmentPlan, Sequences, SequencesExt

CONSTANTS
  Streams,          \* sum of stream_capacity over the origin's connections
  MailboxCap,       \* capacity of the shard's command channel
  MaxFailures,      \* bound: reports of failure in a behaviour
  MaxPlans          \* bound: plans in a behaviour

ASSUME TransferAssumption ==
  /\ {Streams, MailboxCap, MaxFailures, MaxPlans} \subseteq Nat
  /\ MaxPlans # 0         \* the job has its first plan

VARIABLES
  phase,            \* JobPhase; "cancelled" and "failed" once the waiter was told so
  reprobing,        \* a second probe is out
  asked,            \* cancellation was requested: the job's context is cancelled
  ranges,           \* supports_ranges
  gen,              \* how many plans the job has had
  active,           \* active_assignment_count
  pumping,          \* the control thread is inside pump
  mailbox,          \* the shard's command channel
  tasks,            \* running tasks and the reports they sent
  flags,            \* end_flags: key -> plan of the task whose flag it is
  written,          \* bytes of the .part that hold the artifact's data
  failures          \* failures so far

xferVars == <<phase, reprobing, asked, ranges, gen, active, pumping, mailbox, tasks, flags, written, failures>>
vars == <<planVars, xferVars>>

Phases == {"probing", "transferring", "failing", "cancelling", "committing",
           "cancelled", "failed"}

\* finish_job removed the job: reports about it only release their slot.
Gone == phase \in {"cancelled", "failed"}
Draining == phase \in {"failing", "cancelling"}

(***************************************************************************)
(* A start command carries the range to fetch; `start` is where the wire   *)
(* request begins.  The overlap is taken off twice: once in wire_range and *)
(* once more in fetch_range.                                               *)
(***************************************************************************)
\* Mutant of StartCommand: the wire start is not saturated at 0.
StartCommandBelowZero(id) ==
  LET a == asg'[id]
  IN  [op |-> "start", id |-> id, gen |-> gen, lo |-> Greater(0, a.lo - a.overlap),
       pos |-> a.lo - 2 * a.overlap, hi |-> a.hi, attempt |-> a.attempt, full |-> ~ranges]

StartCommand(id) ==
  LET a == asg'[id]
      from == Greater(0, a.lo - a.overlap)
  IN  [op |-> "start", id |-> id, gen |-> gen,
       lo |-> IF ranges THEN from ELSE 0,
       pos |-> IF ranges THEN Greater(0, from - a.overlap) ELSE 0,
       hi |-> IF ranges THEN a.hi ELSE Total,
       attempt |-> IF ranges THEN a.attempt ELSE 0, full |-> ~ranges]

TruncateCommand(victim) == [op |-> "truncate", id |-> victim, hi |-> asg'[victim].hi]

\* send_shard one by one: try_send, and DispatchFailed when the mailbox is full.
\* That observation names no job and no assignment, so handling it does nothing.
Send(cmds) == mailbox' = SubSeq(mailbox \o cmds, 1, Lesser(MailboxCap, Len(mailbox) + Len(cmds)))

Starts == {c \in ToSet(mailbox) : c.op = "start"}

\* Everyone who was, or is about to be, told to fetch for this plan.
Workers == {w \in Starts \cup tasks : w.gen = gen}

-----------------------------------------------------------------------------
(***************************************************************************)
(* pump: claim while a stream is free and the job is runnable.             *)
(***************************************************************************)
\* A SlotMap hands out its lowest free slot first, never a key that the same plan
\* has given to somebody else.
Unused == {i \in Ids \ Live : \A w \in Workers : w.id # i}
FreshId(id) == id \in Unused /\ \A i \in Unused : id <= i

MayPump == pumping /\ phase = "transferring" /\ active < Streams

Dispatched(cmds) ==
  /\ active' = active + 1
  /\ Send(cmds)
  /\ UNCHANGED <<phase, reprobing, asked, ranges, gen, pumping, tasks, flags, written, failures>>

PumpClaim(id) ==
  /\ MayPump /\ FreshId(id)
  /\ StreamClaim(id) \/ \E dur \in {0, MaxPiece} : FreshClaim(id, dur)
  /\ Dispatched(<<StartCommand(id)>>)

\* A victim whose connection was dropped meanwhile (drop_connection clears it) is
\* told nothing: its task may still be running.
PumpSteal(id, victim, keep, told) ==
  /\ MayPump /\ FreshId(id)
  /\ Steal(id, victim, keep)
  /\ Dispatched(IF told THEN <<TruncateCommand(victim), StartCommand(id)>> ELSE <<StartCommand(id)>>)

\* No stream, no runnable job, or claim_with said Saturated (a steal may be too
\* early for straggler_grace).
PumpEnds ==
  /\ pumping
  /\ active >= Streams \/ phase # "transferring" \/ ~Runnable \/ (mode = "ranged" /\ NoGap)
  /\ pumping' = FALSE
  /\ UNCHANGED <<planVars, phase, reprobing, asked, ranges, gen, active, mailbox, tasks, flags, written, failures>>

-----------------------------------------------------------------------------
(***************************************************************************)
(* The shard.                                                              *)
(***************************************************************************)
\* StartRange, StartFullBody: the end flag of the key is replaced.
TakeStart ==
  /\ mailbox # <<>> /\ Head(mailbox).op = "start"
  /\ LET c == Head(mailbox)
     IN  /\ tasks' = tasks \cup
               {[id |-> c.id, gen |-> c.gen, lo |-> c.lo, hi |-> c.hi, pos |-> c.pos,
                 end |-> c.hi, full |-> c.full, attempt |-> c.attempt, state |-> "running"]}
         /\ flags' = [i \in DOMAIN flags \cup {c.id} |-> IF i = c.id THEN c.gen ELSE flags[i]]
  /\ mailbox' = Tail(mailbox)
  /\ UNCHANGED <<planVars, phase, reprobing, asked, ranges, gen, active, pumping, written, failures>>

Truncated(t, c) ==
  IF c.id \in DOMAIN flags /\ t.id = c.id /\ t.gen = flags[c.id] /\ t.state = "running"
  THEN [t EXCEPT !.end = c.hi] ELSE t

TakeTruncate ==
  /\ mailbox # <<>> /\ Head(mailbox).op = "truncate"
  /\ tasks' = {Truncated(t, Head(mailbox)) : t \in tasks}
  /\ mailbox' = Tail(mailbox)
  /\ UNCHANGED <<planVars, phase, reprobing, asked, ranges, gen, active, pumping, flags, written, failures>>

(***************************************************************************)
(* A task.  A ranged fetch looks at the end flag before every chunk; a     *)
(* full-body fetch never does.                                             *)
(***************************************************************************)
StopAt(t) == IF t.full THEN t.hi ELSE Lesser(t.end, t.hi)

WriteChunk(t) ==
  /\ t.state = "running" /\ t.pos < StopAt(t)
  /\ written' = written \cup {t.pos}
  /\ tasks' = (tasks \ {t}) \cup {[t EXCEPT !.pos = t.pos + 1]}
  /\ UNCHANGED <<planVars, phase, reprobing, asked, ranges, gen, active, pumping, mailbox, flags, failures>>

\* The task's own flag entry goes, or that of a later task with the same key.
FlagsWithout(id) == [i \in DOMAIN flags \ {id} |-> flags[i]]

\* The body ended, or the truncated end was reached: AssignmentVerified.
TaskFinishes(t) ==
  /\ t.state = "running" /\ t.pos >= StopAt(t)
  /\ tasks' = (tasks \ {t}) \cup {[t EXCEPT !.state = "verified"]}
  /\ flags' = FlagsWithout(t.id)
  /\ UNCHANGED <<planVars, phase, reprobing, asked, ranges, gen, active, pumping, mailbox, written, failures>>

\* A full body without Content-Length that the server cuts short looks complete.
BodyEndsEarly(t) ==
  /\ t.state = "running" /\ t.full /\ t.pos < t.hi /\ failures < MaxFailures
  /\ failures' = failures + 1
  /\ tasks' = (tasks \ {t}) \cup {[t EXCEPT !.state = "verified"]}
  /\ flags' = FlagsWithout(t.id)
  /\ UNCHANGED <<planVars, phase, reprobing, asked, ranges, gen, active, pumping, mailbox, written>>

\* context.run: a cancelled or failed job's fetches stop with Error::Cancelled.
TaskStops(t) ==
  /\ t.state = "running" /\ (asked \/ Gone)
  /\ tasks' = (tasks \ {t}) \cup {[t EXCEPT !.state = "stopped"]}
  /\ flags' = FlagsWithout(t.id)
  /\ UNCHANGED <<planVars, phase, reprobing, asked, ranges, gen, active, pumping, mailbox, written, failures>>

\* A status, an early end, a transport or destination error: AssignmentFailed.
TaskFails(t) ==
  /\ t.state = "running" /\ failures < MaxFailures
  /\ failures' = failures + 1
  /\ tasks' = (tasks \ {t}) \cup {[t EXCEPT !.state = "failed"]}
  /\ flags' = FlagsWithout(t.id)
  /\ UNCHANGED <<planVars, phase, reprobing, asked, ranges, gen, active, pumping, mailbox, written>>

-----------------------------------------------------------------------------
(***************************************************************************)
(* The control thread handles a report: the slot is released first.        *)
(***************************************************************************)
\* Mutant of Reported: the slot comes back only while the assignment is known.
ReportedIfKnown(t, states) ==
  /\ ~pumping
  /\ t.state \in states
  /\ tasks' = tasks \ {t}
  /\ active' = IF t.id \in Live THEN active - 1 ELSE active
  /\ UNCHANGED <<asked, mailbox, flags, written, failures>>

Reported(t, states) ==
  /\ ~pumping
  /\ t.state \in states
  /\ tasks' = tasks \ {t}
  /\ active' = active - 1
  /\ UNCHANGED <<asked, mailbox, flags, written, failures>>

Known(t) == ~Gone /\ t.id \in Live

\* Mutant of ReportedEnd: the whole range asked for is reported, truncated or not.
AskedEnd(t) == t.hi

\* verified_range: useful bytes count from fetch.range.start.
ReportedEnd(t) == Greater(t.lo, t.pos)

\* try_complete_drain: a draining job without assignments tells its waiter.
Drained(ph, live) ==
  IF live # {} THEN ph
  ELSE CASE ph = "failing" -> "failed" [] ph = "cancelling" -> "cancelled" [] OTHER -> ph

\* Completion is noticed whatever the phase, a running cancellation included.
HandleVerified(t) ==
  /\ Reported(t, {"verified"})
  /\ IF Known(t) THEN Verified(t.id, t.lo, ReportedEnd(t)) ELSE UNCHANGED planVars
  /\ phase' = IF ~Gone /\ IsComplete' THEN "committing" ELSE Drained(phase, Live')
  /\ pumping' = (phase' \in {"probing", "transferring", "committing"} /\ AdmitsWorker')
  /\ UNCHANGED <<reprobing, ranges, gen>>

\* RetrySameRange; begin_fail when the attempts are used up.
HandleRetry(t) ==
  /\ Reported(t, {"failed"})
  /\ LET inBudget == t.attempt + 1 <= MaxAttempts
         ph == IF inBudget \/ Gone \/ Draining THEN phase ELSE "failing"
     IN  /\ IF ~Known(t) THEN UNCHANGED planVars
            ELSE IF inBudget THEN RetryLater(t.id) ELSE Abandon(t.id)
         /\ phase' = Drained(ph, Live')
  /\ pumping' = TRUE
  /\ UNCHANGED <<reprobing, ranges, gen>>

\* Mutant of Abandoned: a draining job's plan is left alone.
AbandonedUnlessDraining(t) ==
  IF Known(t) /\ ~Draining THEN Abandon(t.id) ELSE UNCHANGED planVars

\* Every other disposition abandons the range first.
Abandoned(t) == IF Known(t) THEN Abandon(t.id) ELSE UNCHANGED planVars

\* BackOffOrigin, RangeCapabilityLost: the job goes on.
HandleBackOff(t, lost) ==
  /\ Reported(t, {"failed"})
  /\ Abandoned(t)
  /\ phase' = Drained(phase, Live')
  /\ ranges' = (ranges /\ ~lost)
  /\ pumping' = TRUE
  /\ UNCHANGED <<reprobing, gen>>

\* Fatal, InvalidateArtifact: unless that drained the job, it fails at once, its
\* other workers still running.
HandleFatal(t) ==
  /\ Reported(t, {"failed", "stopped"})
  /\ Abandoned(t)
  /\ phase' = IF Drained(phase, Live') = "cancelled" \/ Gone THEN Drained(phase, Live')
              ELSE "failed"
  /\ pumping' = TRUE
  /\ UNCHANGED <<reprobing, ranges, gen>>

\* The dispositions below change the job unless handling the failure ended it.
StillThere(t) == ~Gone /\ ~(Draining /\ Live \ {t.id} = {})

\* MaxPlans, with one plan kept for a probe that has not answered yet.
PlansLeft == gen + (IF reprobing THEN 1 ELSE 0) < MaxPlans

\* FullBodyForRangeRequest: a new plan with the verified ranges, one stream.
HandleFullBody(t) ==
  /\ Reported(t, {"failed"})
  /\ StillThere(t) /\ PlansLeft
  /\ Downgrade
  /\ ranges' = FALSE
  /\ gen' = gen + 1
  /\ pumping' = TRUE
  /\ UNCHANGED <<reprobing, phase>>

\* RecheckLength (416): back to probing, whatever the phase was.
HandleRecheck(t) ==
  /\ Reported(t, {"failed"})
  /\ StillThere(t) /\ gen < MaxPlans
  /\ Abandoned(t)
  /\ phase' = "probing"
  /\ reprobing' = TRUE
  /\ pumping' = TRUE
  /\ UNCHANGED <<ranges, gen>>

\* cancel_rx: the context is cancelled, then JobCancelled drains.
Cancel ==
  /\ ~pumping /\ ~asked /\ ~Gone
  /\ asked' = TRUE
  /\ phase' = Drained("cancelling", Live)
  /\ UNCHANGED <<planVars, reprobing, ranges, gen, active, pumping, mailbox, tasks, flags, written, failures>>

\* Probed: a new plan without the verified ranges; keys start over, and so does the
\* transfer, be the job committing or draining.
Probed(m, r) ==
  /\ ~pumping
  /\ reprobing /\ ~Gone
  /\ gen < MaxPlans
  /\ r \/ m = "stream"
  /\ Replan(m)
  /\ reprobing' = FALSE
  /\ ranges' = r
  /\ gen' = gen + 1
  /\ phase' = IF IsComplete' THEN "committing" ELSE "transferring"
  /\ pumping' = ~IsComplete'
  /\ UNCHANGED <<asked, active, mailbox, tasks, flags, written, failures>>

\* Mutant of RetryReady: the released bytes wait for somebody else's pump.
RetryReadyWithoutPump ==
  /\ ~pumping /\ ~Gone
  /\ ReleaseDue
  /\ UNCHANGED xferVars

\* The RetryReady timer of an elapsed backoff.
RetryReady ==
  /\ ~pumping /\ ~Gone
  /\ ReleaseDue
  /\ pumping' = TRUE
  /\ UNCHANGED <<phase, reprobing, asked, ranges, gen, active, mailbox, tasks, flags, written, failures>>

TimePasses(d) == BackoffElapses(d) /\ UNCHANGED xferVars

-----------------------------------------------------------------------------
\* The first probe has answered; a journal may vouch for part of the file.
TransferInit ==
  /\ Init /\ mode \in {"ranged", "stream"} /\ completed # Bytes
  /\ phase = "transferring" /\ asked = FALSE /\ reprobing = FALSE
  /\ ranges \in BOOLEAN /\ (mode = "ranged" => ranges)
  /\ gen = 1 /\ active = 0 /\ pumping = TRUE
  /\ mailbox = <<>> /\ tasks = {} /\ flags = [i \in {} |-> 0]
  /\ written = completed
  /\ failures = 0

Pump ==
  \/ \E id \in Ids : PumpClaim(id)
  \/ \E id, victim \in Ids, keep \in {0, Total}, told \in BOOLEAN : PumpSteal(id, victim, keep, told)
  \/ PumpEnds

Shard == TakeStart \/ TakeTruncate

Task == \E t \in tasks : WriteChunk(t) \/ TaskFinishes(t) \/ TaskStops(t)

Control ==
  \/ \E t \in tasks : HandleVerified(t)
  \/ \E t \in tasks : HandleRetry(t)
  \/ \E t \in tasks, lost \in BOOLEAN : HandleBackOff(t, lost)
  \/ \E t \in tasks : HandleFatal(t)
  \/ \E t \in tasks : HandleFullBody(t)
  \/ \E t \in tasks : HandleRecheck(t)
  \/ \E m \in {"ranged", "stream"}, r \in BOOLEAN : Probed(m, r)
  \/ RetryReady

TransferNext ==
  \/ Pump
  \/ Shard
  \/ Task
  \/ Control
  \/ \E t \in tasks : BodyEndsEarly(t)
  \/ \E t \in tasks : TaskFails(t)
  \/ Cancel
  \/ \E d \in deferred : TimePasses(d)

TransferSpec == TransferInit /\ [][TransferNext]_vars

(***************************************************************************)
(* The threads keep running, a connection delivers or fails, timers fire.  *)
(***************************************************************************)
Fairness ==
  /\ WF_vars(Pump) /\ WF_vars(Shard) /\ WF_vars(Task) /\ WF_vars(Control)
  /\ WF_vars(\E d \in deferred : TimePasses(d))

FairTransferSpec == TransferSpec /\ Fairness

-----------------------------------------------------------------------------
(***************************************************************************)
(* Properties.                                                             *)
(***************************************************************************)
\* The commands, tasks and counters of the data plane are well formed.
TransferTypeOK ==
  /\ TypeOK
  /\ phase \in Phases /\ gen \in 1 .. MaxPlans /\ active \in Nat
  /\ ranges \in BOOLEAN /\ pumping \in BOOLEAN /\ asked \in BOOLEAN /\ reprobing \in BOOLEAN
  /\ Len(mailbox) <= MailboxCap
  /\ written \subseteq Bytes
  /\ \A t \in tasks : t.pos \in 0 .. Total /\ t.lo \in 0 .. Total /\ t.hi \in 0 .. Total

\* A byte counts as verified only when a task wrote it: after steals whose
\* truncation came late, short responses and reports that meet the assignment of
\* a later plan (AssignmentVerified, on_response_verified).
CreditedIsWritten == completed \subseteq written

\* Every live claim has a command or a task behind it, whose report will end it
\* ("must roll back the corresponding claim rather than wait forever").
NoOrphanClaim == ~Gone => \A i \in Live : \E w \in Workers : w.id = i

\* active_assignment_count is the number of starts on their way, tasks and
\* unhandled reports: no slot leaks through a plan change or an early finish.
SlotsExact == active = Cardinality(Starts) + Cardinality(tasks)

\* Nobody is still to write when the artifact is published: "so no handle keeps
\* the `.part` open during the rename" (shard.rs, CommitDestination).
QuietCommit == phase = "committing" => Starts = {} /\ tasks = {}

\* As long as the job keeps its first plan, completion means that every worker
\* has reported: stolen tails, late truncations and retries leave none behind.
QuietFirstPlan == gen = 1 => QuietCommit

\* A cancelled job ends as cancelled: "The outcome resolves with `Error::Cancelled`
\* once in-flight writes have reached a terminal state" (job.rs, Job::cancel).
CancelIsReported == asked => phase # "failed"

\* A job whose workers fail only finitely often ends: it commits or it is over.
Ends == <>(phase \in {"committing", "cancelled", "failed"})
=============================================================================
