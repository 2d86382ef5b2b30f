------------------------------ MODULE Lifecycle ------------------------------
(***************************************************************************)
(* A job from submit to answer: the client's calls, the iterations of the  *)
(* control loop, admission, the destination lease, the lock file beside    *)
(* the .part, draining, the commit on a shard, and the shutdown of the     *)
(* engine.                                                                 *)
(*                                                                         *)
(* How a job is transferred is left to Connections and Transfer: here a    *)
(* job has some number of fetch tasks on the shards and, at some report, a *)
(* complete plan.  As Transfer shows, no task runs when the sole plan of a *)
(* job is complete.  A plan that was made again, or whose assignments a    *)
(* quarantine abandoned, may be complete while tasks run that it does not  *)
(* know.  A job with a shared destination has no path, no lock and a lease *)
(* nobody else asks for.                                                   *)
(***************************************************************************)
EXTENDS Naturals, FiniteSets, SequencesExt

CONSTANTS
  Jobs,       \* submissions, numbered in their order
  Dests,      \* destination paths
  MaxJobs,    \* EngineLimits::max_jobs
  MaxMail,    \* capacity of the command and the cancel mailbox
  MaxTasks,   \* bound: fetch tasks of a job at a time
  Busy        \* bound: jobs that are cancelled by their client, run more than one task, go
              \* back to an earlier phase, get a second plan, or a shared destination

ASSUME LifecycleAssumption ==
  /\ Jobs \cup Dests \subseteq Nat \ {0} /\ IsFiniteSet(Jobs)
  /\ {MaxJobs, MaxMail, MaxTasks} \subseteq Nat \ {0}
  /\ Busy \subseteq Jobs

VARIABLES
  job,     \* by submission: client, JobNode, JobState, tasks and commit
  dest,    \* by path: DestinationNode, lock file, other process
  mail,    \* command mailbox
  cancels, \* cancel mailbox
  loop     \* where the control loop is, and what has been stopped

vars == <<job, dest, mail, cancels, loop>>

None == 0
Shutdown == 0
Nodes == {"probing", "transferring", "draining", "committing"}

\* `node` is the controller's JobNode, `entry` the loop's JobState with its
\* reply channel, `lock` the lock file (its inode) a coordinator of the job holds.
\* `tasks` counts the fetch tasks the plan knows, `old` those it does not; `plans`
\* is "loose" once a second plan was made or a quarantine took tasks from the plan.
\* `early` is a DestinationCommitted under way that no finalize has sent.
JobRecord ==
  [client : {"idle", "submitted", "waiting", "refused"}, asked : BOOLEAN,
   dst : Dests \cup {None}, node : Nodes \cup {"none", "gone"},
   entry : BOOLEAN, ctx : {"active", "cancelled", "finished"},
   plans : {"none", "sole", "loose"}, tasks : 0 .. MaxTasks, old : 0 .. MaxTasks,
   commit : {"none", "sent", "unlocked", "renamed", "ok", "failed", "over"}, early : BOOLEAN,
   lock : Nat, answers : Seq({"ok", "error", "gone"})]

\* The fetch tasks of a job that have not reported.
Workers(r) == r.tasks + r.old

\* `file` is the lock file the path leads to; `slipped` records that somebody
\* opened the destination while a commit of it was under way.
DestRecord == [lease : Jobs \cup {None}, file : Nat, other : Nat, slipped : BOOLEAN]

-----------------------------------------------------------------------------
(***************************************************************************)
(* The lock file.                                                          *)
(***************************************************************************)
Committing(j) == job[j].commit \in {"sent", "unlocked", "renamed"}

\* A job works on its .part while a coordinator of it is open and while its
\* commit is under way.
OnPart(d) == {j \in Jobs : job[j].dst = d /\ (job[j].lock # None \/ Committing(j))}

Held(d) == {dest[d].other} \cup {job[j].lock : j \in {k \in Jobs : job[k].dst = d}}

\* Mutant of Inode: every coordinator makes a lock file of its own.
InodeOwn(d) == Min((1 .. Cardinality(Jobs) + 2) \ Held(d))

\* The inode that open_blocking finds, or creates.
Inode(d) ==
  IF dest[d].file # None THEN dest[d].file
  ELSE Min((1 .. Cardinality(Jobs) + 2) \ Held(d))

\* dest after open_blocking, whether it got the lock or not.
Opened(d) ==
  [dest EXCEPT ![d].file = Inode(d),
               ![d].slipped = @ \/ \E j \in Jobs : job[j].dst = d /\ Committing(j)]

-----------------------------------------------------------------------------
(***************************************************************************)
(* The end of a job.                                                       *)
(***************************************************************************)
\* JobContext::set_state: the first state that is set stays.
Cancelled(ctx) == IF ctx = "active" THEN "cancelled" ELSE ctx

\* Mutant of Answered: the tasks of the job are not told.
AnsweredUntold(r, outcome) ==
  IF ~r.entry THEN r
  ELSE [r EXCEPT !.entry = FALSE, !.answers = Append(@, outcome),
                 !.lock = IF r.commit = "none" THEN None ELSE @]

\* Mutant of Answered: the reply is sent without taking the entry out.
AnsweredInPlace(r, outcome) ==
  IF ~r.entry THEN r
  ELSE [r EXCEPT !.answers = Append(@, outcome), !.ctx = Cancelled(@)]

\* finish_job of the loop: answer, and drop the entry with its coordinator.
Answered(r, outcome) ==
  IF ~r.entry THEN r
  ELSE [r EXCEPT !.entry = FALSE, !.answers = Append(@, outcome),
                 !.ctx = IF outcome = "ok" /\ @ = "active" THEN "finished" ELSE Cancelled(@),
                 !.lock = IF r.commit = "none" THEN None ELSE @]

\* DiscardDestination drops the entry, and the reply channel with it.
Discarded(r) ==
  [r EXCEPT !.entry = FALSE, !.answers = Append(@, "gone"),
            !.ctx = Cancelled(@), !.lock = IF r.commit = "none" THEN None ELSE @]

\* finish_job of the controller: the node goes, with the plan that knew the tasks.
Gone(r, outcome) ==
  Answered([r EXCEPT !.node = "gone", !.tasks = 0, !.old = Workers(r)], outcome)

\* Mutant of LeaseFreed: only a job that was answered gives its lease back.
LeaseFreedIfAnswered(S) ==
  [d \in Dests |-> IF dest[d].lease \in {j \in S : job[j].commit = "none"}
                   THEN [dest[d] EXCEPT !.lease = None] ELSE dest[d]]

\* The lease goes with the node.
LeaseFreed(S) ==
  [d \in Dests |-> IF dest[d].lease \in S THEN [dest[d] EXCEPT !.lease = None] ELSE dest[d]]

Finished(j, r) ==
  /\ job' = [job EXCEPT ![j] = r]
  /\ dest' = IF r.node = "gone" THEN LeaseFreed({j}) ELSE dest

\* Mutant of Drained: off by one, it waits for the last task but one.
DrainedAtOne(r) == IF r.tasks = 1 THEN Gone(r, "error") ELSE r

\* try_complete_drain asks the plan the job has now.  Its outcome, cancelled or
\* failed, is an error here, like every other the code answers with.
Drained(r) == IF r.tasks = 0 THEN Gone(r, "error") ELSE r

\* begin_fail
Failing(r) ==
  IF r.node = "draining" THEN r ELSE Drained([r EXCEPT !.node = "draining"])

\* JobCancelled, whatever the job was doing.
CancelledJob(r) ==
  IF r.node \notin Nodes THEN r
  ELSE Drained([r EXCEPT !.node = "draining"])

-----------------------------------------------------------------------------
(***************************************************************************)
(* Clients.                                                                *)
(***************************************************************************)
Submit(j, d) ==
  /\ d = None => j \in Busy
  /\ job[j].client = "idle" /\ \A k \in Jobs : k < j => job[k].client # "idle"
  /\ IF loop.pc = "ended" \/ Len(mail) >= MaxMail
     THEN job' = [job EXCEPT ![j].client = "refused"] /\ UNCHANGED mail
     ELSE /\ job' = [job EXCEPT ![j].client = "submitted", ![j].dst = d]
          /\ mail' = Append(mail, j)
  /\ UNCHANGED <<dest, cancels, loop>>

\* Job::cancel asks once, whether the mailbox has room or not.
Cancel(j) ==
  /\ j \in Busy /\ job[j].client = "waiting" /\ ~job[j].asked /\ job[j].answers = <<>>
  /\ job' = [job EXCEPT ![j].asked = TRUE]
  /\ cancels' = IF Cardinality(cancels) < MaxMail /\ loop.pc # "ended" THEN cancels \cup {j} ELSE cancels
  /\ UNCHANGED <<dest, mail, loop>>

\* Engine::shutdown, or the drop of the last handle.
ShutdownCall ==
  /\ ~loop.called /\ Len(mail) < MaxMail
  /\ mail' = Append(mail, Shutdown)
  /\ loop' = [loop EXCEPT !.called = TRUE]
  /\ UNCHANGED <<job, dest, cancels>>

\* RunningState::join drops the runtime: tasks and commands that wait are lost,
\* a finalize that has begun runs to its end on a thread of its own.
ShardsStop ==
  /\ loop.called /\ loop.shards
  /\ loop' = [loop EXCEPT !.shards = FALSE]
  /\ job' = [j \in Jobs |->
       [job[j] EXCEPT !.tasks = 0, !.old = 0, !.lock = IF job[j].commit = "sent" THEN None ELSE @,
                      !.commit = IF @ = "sent" THEN "over" ELSE @]]
  /\ UNCHANGED <<dest, mail, cancels>>

\* Another process opens the destination while the engine runs, and is done with it.
\* Bound: not after somebody opened it during a commit.
OtherOpens(d) ==
  /\ loop.pc # "ended" /\ ~dest[d].slipped /\ dest[d].other = None /\ Inode(d) \notin Held(d)
  /\ dest' = [Opened(d) EXCEPT ![d].other = Inode(d)]
  /\ UNCHANGED <<job, mail, cancels, loop>>

OtherCloses(d) ==
  /\ dest[d].other # None
  /\ dest' = [dest EXCEPT ![d].other = None]
  /\ UNCHANGED <<job, mail, cancels, loop>>

-----------------------------------------------------------------------------
(***************************************************************************)
(* The control loop.                                                       *)
(***************************************************************************)
At(pc) == loop.pc = pc
Goto(pc) == loop' = [loop EXCEPT !.pc = pc]
Running == ~At("ended")

\* What admit_job and the limit say of job j.
Room(j) ==
  /\ Cardinality({k \in Jobs : job[k].node \in Nodes}) < MaxJobs
  /\ job[j].dst # None => dest[job[j].dst].lease = None

\* admit_command: the coordinator is opened before anything is asked.
Admit(j) ==
  LET d == job[j].dst
      free == d = None \/ Inode(d) \notin Held(d)
      taken == IF d = None THEN dest ELSE Opened(d)
  IN  IF free /\ Room(j)
      THEN /\ job' = [job EXCEPT ![j].client = "waiting", ![j].node = "probing", ![j].entry = TRUE,
                                 ![j].lock = IF d = None THEN None ELSE Inode(d)]
           /\ dest' = IF d = None THEN dest ELSE [taken EXCEPT ![d].lease = j]
      ELSE /\ job' = [job EXCEPT ![j].client = "refused"]
           /\ dest' = IF d = None THEN dest ELSE [dest EXCEPT ![d].file = Inode(d)]

TakeCommand ==
  /\ At("run") /\ mail # <<>>
  /\ mail' = Tail(mail)
  /\ IF Head(mail) = Shutdown
     THEN loop' = [loop EXCEPT !.stop = TRUE] /\ UNCHANGED <<job, dest>>
     ELSE Admit(Head(mail)) /\ UNCHANGED loop
  /\ UNCHANGED cancels

\* A shutdown was among the commands of an iteration: now that the mailbox is
\* empty it cancels every job the loop knows, and the iteration is the last.
StopJobs ==
  /\ At("run") /\ loop.stop /\ mail = <<>>
  /\ job' = [j \in Jobs |-> IF job[j].entry THEN CancelledJob(job[j]) ELSE job[j]]
  /\ dest' = LeaseFreed({j \in Jobs : job[j].node # "gone" /\ job'[j].node = "gone"})
  /\ Goto("last")
  /\ UNCHANGED <<mail, cancels>>

\* The rest of an iteration: cancellations, an observation and the timers.  The
\* model lets the last iteration take more of them than the loop does.
TakeCancel(j) ==
  /\ Running /\ j \in cancels
  /\ cancels' = cancels \ {j}
  /\ Finished(j, CancelledJob(IF job[j].entry THEN [job[j] EXCEPT !.ctx = Cancelled(@)] ELSE job[j]))
  /\ UNCHANGED <<mail, loop>>

Bound(j) == IF j \in Busy THEN MaxTasks ELSE 1

\* The controller has an assignment started.
StartTask(j) ==
  /\ Running /\ job[j].node = "transferring" /\ loop.shards /\ Workers(job[j]) < Bound(j)
  /\ job' = [job EXCEPT ![j].tasks = @ + 1]
  /\ UNCHANGED <<dest, mail, cancels, loop>>

\* CommitDestination, whatever the phase was.  The coordinator of a file goes to
\* the shard; if an earlier commit took it the loop answers itself, at once.
Committed(r, ok) ==
  [r EXCEPT !.node = "committing",
            !.commit = IF r.dst = None THEN (IF ok THEN "ok" ELSE "failed")
                       ELSE IF @ # "none" THEN @ ELSE IF loop.shards THEN "sent" ELSE "over",
            !.early = @ \/ (r.dst # None /\ r.commit \notin {"none", "ok", "failed"}),
            !.lock = IF r.commit = "none" /\ ~loop.shards THEN None ELSE @]

Commits(r) == {Committed(r, ok) : ok \in {loop.shards, FALSE}}

\* A new plan, which does not know the tasks of the one it replaces.
Replanned(r) == [r EXCEPT !.old = @ + r.tasks, !.tasks = 0, !.plans = "loose"]

\* The record of a job one of whose tasks has reported: one that the plan knows,
\* by its key at least, or one that it does not.
Reported(r) ==
  (IF r.tasks = 0 THEN {} ELSE {[r EXCEPT !.tasks = @ - 1]}) \cup
  (IF r.old = 0 THEN {} ELSE {[r EXCEPT !.old = @ - 1]})

Settled(r) == IF r.node = "draining" THEN Drained(r) ELSE r

\* What the report of a task can lead to: the plan is complete, or the drain, or
\* the job goes on, begins to fail, fails at once, has its artifact invalidated,
\* gets a plan for a single stream, or is probed again.  None asks whether the
\* job commits already.
Outcome(r) ==
  LET s == Settled(r)
  IN  IF r.node \notin Nodes THEN {r}
      ELSE (IF r.tasks = 0 \/ r.plans = "loose" THEN Commits(r) ELSE {})
           \cup (IF s.node = "gone" THEN {s}
                 ELSE {s, Failing(s), Gone(s, "error"), Gone(Discarded(s), "error"),
                       Replanned(s), [s EXCEPT !.node = "probing"]})

\* The bound: r is no second plan of job j and no way back, unless j may have them.
Within(j, r) ==
  \/ j \in Busy
  \/ /\ r.plans # "loose"
     /\ r.node \in {"probing", "transferring"} => job[j].node \in {"probing", r.node}

Report(j) ==
  /\ Running /\ UNCHANGED <<mail, cancels, loop>>
  /\ \E r \in Reported(job[j]) : \E r2 \in Outcome(r) : Within(j, r2) /\ Finished(j, r2)

\* n of the plan's assignments are abandoned; their tasks run until they notice.
Abandoned(r, n) ==
  IF n = 0 THEN r ELSE [r EXCEPT !.tasks = @ - n, !.old = @ + n, !.plans = "loose"]

\* The report is of bytes that do not agree: the source is quarantined with the
\* assignments on its connection, of whichever job (if there are none, the outcome
\* is one of Report's).  The job goes on, or to its next source, or has none.
Quarantine(j) ==
  /\ Running /\ job[j].node \in Nodes
  /\ \E r \in Reported(job[j]), n \in [Jobs -> 0 .. MaxTasks] :
       LET s == Settled(r)
           q == Abandoned(s, n[j])
       IN  /\ s.node # "gone" /\ n[j] <= r.tasks /\ \E k \in Jobs : n[k] > 0
           /\ \A k \in Jobs \ {j} : n[k] > 0 => n[k] <= job[k].tasks /\ job[k].node \in Nodes /\ k \in Busy
           /\ \E r2 \in {q, [q EXCEPT !.node = "probing"], Gone(q, "error")} :
                /\ Within(j, r2)
                /\ job' = [k \in Jobs |-> IF k = j THEN r2 ELSE Abandoned(job[k], n[k])]
                /\ dest' = IF r2.node = "gone" THEN LeaseFreed({j}) ELSE dest
  /\ UNCHANGED <<mail, cancels, loop>>

\* A probe is answered: a new plan, whatever the phase was, that may be complete.
Probed(j) ==
  /\ Running /\ job[j].node \in Nodes
  /\ LET p == IF job[j].plans = "none" THEN [job[j] EXCEPT !.plans = "sole"] ELSE Replanned(job[j])
     IN  \E r \in {[p EXCEPT !.node = "transferring"]} \cup Commits(p) : Within(j, r) /\ Finished(j, r)
  /\ UNCHANGED <<mail, cancels, loop>>

\* What else comes in for a job: a refresh, a redirect or a failover has it probed
\* again, whatever its phase was; a dial that fails makes it fail.
Probing(j) ==
  /\ Running /\ job[j].node \in Nodes
  /\ \E r \in {[job[j] EXCEPT !.node = "probing"], Failing(job[j])} :
       Within(j, r) /\ Finished(j, r)
  /\ UNCHANGED <<mail, cancels, loop>>

\* DestinationCommitted and DestinationFailed, in the order they were sent.
CommitReported(j) ==
  /\ Running
  /\ job[j].early \/ job[j].commit \in {"ok", "failed"}
  /\ LET e == job[j].early
         r == [job[j] EXCEPT !.early = FALSE, !.commit = IF e THEN @ ELSE "over"]
     IN  Finished(j, IF r.node \notin Nodes THEN r
                     ELSE Gone(r, IF e \/ job[j].commit = "ok" THEN "ok" ELSE "error"))
  /\ UNCHANGED <<mail, cancels, loop>>

\* Mutant of JobDeadline: the job gets a phase that no handler knows.
JobDeadlineDrains(j) ==
  /\ Running /\ job[j].node \in Nodes
  /\ Finished(j, [job[j] EXCEPT !.node = "expired"])
  /\ UNCHANGED <<mail, cancels, loop>>

\* The job's deadline, or the end of it by a refresh, a redirect or a resolution that
\* cannot go on: finish_job, whatever the phase.
JobDeadline(j) ==
  /\ Running /\ job[j].node \in Nodes
  /\ Finished(j, Gone(job[j], "error"))
  /\ UNCHANGED <<mail, cancels, loop>>

\* Mutant of Exit: the loop ends without answering the jobs it still has.
ExitSilently ==
  /\ At("last")
  /\ Goto("ended")
  /\ UNCHANGED <<job, dest, mail, cancels>>

\* The drain after the loop.
Exit ==
  /\ At("last")
  /\ job' = [j \in Jobs |-> Answered(job[j], "gone")]
  /\ Goto("ended")
  /\ UNCHANGED <<dest, mail, cancels>>

-----------------------------------------------------------------------------
(***************************************************************************)
(* The commit of a file destination, on a shard.                           *)
(***************************************************************************)
\* FileDestinationCoordinator::finalize drops the lock first of all.
Unlock(j) ==
  /\ job[j].commit = "sent"
  /\ job' = [job EXCEPT ![j].commit = "unlocked", ![j].lock = None]
  /\ UNCHANGED <<dest, mail, cancels, loop>>

\* Length, digest and rename, of which any can fail.
Rename(j) ==
  /\ job[j].commit = "unlocked"
  /\ \E c \in {"renamed", "failed"} : job' = [job EXCEPT ![j].commit = c]
  /\ UNCHANGED <<dest, mail, cancels, loop>>

\* The lock file goes last.
RemoveLock(j) ==
  /\ job[j].commit = "renamed"
  /\ job' = [job EXCEPT ![j].commit = "ok"]
  /\ dest' = [dest EXCEPT ![job[j].dst].file = None]
  /\ UNCHANGED <<mail, cancels, loop>>

-----------------------------------------------------------------------------
Init ==
  /\ job = [j \in Jobs |->
       [client |-> "idle", asked |-> FALSE, dst |-> None, node |-> "none",
        entry |-> FALSE, ctx |-> "active", plans |-> "none", tasks |-> 0, old |-> 0,
        commit |-> "none", early |-> FALSE, lock |-> None, answers |-> <<>>]]
  /\ dest = [d \in Dests |-> [lease |-> None, file |-> None, other |-> None, slipped |-> FALSE]]
  /\ mail = <<>> /\ cancels = {}
  /\ loop = [pc |-> "run", stop |-> FALSE, called |-> FALSE, shards |-> TRUE]

Clients ==
  \/ \E j \in Jobs : (\E d \in Dests \cup {None} : Submit(j, d)) \/ Cancel(j)
  \/ ShutdownCall
Others == \E d \in Dests : OtherOpens(d) \/ OtherCloses(d)
Control ==
  \/ TakeCommand \/ StopJobs \/ Exit
  \/ \E j \in Jobs : TakeCancel(j) \/ StartTask(j) \/ Report(j) \/ Quarantine(j) \/ Probed(j)
                     \/ Probing(j) \/ CommitReported(j) \/ JobDeadline(j)
Shards == ShardsStop \/ \E j \in Jobs : Unlock(j) \/ Rename(j) \/ RemoveLock(j)

Next == Clients \/ Others \/ Control \/ Shards

\* The loop runs, and shutdown goes on to drop the runtime.  Of what is under way for
\* a job (a task, which ends by its timeouts at the latest, a report, a finalize)
\* something goes on.
Fairness ==
  /\ WF_vars(TakeCommand \/ StopJobs \/ Exit) /\ WF_vars(ShardsStop)
  /\ \A j \in Jobs : WF_vars(Unlock(j) \/ Rename(j) \/ RemoveLock(j) \/ CommitReported(j) \/ Report(j))

Spec == Init /\ [][Next]_vars /\ Fairness

-----------------------------------------------------------------------------
(* Type invariant. *)
LifecycleTypeOK ==
  /\ job \in [Jobs -> JobRecord] /\ dest \in [Dests -> DestRecord]
  /\ mail \in Seq(Jobs \cup {Shutdown}) /\ cancels \subseteq Jobs

(* The lease table, the controller's jobs, the loop's entries and the lock     *)
(* files agree: a destination is leased to the one live job that has it, a      *)
(* live job has an entry to answer, an entry has a live job that will, and a    *)
(* lock is held only for an entry or a commit.  A lease, a waiter or a lock     *)
(* that outlives its job would never be freed.                                  *)
Accounted ==
  /\ \A d \in Dests, j \in Jobs : dest[d].lease = j <=> job[j].node \in Nodes /\ job[j].dst = d
  /\ \A j \in Jobs : ~At("ended") => (job[j].entry <=> job[j].node \in Nodes)
  /\ \A j \in Jobs : job[j].lock # None => job[j].entry \/ job[j].commit = "sent"

(* A waiter is answered once, by the end of its job, by the discard of its      *)
(* destination or by the drain of a shutdown: the channel has room for one, and *)
(* the control thread would block on a second.                                  *)
AnsweredOnce == \A j \in Jobs : Len(job[j].answers) <= 1

(* A task that still runs when its job is gone, and its destination free for    *)
(* the next one, has been told to stop.  The exception is a job that succeeds   *)
(* after its plan was made again or a quarantine abandoned assignments of it:    *)
(* finish_job leaves the tasks that plan does not know with a finished context.  *)
StaleTasksStopped ==
  \A j \in Jobs :
    job[j].node = "gone" /\ Workers(job[j]) > 0 =>
      job[j].ctx = "cancelled" \/ (job[j].plans = "loose" /\ job[j].answers = <<"ok">>)

\* Two jobs, or a job and another process, at work on one .part.
Crowded(d) ==
  Cardinality(OnPart(d)) + (IF dest[d].other = None THEN 0 ELSE 1) > 1

(* Failed, cancelled, expired and refused jobs never leave a .part to two        *)
(* coordinators: that takes an open between the first and the last step of a      *)
(* finalize, which gives its lock up before it renames.                           *)
ExclusiveOutsideCommit == \A d \in Dests : Crowded(d) => dest[d].slipped

(* A job that drains or commits is answered, whatever is cancelled, expires or    *)
(* is shut down meanwhile, unless a late probe answer, refresh or recheck takes    *)
(* it back to an earlier phase: none of those handlers looks at the phase.         *)
DrainAnswers ==
  \A j \in Jobs : job[j].node \in {"draining", "committing"} ~>
    job[j].answers # <<>> \/ job[j].node \in {"probing", "transferring"}

(* A shutdown ends the control loop with every waiter answered, however many       *)
(* tasks and commits are under way.                                                *)
ShutdownAnswers ==
  loop.called ~> At("ended") /\ \A j \in Jobs : job[j].client = "waiting" => job[j].answers # <<>>

=============================================================================
