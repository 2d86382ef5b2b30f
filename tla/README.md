# xde in TLA+

xde is a segmented, resumable downloader. This directory models its core: who
may write which byte of an artifact, how claims travel to the threads that
fetch them and back, how jobs find and share connections and mirrors, how a
job gets its answer, where its bytes wait, and what survives a crash. The source
is `src/crates/xde/src`; paths below are relative to it.

## 1. The system

One control thread owns all decisions, shard threads do all network and file
work, and they talk through channels.

| component | source | state | operations |
|---|---|---|---|
| engine API | `engine.rs`, `job.rs`, `progress.rs` | handles, watch channels | submit, cancel, wait, snapshot, shutdown |
| control loop | `control.rs` | jobs' waiters, journals, timers | admit, cancel, route the controller's actions, record progress, checkpoint |
| controller | `core/controller.rs`, `core/world.rs` | jobs, sources, origins, connections, counters | one handler per observation; pump; scale; adapt |
| segment plan | `core/segment.rs` | completed, claimed, assignments, deferrals | claim, steal, verify, abandon, defer, release |
| range set | `core/ranges.rs` | sorted disjoint ranges and a byte count | insert, remove, gap and prefix queries |
| shard | `shard.rs` | connection pools, open lanes, end flags | open, probe, fetch a range or a body, sample, truncate, commit |
| fetch | `http/fetch.rs`, `http/probe.rs` | one response | validate identity, deliver chunks, report |
| journal | `storage/journal.rs` | completed and durable ranges, fingerprint | record, mark durable, persist, load |
| file destination | `storage/lane.rs` | `.part`, lock file, final path | open, write, sync, finalize |
| backpressure | `storage/transfer.rs`, `storage/capacity.rs` | memory budget, destination credits | acquire, release |
| sequential destination | `storage/reorder.rs` | next offset, pending chunks | accept, drain |
| adaptive control | `core/controller.rs`, `core/ewma.rs`, `core/profile.rs` | experiments, rates | tick, evaluate, revert |
| mirrors | `core/provenance.rs`, `core/controller.rs`, `shard.rs` | who wrote what; active, probing, sampled, failed sources | mix, probe, sample, compare, quarantine, fail over |

The controller is a pure function: an observation goes in, actions come out.
The control loop turns actions into `try_send`s on bounded mailboxes. A shard
runs one task per assignment and sends one observation per task. Cancellation
reaches tasks through a shared context, steals through a shared end flag.

What is hard here: a steal races the victim's writes; keys restart when a plan
is replaced, while the old plan's tasks live on; a dial, a probe or a sample is
answered after the job has moved on; a cancellation meets completion; a task is
dropped at an await while it holds memory, credits or a lock; two sources write
the same bytes at once; and a crash can fall between a write, its sync, its
journal entry, the rename and the journal's removal. `PROJECT.json` lists each
of these at its line, under "hazards".

What makes each component correct:

* range set: it is a set of bytes, and the queries are about that set;
* segment plan: one owner per byte, no byte lost, verified bytes stay verified;
* data plane: a verified byte was written, claims and slots do not leak, a job
  ends, and it ends the way the caller was promised;
* connections: counters are exact, nobody's connection is taken away under a
  running request, a waiting job always has something under way;
* mirrors: sources that disagree are found out, the books about them are right;
* lifecycle: one answer per waiter, leases and locks end with their job;
* backpressure: what is taken is given back, the sink is fed in order, no wake-up is
  lost;
* resume: the journal is true after a crash, and what is published is whole and
  from one version.

## 2. Modules

| module | models | composes |
|---|---|---|
| `ByteSet` | what a range set promises (abstract) | |
| `RangeSet` | `core/ranges.rs` | implements `ByteSet` |
| `SegmentPlan` | `core/segment.rs`, called as the controller calls it | uses sets of bytes, justified by `RangeSet` |
| `RangeSetProofs`, `SegmentPlanProofs`, `TransferProofs`, `ConnectionsProofs`, `MirrorsProofs`, `LifecycleProofs`, `BackpressureProofs`, `ResumeProofs` | theorems about the module they are named after (section 4) | |
| `Transfer` | pump, mailbox, shard, tasks, reports | `SegmentPlan` |
| `Connections` | lookups, dials, races, probes, redirects, cooldowns, trials | plans reduced to counts of pieces |
| `Mirrors` | a job with several sources: probes, samples, provenance, quarantine, failover | one connection per source |
| `Lifecycle` | submit, admission, leases, lock files, commit, cancel, shutdown | transfers reduced to counts of tasks |
| `Backpressure` | memory budget, credits, reorder buffer under concurrent tasks | |
| `Resume` | journal, `.part`, probe, crashes | |

**RangeSet.** The vector of `<<start, end>>` pairs and the cached count.
`InsertRange` and `RemoveRange` are `insert` and `remove`, with the same two
partition points and the same splice. The queries are operators on the vector.
`ImplementsByteSet` is the refinement: under the mapping "bytes denoted by the
vector" each call is the abstract call with the same argument. The other
modules therefore use plain sets of bytes.

**SegmentPlan.** `mode` stands for `total` and `single_stream`; `completed`,
`claimed`, `asg` and `deferred` are the plan's fields. An action is what one
controller handler does to the plan, so `RetryLater` is `abandon` and `defer`
together. Rates are inputs: the piece size, the victim and the share it keeps
take every value. Instants are reduced to whether a backoff is over. The cursor
fields and `rebalance_stragglers` are left out, because nothing outside the
tests calls `on_wire_received`, `on_submitted` or `on_destination_committed`:
the cursor stays at the start of the range and no rate ever becomes warm.

**Transfer.** Extends `SegmentPlan` with the mailbox, the shard's end flags, the
running tasks, the slot counter and the job's phase. The control thread is
either inside `pump` (`pumping`) or free to handle one report, probe answer,
timer or cancellation. A task writes a byte per step and re-reads its end flag
before each one. A task carries `gen`, the plan that started it, which the
program does not know: this is how the model tells a stale report from a fresh
one with the same key. Dispositions: `HandleRetry` (RetrySameRange),
`HandleBackOff` (BackOffOrigin, RangeCapabilityLost), `HandleFatal` (Fatal,
InvalidateArtifact), `HandleFullBody`, `HandleRecheck`.

**Connections.** `job`, `site` and `conns` are the JobNode, OriginNode and
ConnectionNode tables with the timers and resolver requests that name them;
`probes` and `work` are what shards are doing. A handler takes its first step
and leaves the rest (`ensure_probes`, `scale_connections`, `pump`, a failure) in
`agenda`, which is emptied before anything else happens: so a loop inside a
handler is a cycle of the model. `intent` is kept as the code keeps it, also
after the probe it names is done. The adaptive loop opens a trial connection,
judges it with any verdict and reverts it. Races are the staggered second dial
and the HTTP/3 fallback.

**Mirrors.** `env` fixes which sources can be reached, which one is wrong and
from which piece on, and whether connections are multiplexed. `active`,
`probing`, `sampling` and `failed` are the JobNode's lists, `home` the source of
`j.origin`, `tagged` the connections with a `serving_source`. A request has three
steps per piece, as in `LaneSink::accept`: compare with what another source wrote
(`foreign_spans`, `read_back`), write, record. `first`, `blind`, `doubled`,
`stranded` and `dropped` are history variables that only the properties read.
`RebalanceTick` is the mixing part of the tick; `Quarantine` and `ActivateNext` are the
failover. A source has one connection here, so `ActivateNext` gives up an older one
where the code would keep both; with two sources there never is one.

**Lifecycle.** For each submission: the client, the controller's node, the
loop's entry with its reply channel, the commit on the shards, the lock its
coordinator holds, and two counts of running tasks: those the plan knows (`tasks`),
which a drain waits for, and those it does not (`old`), left by a plan that was made
again (`FullBodyForRangeRequest`, a second `Probed`) or by a quarantine. A report leads to
any of its dispositions (`Outcome`); it commits when the plan is complete, whoever
else runs, and nobody looks at the phase. For each path: the lease, the lock file (as an
inode: `finalize` removes it and another open creates a new one) and another
process. The control loop is a program counter: `TakeCommand`, `StopJobs`,
`TakeCancel`, one report, `Exit`. `finalize` is three steps: it gives up its
lock, renames, and removes the lock file.

**Backpressure.** Each task is a program counter over the awaits of
`deliver_range_bytes` and `SharedSink::accept`: memory (take, else register,
look again, sleep), one operation token, byte units one at a time, the adapter's
mutex, room in the buffer, the drain loop, the sink. `Abandon` drops a cancelled
task at whichever await it is and returns exactly what Rust's destructors
return; a task dropped while it waits for byte units has no guard yet, and keeps its
credits for good (`dropped`). Other jobs borrow memory (`Lend`, `Repay`), and a response may end early
(`Cut`). The doubled overlap of `Start` is the code's: `wire_range` and
`fetch_range` both take it off.

**Resume.** One artifact over several runs. `cache` is the `.part` as programs
see it, `stable` what a power cut leaves for certain, `disk` the journal file,
`mem` the journal in memory. `persist_blocking` writes a temporary file, syncs
it and renames it, so a journal write is one step. A power cut keeps any subset
of the unsynced pieces and any length that holds them. The scheduling of pieces
is free here, because `Transfer` covers it.

## 3. Runs

| run | checks | result |
|---|---|---|
| `range_set` | all ranges within 8 bytes, every sequence of calls: `Normalized`, `QueriesExact`, `ImplementsByteSet` | holds |
| `segment_plan` | 5 bytes, 3 keys, alignment 2, overlap 1, 2 attempts: `DisjointOwners`, `ClaimAccounting`, `OneStream`, `CompletedGrows`, `OnlyTailIsStolen` | holds |
| `transfer` | 3 bytes, 2 keys, 2 streams, 2 failures, 2 plans: `CreditedIsWritten`, `NoOrphanClaim`, `SlotsExact`, `QuietFirstPlan`, `Ends` | holds |
| `connections` | 2 jobs, 2 origins, 6 connection keys, 2 pieces, HTTP/3 at one origin, 2 upsets: `LoadExact`, `NoAbort`, `EndsOrStranded` | holds |
| `mirrors` | 2 sources, 3 pieces, 2 requests at a time, 1 fault, every choice of reachable and wrong sources, HTTP/1 and multiplexed: `AgreeUnlessBlind`, `Bookkept`, `EndsOrRound` | holds |
| `lifecycle` | 2 jobs for 1 destination, 2 tasks and several plans of the first, another process: `Accounted`, `AnsweredOnce`, `StaleTasksStopped`, `ExclusiveOutsideCommit`, `DrainAnswers`, `ShutdownAnswers` | holds |
| `backpressure` | 2 tasks, pieces of 3 bytes, overlap 1, frames of 1 or 2, 2 operations, 2 units, buffer of 2: `MemoryExact`, `CreditsExact`, `InOrderAndKept`, `EndsOrStuck` | holds |
| `resume` | 2 pieces, 2 versions, 2 interruptions, 1 second probe, periodic and crash-safe, strong and weak validators: `CrashSafeSurvives`, `PublishedWhole`, `PublishedUniform`, `Publishes` | holds |
| `handler_returns` | 2 jobs, 1 origin, nothing fails: `HandlerReturns` | violated |
| `segmented_still_works` | a buffer and a budget with room for everything: `SegmentedStillWorks` | violated |
| `cancel_is_reported` | `CancelIsReported` | violated |
| `periodic_survives` | `PeriodicSurvives` | violated |

Every passing run but `range_set` has a type invariant as well.

The violated ones state what a comment of the code promises; `PROJECT.json`
quotes each comment under "findings". In short:

* *handler_returns*: with two jobs waiting for a probe and one idle connection,
  `ensure_probes` moves that connection's intent back and forth for ever: each
  turn makes the other job a waiting one again.
* *segmented_still_works*: the overlap of a piece is buffered ahead of the
  frontier; a chunk with other boundaries that is pushed before it moves
  `next_offset` past its start, and the drain loop stops at it for good. All
  tasks succeed and the sink has a prefix.
* *cancel_is_reported*: with two workers, the first one's `Fatal(cancelled)`
  report finishes the job as a failure, because the drain is not complete yet.
* *periodic_survives*: the periodic checkpoint syncs the journal only.

**Exceptions a property names.** Some properties hold only outside states that
the code can get into. Each such state is a definition of its own, so that what
remains is a statement about everything else:

* `EndsOrStranded` (`Connections`) assumes `HandlerReturns` and excepts `Hidden`
  (a job must be probed again, but a ready connection still carries the intent
  of its first probe, so `job_has_inflight_probe` says one is under way) and
  `Dry` (the last connection is lost in a cooldown, or its replacement fails
  TLS, and no report or retry is ahead that would dial again).
* `EndsOrRound` (`Mirrors`) excepts a job that is again and again at an
  unreachable source: a source whose dial failed is in no list, so it is unused
  again once the next one is tried, and each failover resets
  `resolve_attempts`; a resolution that succeeds resets it too. With sources A,
  B, C of which A and B are down, C is never tried. It excepts `Dry` as above.
* `AgreeUnlessBlind` (`Mirrors`) excepts `blind` pieces: compare, write and
  record are separate steps, and nothing is compared before two writers are
  recorded, so the first chunks of a second source go unchecked; and a request
  over the connection of another source than the one recorded.
* `Bookkept` (`Mirrors`) has three parts, each with an exception.
  `FailedStaysOut` is about every claim that `pump` can make. The code promises "Never
  claim work from these again this run" (`world.rs:134`). It keeps that for the source
  a claim is booked on. It does not keep it for the connection: a quarantine leaves
  `j.origin` and, if it is multiplexed, its connection in place, and `is_runnable` goes by
  origins, so the job's own connection goes on taking work, in the name of a mirror.
  Apart from that, only a source in `Readmitted` is claimed from though it failed: one
  to which two questions were open together (`doubled`: `Probed` sends a sample without
  marking `sampling_sources`, so the next tick sends another), or, after that, the job's
  own, because the late answer of such a mirror is taken for the job's own probe.
  `CandidateUnderWay` excepts a candidate whose lookup or dial was answered while the job
  failed over (`stranded`): that needs two active sources quarantined, a third being
  probed and a fourth to fail over to. `LoadExact` lets a counter be too low by as many
  requests as a quarantine has abandoned on that connection (`dropped`): each is taken off
  then and again when it reports, and the difference stays.
* `StaleTasksStopped` (`Lifecycle`) excepts a job that is answered Ok after its plan was
  made again, or after a quarantine abandoned assignments of it. The new plan can be
  complete while the workers it does not know still write
  (`controller.rs:1525`); `finish_job` then finishes the context instead of cancelling
  it, which tells them nothing.
* `DrainAnswers` (`Lifecycle`) excepts a draining or committing job that a late probe
  answer, a refresh or a recheck takes back to an earlier phase.
* `ExclusiveOutsideCommit` (`Lifecycle`) excepts a destination that somebody
  opened while `finalize`, which drops its lock before the rename, was under way.
* `EndsOrStuck` (`Backpressure`) excepts a state in which each task that is left sleeps
  for something that is not there and no memory of other jobs is to come (`Halted`), for
  one of two reasons. `Stuck` is the state behind *segmented_still_works*. In `Starved`
  some task lacks memory, a token or byte units, and a task that waits has some: it
  waits for room in the buffer while the one at the frontier lacks what it holds, or two
  tasks have half of the byte units each. A task that is merely on its way is neither, so
  a lost wake-up is seen.
* `CreditsExact` (`Backpressure`) counts the credits of `dropped` tasks as taken. The
  comment in `capacity.rs` says that "error and cancel paths cannot strand credits": a
  task cancelled between its operation token and its last byte unit does. With `Ops` chunks
  of the largest size within `ByteUnits` nobody waits there and none is lost
  (`NoStrandedCredits`; the engine's 64 operations and 2048 units are in that
  proportion for chunks of up to 32 units). The run has fewer units, so that it happens.
* `QuietFirstPlan` (`Transfer`): with a second plan (a downgrade to one stream)
  the old workers write on and the new plan can commit before they stop.
* `NoOrphanClaim` and `SlotsExact` (`Transfer`): the mailbox has room for two
  commands per stream (`Roomy`, section 4). With less, the `DispatchFailed` of a
  dropped start names no job, assignment or connection, its claim stays taken and
  its slot is never released: with two streams a mailbox of 2 is too small.
* `CrashSafeSurvives`, `PublishedWhole` and `PublishedUniform` (`Resume`) assume a
  server that names its versions (`Named`: an ETag or Last-Modified). Without
  either, the evidence of a run agrees with every probe
  (`controller.rs:1256`), so a journal left behind by a kill between the rename
  and its removal (`lane.rs:233`) is not reset: the next run starts a fresh one in
  memory only (`control.rs:607`), and if it is killed after its first write, a
  third run trusts the stale one. `PublishedWhole` still holds with
  `verify_on_resume`, the default; with it off, a file with a hole is published.
* `PublishedUniform` (`Resume`): a second probe in one run relabels the journal
  and keeps its ranges (`control.rs:1311`); what is published from it is excepted,
  as is what a power cut leaves to a periodic journal (*periodic_survives*).

**Bounds.** Five bytes with a minimum piece of 2 and of 1 in the tail let a
claim be split, stolen and stolen from again, an end fall between two alignment
boundaries, and gaps, verified bytes and backoffs lie next to each other. Three
bytes and two keys are enough in `Transfer` for a steal, a late truncation and a
key shared by two plans; `MaxFailures` and `MaxPlans` bound failures and plan
changes. In `Connections` two jobs can want one connection, two origins allow a
redirect and a return, six keys are never all in use, and two upsets let a
failure hit the recovery from one; a second job counts as one. In `Mirrors` two
sources, three pieces and an overlap of one piece let both sources write every
piece, in both orders; one fault is any failure of a source that is up. In
`Lifecycle` the second job arrives while the first one runs, drains, commits or
is gone; only the first (`Busy`) is cancelled by its client, has two tasks, a second plan, a
way back to an earlier phase or a shared destination, and another process does not open a
destination again once somebody opened it during a commit. In `Backpressure` memory and
byte units are scarce on purpose: `MemLimit` is one less than
`MaxBuffered + |Tasks| * MaxFrame`, so that the buffer and those who wait for room can
lock out the frontier, since the engine's reserve is 0, and two tasks can have one of the
two byte units each. Two pieces and two versions are the least that can be mixed; two
interruptions let a crash hit the recovery from a crash. `EOF` is any number
above `Total`. The largest runs have some 640,000 (`mirrors`), 310,000
(`lifecycle`), 300,000 (`backpressure`) and 290,000 (`connections`) states.

**Fairness.** Always weak, and never of a failure, a cancellation, a client's
call or a change outside. `Transfer`: the pump, the shard, the tasks, the control
thread and the passing of time: threads that loop on channels, a response that
delivers or fails (requests have deadlines), timers that fire; that connections
come up and probes are answered is assumed there and is the subject of
`Connections`. `Connections`: the rest of a handler, the answers of resolver,
dials, probes and requests, which all have deadlines, and timers. `Mirrors`: the
same, with ticks and samples. `Lifecycle`: the commands and the end of the
control loop, the end of `shutdown` once it was called, and that of the tasks, the reports
and the `finalize` of a job one goes on (each is a thread or a request with a deadline);
nothing says which, so a job may report without end as long as it starts tasks.
`Backpressure`: each task's next step, its being dropped once the job is cancelled,
and the return of memory by other jobs. `Resume`: the steps of a run, a new run
included (somebody restarts the download); none for crashes, second probes or
checkpoints. Deadlock checking is off in these six: a job that has ended takes no
step. `RangeSet` and `SegmentPlan` check it.

## 4. Proofs

Each theorem holds for every value of the constants that the module's assumption
allows: naturals, at least one of what there must be one of, finitely many keys,
jobs and tasks. Nothing else is assumed, except `Roomy` and `Ample` where they are named.

| module | inductive invariant | theorems | property of the runs |
|---|---|---|---|
| `RangeSetProofs` | `RangeInv` | `RangeInvariant`, `AlwaysNormalized` | `Normalized` |
| | | `QueriesAgree`, `RefinesByteSet` | `QueriesExact`, `ImplementsByteSet` |
| `SegmentPlanProofs` | `PlanInv` | `PlanInvariant`, `PlanTypeOK` | `TypeOK` |
| | | `NoSharedBytes`, `ExactClaims`, `AtMostOneStream` | `DisjointOwners`, `ClaimAccounting`, `OneStream` |
| | | `VerifiedBytesStay`, `TailOnly` | `CompletedGrows`, `OnlyTailIsStolen` |
| `TransferProofs` | `TransferInv` | `TransferInvariant`, `TransferType` | `TransferTypeOK` |
| | | `VerifiedWereWritten`, `FirstPlanCommitsQuietly` | `CreditedIsWritten`, `QuietFirstPlan` |
| | with `Roomy` | `SlotsNeverLeak`, `ClaimsAreServed` | `SlotsExact`, `NoOrphanClaim` |
| `ConnectionsProofs` | `ConnectionsInv` | `ConnectionsInvariant`, `ConnectionsType` | `ConnectionsTypeOK` |
| | | `LoadIsExact`, `NothingAborted` | `LoadExact`, `NoAbort` |
| `MirrorsProofs` | `MirrorsInv` | `MirrorsInvariant`, `MirrorsType` | `MirrorsTypeOK` |
| | | `NoSilentReplacement`, `BooksAreKept` | `AgreeUnlessBlind`, `Bookkept` |
| `LifecycleProofs` | `LifecycleInv` | `LifecycleInvariant`, `LifecycleType` | `LifecycleTypeOK` |
| | | `AccountsAgree`, `OneAnswer`, `ToldToStop`, `ExclusivePart` | `Accounted`, `AnsweredOnce`, `StaleTasksStopped`, `ExclusiveOutsideCommit` |
| `BackpressureProofs` | `BackpressureInv` | `BackpressureInvariant`, `BackpressureType` | `BackpressureTypeOK` |
| | | `BudgetIsExact`, `CreditsAccounted`, `SinkInOrder` | `MemoryExact`, `CreditsExact`, `InOrderAndKept` |
| | with `Ample` | `NoStrandedCredits` | |
| `ResumeProofs` | `ResumeInv` | `ResumeInvariant`, `ResumeType` | `TypeOK` |
| | | `CrashSafeJournal`, `WholeArtifact`, `UniformArtifact` | `CrashSafeSurvives`, `PublishedWhole`, `PublishedUniform` |

Every invariant is proved the same way: it holds initially, one lemma per action
says that the action keeps it, and each property follows from it. Why the
properties are not inductive themselves:

**RangeInv** says that any two ranges of the vector are apart, where
`assert_normalized` compares neighbours, and that `covered` is the number of bytes.
The argument: on such a vector starts and ends grow, so each binary search divides
it (`CutDivides`); `insert` and `remove` are both a splice between two such cuts, and
a splice whose middle keeps its distance from both sides is normalized again
(`SpliceGood`), has the bytes kept and the bytes put in, and the count follows it
(`SpliceExact`). What is put in is the hull of the ranges met (`InsertExact`) or the
remnants of the outer two (`RemoveExact`). The count needs that the lengths of
disjoint ranges add up to the bytes they denote (`LengthSumExact`). A normalized
vector is determined by its bytes (`Canonical`); since `from_ranges` only inserts,
what is read back is the vector that was written, whatever the order. The sum and the
fold are recursive: their lemmas go by a least counterexample, as `SetBySet` below.

**PlanInv** is `TypeOK`, `Sized`, `AtMostOne`, `DisjointOwners` and
`ClaimAccounting`. A claim takes a gap of `claimed`, so it is disjoint from the
other owners only because `claimed` contains them all, and releasing a worker's
bytes keeps the account only because no other owner has them. `Sized` says that
ranged work never ends at `EOF`; `AtMostOne` is `OneStream` without
cardinalities. Lemmas on the sizes (`AlignUpType`, `SnapEndBounds`,
`CutPointType`, ...) carry the claims.

**TransferInv** adds to `PlanInv` what ties the plan to those who work for it. A
start or a task is identified by its key and its plan (`Distinct`), so a report
takes exactly one away; what a task reports it has written (`Wrote`), whichever
plan it belongs to; in the first plan each worker has a live assignment
(`FirstPlan`). That a claim is served depends on the mailbox: a truncation is
sent directly ahead of the start that steals the tail (`Paired`), so at most two
commands per stream wait, and a mailbox of twice the streams never refuses one.
The engine's holds 1024 (`runtime/handle.rs:124`).

**ConnectionsInv** says that a connection the controller knows has at most one request,
that its load is 0 exactly when it has none, and that it has none before its dial is
answered (`Counted`); `LoadExact` follows. A claim needs a load of 0, so it is the only
one there; a key is dialed only when nothing names it, so that a late report of its
former use cannot touch the new connection; and a dial that loses a race or fails is
not up, so that no request goes with it. The last is what `NoAbort` needs: `Spared` is
shown of each action beside the invariant. That the tasks in `agenda` name an origin or
a job as their operation expects (`Task`) carries the types through the handlers.

**MirrorsInv** has four parts. `Agreed` says, for each piece, what the
file holds while requests are between check, write and record: the bytes of the
owner, or there is a recorder that will make the piece blind; and a request that
did compare goes on with bytes equal to the first. `Booked` says which of the
controller's lists exclude each other (`Listed`), which sources a request can be
on (`Employed`), what a mirror that is asked one thing at a time cannot be in
(`Orderly`), and that the job's own source is undisturbed until some mirror is
asked two things (`Undisturbed`). `HomeFailed` says that until then a job whose own
source failed has multiplexed connections: on HTTP/1 the poisoned connection is gone before
the quarantine. The claims of `FailedStaysOut` follow from these. `Counted` carries
`LoadExact`: `Less` stops at 0, so that a late report takes off at most one, which
`dropped` has counted. The attempt to prove `Bookkept` showed that it
needed `stranded`, a case only a job with four sources has.

**LifecycleInv** ties each job's mail, node, entry, reply channel, tasks and lock to
one another (`Sound`; `Known` says that tasks the plan does not know are left only by a
second plan or a quarantine, `Told` is `StaleTasksStopped` of one job), says that a command is in the mailbox once (`MailOnce`), that
leases and nodes agree (`Leases`), and who may hold the lock of a path (`Alone`).

**BackpressureInv** says what a task owns by where it waits (`Fits`), who has the
adapter's mutex and where it pushes (`Adapter`), that the credits add up and,
with `Ample`, nobody is dropped short of byte units (`Credits`) and that a byte handed over is pushed, on its way or
buffered (`Kept`). The budget and the credits are sums over tasks and over buffered
chunks: `TotalUpdate`, `TotalWith` and `TotalWithout` say how a sum moves with one
member. They rest on `SetBySet`, an induction over the subsets of a finite set by
size; the library's induction theorems cannot be instantiated, so it is stated for a
set instead of a predicate and follows from the well-foundedness of `<`. `Ample`
(`Ops * MaxFrame <= ByteUnits`) is the proportion named in section 3.

**ResumeInv** says what each record vouches for: the journal on disk
(`JournalInv`), the plan and the journal in memory (`PlanInv`), the tasks
(`TasksInv`) and the versions (`VersionsInv`, `PlanVersions`). `JournalInv` is where
`Named` is needed: the attempt to do without it found the stale journal described
in section 3.

Only model-checked: liveness (`Ends`, `Publishes`, `EndsOrStranded`, `EndsOrRound`,
`DrainAnswers`, `ShutdownAnswers`, `EndsOrStuck`), since fairness and ENABLED are out of
the prover's reach. Every other property of a passing run is stated by a theorem.

## 5. Observations

Things the models keep as the code has them, which no run is about:

* `release_due` returns the attempt count and the `RetryReady` handler drops it
  (`controller.rs:1748`), so the retry budget of ranged work starts over.
* Two probes of one job can be under way; the second answer resets the plan. An
  answer also overrides a draining or committing phase, as do a refresh and a recheck:
  the job goes on as if it had not been cancelled (`Lifecycle`).
* A job whose plan is made again while it commits can commit twice. The coordinator
  went with the first `CommitDestination`, so the loop answers the second at once, with
  Ok, while the first `finalize` may still fail (`control.rs:904`).
* No adaptive tick follows a cooldown. `ConnectionGone` and `RateLimited` are
  observations nobody sends.
* An `OverlapMismatch` on HTTP/1 always fails the job: the poisoned connection
  is dropped before `QuarantineSource` looks its origin up.
* A mirror's connection is pumped when it is activated and after a failure, not
  by the tick; a lost one is never dialed again. A mirror's probe that is
  answered after its sample is taken for the job's own and resets the plan.
* A shutdown answers `EngineGone`, not `Cancelled`, to jobs with tasks in flight,
  and takes no checkpoint of them (`control.rs:303`).
* A cancel that finds its mailbox full is lost; a command left in the mailbox at
  the end of the loop is not answered. `InvalidateArtifact` discards the entry, and
  with it the reply channel, before `FailJob` could answer.

## 6. Not modelled

Transports (`net/`), header syntax, digests, events and metrics are I/O or
observers. The floating-point estimates of the adaptive control are inputs.
`storage/file.rs` and the Windows rename are out of scope. A transfer of unknown
length has no end of its own (`segment.rs:272`): it ends by deadline or
cancellation, which `Lifecycle` covers; its data plane is not in `Transfer`.
`Connections` has one stream per connection; `Mirrors` one origin and one
connection per source, so mirrors on a shared origin are left out. In `Resume`:
the digest check of `finalize`; a worker of a run that has ended; the file lock
(it is in `Lifecycle`).

## 7. Plan

1. Done: all modules of section 2; their safety properties proved, and
   that `RangeSet` implements `ByteSet`.
2. Models: bodies of unknown length in `Transfer`; mirrors that share an origin.
