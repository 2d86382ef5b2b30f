------------------------------- MODULE Mirrors -------------------------------
(***************************************************************************)
(* One job with several sources and an expected digest: how a mirror is    *)
(* found, probed and sampled before it joins, how the bytes of different   *)
(* sources are compared while they are written, how a source that          *)
(* disagrees is quarantined, and how the job fails over.                   *)
(*                                                                         *)
(* Every source has an origin of its own and at most one connection to it. *)
(* A piece is one chunk; a request also covers the piece before its own,   *)
(* the overlap.  Steals, key reuse and backoff budgets are in Transfer and *)
(* SegmentPlan, cooldowns, races and redirects in Connections.             *)
(*                                                                         *)
(* A handler is one step that leaves the origins it pumps in `pumping`;    *)
(* nothing else happens until that is empty (the shards' steps and the     *)
(* pump have nothing in common, so their order does not matter).           *)
(***************************************************************************)
EXTENDS Naturals, FiniteSets, SequencesExt

CONSTANTS
  NumSources, \* sources of the job in declared order, the primary first
  NumPieces,
  SampleLen,  \* SAMPLE_LEN, in pieces
  MaxTasks,   \* bound: requests on the shards at a time
  Streams,    \* adaptive_target_streams of a multiplexed connection
  MaxTries,   \* resolve attempts of a job
  MaxFaults   \* bound: failures of reachable sources

ASSUME MirrorsAssumption ==
  /\ {NumSources, NumPieces, SampleLen, MaxTasks, Streams} \subseteq Nat \ {0}
  /\ {MaxTries, MaxFaults} \subseteq Nat

Sources == 1 .. NumSources
Pieces == 1 .. NumPieces
None == 0
NoBytes == NumSources + 1

VARIABLES
  env,      \* fixed: the reachable sources, the wrong one and where its bytes
            \* start to be wrong, and whether connections are multiplexed
  phase,    \* "connecting" is Created and Probing, "failed" Failing and Failed
  home,     \* the source of j.origin
  active, probing, sampling, failed,  \* the JobNode's lists of sources
  tries,    \* resolve_attempts
  done, deferred,                     \* the plan
  known,    \* the sources whose addresses the resolver has answered
  link,     \* the connection to a source
  probes,   \* the sources whose probe is unanswered, its connection dropped or not
  tagged,   \* the sources whose connection has a serving_source
  load,     \* in_flight
  task,     \* requests on the shards; `live` while the plan knows the assignment,
            \* `lost` once the controller has dropped its connection; `due`, history:
            \* when this chunk was checked, two sources and another owner were known
  samples,  \* samples under way, with their verdict once they are compared
  owner, writers,                     \* ArtifactProvenance
  file,     \* whose bytes a piece of the .part holds
  pumping, faults,
  first,    \* history: the bytes of a piece when it was first recorded
  blind,    \* history: pieces that a second source wrote without comparing them, or
            \* that came over the connection of another source than recorded
  doubled,  \* history: mirrors sampled while another question to them was open
  stranded, \* history: mirrors whose lookup or dial was answered while the job failed over
  dropped   \* history: how many requests of a connection a quarantine has abandoned

setting == <<env, known>>
jobVars == <<phase, home, active, probing, sampling, failed, tries>>
planVars == <<done, deferred>>
netVars == <<link, probes, tagged, load>>
fileVars == <<owner, writers, file, first, blind>>
history == <<doubled, stranded, dropped>>
vars == <<setting, jobVars, planVars, netVars, task, samples, fileVars, pumping, faults, history>>

NoTask == [conn |-> None]
Tasks == 1 .. MaxTasks
Running == {t \in Tasks : task[t] # NoTask}
Ended == phase \in {"committing", "failed"}
Idle == pumping = <<>> /\ ~Ended

\* What a source sends for a piece: the artifact, or its own wrong bytes.
Right == 0
Bytes(s, q) == IF s = env.wrong /\ q >= env.from THEN s ELSE Right

\* unused_sources: what the mixer and failover choose from, in declared order.
Unused == Sources \ (ToSet(active) \cup probing \cup failed)
NextUnused == Min(Unused)

Prefix == Max({q \in 0 .. NumPieces : 1 .. q \subseteq done})
Claimed == {task[t].piece : t \in {u \in Running : task[u].live}}
Todo == Pieces \ (done \cup deferred \cup Claimed)
Window(q) == Max({1, q + 1 - SampleLen}) .. q

Capacity == IF env.mux THEN Streams ELSE 1

Runnable(c) == phase = "transferring" /\ (c = home \/ c \in ToSet(active))

\* pump: the connection is up and has a free stream, and there is a piece to claim.
CanClaim(c) == /\ Runnable(c) /\ link[c] = "ready" /\ load[c] < Capacity
               /\ Todo # {} /\ Running # Tasks

Fault == faults < MaxFaults /\ faults' = faults + 1

-----------------------------------------------------------------------------
(***************************************************************************)
(* Shared parts of the handlers.                                           *)
(***************************************************************************)

\* drop_connection: the node, its counter and its tag are forgotten.
Drop(s) ==
  /\ link' = [link EXCEPT ![s] = "none"]
  /\ load' = [load EXCEPT ![s] = 0]
  /\ tagged' = tagged \ {s}

Lost(tasks, s) ==
  [t \in Tasks |-> IF tasks[t].conn = s THEN [tasks[t] EXCEPT !.lost = TRUE] ELSE tasks[t]]

Less(n) == IF n = 0 THEN 0 ELSE n - 1

Fail == phase' = "failed" /\ UNCHANGED <<home, active, tries>>

\* activate_next_source: the job re-enters admission with the next unused source,
\* as its own.  Its resolution stands for the connection that will follow; one that
\* a mirror of an earlier time still has, and that the code would leave as it is
\* beside the new one, is given up here (one connection to a source).
ActivateNext(unused, links) ==
  /\ active' = <<Min(unused)>> /\ home' = Min(unused)
  /\ phase' = "connecting" /\ tries' = 0
  /\ link' = [links EXCEPT ![Min(unused)] = "resolving"]
  /\ tagged' = tagged \ {Min(unused)}

\* Mutant of RetryResolve: one attempt too many.
OneTryTooMany ==
  \/ /\ tries <= MaxTries /\ tries' = tries + 1
     /\ link' = [link EXCEPT ![home] = "resolving"]
     /\ UNCHANGED <<phase, home, active>>
  \/ /\ tries > MaxTries /\ Fail
     /\ link' = [link EXCEPT ![home] = "none"]

\* retry_resolve: another attempt while the budget lasts.
RetryResolve ==
  \/ /\ tries < MaxTries /\ tries' = tries + 1
     /\ link' = [link EXCEPT ![home] = "resolving"]
     /\ UNCHANGED <<phase, home, active>>
  \/ /\ tries = MaxTries /\ Fail
     /\ link' = [link EXCEPT ![home] = "none"]

\* A mirror that failed before it joined: one candidate less.
Reject(s) == probing' = probing \ {s} /\ failed' = failed \cup {s}

SendSample(s) ==
  /\ samples' = [samples EXCEPT ![s] = Append(@, [at |-> Prefix, verdict |-> "none"])]
  /\ doubled' = IF samples[s] = <<>> THEN doubled ELSE doubled \cup {s}

-----------------------------------------------------------------------------
(***************************************************************************)
(* Resolving, dialing and probing: the job's own source and its mirrors.   *)
(***************************************************************************)
Waiting(s) == phase = "connecting" /\ s = home /\ s \notin tagged

\* Resolved.  A mirror is dialed, tagged with its source, only while the job is
\* transferring; otherwise nobody remembers that it waits.
Resolved(s) ==
  /\ Idle /\ link[s] = "resolving"
  /\ \/ /\ Waiting(s) \/ (s \in probing /\ phase = "transferring")
        /\ link' = [link EXCEPT ![s] = "dialing"]
        /\ tagged' = IF Waiting(s) THEN tagged ELSE tagged \cup {s}
        /\ tries' = IF Waiting(s) THEN 0 ELSE tries
        /\ UNCHANGED stranded
     \/ /\ ~Waiting(s) /\ phase = "connecting"
        /\ link' = [link EXCEPT ![s] = "none"] /\ stranded' = stranded \cup {s}
        /\ UNCHANGED <<tagged, tries>>
  /\ known' = known \cup {s}
  /\ UNCHANGED <<env, phase, home, active, probing, sampling, failed, planVars, probes, load, task,
                 samples, fileVars, pumping, faults, doubled, dropped>>

ResolveFails(s) ==
  /\ Idle /\ link[s] = "resolving"
  /\ IF s \in env.up THEN Fault ELSE UNCHANGED faults
  /\ \/ Waiting(s) /\ RetryResolve /\ UNCHANGED <<probing, failed, stranded>>
     \/ /\ ~Waiting(s) /\ phase = "transferring"
        /\ Reject(s) /\ link' = [link EXCEPT ![s] = "none"]
        /\ UNCHANGED <<phase, home, active, tries, stranded>>
     \/ /\ ~Waiting(s) /\ phase = "connecting"
        /\ link' = [link EXCEPT ![s] = "none"] /\ stranded' = stranded \cup {s}
        /\ UNCHANGED <<phase, home, active, tries, probing, failed>>
  /\ UNCHANGED <<setting, sampling, planVars, probes, tagged, load, task, samples, fileVars, pumping,
                 doubled, dropped>>

\* ConnectionReady.  The job's own connection probes it, or takes work if the job
\* transfers already; a mirror's connection probes the mirror, and is closed if
\* the job has left the transfer meanwhile.
ConnectionReady(s) ==
  /\ Idle /\ link[s] = "dialing" /\ s \in env.up
  /\ \/ /\ Waiting(s) \/ (s \in tagged /\ phase = "transferring")
        /\ link' = [link EXCEPT ![s] = "ready"] /\ probes' = probes \cup {s}
        /\ UNCHANGED <<tagged, pumping, stranded>>
     \/ /\ s \in tagged /\ phase = "connecting"
        /\ link' = [link EXCEPT ![s] = "none"] /\ tagged' = tagged \ {s}
        /\ stranded' = stranded \cup {s}
        /\ UNCHANGED <<probes, pumping>>
     \/ /\ s \notin tagged /\ ~Waiting(s)
        /\ link' = [link EXCEPT ![s] = "ready"]
        /\ pumping' = <<s>>
        /\ UNCHANGED <<probes, tagged, stranded>>
  /\ UNCHANGED <<setting, jobVars, planVars, load, task, samples, fileVars, faults, doubled, dropped>>

\* ConnectionFailed.  A mirror is rejected; the job's own source fails over to an
\* unused one, else resolves again; a TLS failure ends the job; a replacement is
\* dialed again unless TLS failed.
ConnectionFailed(s) ==
  /\ Idle /\ link[s] = "dialing"
  /\ IF s \in env.up THEN Fault ELSE UNCHANGED faults
  /\ \/ /\ s \in tagged
        /\ Reject(s) /\ tagged' = tagged \ {s}
        /\ link' = [link EXCEPT ![s] = "none"]
        /\ UNCHANGED <<phase, home, active, tries>>
     \/ /\ Waiting(s)
        /\ \/ Unused # {} /\ ActivateNext(Unused, [link EXCEPT ![s] = "none"])
           \/ Unused = {} /\ RetryResolve /\ UNCHANGED tagged
           \/ Fail /\ link' = [link EXCEPT ![s] = "none"] /\ UNCHANGED tagged
        /\ UNCHANGED <<probing, failed>>
     \/ /\ s \notin tagged /\ ~Waiting(s)
        /\ link' \in {link, [link EXCEPT ![s] = "none"]}
        /\ UNCHANGED <<phase, home, active, tries, probing, failed, tagged>>
  /\ UNCHANGED <<setting, sampling, planVars, probes, load, task, samples, fileVars, pumping, history>>

\* scale_connections: only the job's own origin is dialed again.
Scaled(lk) == IF lk[home] = "none" THEN [lk EXCEPT ![home] = "dialing"] ELSE lk

\* The last part of Probed, for the job's own source: a new plan, and work for its
\* connection.  Nothing looks at what the old plan had verified.
NewPlan ==
  /\ done' = {} /\ deferred' = {}
  /\ phase' = "transferring"
  /\ pumping' = <<home>>

Unplanned == [t \in Tasks |-> IF task[t] = NoTask THEN NoTask ELSE [task[t] EXCEPT !.live = FALSE]]

\* Whatever source it names: a mirror that was sampled, and has joined or been
\* rejected, before its probe was answered is not told apart.  A connection that
\* the answer has used up is dropped.
Probed(s) ==
  /\ Idle /\ s \in probes \ probing
  /\ NewPlan /\ probes' = probes \ {s}
  /\ \/ /\ link' = Scaled(link) /\ task' = Unplanned
        /\ UNCHANGED <<load, tagged, faults>>
     \/ /\ Fault /\ link[s] = "ready"
        /\ link' = Scaled([link EXCEPT ![s] = "none"]) /\ task' = Lost(Unplanned, s)
        /\ load' = [load EXCEPT ![s] = 0] /\ tagged' = tagged \ {s}
  /\ UNCHANGED <<setting, home, active, probing, sampling, failed, tries, samples, fileVars, history>>

\* The first part of Probed: a mirror has answered.  One whose length differs or
\* that has no ranges is rejected, its connection kept if it is reusable; the
\* others are sampled, or kept until there is something to compare with.
MirrorProbed(s) ==
  /\ Idle /\ s \in probes \cap probing
  /\ probes' = probes \ {s}
  /\ \/ /\ Fault /\ Reject(s)
        /\ \/ UNCHANGED <<link, load, tagged, task>>
           \/ Drop(s) /\ task' = Lost(task, s)
        /\ UNCHANGED <<samples, doubled>>
     \/ /\ IF Prefix = 0 THEN UNCHANGED <<samples, doubled>> ELSE SendSample(s)
        /\ UNCHANGED <<probing, failed, link, load, tagged, task, faults>>
  /\ UNCHANGED <<setting, phase, home, active, sampling, tries, planVars, fileVars, pumping,
                 stranded, dropped>>

\* ProbeFailed.  A mirror is rejected and its connection left as it is.  The job's
\* own probe goes the way of a failed range: Connections has the backoff, here it
\* is asked again.
ProbeFailed(s) ==
  /\ Idle /\ s \in probes /\ Fault
  /\ probes' = IF Waiting(s) THEN probes ELSE probes \ {s}
  /\ IF s \in probing THEN Reject(s) ELSE UNCHANGED <<probing, failed>>
  /\ UNCHANGED <<setting, phase, home, active, sampling, tries, planVars, link, tagged, load, task,
                 samples, fileVars, pumping, history>>

-----------------------------------------------------------------------------
(***************************************************************************)
(* Mixing: samples and activation.                                         *)
(***************************************************************************)

\* retry_pending_mirror_sample: candidates with a ready connection that are not
\* already marked as being sampled.
Pending == IF Prefix < SampleLen THEN {}
           ELSE {s \in (probing \ sampling) \cap tagged : link[s] = "ready"}

\* rebalance_tick: pending candidates are sampled, and while much is left to do
\* (an input) one more source is dialed, or resolved if its addresses are unknown.
\* A tick that would change nothing is left out.
RebalanceTick ==
  /\ Idle /\ phase = "transferring"
  /\ samples' = [s \in Sources |-> IF s \in Pending
                                   THEN Append(samples[s], [at |-> Prefix, verdict |-> "none"])
                                   ELSE samples[s]]
  /\ doubled' = doubled \cup {s \in Pending : s \in probes \/ samples[s] # <<>>}
  /\ sampling' = sampling \cup Pending
  /\ \/ /\ Pending # {} \/ CanClaim(home)
        /\ UNCHANGED <<probing, link, tagged>>
     \/ /\ Unused # {} /\ link[NextUnused] = "none"
        /\ probing' = probing \cup {NextUnused}
        /\ \/ /\ NextUnused \notin known
              /\ link' = [link EXCEPT ![NextUnused] = "resolving"] /\ UNCHANGED tagged
           \/ /\ NextUnused \in known
              /\ link' = [link EXCEPT ![NextUnused] = "dialing"]
              /\ tagged' = tagged \cup {NextUnused}
  /\ pumping' = <<home>>
  /\ UNCHANGED <<setting, phase, home, active, failed, tries, planVars, probes, load, task, fileVars,
                 faults, stranded, dropped>>

\* run_mirror_sample and SampleSink: the window as the mirror sends it, compared
\* with the file.  On HTTP/1 it waits for the connection's other requests.
CompareSample(s) ==
  /\ Idle
  /\ \E i \in 1 .. Len(samples[s]) :
       LET q == samples[s][i].at
           same == \A p \in Window(q) : Bytes(s, p) = file[p]
       IN  /\ samples[s][i].verdict = "none"
           /\ \/ env.mux \/ link[s] = "none"
              \/ s \notin probes /\ \A t \in Running : task[t].conn # s
           /\ \E ok \in BOOLEAN :
                /\ samples' = [samples EXCEPT ![s][i].verdict = IF ok THEN "same" ELSE "differs"]
                /\ IF link[s] = "none" \/ ~same THEN ~ok /\ UNCHANGED faults
                   ELSE IF ok THEN UNCHANGED faults ELSE Fault
  /\ UNCHANGED <<setting, jobVars, planVars, netVars, task, fileVars, pumping, history>>

\* MirrorSampled: the mirror joins, or it is rejected and its connection closed.
MirrorSampled(s) ==
  /\ Idle
  /\ \E i \in 1 .. Len(samples[s]) :
       /\ samples[s][i].verdict # "none"
       /\ samples' = [samples EXCEPT ![s] = RemoveAt(@, i)]
       /\ probing' = probing \ {s} /\ sampling' = sampling \ {s}
       /\ \/ /\ samples[s][i].verdict = "same"
             /\ active' = IF s \in ToSet(active) THEN active ELSE Append(active, s)
             /\ pumping' = <<s>>
             /\ UNCHANGED <<failed, netVars, task>>
          \/ /\ samples[s][i].verdict = "differs"
             /\ failed' = failed \cup {s}
             /\ Drop(s) /\ task' = Lost(task, s)
             /\ UNCHANGED <<probes, active, pumping>>
  /\ UNCHANGED <<setting, phase, home, tries, planVars, fileVars, faults, history>>

-----------------------------------------------------------------------------
(***************************************************************************)
(* Claims: pump, claim_one and the start of the request.                   *)
(***************************************************************************)
\* source_for_connection: the tagged mirror, else the active source of the
\* connection's origin, else the first active source.
SourceFor(c) == IF c \in tagged \/ c \in ToSet(active) THEN c ELSE Head(active)

\* What check_cross_source, write_chunk and record_written do next, from the piece
\* before the claimed one on.
Start(c, q) == [conn |-> c, src |-> SourceFor(c), piece |-> q, at |-> Max({1, q - 1}),
                step |-> "check", due |-> FALSE, live |-> TRUE, lost |-> FALSE, cut |-> FALSE]

PumpClaim ==
  /\ pumping # <<>>
  /\ LET c == Head(pumping)
     IN  IF CanClaim(c)
         THEN /\ task' = [task EXCEPT ![Min(Tasks \ Running)] = Start(c, Min(Todo))]
              /\ load' = [load EXCEPT ![c] = @ + 1]
              /\ UNCHANGED pumping
         ELSE pumping' = Tail(pumping) /\ UNCHANGED <<task, load>>
  /\ UNCHANGED <<setting, jobVars, planVars, link, probes, tagged, samples, fileVars, faults, history>>

-----------------------------------------------------------------------------
(***************************************************************************)
(* A request: LaneSink::accept for each chunk.                             *)
(***************************************************************************)
Go(t, step) == task' = [task EXCEPT ![t].step = step]

\* Mutant of Foreign: the source's own spans are compared, the others are not.
OwnSpans(q, src) == Cardinality(writers) > 1 /\ owner[q] = src

\* foreign_spans: nothing before two sources are known to have written.
Foreign(q, src) == Cardinality(writers) > 1 /\ owner[q] \notin {None, src}

\* check_cross_source: what another source wrote first is read back and compared.
\* A request whose end was moved to its start stops there.
CheckChunk(t) ==
  LET k == task[t]
      foreign == Foreign(k.at, k.src)
  IN  /\ t \in Running /\ k.step = "check" /\ Idle
      /\ \/ k.cut /\ k.at = k.piece /\ Go(t, "ok")
         \/ /\ ~(k.cut /\ k.at = k.piece)
            /\ foreign /\ file[k.at] # Bytes(k.conn, k.at) /\ Go(t, "mismatch")
         \/ /\ ~(k.cut /\ k.at = k.piece)
            /\ foreign => file[k.at] = Bytes(k.conn, k.at)
            /\ task' = [task EXCEPT ![t].step = "write",
                                    ![t].due = Cardinality(writers) > 1
                                               /\ owner[k.at] \notin {None, k.src}]
      /\ UNCHANGED <<setting, jobVars, planVars, netVars, samples, fileVars, pumping, faults, history>>

\* write_chunk.
WriteChunk(t) ==
  /\ t \in Running /\ task[t].step = "write" /\ Idle
  /\ file' = [file EXCEPT ![task[t].at] = Bytes(task[t].conn, task[t].at)]
  /\ Go(t, "record")
  /\ UNCHANGED <<setting, jobVars, planVars, netVars, samples, owner, writers, first, blind, pumping,
                 faults, history>>

\* record_written: the first writer of a piece stays its owner.
RecordChunk(t) ==
  LET k == task[t]
  IN  /\ t \in Running /\ k.step = "record" /\ Idle
      /\ writers' = writers \cup {k.src}
      /\ owner' = [owner EXCEPT ![k.at] = IF @ = None THEN k.src ELSE @]
      /\ first' = [first EXCEPT ![k.at] = IF @ = NoBytes THEN Bytes(k.conn, k.at) ELSE @]
      /\ blind' = IF k.conn = k.src /\ (k.due \/ owner[k.at] \in {None, k.src})
                THEN blind ELSE blind \cup {k.at}
      /\ task' = [task EXCEPT ![t] = IF k.at = k.piece THEN [k EXCEPT !.step = "ok"]
                                     ELSE [k EXCEPT !.step = "check", !.at = k.piece]]
      /\ UNCHANGED <<setting, jobVars, planVars, netVars, samples, file, pumping, faults, history>>

\* The response fails; one asked of the wrong host may be refused.
TaskFails(t) ==
  /\ t \in Running /\ task[t].step = "check" /\ Idle
  /\ \/ Fault /\ Go(t, "error")
     \/ task[t].conn # task[t].src /\ Go(t, "refused") /\ UNCHANGED faults
  /\ UNCHANGED <<setting, jobVars, planVars, netVars, samples, fileVars, pumping, history>>

-----------------------------------------------------------------------------
(***************************************************************************)
(* Reports.                                                                *)
(***************************************************************************)

\* Mutant of Released: the counter is lowered though the connection is another one.
ReleasedAnyway(t) == [load EXCEPT ![task[t].conn] = Less(@)]

\* release_assignment_slot: lowers the counter of a connection that still exists.
Released(t) == IF task[t].lost THEN load ELSE [load EXCEPT ![task[t].conn] = Less(@)]

Gone(t) == [task EXCEPT ![t] = NoTask]

Redialed(lk) == IF phase = "transferring" THEN Scaled(lk) ELSE lk

\* AssignmentVerified.  An HTTP/1 connection the server closes is dropped.
AssignmentVerified(t) ==
  LET k == task[t]
      all == IF k.live THEN done \cup {k.piece} ELSE done
      more == Pieces \ (all \cup deferred \cup (Claimed \ {k.piece})) # {}
  IN  /\ Idle /\ t \in Running /\ k.step = "ok"
      /\ done' = all
      /\ \E closed \in BOOLEAN :
           /\ closed => ~env.mux /\ ~k.lost
           /\ IF closed THEN Fault ELSE UNCHANGED faults
           /\ task' = IF closed THEN Lost(Gone(t), k.conn) ELSE Gone(t)
           /\ load' = IF closed THEN [load EXCEPT ![k.conn] = 0] ELSE Released(t)
           /\ tagged' = IF closed THEN tagged \ {k.conn} ELSE tagged
           /\ LET lk == IF closed THEN [link EXCEPT ![k.conn] = "none"] ELSE link
              IN  IF all = Pieces
                  THEN phase' = "committing" /\ link' = lk /\ UNCHANGED pumping
                  ELSE /\ link' = IF more THEN Redialed(lk) ELSE lk
                       /\ pumping' = IF more THEN <<home>> ELSE <<>>
                       /\ UNCHANGED phase
      /\ UNCHANGED <<setting, home, active, probing, sampling, failed, tries, deferred, probes, samples,
                     fileVars, history>>

\* AssignmentFailed with RetrySameRange: the piece waits for its timer.  An HTTP/1
\* connection is always poisoned, a multiplexed one may be.
RetryRange(t) ==
  LET k == task[t]
  IN  /\ Idle /\ t \in Running /\ k.step = "error"
      /\ deferred' = IF k.live THEN deferred \cup {k.piece} ELSE deferred
      /\ \E poisoned \in BOOLEAN :
           /\ poisoned => ~k.lost
           /\ ~env.mux => poisoned \/ k.lost
           /\ task' = IF poisoned THEN Lost(Gone(t), k.conn) ELSE Gone(t)
           /\ load' = IF poisoned THEN [load EXCEPT ![k.conn] = 0] ELSE Released(t)
           /\ tagged' = IF poisoned THEN tagged \ {k.conn} ELSE tagged
           /\ LET lk == IF poisoned THEN [link EXCEPT ![k.conn] = "none"] ELSE link
              IN  link' = IF home \in ToSet(active) THEN Redialed(lk) ELSE lk
      /\ pumping' = active
      /\ UNCHANGED <<setting, jobVars, done, probes, samples, fileVars, faults, history>>

\* Mutant of RetryReady: the piece stays deferred.
NeverDue(q) ==
  /\ Idle /\ q \in deferred
  /\ link' = Redialed(link)
  /\ pumping' = <<home>>
  /\ UNCHANGED <<setting, jobVars, planVars, probes, tagged, load, task, samples, fileVars, faults,
                 history>>

\* TimerExpired(RetryReady).
RetryReady(q) ==
  /\ Idle /\ q \in deferred
  /\ deferred' = deferred \ {q}
  /\ link' = Redialed(link)
  /\ pumping' = <<home>>
  /\ UNCHANGED <<setting, jobVars, done, probes, tagged, load, task, samples, fileVars, faults, history>>

\* AssignmentFailed with QuarantineSource.  The source is found through the
\* connection, which an HTTP/1 failure has dropped just before: then, and when
\* no active source is there, the job fails.  Otherwise the source leaves, its
\* other assignments are abandoned and cut, and the job fails over if it has no
\* active source left.  (`active` lists a source once, so `left` is its retain.)
Quarantine(t) ==
  LET k == task[t]
      there == env.mux /\ ~k.lost
      out == IF there THEN ToSet(active) \cap {k.conn} ELSE {}
      victims == {u \in Running \ {t} : task[u].conn = k.conn /\ task[u].live /\ ~task[u].lost}
      left == RemoveAt(active, CHOOSE i \in DOMAIN active : active[i] = k.conn)
      spare == Unused \ out
  IN  /\ Idle /\ t \in Running /\ k.step = "mismatch"
      /\ \/ /\ out = {} /\ Fail
            /\ task' = Gone(t) /\ load' = Released(t)
            /\ link' = IF env.mux \/ k.lost THEN link ELSE [link EXCEPT ![k.conn] = "none"]
            /\ UNCHANGED <<failed, tagged, pumping, dropped>>
         \/ /\ out # {}
            /\ failed' = failed \cup out
            /\ task' = [u \in Tasks |->
                          IF u = t THEN NoTask
                          ELSE IF u \in victims THEN [task[u] EXCEPT !.live = FALSE, !.cut = TRUE]
                          ELSE task[u]]
            /\ load' = [load EXCEPT ![k.conn] = Max({0, Less(@) - Cardinality(victims)})]
            /\ dropped' = [dropped EXCEPT ![k.conn] = @ + Cardinality(victims)]
            /\ \/ /\ left # <<>> /\ active' = left
                  /\ link' = IF home \in ToSet(left) THEN Redialed(link) ELSE link
                  /\ pumping' = left
                  /\ UNCHANGED <<phase, home, tries, tagged>>
               \/ /\ left = <<>> /\ spare # {}
                  /\ ActivateNext(spare, link) /\ UNCHANGED pumping
               \/ /\ left = <<>> /\ spare = {}
                  /\ active' = left /\ phase' = "failed"
                  /\ UNCHANGED <<home, tries, link, tagged, pumping>>
      /\ UNCHANGED <<setting, probing, sampling, planVars, probes, samples, fileVars, faults, doubled,
                     stranded>>

\* AssignmentFailed with Fatal.
Refused(t) ==
  /\ Idle /\ t \in Running /\ task[t].step = "refused"
  /\ Fail /\ task' = Gone(t) /\ load' = Released(t)
  /\ UNCHANGED <<setting, probing, sampling, failed, planVars, link, probes, tagged, samples, fileVars,
                 pumping, faults, history>>

-----------------------------------------------------------------------------
\* on_submit: one active source, the primary, about to be resolved.
Init ==
  /\ env \in [up : SUBSET Sources, wrong : Sources \cup {None}, from : Pieces, mux : BOOLEAN]
  /\ env.wrong = None => env.from = 1
  /\ phase = "connecting" /\ home = 1 /\ active = <<1>>
  /\ probing = {} /\ sampling = {} /\ failed = {} /\ tries = 0
  /\ done = {} /\ deferred = {}
  /\ link = [s \in Sources |-> IF s = 1 THEN "resolving" ELSE "none"]
  /\ known = {} /\ probes = {} /\ tagged = {} /\ load = [s \in Sources |-> 0]
  /\ task = [t \in Tasks |-> NoTask]
  /\ samples = [s \in Sources |-> <<>>]
  /\ owner = [q \in Pieces |-> None] /\ writers = {}
  /\ file = [q \in Pieces |-> NoBytes] /\ first = [q \in Pieces |-> NoBytes]
  /\ blind = {} /\ pumping = <<>> /\ faults = 0
  /\ doubled = {} /\ stranded = {} /\ dropped = [s \in Sources |-> 0]

Net(s) == \/ Resolved(s) \/ ResolveFails(s) \/ ConnectionReady(s) \/ ConnectionFailed(s)
          \/ Probed(s) \/ MirrorProbed(s) \/ ProbeFailed(s)
Sample(s) == CompareSample(s) \/ MirrorSampled(s)
Fetch(t) == CheckChunk(t) \/ WriteChunk(t) \/ RecordChunk(t) \/ TaskFails(t)
Report(t) == AssignmentVerified(t) \/ RetryRange(t) \/ Quarantine(t) \/ Refused(t)

Next ==
  \/ \E s \in Sources : Net(s) \/ Sample(s)
  \/ \E t \in Tasks : Fetch(t) \/ Report(t)
  \/ \E q \in Pieces : RetryReady(q)
  \/ RebalanceTick \/ PumpClaim

\* A request, a resolution, a dial and a sample are answered (they have
\* deadlines), timers fire and the control thread empties its mailbox.
Spec ==
  /\ Init /\ [][Next]_vars
  /\ \A s \in Sources : WF_vars(Net(s)) /\ WF_vars(Sample(s))
  /\ \A t \in Tasks : WF_vars(Fetch(t)) /\ WF_vars(Report(t))
  /\ \A q \in Pieces : WF_vars(RetryReady(q))
  /\ WF_vars(RebalanceTick) /\ WF_vars(PumpClaim)

-----------------------------------------------------------------------------
(***************************************************************************)
(* Properties.                                                             *)
(***************************************************************************)
Values == Sources \cup {Right, NoBytes}

\* Every variable keeps its shape; a task has the fields its step needs.
MirrorsTypeOK ==
  /\ phase \in {"connecting", "transferring", "committing", "failed"}
  /\ home \in Sources /\ active \in Seq(Sources) /\ tries \in 0 .. MaxTries
  /\ probing \cup sampling \cup failed \cup probes \cup tagged \cup writers
       \cup known \subseteq Sources
  /\ done \cup deferred \cup blind \subseteq Pieces
  /\ \A s \in Sources : /\ link[s] \in {"none", "resolving", "dialing", "ready"}
                        /\ load[s] \in 0 .. MaxTasks
                        /\ \A i \in 1 .. Len(samples[s]) : samples[s][i].at \in Pieces
  /\ \A q \in Pieces : owner[q] \in Sources \cup {None} /\ {file[q], first[q]} \subseteq Values
  /\ \A t \in Running : /\ {task[t].conn, task[t].src} \subseteq Sources
                        /\ {task[t].piece, task[t].at} \subseteq Pieces

\* The cross-source check of LaneSink (shard.rs): bytes that one source has written
\* and recorded are never silently replaced by another's different bytes, except
\* where the second one looked before the first was recorded or before two
\* writers were known, or where the request went to another source's host.
AgreeUnlessBlind ==
  \A q \in Pieces \ blind :
    first[q] # NoBytes /\ (\A t \in Running : ~(task[t].step = "record" /\ task[t].at = q))
      => file[q] = first[q]

\* Failed sources that a late answer can have made active again: those that were
\* asked two things at a time, two samples or a sample and their probe, and the
\* job's own if such an answer was taken for the one it still waits for.
Readmitted == doubled \cup {s \in {home} : doubled # {}}

\* "Never claim work from these again this run" (world.rs, failed_sources) is kept
\* for the source a claim is booked on, but for those readmitted.  It is not kept
\* for the connection: pump goes by origins, so the job's own, if it is multiplexed
\* and outlives the quarantine of its source, goes on taking work in the name of
\* another source.  No other connection of a failed source does.
FailedStaysOut ==
  /\ ToSet(active) \cap failed \subseteq Readmitted
  /\ \A c \in Sources : CanClaim(c) =>
       /\ SourceFor(c) \in failed => SourceFor(c) \in Readmitted
       /\ c \in failed => c \in Readmitted \/ (c = home /\ env.mux)

\* A candidate that blocks its place in probing_sources has a connection, a dial
\* or a resolution under way, unless its answer found the job failing over.
CandidateUnderWay == \A s \in probing \ stranded : link[s] # "none"

\* Requests of a connection the controller knows, which have not reported.
OnConn(c) == {t \in Running : task[t].conn = c /\ ~task[t].lost}

\* However claims, reports and drops of a connection interleave, in_flight is the
\* number of its requests.  Only a quarantine makes it lower, by at most the
\* requests it abandons: they are taken off the counter then, and again when they
\* report; it is never higher, which would keep the connection from taking work.
LoadExact ==
  \A c \in Sources : /\ load[c] <= Cardinality(OnConn(c))
                     /\ Cardinality(OnConn(c)) <= load[c] + dropped[c]

\* The books the controller keeps of its sources and connections.
Bookkept == FailedStaysOut /\ CandidateUnderWay /\ LoadExact

\* Nothing will dial the job's own origin again: a replacement failed TLS.
Dry == /\ phase = "transferring" /\ link[home] = "none"
       /\ Running = {} /\ deferred = {}

\* "With none left, the job fails" (controller.rs, QuarantineSource): the job ends,
\* unless it goes round and round between unreachable sources, each of which is
\* "unused" again once the next one is tried, or is left without a connection.
EndsOrRound ==
  \/ <>Ended
  \/ []<>(phase = "connecting" /\ home \notin env.up)
  \/ <>[]Dry
=============================================================================
