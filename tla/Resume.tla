-------------------------------- MODULE Resume --------------------------------
(***************************************************************************)
(* Resuming an artifact over several runs: the .part file, the journal     *)
(* beside it, the representation the server hands out, and what a killed   *)
(* process or a power cut leaves of them.                                  *)
(*                                                                         *)
(*   control.rs     discover_resume, record_progress, checkpoint_journal,  *)
(*                  ResetResumeData, finish_job                            *)
(*   journal.rs     Journal; persist_blocking replaces the file atomically *)
(*   controller.rs  Probed judges the resume evidence                      *)
(*   shard.rs       LaneSink writes pieces and, in crash-safe mode, syncs  *)
(*   lane.rs        FileLane, finalize                                     *)
(*                                                                         *)
(* A piece is the unit of transfer.  `cache` is the .part as the operating *)
(* system shows it, `stable` what a power cut is sure to leave; each piece *)
(* is a hole (0) or holds the bytes of one version of the artifact.  All   *)
(* versions have the same length and URL.  The scheduling of pieces is the *)
(* business of module Transfer: here any missing piece may be fetched, and *)
(* a worker that outlives its job is not followed any further.             *)
(***************************************************************************)
EXTENDS Integers, FiniteSets

CONSTANTS
  Pieces,           \* number of pieces of the artifact
  Versions,         \* bound: versions of the artifact
  Durabilities,     \* the Durability settings to start from
  ValidatorKinds,   \* the kinds of ETag to start from: "strong", "weak", "none"
  VerifyOnResume,   \* integrity.verify_on_resume
  MaxInterruptions, \* bound: kills, power cuts, cancellations and failures
  MaxReprobes       \* bound: second probes of a run

ASSUME ResumeAssumption ==
  /\ Pieces \in Nat \ {0} /\ Versions \in Nat \ {0}
  /\ Durabilities \subseteq {"relaxed", "periodic", "crash_safe"}
  /\ ValidatorKinds \subseteq {"strong", "weak", "none"}
  /\ VerifyOnResume \in BOOLEAN
  /\ {MaxInterruptions, MaxReprobes} \subseteq Nat

Piece == 1 .. Pieces
Contents == [Piece -> 0 .. Versions]
Holes == [p \in Piece |-> 0]

VARIABLES
  durability, validators,   \* what the caller asked for and the server sends
  server,           \* the version the server hands out
  cache, stable,    \* the .part
  len,              \* the .part's length, in pieces
  disk,             \* the journal file
  mem,              \* the journal in memory
  phase,            \* "none": no job; "committed": finalize has answered;
                    \* "finished": the caller has been told
  evidence,         \* ResumeEvidence, a set of at most one
  done,             \* the plan's completed pieces
  lock,             \* RepresentationLock.etag, 0 when None
  probe,            \* the version a probe saw, 0 when none is to be handled
  tasks,            \* fetches of this run
  timers,           \* CheckpointDue timers
  published,        \* the file at the final path, a set of at most one
  powerCuts, interruptions, reprobes

files == <<cache, stable, len, published>>
fates == <<powerCuts, interruptions, reprobes>>
fixed == <<durability, validators>>
vars == <<fixed, server, files, disk, mem, phase, evidence, done, lock, probe, tasks, timers, fates>>

JournalPayload == [completed : SUBSET Piece, durable : SUBSET Piece, etag : 0 .. Versions]

\* `fresh`; a file that does not exist or cannot be read counts as this.
FreshJournal == [completed |-> {}, durable |-> {}, etag |-> 0]

\* The ETag of a version, 0 when the server sends none.
Etag(v) == IF validators = "none" THEN 0 ELSE v

-----------------------------------------------------------------------------
(***************************************************************************)
(* Admission.                                                              *)
(***************************************************************************)
\* The ranges that end within the .part.
Surviving(ranges) ==
  {p \in ranges : \A q \in p .. Pieces : p .. q \subseteq ranges => q <= len}

\* Mutant of Discovered: the journal is believed without a look at the .part.
DiscoveredUnchecked ==
  [completed |-> disk.durable, durable |-> disk.durable, etag |-> disk.etag]

\* discover_resume.
Discovered ==
  LET kept == Surviving(disk.durable)
  IN  IF len = 0 THEN FreshJournal
      ELSE [completed |-> kept, durable |-> kept, etag |-> disk.etag]

\* admit_command: the journal is read and its ranges become evidence.
Admit ==
  /\ phase = "none"
  /\ mem' = Discovered
  /\ evidence' = {[durable |-> Discovered.durable, etag |-> Discovered.etag]}
  /\ phase' = "probing"
  /\ done' = {} /\ lock' = 0 /\ probe' = 0 /\ tasks' = {} /\ timers' = 0
  /\ UNCHANGED <<fixed, server, files, disk, fates>>

(***************************************************************************)
(* The probe.                                                              *)
(***************************************************************************)
ProbeAnswers ==
  /\ phase = "probing" /\ probe = 0
  /\ probe' = server
  /\ UNCHANGED <<fixed, server, files, disk, mem, phase, evidence, done, lock, tasks, timers, fates>>

Agrees(e) == e.etag = Etag(probe)

\* Mutant of Trusted: the kind of the ETag is looked at, not the ETag.
TrustedByKind(e) == validators = "strong" \/ ~VerifyOnResume

Trusted(e) == Agrees(e) /\ (validators = "strong" \/ ~VerifyOnResume)

\* Weak validators: the bytes stay but are fetched again.
Kept(e) == Agrees(e) /\ VerifyOnResume

\* record_progress labels the journal with the probe's ETag; then Probed judges
\* the evidence of the first probe of a run.  A later probe has none.
HandleProbed ==
  LET trusted == {e \in evidence : Trusted(e)}
      reset == {e \in evidence : ~Trusted(e) /\ ~Kept(e)} # {}
      seeded == UNION {e.durable : e \in trusted}
  IN  /\ phase = "probing" /\ probe # 0
      /\ mem' = IF reset THEN [FreshJournal EXCEPT !.etag = Etag(probe)]
                ELSE [mem EXCEPT !.etag = Etag(probe)]
      /\ disk' = IF reset THEN mem' ELSE disk
      /\ lock' = IF lock = 0 THEN Etag(probe) ELSE lock
      /\ evidence' = {}
      /\ done' = seeded
      /\ phase' = IF seeded = Piece THEN "committing" ELSE "transferring"
      /\ probe' = 0
      /\ tasks' = {[t EXCEPT !.old = TRUE] : t \in tasks}
      /\ UNCHANGED <<fixed, server, files, timers, fates>>

\* RecheckLength (416) or SourceRefreshed after a 401: back to probing.
Reprobe ==
  /\ phase = "transferring"
  /\ reprobes < MaxReprobes
  /\ reprobes' = reprobes + 1
  /\ phase' = "probing"
  /\ UNCHANGED <<fixed, server, files, disk, mem, evidence, done, lock, probe, tasks, timers,
                 powerCuts, interruptions>>

-----------------------------------------------------------------------------
(***************************************************************************)
(* Fetches.                                                                *)
(***************************************************************************)
SameRepresentation == lock = 0 \/ Etag(server) = 0 \/ lock = Etag(server)

\* A response's headers pass observe_identity; its bytes are the server's of now.
Respond(p) ==
  /\ phase = "transferring" /\ p \notin done
  /\ \A t \in tasks : t.old \/ t.piece # p
  /\ SameRepresentation
  /\ lock' = IF lock = 0 THEN Etag(server) ELSE lock
  /\ tasks' = tasks \cup {[piece |-> p, version |-> server, state |-> "open", old |-> FALSE]}
  /\ UNCHANGED <<fixed, server, files, disk, mem, phase, evidence, done, probe, timers, fates>>

\* Mutant of LengthWith: the end of a piece is taken for an inclusive offset.
LengthWithInclusive(p) == IF p + 1 > len THEN p + 1 ELSE len

\* A write past the end extends the file.
LengthWith(p) == IF p > len THEN p ELSE len

\* A lane keeps its file handle: after the rename it writes to the published file.
WritePiece(t) ==
  /\ t.state = "open"
  /\ IF phase = "committed"
     THEN published' = {[c EXCEPT ![t.piece] = t.version] : c \in published} /\ UNCHANGED <<cache, len>>
     ELSE /\ cache' = [cache EXCEPT ![t.piece] = t.version]
          /\ len' = LengthWith(t.piece)
          /\ UNCHANGED published
  /\ tasks' = (tasks \ {t}) \cup {[t EXCEPT !.state = "written"]}
  /\ UNCHANGED <<fixed, server, stable, disk, mem, phase, evidence, done, lock, probe, timers, fates>>

\* Mutant of FinishPiece: the sync is left to the operating system.
FinishPieceUnsynced(t) ==
  /\ t.state = "written"
  /\ tasks' = (tasks \ {t}) \cup {[t EXCEPT !.state = "verified"]}
  /\ UNCHANGED <<fixed, server, files, disk, mem, phase, evidence, done, lock, probe, timers, fates>>

\* LaneSink::finish syncs the file in crash-safe mode only; then the report.
FinishPiece(t) ==
  /\ t.state = "written"
  /\ stable' = IF durability = "crash_safe" THEN cache ELSE stable
  /\ tasks' = (tasks \ {t}) \cup {[t EXCEPT !.state = "verified"]}
  /\ UNCHANGED <<fixed, server, cache, len, published, disk, mem, phase, evidence, done, lock,
                 probe, timers, fates>>

Recorded(p) == [mem EXCEPT !.completed = @ \cup {p}]
AllDurable(j) == [j EXCEPT !.durable = j.completed]

\* AssignmentVerified: record_progress, then the plan.  A worker of a plan that a
\* probe has replaced is credited only if its key was given out again.
HandleVerified(t) ==
  /\ t.state = "verified" /\ phase \in {"probing", "transferring"}
  /\ mem' = IF durability = "crash_safe" THEN AllDurable(Recorded(t.piece)) ELSE Recorded(t.piece)
  /\ disk' = IF durability = "crash_safe" THEN mem' ELSE disk
  /\ timers' = IF durability = "periodic" THEN timers + 1 ELSE timers
  /\ done' \in {done \cup {t.piece}} \cup (IF t.old THEN {done} ELSE {})
  /\ phase' = IF done' = Piece THEN "committing" ELSE phase
  /\ tasks' = tasks \ {t}
  /\ UNCHANGED <<fixed, server, files, evidence, lock, probe, fates>>

\* CheckpointDue: checkpoint_journal marks everything recorded as durable.
Checkpoint ==
  /\ phase # "none" /\ timers > 0
  /\ timers' = timers - 1
  /\ mem' = AllDurable(mem)
  /\ disk' = mem'
  /\ UNCHANGED <<fixed, server, files, phase, evidence, done, lock, probe, tasks, fates>>

-----------------------------------------------------------------------------
(***************************************************************************)
(* The end of a run.                                                       *)
(***************************************************************************)
Interrupted == interruptions < MaxInterruptions /\ interruptions' = interruptions + 1

\* Nothing of the run is left in memory.
NoJob(ph) ==
  /\ phase' = ph
  /\ evidence' = {} /\ done' = {} /\ lock' = 0 /\ probe' = 0 /\ tasks' = {} /\ timers' = 0
  /\ mem' = FreshJournal

\* Mutant of ArtifactChanged: the range is asked for again.
ArtifactChangedRetried ==
  /\ phase = "transferring" /\ done # Piece
  /\ ~SameRepresentation
  /\ UNCHANGED vars

\* InvalidateArtifact: DiscardDestination drops the job's state and journal, so
\* that finish_job has nothing left to checkpoint.
ArtifactChanged ==
  /\ phase = "transferring" /\ done # Piece
  /\ ~SameRepresentation
  /\ NoJob("none")
  /\ UNCHANGED <<fixed, server, files, disk, fates>>

\* A cancellation or a failure, that of finalize included: finish_job checkpoints
\* what was recorded.
Stop ==
  /\ phase \in {"probing", "transferring", "committing"}
  /\ Interrupted
  /\ disk' = AllDurable(mem)
  /\ NoJob("none")
  /\ UNCHANGED <<fixed, server, files, powerCuts, reprobes>>

\* finalize: the .part becomes the artifact.
Finalize ==
  /\ phase = "committing"
  /\ published' = {cache}
  /\ cache' = Holes /\ stable' = Holes /\ len' = 0
  /\ phase' = "committed"
  /\ UNCHANGED <<fixed, server, disk, mem, evidence, done, lock, probe, tasks, timers, fates>>

\* DestinationCommitted: finish_job removes the journal and the caller has its file.
Complete ==
  /\ phase = "committed"
  /\ disk' = FreshJournal
  /\ NoJob("finished")
  /\ UNCHANGED <<fixed, server, files, fates>>

Kill ==
  /\ phase \notin {"none", "finished"}
  /\ Interrupted
  /\ NoJob("none")
  /\ UNCHANGED <<fixed, server, files, disk, powerCuts, reprobes>>

\* The page cache is lost but for what the system had written back.
PowerCut ==
  /\ phase # "finished"
  /\ Interrupted
  /\ powerCuts' = powerCuts + 1
  /\ \E back \in SUBSET {p \in Piece : cache[p] # stable[p]} :
       cache' = [p \in Piece |-> IF p \in back THEN cache[p] ELSE stable[p]]
  /\ len' \in {n \in 0 .. len : \A p \in Piece : cache'[p] # 0 => p <= n}
  /\ stable' = cache'
  /\ NoJob("none")
  /\ UNCHANGED <<fixed, server, published, disk, reprobes>>

ServerChanges ==
  /\ server < Versions
  /\ server' = server + 1
  /\ UNCHANGED <<fixed, files, disk, mem, phase, evidence, done, lock, probe, tasks, timers, fates>>

-----------------------------------------------------------------------------
Init ==
  /\ durability \in Durabilities /\ validators \in ValidatorKinds
  /\ server = 1
  /\ cache = Holes /\ stable = Holes /\ len = 0 /\ published = {}
  /\ disk = FreshJournal /\ mem = FreshJournal
  /\ phase = "none" /\ evidence = {} /\ done = {} /\ lock = 0 /\ probe = 0
  /\ tasks = {} /\ timers = 0
  /\ powerCuts = 0 /\ interruptions = 0 /\ reprobes = 0

Work ==
  \/ Admit
  \/ ProbeAnswers
  \/ HandleProbed
  \/ \E p \in Piece : Respond(p)
  \/ \E t \in tasks : WritePiece(t)
  \/ \E t \in tasks : FinishPiece(t)
  \/ \E t \in tasks : HandleVerified(t)
  \/ ArtifactChanged
  \/ Finalize
  \/ Complete

Next ==
  \/ Work
  \/ Reprobe
  \/ Checkpoint
  \/ Stop
  \/ Kill
  \/ PowerCut
  \/ ServerChanges

Spec == Init /\ [][Next]_vars

\* The threads keep running and somebody starts the download again.
FairSpec == Spec /\ WF_vars(Work)

-----------------------------------------------------------------------------
(***************************************************************************)
(* Properties.                                                             *)
(***************************************************************************)
\* Journals name pieces and versions, tasks carry real bytes.
TypeOK ==
  /\ server \in 1 .. Versions
  /\ cache \in Contents /\ stable \in Contents /\ published \subseteq Contents
  /\ len \in 0 .. Pieces /\ timers \in Nat
  /\ disk \in JournalPayload /\ mem \in JournalPayload
  /\ phase \in {"none", "probing", "transferring", "committing", "committed", "finished"}
  /\ evidence \subseteq [durable : SUBSET Piece, etag : 0 .. Versions]
  /\ done \subseteq Piece /\ lock \in 0 .. Versions /\ probe \in 0 .. Versions
  /\ tasks \subseteq [piece : Piece, version : 1 .. Versions,
                      state : {"open", "written", "verified"}, old : BOOLEAN]

\* Written pieces the journal calls durable survive a power cut.
Survives == len > 0 => \A p \in disk.durable : p <= len => stable[p] # 0

\* The server names its versions.  When it sends neither ETag nor Last-Modified,
\* nothing tells the journal of a .part that is gone from one that was never
\* written, so that Probed does not reset it.
Named == validators # "none"

\* In crash-safe mode they do: "Every completed piece is durable before it enters
\* the journal" (spec.rs:197), whatever was killed, cut or wiped before.
CrashSafeSurvives == durability = "crash_safe" /\ Named => Survives

\* "Checkpoint + fdatasync every interval" (spec.rs:195): so do the pieces of a
\* periodic checkpoint.
PeriodicSurvives == durability = "periodic" => Survives

\* What a power cut spares, or none has happened.
Spared == durability = "crash_safe" \/ powerCuts = 0

\* What is published has no holes: a crash between any two steps, the rename and
\* the removal of the journal included, never makes a later run skip a piece.
PublishedWhole ==
  Spared /\ (Named \/ VerifyOnResume) =>
    \A c \in published : \A p \in Piece : c[p] # 0

Uniform == \A c \in published : \A p, q \in Piece : c[p] = c[q]

\* As long as no run probes twice, the pieces of one published artifact come from
\* one version, however many runs and versions it took.
PublishedUniform == Spared /\ Named /\ reprobes = 0 => Uniform

\* With finitely many interruptions and versions the artifact is published.
Publishes == <>(phase = "finished")
=============================================================================
