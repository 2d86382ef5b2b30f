----------------------------- MODULE ResumeProofs -----------------------------
(***************************************************************************)
(* Proofs about module Resume, for every number of pieces, versions and    *)
(* interruptions, every durability and every kind of validator.            *)
(*                                                                         *)
(* ResumeInv is inductive.  It says what each record of a piece vouches    *)
(* for: a piece is Good for an ETag when its bytes are there, in crash-    *)
(* safe mode beyond a power cut, and of the version that ETag names as     *)
(* long as no run has probed twice.  The journal on disk vouches for its   *)
(* pieces unless the .part is gone (len = 0); then the run that finds it   *)
(* has evidence without an ETag, and the probe that judges it resets the   *)
(* journal before anything is written.  JournalInv needs the server to     *)
(* name its versions; PlanInv, of one run, does not.                       *)
(***************************************************************************)
EXTENDS Resume, TLAPS

\* A fetch of the run.
Task == [piece : Piece, version : 1 .. Versions, state : {"open", "written", "verified"}, old : BOOLEAN]

\* A job with a plan, or on its way to one.
Busy == phase \in {"probing", "transferring", "committing"}

\* Piece p holds what a journal with ETag v says of it.
Good(p, v) ==
  /\ cache[p] # 0 /\ (reprobes = 0 => cache[p] = v)
  /\ durability = "crash_safe" => stable[p] # 0 /\ (reprobes = 0 => stable[p] = v)

\* What a run has in memory while its evidence is not judged, and after.
RunShape ==
  /\ evidence # {} => phase = "probing" /\ tasks = {} /\ done = {} /\ lock = 0 /\ timers = 0
  /\ \A e \in evidence : e.etag = mem.etag /\ e.etag = IF len = 0 THEN 0 ELSE disk.etag
  /\ ~Busy /\ phase # "committed" => timers = 0
  /\ tasks # {} => Busy \/ phase = "committed"
  /\ timers > 0 => durability = "periodic"
  /\ phase = "committed" => len = 0
  /\ phase = "committing" => done = Piece
  /\ phase = "probing" /\ reprobes = 0 => evidence # {}
  /\ mem.durable \subseteq mem.completed
  /\ \A p \in Piece : stable[p] # 0 => cache[p] # 0
  /\ reprobes \in Nat /\ powerCuts \in Nat

\* The tasks of a run bring the bytes they have reported.
TasksInv ==
  Busy => \A t \in tasks :
            /\ t.state # "open" => cache[t.piece] # 0
            /\ t.state = "verified" /\ durability = "crash_safe" => stable[t.piece] # 0

\* As long as no run probes twice, they are those of the version locked.
VersionsInv ==
  Named /\ reprobes = 0 =>
    /\ \A t \in tasks :
         /\ t.version = lock
         /\ Busy /\ t.state # "open" => cache[t.piece] = lock
         /\ Busy /\ t.state = "verified" /\ durability = "crash_safe" => stable[t.piece] = lock
    /\ phase \in {"transferring", "committing", "committed"} => lock # 0
    /\ phase \in {"transferring", "committing"} => mem.etag = lock
    /\ phase \in {"transferring", "committing"} /\ disk.durable # {} => disk.etag = lock

\* The journal, in memory and on disk.
JournalInv ==
  Spared /\ Named =>
    /\ len = 0 \/ \A p \in disk.durable : Good(p, disk.etag)
    /\ Busy => \A p \in mem.completed : Good(p, mem.etag)
    /\ Busy /\ evidence = {} => \A p \in disk.durable : Good(p, disk.etag)
    /\ \A e \in evidence : \A p \in e.durable : Good(p, e.etag)

\* The plan, and what is published from it.
PlanInv ==
  Spared /\ (Named \/ VerifyOnResume) =>
    /\ Busy => \A p \in done : cache[p] # 0
    /\ \A c \in published, p \in Piece : c[p] # 0

PlanVersions ==
  Spared /\ Named /\ reprobes = 0 =>
    /\ Busy => \A p \in done : cache[p] = lock
    /\ Uniform
    /\ phase = "committed" => \A c \in published, p \in Piece : c[p] = lock

ResumeInv ==
  TypeOK /\ RunShape /\ TasksInv /\ VersionsInv /\ JournalInv /\ PlanInv /\ PlanVersions

-----------------------------------------------------------------------------
(***************************************************************************)
(* The first state, and steps that only move on.                           *)
(***************************************************************************)
\* The first run finds neither a .part nor a journal.
LEMMA InitResumeInv == Init => ResumeInv
<1> SUFFICES ASSUME Init PROVE ResumeInv OBVIOUS
<1>1. TypeOK BY ResumeAssumption DEF Init, TypeOK, Contents, Holes, JournalPayload, FreshJournal, Piece
<1>2. RunShape BY DEF Init, RunShape, Busy, FreshJournal, Holes
<1>3. TasksInv /\ VersionsInv BY DEF Init, TasksInv, VersionsInv, Busy
<1>4. JournalInv BY DEF Init, JournalInv, Busy
<1>5. PlanInv /\ PlanVersions BY DEF Init, PlanInv, PlanVersions, Busy, Uniform
<1> QED BY <1>1, <1>2, <1>3, <1>4, <1>5 DEF ResumeInv

\* A step that ends the run has the type, the .part and the journal on disk left
\* to check.
LEMMA EndedInv ==
  ASSUME ResumeInv, TypeOK', NEW ph \in {"none", "finished"}, NoJob(ph),
         UNCHANGED <<fixed, published, reprobes>>, powerCuts' \in Nat, Spared' => Spared,
         \A p \in Piece : stable'[p] # 0 => cache'[p] # 0,
         Spared' /\ Named => len' = 0 \/ \A p \in disk'.durable : Good(p, disk.etag)'
  PROVE  ResumeInv'
<1>1. /\ phase' = ph /\ evidence' = {} /\ tasks' = {} /\ timers' = 0 /\ mem' = FreshJournal
      /\ ~Busy' /\ Named' = Named
  BY DEF NoJob, Busy, fixed, Named
<1>2. RunShape' BY <1>1 DEF ResumeInv, RunShape, FreshJournal
<1>3. TasksInv' /\ VersionsInv' BY <1>1 DEF TasksInv, VersionsInv
<1>4. JournalInv' BY <1>1 DEF JournalInv
<1>5. PlanInv' BY <1>1 DEF ResumeInv, PlanInv
<1>6. PlanVersions' BY <1>1 DEF ResumeInv, PlanVersions, Uniform
<1> QED BY <1>2, <1>3, <1>4, <1>5, <1>6 DEF ResumeInv

\* InvalidateArtifact ends the run and leaves the files.
LEMMA ArtifactChangedInv == ASSUME ResumeInv, ArtifactChanged PROVE ResumeInv'
<1>1. NoJob("none") /\ UNCHANGED <<fixed, server, files, disk, fates>> BY DEF ArtifactChanged
<1>2. TypeOK' BY <1>1, ResumeAssumption DEF ResumeInv, TypeOK, NoJob, files, FreshJournal, JournalPayload
<1>3. UNCHANGED <<cache, stable, len, published, reprobes, powerCuts, durability, validators>>
  BY <1>1 DEF files, fates, fixed
<1>4. Spared' = Spared BY <1>3 DEF Spared
<1>5. Spared /\ Named => len' = 0 \/ \A p \in disk'.durable : Good(p, disk.etag)'
  BY <1>1, <1>3 DEF ResumeInv, JournalInv, Good
<1> QED BY <1>1, <1>2, <1>3, <1>4, <1>5, EndedInv DEF ResumeInv, RunShape

\* finish_job checkpoints what the run has recorded.
LEMMA StopInv == ASSUME ResumeInv, Stop PROVE ResumeInv'
<1>1. /\ NoJob("none") /\ UNCHANGED <<fixed, server, files, powerCuts, reprobes>>
      /\ disk' = AllDurable(mem) /\ Busy
  BY DEF Stop, Busy
<1>2. UNCHANGED <<cache, stable, len, published, durability, validators, powerCuts, reprobes>>
  BY <1>1 DEF files, fixed
<1>3. mem \in JournalPayload /\ disk' = [mem EXCEPT !.durable = mem.completed]
  BY <1>1 DEF ResumeInv, TypeOK, AllDurable
<1>4. disk' \in JournalPayload /\ disk'.durable = mem.completed /\ disk'.etag = mem.etag
  BY <1>3 DEF JournalPayload
<1>5. TypeOK' BY <1>1, <1>4, ResumeAssumption DEF ResumeInv, TypeOK, NoJob, files, FreshJournal, JournalPayload
<1>6. Spared' = Spared BY <1>2 DEF Spared
<1>7. Spared /\ Named => \A p \in disk'.durable : Good(p, disk.etag)'
  BY <1>1, <1>2, <1>4 DEF ResumeInv, JournalInv, Good
<1> QED BY <1>1, <1>2, <1>5, <1>6, <1>7, EndedInv DEF ResumeInv, RunShape

\* The journal goes with the job that is done.
LEMMA CompleteInv == ASSUME ResumeInv, Complete PROVE ResumeInv'
<1>1. NoJob("finished") /\ UNCHANGED <<fixed, server, files, fates>> /\ disk' = FreshJournal BY DEF Complete
<1>2. TypeOK' BY <1>1, ResumeAssumption DEF ResumeInv, TypeOK, NoJob, files, FreshJournal, JournalPayload
<1>3. UNCHANGED <<cache, stable, len, published, reprobes, powerCuts, durability, validators>>
  BY <1>1 DEF files, fates, fixed
<1>4. Spared' = Spared BY <1>3 DEF Spared
<1>5. disk'.durable = {} BY <1>1 DEF FreshJournal
<1> QED BY <1>1, <1>2, <1>3, <1>4, <1>5, EndedInv DEF ResumeInv, RunShape

\* A kill leaves the files as they are.
LEMMA KillInv == ASSUME ResumeInv, Kill PROVE ResumeInv'
<1>1. NoJob("none") /\ UNCHANGED <<fixed, server, files, disk, powerCuts, reprobes>> BY DEF Kill
<1>2. TypeOK' BY <1>1, ResumeAssumption DEF ResumeInv, TypeOK, NoJob, files, FreshJournal, JournalPayload
<1>3. UNCHANGED <<cache, stable, len, published, reprobes, powerCuts, durability, validators>>
  BY <1>1 DEF files, fixed
<1>4. Spared' = Spared BY <1>3 DEF Spared
<1>5. Spared /\ Named => len' = 0 \/ \A p \in disk'.durable : Good(p, disk.etag)'
  BY <1>1, <1>3 DEF ResumeInv, JournalInv, Good
<1> QED BY <1>1, <1>2, <1>3, <1>4, <1>5, EndedInv DEF ResumeInv, RunShape

\* A power cut leaves what was synced, or something of it that is newer.
LEMMA PowerCutInv == ASSUME ResumeInv, PowerCut PROVE ResumeInv'
<1>1. /\ NoJob("none") /\ UNCHANGED <<fixed, server, published, disk, reprobes>>
      /\ powerCuts' = powerCuts + 1 /\ stable' = cache'
  BY DEF PowerCut
<1>2. PICK back \in SUBSET {p \in Piece : cache[p] # stable[p]} :
        cache' = [p \in Piece |-> IF p \in back THEN cache[p] ELSE stable[p]]
  BY DEF PowerCut
<1>3. len' \in 0 .. len /\ len \in 0 .. Pieces BY DEF PowerCut, ResumeInv, TypeOK
<1>4. cache' \in Contents BY <1>2 DEF ResumeInv, TypeOK, Contents
<1>5. len' \in 0 .. Pieces BY <1>3, ResumeAssumption
<1>6. TypeOK' BY <1>1, <1>4, <1>5, ResumeAssumption
       DEF ResumeInv, TypeOK, NoJob, FreshJournal, JournalPayload
<1>7. powerCuts \in Nat /\ powerCuts' \in Nat /\ powerCuts' # 0 BY <1>1 DEF ResumeInv, RunShape
<1>8. durability' = durability /\ validators' = validators BY <1>1 DEF fixed
<1>9. Spared' => durability = "crash_safe" BY <1>7, <1>8 DEF Spared
<1>10. Spared' => Spared BY <1>9 DEF Spared
<1>11. ASSUME Spared', Named, len' # 0, NEW p \in disk'.durable PROVE Good(p, disk.etag)'
  <2>1. len # 0 BY <1>3, <1>11
  <2>2. p \in disk.durable /\ p \in Piece BY <1>1, <1>11 DEF ResumeInv, TypeOK, JournalPayload
  <2>3. Good(p, disk.etag) BY <1>10, <1>11, <2>1, <2>2 DEF ResumeInv, JournalInv
  <2>4. cache'[p] \in {cache[p], stable[p]} BY <1>2, <2>2
  <2> QED BY <1>1, <1>8, <1>9, <1>11, <2>3, <2>4 DEF Good
<1> QED BY <1>1, <1>6, <1>7, <1>10, <1>11, EndedInv

\* The .part becomes the artifact: complete, and of the version locked.
LEMMA FinalizeInv == ASSUME ResumeInv, Finalize PROVE ResumeInv'
<1>1. /\ phase = "committing" /\ phase' = "committed" /\ published' = {cache}
      /\ cache' = Holes /\ stable' = Holes /\ len' = 0
      /\ UNCHANGED <<fixed, server, disk, mem, evidence, done, lock, probe, tasks, timers, fates>>
  BY DEF Finalize
<1>2. UNCHANGED <<durability, validators, powerCuts, reprobes>> /\ Busy /\ ~Busy'
  BY <1>1 DEF fixed, fates, Busy
<1>3. TypeOK' BY <1>1, ResumeAssumption DEF ResumeInv, TypeOK, Contents, Holes
<1>4. done = Piece /\ evidence = {} BY <1>1 DEF ResumeInv, RunShape
<1>5. RunShape' BY <1>1, <1>2, <1>4 DEF ResumeInv, RunShape, Holes
<1>6. Spared' = Spared /\ Named' = Named BY <1>2 DEF Spared, Named
<1>7. TasksInv' /\ JournalInv' BY <1>1, <1>2, <1>4 DEF TasksInv, JournalInv
<1>8. VersionsInv' BY <1>1, <1>2, <1>6 DEF ResumeInv, VersionsInv
<1>9. PlanInv' BY <1>1, <1>2, <1>4, <1>6 DEF ResumeInv, PlanInv
<1>10. PlanVersions' BY <1>1, <1>2, <1>4, <1>6 DEF ResumeInv, PlanVersions, Uniform
<1> QED BY <1>3, <1>5, <1>7, <1>8, <1>9, <1>10 DEF ResumeInv

\* The artifact changes at the server; what was fetched does not.
LEMMA ServerChangesInv == ASSUME ResumeInv, ServerChanges PROVE ResumeInv'
<1>1. /\ server < Versions /\ server' = server + 1
      /\ UNCHANGED <<fixed, files, disk, mem, phase, evidence, done, lock, probe, tasks, timers, fates>>
  BY DEF ServerChanges
<1>2. UNCHANGED <<durability, validators, powerCuts, reprobes, cache, stable, len, published>>
  BY <1>1 DEF fixed, fates, files
<1>3. TypeOK' BY <1>1, <1>2, ResumeAssumption DEF ResumeInv, TypeOK
<1> QED BY <1>1, <1>2, <1>3 DEF ResumeInv, RunShape, TasksInv, VersionsInv, JournalInv, PlanInv,
           PlanVersions, Busy, Named, Spared, Good, Uniform

\* A probe is answered; nothing is judged yet.
LEMMA ProbeAnswersInv == ASSUME ResumeInv, ProbeAnswers PROVE ResumeInv'
<1>1. /\ probe' = server
      /\ UNCHANGED <<fixed, server, files, disk, mem, phase, evidence, done, lock, tasks, timers, fates>>
  BY DEF ProbeAnswers
<1>2. UNCHANGED <<durability, validators, powerCuts, reprobes, cache, stable, len, published>>
  BY <1>1 DEF fixed, fates, files
<1>3. TypeOK' BY <1>1, <1>2, ResumeAssumption DEF ResumeInv, TypeOK
<1> QED BY <1>1, <1>2, <1>3 DEF ResumeInv, RunShape, TasksInv, VersionsInv, JournalInv, PlanInv,
           PlanVersions, Busy, Named, Spared, Good, Uniform

\* From a second probe on, versions are not followed.
LEMMA ReprobeInv == ASSUME ResumeInv, Reprobe PROVE ResumeInv'
<1>1. /\ phase = "transferring" /\ phase' = "probing" /\ reprobes' = reprobes + 1
      /\ UNCHANGED <<fixed, server, files, disk, mem, evidence, done, lock, probe, tasks, timers, powerCuts>>
  BY DEF Reprobe
<1>2. /\ UNCHANGED <<durability, validators, cache, stable, len, published>>
      /\ reprobes' \in Nat /\ reprobes' # 0 /\ Busy /\ Busy'
  BY <1>1 DEF fixed, files, ResumeInv, RunShape, Busy
<1>3. evidence = {} BY <1>1 DEF ResumeInv, RunShape
<1>4. TypeOK' BY <1>1, <1>2 DEF ResumeInv, TypeOK
<1>5. RunShape' BY <1>1, <1>2, <1>3 DEF ResumeInv, RunShape
<1>6. Spared' = Spared /\ Named' = Named BY <1>1, <1>2 DEF Spared, Named
<1>7. TasksInv' BY <1>1, <1>2 DEF ResumeInv, TasksInv
<1>8. VersionsInv' /\ PlanVersions' BY <1>2 DEF VersionsInv, PlanVersions
<1>9. JournalInv' BY <1>1, <1>2, <1>3, <1>6 DEF ResumeInv, JournalInv, Good
<1>10. PlanInv' BY <1>1, <1>2, <1>6 DEF ResumeInv, PlanInv
<1> QED BY <1>4, <1>5, <1>7, <1>8, <1>9, <1>10 DEF ResumeInv

-----------------------------------------------------------------------------
(***************************************************************************)
(* The steps of a run.                                                     *)
(***************************************************************************)
\* discover_resume vouches for no piece that the journal on disk does not.
LEMMA AdmitInv == ASSUME ResumeInv, Admit PROVE ResumeInv'
<1>1. /\ phase = "none" /\ phase' = "probing" /\ mem' = Discovered
      /\ evidence' = {[durable |-> Discovered.durable, etag |-> Discovered.etag]}
      /\ done' = {} /\ lock' = 0 /\ probe' = 0 /\ tasks' = {} /\ timers' = 0
      /\ UNCHANGED <<fixed, server, files, disk, fates>>
  BY DEF Admit
<1>2. UNCHANGED <<durability, validators, powerCuts, reprobes, cache, stable, len, published>>
  BY <1>1 DEF fixed, fates, files
<1>3. /\ Discovered \in JournalPayload /\ Discovered.durable = Discovered.completed
      /\ Discovered.etag = IF len = 0 THEN 0 ELSE disk.etag
      /\ Discovered.durable \subseteq disk.durable
      /\ len = 0 => Discovered.durable = {}
  <2>1. Surviving(disk.durable) \subseteq disk.durable BY DEF Surviving
  <2>2. disk \in JournalPayload BY DEF ResumeInv, TypeOK
  <2> QED BY <2>1, <2>2, ResumeAssumption DEF Discovered, FreshJournal, JournalPayload
<1> DEFINE e0 == [durable |-> Discovered.durable, etag |-> Discovered.etag]
<1>4. e0 \in [durable : SUBSET Piece, etag : 0 .. Versions] BY <1>3 DEF JournalPayload
<1>5. e0.durable = Discovered.durable /\ e0.etag = Discovered.etag /\ evidence' = {e0} BY <1>1
<1> HIDE DEF e0
<1>6. TypeOK' BY <1>1, <1>2, <1>3, <1>4, <1>5, ResumeAssumption DEF ResumeInv, TypeOK
<1>7. RunShape' BY <1>1, <1>2, <1>3, <1>5 DEF ResumeInv, RunShape, Busy
<1>8. TasksInv' /\ VersionsInv' BY <1>1 DEF TasksInv, VersionsInv
<1>9. JournalInv'
  <2>1. Spared' = Spared /\ Named' = Named BY <1>2 DEF Spared, Named
  <2>2. Spared /\ Named => len = 0 \/ \A p \in disk.durable : Good(p, disk.etag)
    BY DEF ResumeInv, JournalInv
  <2>3. Spared /\ Named => \A p \in Discovered.durable : Good(p, Discovered.etag) BY <1>3, <2>2
  <2> DEFINE Stays(p, v) ==
        /\ cache'[p] # 0 /\ (reprobes' = 0 => cache'[p] = v)
        /\ durability' = "crash_safe" => stable'[p] # 0 /\ (reprobes' = 0 => stable'[p] = v)
  <2>4. \A p, v : Good(p, v) => Stays(p, v) BY <1>2 DEF Good
  <2> HIDE DEF Stays
  <2>5. Spared' /\ Named' => len' = 0 \/ \A p \in disk'.durable : Good(p, disk.etag)'
    <3>1. Spared' /\ Named' => len' = 0 \/ \A p \in disk'.durable : Stays(p, disk'.etag)
      BY <1>1, <1>2, <2>1, <2>2, <2>4
    <3> QED BY <3>1 DEF Good, Stays
  <2>6. Spared' /\ Named' => \A p \in mem'.completed : Good(p, mem.etag)'
    <3>1. Spared' /\ Named' => \A p \in mem'.completed : Stays(p, mem'.etag)
      BY <1>1, <1>3, <2>1, <2>3, <2>4
    <3> QED BY <3>1 DEF Good, Stays
  <2>7. Spared' /\ Named' => \A e \in evidence' : \A p \in e.durable : Good(p, e.etag)'
    <3>1. Spared' /\ Named' => \A e \in evidence' : \A p \in e.durable : Stays(p, e.etag)
      BY <1>5, <2>1, <2>3, <2>4
    <3> QED BY <3>1 DEF Good, Stays
  <2> QED BY <1>5, <2>5, <2>6, <2>7 DEF JournalInv
<1>10. PlanInv' BY <1>1, <1>2 DEF ResumeInv, PlanInv, Spared, Named
<1>11. PlanVersions' BY <1>1, <1>2 DEF ResumeInv, PlanVersions, Spared, Named, Uniform
<1> QED BY <1>6, <1>7, <1>8, <1>9, <1>10, <1>11 DEF ResumeInv

\* A response passes the lock with the version that is locked.
LEMMA RespondInv == ASSUME ResumeInv, NEW p \in Piece, Respond(p) PROVE ResumeInv'
<1> DEFINE t0 == [piece |-> p, version |-> server, state |-> "open", old |-> FALSE]
<1>1. /\ phase = "transferring" /\ SameRepresentation
      /\ lock' = IF lock = 0 THEN Etag(server) ELSE lock
      /\ tasks' = tasks \cup {t0}
      /\ UNCHANGED <<fixed, server, files, disk, mem, phase, evidence, done, probe, timers, fates>>
  BY DEF Respond
<1>2. UNCHANGED <<durability, validators, powerCuts, reprobes, cache, stable, len, published>>
  BY <1>1 DEF fixed, fates, files
<1>3. /\ t0 \in [piece : Piece, version : 1 .. Versions, state : {"open", "written", "verified"}, old : BOOLEAN]
      /\ t0.state = "open" /\ t0.version = server
  BY DEF ResumeInv, TypeOK
<1>4. Etag(server) \in 0 .. Versions BY ResumeAssumption DEF ResumeInv, TypeOK, Etag
<1> HIDE DEF t0
<1>5. TypeOK' BY <1>1, <1>2, <1>3, <1>4 DEF ResumeInv, TypeOK
<1>6. evidence = {} /\ Busy BY <1>1 DEF ResumeInv, RunShape, Busy
<1>7. RunShape' BY <1>1, <1>2, <1>6 DEF ResumeInv, RunShape, Busy
<1>8. TasksInv' BY <1>1, <1>2, <1>3 DEF ResumeInv, TasksInv, Busy
<1>9. Spared' = Spared /\ Named' = Named BY <1>2 DEF Spared, Named
<1>10. Named /\ reprobes = 0 => lock' = lock /\ lock = server
  <2> SUFFICES ASSUME Named, reprobes = 0 PROVE lock' = lock /\ lock = server OBVIOUS
  <2>1. lock # 0 BY <1>1 DEF ResumeInv, VersionsInv
  <2>2. Etag(server) = server /\ server # 0 BY DEF Etag, Named, ResumeInv, TypeOK
  <2> QED BY <1>1, <2>1, <2>2 DEF SameRepresentation
<1>11. VersionsInv' BY <1>1, <1>2, <1>3, <1>9, <1>10 DEF ResumeInv, VersionsInv, Busy
<1>12. JournalInv' BY <1>1, <1>2, <1>6, <1>9 DEF ResumeInv, JournalInv, Good, Busy
<1>13. PlanInv' BY <1>1, <1>2, <1>9 DEF ResumeInv, PlanInv, Busy
<1>14. PlanVersions' BY <1>1, <1>2, <1>9, <1>10 DEF ResumeInv, PlanVersions, Busy, Uniform
<1> QED BY <1>5, <1>7, <1>8, <1>11, <1>12, <1>13, <1>14 DEF ResumeInv

\* A checkpoint calls durable what the run has recorded, and happens with timers only.
LEMMA CheckpointInv == ASSUME ResumeInv, Checkpoint PROVE ResumeInv'
<1>1. /\ timers > 0 /\ timers' = timers - 1 /\ mem' = AllDurable(mem) /\ disk' = mem'
      /\ UNCHANGED <<fixed, server, files, phase, evidence, done, lock, probe, tasks, fates>>
  BY DEF Checkpoint
<1>2. UNCHANGED <<durability, validators, powerCuts, reprobes, cache, stable, len, published>>
  BY <1>1 DEF fixed, fates, files
<1>3. /\ mem \in JournalPayload /\ timers \in Nat BY DEF ResumeInv, TypeOK
<1>4. /\ mem' \in JournalPayload /\ mem'.durable = mem.completed /\ mem'.completed = mem.completed
      /\ mem'.etag = mem.etag
  BY <1>1, <1>3 DEF AllDurable, JournalPayload
<1>5. TypeOK' BY <1>1, <1>2, <1>3, <1>4 DEF ResumeInv, TypeOK
<1>6. evidence = {} BY <1>1, <1>3 DEF ResumeInv, RunShape
<1>7. RunShape' BY <1>1, <1>2, <1>3, <1>4, <1>6 DEF ResumeInv, RunShape, Busy
<1>8. TasksInv' BY <1>1, <1>2 DEF ResumeInv, TasksInv, Busy
<1>9. Spared' = Spared /\ Named' = Named BY <1>2 DEF Spared, Named
<1>10. VersionsInv' BY <1>1, <1>2, <1>4, <1>9 DEF ResumeInv, VersionsInv, Busy
<1>11. JournalInv'
  <2>1. CASE Busy BY <1>1, <1>2, <1>4, <1>6, <1>9, <2>1 DEF ResumeInv, JournalInv, Good, Busy
  <2>2. CASE ~Busy
    <3>1. len' = 0 BY <1>1, <1>2, <1>3, <2>2 DEF ResumeInv, RunShape
    <3> QED BY <1>1, <1>6, <2>2, <3>1 DEF JournalInv, Busy
  <2> QED BY <2>1, <2>2
<1>12. PlanInv' BY <1>1, <1>2, <1>9 DEF ResumeInv, PlanInv, Busy
<1>13. PlanVersions' BY <1>1, <1>2, <1>9 DEF ResumeInv, PlanVersions, Busy, Uniform
<1> QED BY <1>5, <1>7, <1>8, <1>10, <1>11, <1>12, <1>13 DEF ResumeInv

\* The judgement of the evidence: the plan is seeded with pieces that are good for
\* the ETag of the probe, and a journal that may vouch for a .part that is gone is
\* reset.
LEMMA HandleProbedInv == ASSUME ResumeInv, HandleProbed PROVE ResumeInv'
<1> DEFINE trusted == {e \in evidence : Trusted(e)}
           reset == {e \in evidence : ~Trusted(e) /\ ~Kept(e)} # {}
           seeded == UNION {e.durable : e \in trusted}
<1>1. /\ phase = "probing" /\ probe # 0
      /\ mem' = IF reset THEN [FreshJournal EXCEPT !.etag = Etag(probe)]
                ELSE [mem EXCEPT !.etag = Etag(probe)]
      /\ disk' = IF reset THEN mem' ELSE disk
      /\ lock' = IF lock = 0 THEN Etag(probe) ELSE lock
      /\ evidence' = {} /\ done' = seeded
      /\ phase' = IF seeded = Piece THEN "committing" ELSE "transferring"
      /\ probe' = 0
      /\ tasks' = {[t EXCEPT !.old = TRUE] : t \in tasks}
      /\ UNCHANGED <<fixed, server, files, timers, fates>>
  BY DEF HandleProbed
<1>2. UNCHANGED <<durability, validators, powerCuts, reprobes, cache, stable, len, published>>
  BY <1>1 DEF fixed, fates, files
<1>3. TypeOK /\ RunShape BY DEF ResumeInv
<1>4. Etag(probe) \in 0 .. Versions /\ (Named => Etag(probe) # 0)
  BY <1>1, <1>3, ResumeAssumption DEF TypeOK, Etag, Named
<1>5. trusted \subseteq evidence /\ seeded \subseteq Piece
  BY <1>3 DEF TypeOK
<1>6. \A e \in trusted : e.etag = Etag(probe) BY DEF Trusted, Agrees
<1>7. ~reset => \A e \in evidence : e.etag = Etag(probe) BY DEF Trusted, Kept, Agrees
<1>8. ~Named /\ VerifyOnResume => seeded = {} BY DEF Trusted, Named
<1>9. reset \in BOOLEAN OBVIOUS
<1>10. evidence = {} => ~reset OBVIOUS
<1>11. ASSUME NEW q \in seeded PROVE \E e \in trusted : q \in e.durable OBVIOUS
<1> HIDE DEF trusted, reset, seeded
<1>12. mem \in JournalPayload /\ disk \in JournalPayload BY <1>3 DEF TypeOK
<1>13. /\ mem' \in JournalPayload /\ mem'.etag = Etag(probe)
       /\ mem'.completed = IF reset THEN {} ELSE mem.completed
       /\ mem'.durable = IF reset THEN {} ELSE mem.durable
  BY <1>1, <1>4, <1>9, <1>12 DEF JournalPayload, FreshJournal
<1>14. \A t \in tasks' : \E u \in tasks :
         /\ t.piece = u.piece /\ t.version = u.version /\ t.state = u.state
         /\ t \in [piece : Piece, version : 1 .. Versions,
                   state : {"open", "written", "verified"}, old : BOOLEAN]
  BY <1>1, <1>3 DEF TypeOK
<1>15. TypeOK' BY <1>1, <1>2, <1>3, <1>4, <1>5, <1>12, <1>13, <1>14, ResumeAssumption DEF TypeOK
<1>16. Busy /\ Busy' /\ phase' \in {"transferring", "committing"} BY <1>1 DEF Busy
<1>17. Spared' = Spared /\ Named' = Named BY <1>2 DEF Spared, Named
<1>18. RunShape'
  <2>1. tasks' # {} => tasks # {} BY <1>14
  <2> QED BY <1>1, <1>2, <1>3, <1>13, <1>16, <2>1 DEF RunShape
<1>19. TasksInv' BY <1>2, <1>14, <1>16 DEF ResumeInv, TasksInv
<1>20. Named /\ len = 0 /\ evidence # {} => reset BY <1>3, <1>4, <1>7 DEF RunShape
<1>21. reprobes = 0 => evidence # {} /\ tasks = {} /\ lock = 0 BY <1>1, <1>3 DEF RunShape
<1>22. Named /\ ~reset /\ evidence # {} => len # 0 /\ disk.etag = Etag(probe) /\ mem.etag = Etag(probe)
  BY <1>3, <1>7, <1>20 DEF RunShape
<1>23. VersionsInv'
  <2> SUFFICES ASSUME Named, reprobes = 0
               PROVE  /\ tasks' = {} /\ lock' # 0 /\ mem'.etag = lock'
                      /\ disk'.durable # {} => disk'.etag = lock'
    BY <1>2, <1>16, <1>17 DEF VersionsInv
  <2>1. tasks' = {} /\ lock' = Etag(probe) BY <1>1, <1>14, <1>21
  <2>2. CASE reset BY <1>1, <1>4, <1>13, <2>1, <2>2
  <2>3. CASE ~reset BY <1>1, <1>4, <1>13, <1>21, <1>22, <2>1, <2>3
  <2> QED BY <2>2, <2>3
<1> DEFINE Stays(q, v) ==
      /\ cache'[q] # 0 /\ (reprobes' = 0 => cache'[q] = v)
      /\ durability' = "crash_safe" => stable'[q] # 0 /\ (reprobes' = 0 => stable'[q] = v)
<1>24. \A q, v : Good(q, v) => Stays(q, v) BY <1>2 DEF Good
<1>25. \A q, v, w : Good(q, v) /\ reprobes # 0 => Stays(q, w) BY <1>2 DEF Good
<1> HIDE DEF Stays
<1>26. ASSUME Spared, Named
       PROVE  /\ \A q \in mem'.completed : Stays(q, mem'.etag)
              /\ \A q \in disk'.durable : Stays(q, disk'.etag)
  <2>1. CASE reset BY <1>1, <1>13, <2>1
  <2>2. CASE ~reset
    <3>1. disk' = disk /\ mem'.completed = mem.completed BY <1>1, <1>13, <2>2
    <3>2. \A q \in mem.completed : Good(q, mem.etag) BY <1>16, <1>26 DEF ResumeInv, JournalInv
    <3>3. \A q \in mem.completed : Stays(q, mem'.etag)
      BY <1>13, <1>21, <1>22, <1>24, <1>25, <1>26, <2>2, <3>2
    <3>4. \A q \in disk.durable : Good(q, disk.etag)
      BY <1>16, <1>22, <1>26, <2>2 DEF ResumeInv, JournalInv
    <3> QED BY <1>24, <3>1, <3>3, <3>4
  <2> QED BY <2>1, <2>2
<1>27. JournalInv'
  <2>1. Spared' /\ Named' => \A q \in mem'.completed : Good(q, mem.etag)'
    BY <1>17, <1>26 DEF Good, Stays
  <2>2. Spared' /\ Named' => \A q \in disk'.durable : Good(q, disk.etag)'
    BY <1>17, <1>26 DEF Good, Stays
  <2> QED BY <1>1, <2>1, <2>2 DEF JournalInv
<1>28. ASSUME Spared, Named, NEW q \in seeded PROVE Good(q, Etag(probe))
  <2>1. PICK e \in trusted : q \in e.durable BY <1>11
  <2> QED BY <1>5, <1>6, <1>28, <2>1 DEF ResumeInv, JournalInv
<1>29. PlanInv'
  <2>1. Spared /\ (Named \/ VerifyOnResume) => \A q \in seeded : cache[q] # 0
    BY <1>8, <1>28 DEF Good
  <2> QED BY <1>1, <1>2, <1>17, <2>1 DEF ResumeInv, PlanInv
<1>30. PlanVersions'
  <2>1. Spared /\ Named /\ reprobes = 0 => \A q \in seeded : cache[q] = Etag(probe)
    BY <1>28 DEF Good
  <2>2. reprobes = 0 => lock' = Etag(probe) BY <1>1, <1>21
  <2> QED BY <1>1, <1>2, <1>16, <1>17, <2>1, <2>2 DEF ResumeInv, PlanVersions, Uniform
<1> QED BY <1>15, <1>18, <1>19, <1>23, <1>27, <1>29, <1>30 DEF ResumeInv

\* A write brings the version of its response, into the .part or, after the rename,
\* into what is published.
LEMMA WritePieceInv == ASSUME ResumeInv, NEW t \in tasks, WritePiece(t) PROVE ResumeInv'
<1> DEFINE t2 == [t EXCEPT !.state = "written"]
<1>0. TypeOK /\ RunShape BY DEF ResumeInv
<1>1. t \in Task /\ t.state = "open" /\ t.version # 0 /\ t.piece \in Piece
  BY <1>0 DEF WritePiece, TypeOK, Task
<1>2. /\ tasks' = (tasks \ {t}) \cup {t2}
      /\ UNCHANGED <<fixed, server, stable, disk, mem, phase, evidence, done, lock, probe, timers, fates>>
  BY DEF WritePiece
<1>3. UNCHANGED <<durability, validators, powerCuts, reprobes>> BY <1>2 DEF fixed, fates
<1>4. /\ t2 \in Task /\ t2.state = "written" /\ t2.piece = t.piece /\ t2.version = t.version
  BY <1>1 DEF Task
<1> HIDE DEF t2
<1>5. evidence = {} /\ (Busy \/ phase = "committed") BY <1>0 DEF RunShape
<1>6. Spared' = Spared /\ Named' = Named /\ Busy' = Busy BY <1>2, <1>3 DEF Spared, Named, Busy
<1>7. Named /\ reprobes = 0 => t.version = lock BY DEF ResumeInv, VersionsInv
<1>8. CASE phase = "committed"
  <2>1. /\ published' = {[c EXCEPT ![t.piece] = t.version] : c \in published}
        /\ UNCHANGED <<cache, len>>
    BY <1>8 DEF WritePiece
  <2>2. \A c \in published' : /\ c \in Contents
                              /\ \E b \in published : \A p \in Piece : c[p] \in {b[p], t.version} 
    BY <1>0, <1>1, <2>1 DEF TypeOK, Contents, Task
  <2>3. TypeOK' BY <1>0, <1>2, <1>4, <2>1, <2>2 DEF TypeOK, Task
  <2>4. ~Busy BY <1>8 DEF Busy
  <2>5. RunShape' BY <1>0, <1>2, <1>3, <1>5, <1>6, <2>1 DEF RunShape
  <2>6. TasksInv' /\ JournalInv' BY <1>0, <1>2, <1>5, <1>6, <1>8, <2>1, <2>4 DEF TasksInv, JournalInv, RunShape
  <2>7. VersionsInv' BY <1>2, <1>3, <1>4, <1>6, <1>7, <2>1, <2>4 DEF ResumeInv, VersionsInv
  <2>8. PlanInv' BY <1>1, <1>6, <2>2, <2>4 DEF ResumeInv, PlanInv
  <2>9. PlanVersions'
    <3> SUFFICES ASSUME Spared, Named, reprobes = 0
                 PROVE  \A c \in published', p \in Piece : c[p] = lock
      BY <1>2, <1>3, <1>6, <2>4 DEF PlanVersions, Uniform
    <3>1. \A c \in published, p \in Piece : c[p] = lock BY <1>8 DEF ResumeInv, PlanVersions
    <3> QED BY <1>7, <2>2, <3>1
  <2> QED BY <2>3, <2>5, <2>6, <2>7, <2>8, <2>9 DEF ResumeInv
<1>9. CASE phase # "committed"
  <2>1. /\ cache' = [cache EXCEPT ![t.piece] = t.version] /\ len' = LengthWith(t.piece)
        /\ published' = published
    BY <1>9 DEF WritePiece
  <2>2. cache \in Contents BY <1>0 DEF TypeOK
  <2>3. cache' \in Contents BY <1>1, <2>1, <2>2 DEF Contents, Task
  <2>4. len' \in 0 .. Pieces BY <1>0, <1>1, <2>1, ResumeAssumption DEF LengthWith, TypeOK, Piece
  <2>5. \A p \in Piece : cache'[p] = IF p = t.piece THEN t.version ELSE cache[p]
    BY <1>1, <2>1, <2>2 DEF Contents
  <2>6. TypeOK' BY <1>0, <1>2, <1>4, <2>1, <2>3, <2>4 DEF TypeOK, Task
  <2>7. Busy BY <1>5, <1>9
  <2>8. RunShape' BY <1>0, <1>1, <1>2, <1>3, <1>5, <1>6, <1>9, <2>5, <2>7 DEF RunShape
  <2>9. \A u \in tasks : u.piece \in Piece BY <1>0 DEF TypeOK
  <2>10. TasksInv' BY <1>1, <1>2, <1>3, <1>4, <1>6, <2>5, <2>7, <2>9 DEF ResumeInv, TasksInv
  <2>11. VersionsInv' BY <1>1, <1>2, <1>3, <1>4, <1>6, <1>7, <2>5, <2>7, <2>9 DEF ResumeInv, VersionsInv
  <2>12. reprobes = 0 => phase \in {"transferring", "committing"} BY <1>0, <1>5, <2>7 DEF RunShape, Busy
  <2>13. ASSUME Named, NEW p \in Piece, NEW v, Good(p, v), reprobes = 0 => v = lock
         PROVE  /\ cache'[p] # 0 /\ (reprobes' = 0 => cache'[p] = v)
                /\ durability' = "crash_safe" => stable'[p] # 0 /\ (reprobes' = 0 => stable'[p] = v)
    BY <1>1, <1>2, <1>3, <1>7, <2>5, <2>13 DEF Good
  <2>14. JournalInv'
    <3> SUFFICES ASSUME Spared, Named
                 PROVE  /\ \A p \in disk'.durable : Good(p, disk.etag)'
                        /\ \A p \in mem'.completed : Good(p, mem.etag)'
      BY <1>2, <1>5, <1>6, <2>7 DEF JournalInv
    <3>1. disk \in JournalPayload /\ mem \in JournalPayload BY <1>0 DEF TypeOK
    <3>2. \A p \in disk.durable : p \in Piece /\ Good(p, disk.etag) /\ (reprobes = 0 => disk.etag = lock)
      BY <1>5, <2>7, <2>12, <3>1 DEF ResumeInv, JournalInv, VersionsInv, JournalPayload
    <3>3. \A p \in mem.completed : p \in Piece /\ Good(p, mem.etag) /\ (reprobes = 0 => mem.etag = lock)
      BY <2>7, <2>12, <3>1 DEF ResumeInv, JournalInv, VersionsInv, JournalPayload
    <3>4. ASSUME NEW p \in disk'.durable PROVE Good(p, disk.etag)'
      BY <1>2, <2>13, <3>2, <3>4 DEF Good
    <3>5. ASSUME NEW p \in mem'.completed PROVE Good(p, mem.etag)'
      BY <1>2, <2>13, <3>3, <3>5 DEF Good
    <3> QED BY <3>4, <3>5
  <2>15. done \subseteq Piece BY <1>0 DEF TypeOK
  <2>16. PlanInv' BY <1>1, <1>2, <1>6, <2>1, <2>5, <2>7, <2>15 DEF ResumeInv, PlanInv
  <2>17. PlanVersions'
    BY <1>2, <1>3, <1>6, <1>7, <1>9, <2>1, <2>5, <2>7, <2>15 DEF ResumeInv, PlanVersions, Uniform
  <2> QED BY <2>6, <2>8, <2>10, <2>11, <2>14, <2>16, <2>17 DEF ResumeInv
<1> QED BY <1>8, <1>9

\* In crash-safe mode a piece is synced before it is reported.
LEMMA FinishPieceInv == ASSUME ResumeInv, NEW t \in tasks, FinishPiece(t) PROVE ResumeInv'
<1> DEFINE t2 == [t EXCEPT !.state = "verified"]
<1>0. TypeOK /\ RunShape BY DEF ResumeInv
<1>1. t \in Task /\ t.state = "written" BY <1>0 DEF FinishPiece, TypeOK, Task
<1>2. /\ tasks' = (tasks \ {t}) \cup {t2}
      /\ stable' = IF durability = "crash_safe" THEN cache ELSE stable
      /\ UNCHANGED <<fixed, server, cache, len, published, disk, mem, phase, evidence, done, lock,
                     probe, timers, fates>>
  BY DEF FinishPiece
<1>3. UNCHANGED <<durability, validators, powerCuts, reprobes>> BY <1>2 DEF fixed, fates
<1>4. /\ t2 \in Task /\ t2.state = "verified" /\ t2.piece = t.piece /\ t2.version = t.version
  BY <1>1 DEF Task
<1> HIDE DEF t2
<1>5. evidence = {} BY <1>0 DEF RunShape
<1>6. Spared' = Spared /\ Named' = Named /\ Busy' = Busy BY <1>2, <1>3 DEF Spared, Named, Busy
<1>7. TypeOK' BY <1>0, <1>2, <1>4 DEF TypeOK, Task
<1>8. RunShape' BY <1>0, <1>2, <1>3, <1>5, <1>6 DEF RunShape
<1>9. TasksInv' BY <1>1, <1>2, <1>3, <1>4, <1>6 DEF ResumeInv, TasksInv
<1>10. VersionsInv' BY <1>1, <1>2, <1>3, <1>4, <1>6 DEF ResumeInv, VersionsInv
<1>11. JournalInv' BY <1>2, <1>3, <1>5, <1>6 DEF ResumeInv, JournalInv, Good
<1>12. PlanInv' BY <1>2, <1>6 DEF ResumeInv, PlanInv
<1>13. PlanVersions' BY <1>2, <1>3, <1>6 DEF ResumeInv, PlanVersions, Uniform
<1> QED BY <1>7, <1>8, <1>9, <1>10, <1>11, <1>12, <1>13 DEF ResumeInv

\* A report enters the journal, and in crash-safe mode the disk, after its bytes.
LEMMA HandleVerifiedInv == ASSUME ResumeInv, NEW t \in tasks, HandleVerified(t) PROVE ResumeInv'
<1>0. TypeOK /\ RunShape BY DEF ResumeInv
<1>1. t \in Task /\ t.state = "verified" /\ phase \in {"probing", "transferring"} /\ t.piece \in Piece
  BY <1>0 DEF HandleVerified, TypeOK, Task
<1>2. /\ mem' = IF durability = "crash_safe" THEN AllDurable(Recorded(t.piece)) ELSE Recorded(t.piece)
      /\ disk' = IF durability = "crash_safe" THEN mem' ELSE disk
      /\ timers' = IF durability = "periodic" THEN timers + 1 ELSE timers
      /\ done' \in {done \cup {t.piece}, done}
      /\ phase' = IF done' = Piece THEN "committing" ELSE phase
      /\ tasks' = tasks \ {t}
      /\ UNCHANGED <<fixed, server, files, evidence, lock, probe, fates>>
  BY DEF HandleVerified
<1>3. UNCHANGED <<durability, validators, powerCuts, reprobes, cache, stable, len, published>>
  BY <1>2 DEF fixed, fates, files
<1>4. evidence = {} /\ Busy /\ Busy' BY <1>0, <1>1, <1>2 DEF RunShape, Busy
<1>5. mem \in JournalPayload /\ disk \in JournalPayload BY <1>0 DEF TypeOK
<1> DEFINE rec == Recorded(t.piece)
<1>6. /\ rec \in JournalPayload /\ rec.completed = mem.completed \cup {t.piece}
      /\ rec.durable = mem.durable /\ rec.etag = mem.etag
  BY <1>1, <1>5 DEF Recorded, JournalPayload
<1> HIDE DEF rec
<1>7. /\ mem' \in JournalPayload /\ mem'.completed = mem.completed \cup {t.piece}
      /\ mem'.durable \subseteq mem'.completed /\ mem'.etag = mem.etag
  <2>1. CASE durability = "crash_safe"
    <3>1. mem' = [rec EXCEPT !.durable = rec.completed] BY <1>2, <2>1 DEF AllDurable, rec
    <3> QED BY <1>6, <3>1 DEF JournalPayload
  <2>2. CASE durability # "crash_safe"
    <3>1. mem' = rec BY <1>2, <2>2 DEF rec
    <3> QED BY <1>0, <1>6, <3>1 DEF RunShape
  <2> QED BY <2>1, <2>2
<1>8. TypeOK' BY <1>0, <1>1, <1>2, <1>3, <1>5, <1>7 DEF TypeOK
<1>9. RunShape' BY <1>0, <1>1, <1>2, <1>3, <1>4, <1>7 DEF RunShape, Busy
<1>10. Spared' = Spared /\ Named' = Named BY <1>3 DEF Spared, Named
<1>11. TasksInv' BY <1>2, <1>3, <1>4 DEF ResumeInv, TasksInv
<1>12. reprobes = 0 => phase = "transferring" BY <1>0, <1>1, <1>4 DEF RunShape
<1>13. VersionsInv'
  BY <1>2, <1>3, <1>4, <1>7, <1>10, <1>12 DEF ResumeInv, VersionsInv
<1>14. JournalInv'
  <2> SUFFICES ASSUME Spared, Named
               PROVE  /\ \A p \in disk'.durable : Good(p, disk.etag)'
                      /\ \A p \in mem'.completed : Good(p, mem.etag)'
    BY <1>2, <1>4, <1>10 DEF JournalInv
  <2>1. Good(t.piece, mem.etag)
    BY <1>1, <1>4, <1>12 DEF ResumeInv, TasksInv, VersionsInv, Good
  <2>2. \A p \in mem'.completed : Good(p, mem'.etag)
    BY <1>4, <1>7, <2>1 DEF ResumeInv, JournalInv
  <2>3. \A p \in disk'.durable : Good(p, disk'.etag)
    <3>1. CASE durability = "crash_safe" BY <1>2, <1>7, <2>2, <3>1
    <3>2. CASE durability # "crash_safe" BY <1>2, <1>4, <3>2 DEF ResumeInv, JournalInv
    <3> QED BY <3>1, <3>2
  <2>4. \A p \in mem'.completed : Good(p, mem.etag)' BY <1>3, <2>2 DEF Good
  <2>5. \A p \in disk'.durable : Good(p, disk.etag)' BY <1>3, <2>3 DEF Good
  <2> QED BY <2>4, <2>5
<1>15. PlanInv' BY <1>1, <1>2, <1>3, <1>4, <1>10 DEF ResumeInv, PlanInv, TasksInv
<1>16. PlanVersions'
  BY <1>1, <1>2, <1>3, <1>4, <1>10, <1>12 DEF ResumeInv, PlanVersions, VersionsInv, Uniform
<1> QED BY <1>8, <1>9, <1>11, <1>13, <1>14, <1>15, <1>16 DEF ResumeInv

-----------------------------------------------------------------------------
(***************************************************************************)
(* The invariant, and what it gives.                                       *)
(***************************************************************************)
\* Every step keeps the invariant.
LEMMA NextResumeInv == ResumeInv /\ [Next]_vars => ResumeInv'
<1> SUFFICES ASSUME ResumeInv, [Next]_vars PROVE ResumeInv' OBVIOUS
<1>1. CASE UNCHANGED vars
  BY <1>1 DEF vars, fixed, files, fates, ResumeInv, TypeOK, RunShape, TasksInv, VersionsInv, JournalInv,
              PlanInv, PlanVersions, Busy, Named, Spared, Good, Uniform
<1>2. CASE Work
  BY <1>2, AdmitInv, ProbeAnswersInv, HandleProbedInv, RespondInv, WritePieceInv, FinishPieceInv,
     HandleVerifiedInv, ArtifactChangedInv, FinalizeInv, CompleteInv
     DEF Work
<1>3. CASE Reprobe \/ Checkpoint BY <1>3, ReprobeInv, CheckpointInv
<1>4. CASE Stop \/ Kill \/ PowerCut BY <1>4, StopInv, KillInv, PowerCutInv
<1>5. CASE ServerChanges BY <1>5, ServerChangesInv
<1> QED BY <1>1, <1>2, <1>3, <1>4, <1>5 DEF Next

\* ResumeInv holds in every state, over all runs of an artifact.
THEOREM ResumeInvariant == Spec => []ResumeInv
BY InitResumeInv, NextResumeInv, PTL DEF Spec

\* Journals name pieces and versions, tasks carry real bytes.
THEOREM ResumeType == Spec => []TypeOK
<1>1. ResumeInv => TypeOK BY DEF ResumeInv
<1> QED BY <1>1, ResumeInvariant, PTL

\* In crash-safe mode, the journal that persist_blocking leaves on disk names only
\* pieces that a power cut leaves, however a run ended.
THEOREM CrashSafeJournal == Spec => []CrashSafeSurvives
<1>1. ASSUME ResumeInv, durability = "crash_safe", Named, len > 0, NEW p \in disk.durable
      PROVE  stable[p] # 0
  <2>1. Spared /\ len # 0 BY <1>1 DEF Spared, ResumeInv, TypeOK
  <2> QED BY <1>1, <2>1 DEF ResumeInv, JournalInv, Good
<1>2. ResumeInv => CrashSafeSurvives BY <1>1 DEF CrashSafeSurvives, Survives
<1> QED BY <1>2, ResumeInvariant, PTL

\* finalize renames a .part without holes.
THEOREM WholeArtifact == Spec => []PublishedWhole
<1>1. ResumeInv => PublishedWhole BY DEF ResumeInv, PlanInv, PublishedWhole
<1> QED BY <1>1, ResumeInvariant, PTL

\* finalize renames a .part of one version as long as no run has probed twice.
THEOREM UniformArtifact == Spec => []PublishedUniform
<1>1. ResumeInv => PublishedUniform BY DEF ResumeInv, PlanVersions, PublishedUniform
<1> QED BY <1>1, ResumeInvariant, PTL

=============================================================================
