----------------------------- MODULE Backpressure -----------------------------
(***************************************************************************)
(* Where a fetching task waits before its bytes are written: for memory    *)
(* (storage/transfer.rs, MemoryBudget, shared by every job), for the       *)
(* destination's credits (storage/capacity.rs, CapacityGuard), and, when   *)
(* the application takes the bytes in order, for room in the reorder       *)
(* buffer (storage/reorder.rs, ReorderingDestination).  The tasks are      *)
(* those of one job, each with a piece of the artifact; the loop is        *)
(* fetch_range / deliver_range_bytes (http/fetch.rs) around                *)
(* SharedSink::accept (shard.rs).  A task is dropped where it awaits.      *)
(* Steps between two awaits interleave with other threads wherever they    *)
(* touch shared state.  A byte stands for a credit unit as well.           *)
(***************************************************************************)
EXTENDS Integers, FiniteSets, Sequences, FiniteSetsExt

CONSTANTS
  Tasks,            \* 1 .. n: task t fetches the t-th piece
  PieceLen,         \* bytes of a piece
  Overlap,          \* overlap_bytes: prefix fetched again before a piece
  MaxFrame,         \* largest body frame
  MemLimit,         \* MemoryBudget.limit
  Reserve,          \* MemoryBudget.reserve (the engine builds it with 0)
  MaxBuffered,      \* max_buffered of the reorder buffer
  Ops, ByteUnits,   \* credits of the destination
  MaxUpsets         \* bound: responses that end early and times other jobs take memory

ASSUME BackpressureAssumption ==
  /\ IsFiniteSet(Tasks) /\ Tasks = 1 .. Cardinality(Tasks)
  /\ \A n \in {PieceLen, MaxFrame, MemLimit, MaxBuffered, Ops, ByteUnits} : n \in Nat \ {0}
  /\ \A n \in {Overlap, Reserve, MaxUpsets} : n \in Nat
  /\ Reserve <= MemLimit

VARIABLES
  used,             \* MemoryBudget.used
  loan,             \* bytes other jobs hold of it
  ops, units,       \* tokens left in the two flume channels
  task,             \* Tasks -> where it is and what it holds
  next,             \* next_offset
  pending,          \* chunks buffered ahead of next_offset
  lock,             \* who holds the adapter's mutex (0: nobody)
  out,              \* bytes pushed into the application's sink
  stop,             \* the job's context is cancelled
  upsets            \* early ends and loans so far

memory == <<used, loan>>
credits == <<ops, units>>
sink == <<next, pending, lock, out>>
vars == <<memory, credits, task, sink, stop, upsets>>

Length == PieceLen * Cardinality(Tasks)
\* The sum of f over S.
Total(f, S) == MapThenSumSet(LAMBDA x : f[x], S)

\* Where task t's response begins and ends: the overlap is taken off in wire_range
\* and again in fetch_range, never below the first byte.
Start(t) == LET lo == (t - 1) * PieceLen - 2 * Overlap IN IF lo < 0 THEN 0 ELSE lo
End(t) == t * PieceLen

\* A chunk: the bytes that remain of it and the permit that is freed with it.
Chunk(off, len, mem) == [off |-> off, len |-> len, mem |-> mem]
None == Chunk(0, 0, 0)
Last(c) == c.off + c.len

Places == {"frame", "memory", "listen", "recheck", "parked", "ops", "bytes", "write",
           "lock", "room", "drain", "push", "free_bytes", "free_ops", "done", "dropped"}

Init ==
  /\ used = 0 /\ loan = 0
  /\ ops = Ops /\ units = ByteUnits
  /\ task = [t \in Tasks |-> [pc |-> "frame", off |-> Start(t), len |-> 0, held |-> 0,
                              got |-> 0, woken |-> FALSE, quit |-> FALSE, cur |-> None]]
  /\ next = 0 /\ pending = {} /\ lock = 0 /\ out = <<>>
  /\ stop = FALSE /\ upsets = 0

At(t, pc) == task[t].pc = pc
Ended(t) == task[t].pc \in {"done", "dropped"}
Goto(t, pc) == task' = [task EXCEPT ![t].pc = pc]

\* Event::notify(usize::MAX): everyone registered wakes up, parked or not yet.
Notified(tk, where) == [t \in Tasks |-> IF tk[t].pc \in where THEN [tk[t] EXCEPT !.woken = TRUE] ELSE tk[t]]

\* Drop for MemoryPermit.
Freed(n, tk) == used' = used - n /\ task' = IF n = 0 THEN tk ELSE Notified(tk, {"recheck", "parked"})

-----------------------------------------------------------------------------
(***************************************************************************)
(* acquire_classed: take the bytes if the class has headroom, otherwise    *)
(* register, look again, and only then sleep.                              *)
(***************************************************************************)
\* The task that starts at the verified prefix may use the reserve.
Usable(t) == IF t = 1 THEN MemLimit ELSE MemLimit - Reserve
Room(t) == used + task[t].len <= (IF task[t].len > Usable(t) THEN task[t].len ELSE Usable(t))

\* deliver_range_bytes: the next frame, cut at the end of the range.
Frame(t) ==
  /\ At(t, "frame") /\ task[t].off < End(t)
  /\ \E n \in 1 .. Min({MaxFrame, End(t) - task[t].off, MemLimit}) :
       task' = [task EXCEPT ![t].pc = "memory", ![t].len = n]
  /\ UNCHANGED <<memory, credits, sink, stop, upsets>>

Completed(t) ==
  /\ At(t, "frame") /\ task[t].off = End(t)
  /\ Goto(t, "done")
  /\ UNCHANGED <<memory, credits, sink, stop, upsets>>

\* PrematureEof or a transport error: the range is claimed and fetched again.
Cut(t) ==
  /\ At(t, "frame") /\ task[t].off < End(t) /\ upsets < MaxUpsets
  /\ upsets' = upsets + 1
  /\ task' = [task EXCEPT ![t].off = Start(t)]
  /\ UNCHANGED <<memory, credits, sink, stop>>

Acquire(t) ==
  /\ At(t, "memory")
  /\ IF Room(t)
     THEN /\ used' = used + task[t].len
          /\ task' = [task EXCEPT ![t].pc = "ops", ![t].held = task[t].len]
     ELSE Goto(t, "listen") /\ UNCHANGED used
  /\ UNCHANGED <<loan, credits, sink, stop, upsets>>

Listen(t) ==
  /\ At(t, "listen")
  /\ task' = [task EXCEPT ![t].pc = "recheck", ![t].woken = FALSE]
  /\ UNCHANGED <<memory, credits, sink, stop, upsets>>

\* Mutant of Recheck: sleeps without looking again, on a listener of its own.
RecheckLate(t) ==
  /\ At(t, "recheck")
  /\ task' = [task EXCEPT ![t].pc = "parked", ![t].woken = FALSE]
  /\ UNCHANGED <<memory, credits, sink, stop, upsets>>

Recheck(t) ==
  /\ At(t, "recheck")
  /\ Goto(t, IF Room(t) THEN "memory" ELSE "parked")
  /\ UNCHANGED <<memory, credits, sink, stop, upsets>>

Wake(t) ==
  /\ At(t, "parked") /\ task[t].woken
  /\ Goto(t, "memory")
  /\ UNCHANGED <<memory, credits, sink, stop, upsets>>

\* Tasks of other jobs take all that is left of the same budget, and give it back.
Lend ==
  /\ loan = 0 /\ upsets < MaxUpsets /\ used < MemLimit
  /\ loan' = MemLimit - used /\ used' = MemLimit
  /\ upsets' = upsets + 1
  /\ UNCHANGED <<credits, task, sink, stop>>

Repay ==
  /\ loan > 0 /\ loan' = 0
  /\ Freed(loan, task)
  /\ UNCHANGED <<credits, sink, stop, upsets>>

-----------------------------------------------------------------------------
(***************************************************************************)
(* CapacityGuard: an operation token, then the byte units one at a time;   *)
(* the guard that gives them back exists only when all are taken.          *)
(***************************************************************************)
UnitsFor(n) == IF n > ByteUnits THEN ByteUnits ELSE n

TakeOp(t) ==
  /\ At(t, "ops") /\ ops > 0
  /\ ops' = ops - 1
  /\ Goto(t, "bytes")
  /\ UNCHANGED <<memory, units, sink, stop, upsets>>

TakeUnit(t) ==
  /\ At(t, "bytes") /\ units > 0
  /\ units' = units - 1
  /\ LET got == task[t].got + 1
     IN  task' = [task EXCEPT ![t].got = got,
                              ![t].pc = IF got = UnitsFor(task[t].len) THEN "write" ELSE "bytes"]
  /\ UNCHANGED <<memory, ops, sink, stop, upsets>>

\* Drop for CapacityGuard: the units first, the operation last.
FreeBytes(t) ==
  /\ At(t, "free_bytes")
  /\ units' = units + task[t].got
  /\ task' = [task EXCEPT ![t].pc = "free_ops", ![t].got = 0]
  /\ UNCHANGED <<memory, ops, sink, stop, upsets>>

\* The operation token is back; the completion and its payload are dropped, and
\* the loop goes on behind the chunk.
Written(t) ==
  Freed(task[t].held, [task EXCEPT ![t].pc = IF task[t].quit THEN "done" ELSE "frame", ![t].held = 0,
                                   ![t].off = IF task[t].quit THEN @ ELSE @ + task[t].len])

FreeOps(t) ==
  /\ At(t, "free_ops")
  /\ ops' = ops + 1
  /\ Written(t)
  /\ UNCHANGED <<loan, units, sink, stop, upsets>>

-----------------------------------------------------------------------------
(***************************************************************************)
(* write_chunk: listen for room, take the adapter's mutex, and either let  *)
(* the adapter accept the chunk or wait.                                   *)
(***************************************************************************)
\* buffered_bytes and has_room.
Buffered == Total([c \in pending |-> c.len], pending)
\* Mutant of HasRoom: the buffer may be passed by the chunk that fills it.
HasRoomBefore(n) == Buffered < MaxBuffered
HasRoom(n) == Buffered + n <= MaxBuffered

WriteChunk(t) ==
  /\ At(t, "write")
  /\ task' = [task EXCEPT ![t].pc = "lock", ![t].woken = FALSE]
  /\ UNCHANGED <<memory, credits, sink, stop, upsets>>

NoRoom(t) ==
  /\ Goto(t, "room")
  /\ UNCHANGED <<memory, credits, sink, stop, upsets>>

\* accept returns at once: everything in the chunk has been pushed before.
Behind(t) ==
  /\ task' = Notified([task EXCEPT ![t].pc = "free_bytes"], {"lock", "room"})
  /\ UNCHANGED <<memory, credits, sink, stop, upsets>>

\* Mutant of Push: the overlap prefix is not trimmed.
PushWhole(t) ==
  /\ lock' = t
  /\ task' = [task EXCEPT ![t].pc = "push", ![t].cur = Chunk(task[t].off, task[t].len, 0)]
  /\ UNCHANGED <<memory, credits, next, pending, out, stop, upsets>>

\* The chunk reaches next_offset: trimmed, it is pushed under the mutex.
Push(t) ==
  /\ lock' = t
  /\ task' = [task EXCEPT ![t].pc = "push", ![t].cur = Chunk(next, task[t].off + task[t].len - next, 0)]
  /\ UNCHANGED <<memory, credits, next, pending, out, stop, upsets>>

\* "duplicate sequential chunk": a destination error ends the job.
Duplicate(t) ==
  /\ task' = [task EXCEPT ![t].pc = "free_bytes", ![t].quit = TRUE]
  /\ stop' = TRUE
  /\ UNCHANGED <<memory, credits, sink, upsets>>

\* Mutant of Buffer: the permit is released when write_chunk returns.
BufferUnbudgeted(t) ==
  /\ lock' = t
  /\ pending' = pending \cup {Chunk(task[t].off, task[t].len, task[t].held)}
  /\ Freed(task[t].held, [task EXCEPT ![t].pc = "drain", ![t].held = 0])
  /\ UNCHANGED <<loan, credits, next, out, stop, upsets>>

\* Ahead of next_offset: the buffer keeps the chunk and its memory.
Buffer(t) ==
  /\ lock' = t
  /\ pending' = pending \cup {Chunk(task[t].off, task[t].len, task[t].held)}
  /\ task' = [task EXCEPT ![t].pc = "drain", ![t].held = 0]
  /\ UNCHANGED <<memory, credits, next, out, stop, upsets>>

Lock(t) ==
  /\ At(t, "lock") /\ lock = 0
  /\ LET off == task[t].off
         end == off + task[t].len
     IN  IF off > next /\ ~HasRoom(task[t].len) THEN NoRoom(t)
         ELSE IF off < next /\ end <= next THEN Behind(t)
         ELSE IF off <= next THEN Push(t)
         ELSE IF \E c \in pending : c.off = off THEN Duplicate(t)
         ELSE Buffer(t)

\* push_now: the application's sink takes the chunk and lets go of its memory.
Pushed(t) ==
  LET c == task[t].cur
  IN  /\ At(t, "push")
      /\ out' = out \o [i \in 1 .. c.len |-> c.off + i - 1]
      /\ next' = next + c.len
      /\ Freed(c.mem, [task EXCEPT ![t].pc = "drain", ![t].cur = None])
      /\ UNCHANGED <<loan, credits, pending, lock, stop, upsets>>

\* The lowest pending chunk, if it starts at next_offset.
Heads == {c \in pending : c.off = next /\ \A d \in pending : c.off <= d.off}

\* accept's loop, then the mutex is released and the waiters for room are woken.
Drain(t) ==
  /\ At(t, "drain")
  /\ \/ \E c \in Heads :
          /\ pending' = pending \ {c}
          /\ task' = [task EXCEPT ![t].pc = "push", ![t].cur = c]
          /\ UNCHANGED lock
     \/ /\ Heads = {}
        /\ lock' = 0
        /\ task' = Notified([task EXCEPT ![t].pc = "free_bytes"], {"lock", "room"})
        /\ UNCHANGED pending
  /\ UNCHANGED <<memory, credits, next, out, stop, upsets>>

RoomMade(t) ==
  /\ At(t, "room") /\ task[t].woken
  /\ Goto(t, "write")
  /\ UNCHANGED <<memory, credits, sink, stop, upsets>>

-----------------------------------------------------------------------------
(***************************************************************************)
(* The job's context is cancelled: context.run drops the future of a task  *)
(* that is waiting, with everything the future owns.                       *)
(***************************************************************************)
Cancel ==
  /\ ~stop /\ stop' = TRUE
  /\ UNCHANGED <<memory, credits, task, sink, upsets>>

\* Dropped while it owns at most its chunk.  The tokens that were taken so far belong
\* to nobody: only a finished guard returns them.
DroppedEarly(t) ==
  /\ \/ task[t].pc \in {"frame", "parked"}
     \/ At(t, "ops") /\ ops = 0
     \/ At(t, "bytes") /\ units = 0
  /\ Freed(task[t].held, [task EXCEPT ![t].pc = IF At(t, "bytes") THEN "dropped" ELSE "done", ![t].held = 0])
  /\ UNCHANGED sink

\* Mutant of DroppedWriting: the guard is not dropped with the future.
DroppedWritingForgets(t) ==
  /\ \/ task[t].pc \in {"room", "push"}
     \/ At(t, "lock") /\ lock # 0
  /\ lock' = IF lock = t THEN 0 ELSE lock
  /\ Freed(task[t].held + task[t].cur.mem,
           [task EXCEPT ![t].pc = "done", ![t].held = 0, ![t].got = 0, ![t].cur = None])
  /\ UNCHANGED <<next, pending, out>>

\* Dropped inside write_chunk: the guard and the mutex are released.
DroppedWriting(t) ==
  /\ \/ task[t].pc \in {"room", "push"}
     \/ At(t, "lock") /\ lock # 0
  /\ lock' = IF lock = t THEN 0 ELSE lock
  /\ Freed(task[t].cur.mem, [task EXCEPT ![t].pc = "free_bytes", ![t].quit = TRUE, ![t].cur = None])
  /\ UNCHANGED <<next, pending, out>>

Abandon(t) ==
  /\ stop
  /\ DroppedEarly(t) \/ DroppedWriting(t)
  /\ UNCHANGED <<loan, credits, stop, upsets>>

\* The job is over and with it the destination and what it still buffers.
DropDestination ==
  /\ \A t \in Tasks : Ended(t)
  /\ pending # {} /\ pending' = {}
  /\ Freed(Total([c \in pending |-> c.mem], pending), task)
  /\ UNCHANGED <<loan, credits, next, lock, out, stop, upsets>>

-----------------------------------------------------------------------------
Step(t) ==
  \/ Frame(t) \/ Completed(t) \/ Acquire(t) \/ Listen(t) \/ Recheck(t) \/ Wake(t)
  \/ TakeOp(t) \/ TakeUnit(t) \/ FreeBytes(t) \/ FreeOps(t)
  \/ WriteChunk(t) \/ Lock(t) \/ Pushed(t) \/ Drain(t) \/ RoomMade(t)

Next ==
  \/ \E t \in Tasks : Step(t) \/ Cut(t) \/ Abandon(t)
  \/ Lend \/ Repay \/ Cancel \/ DropDestination

\* Threads that can run do, sinks and servers answer, other jobs return memory.
Fairness ==
  /\ \A t \in Tasks : WF_vars(Step(t)) /\ WF_vars(Abandon(t))
  /\ WF_vars(Repay)

Spec == Init /\ [][Next]_vars /\ Fairness
-----------------------------------------------------------------------------
\* Types of the shared state and of what a task holds.
BackpressureTypeOK ==
  /\ used \in 0 .. MemLimit /\ loan \in 0 .. MemLimit
  /\ ops \in 0 .. Ops /\ units \in 0 .. ByteUnits
  /\ \A t \in Tasks : /\ task[t].pc \in Places
                      /\ task[t].off \in 0 .. Length /\ task[t].len \in 0 .. MaxFrame
                      /\ task[t].held \in 0 .. MaxFrame /\ task[t].got \in 0 .. ByteUnits
  /\ next \in 0 .. Length /\ Buffered <= MaxBuffered
  /\ lock \in Tasks \cup {0} /\ stop \in BOOLEAN /\ upsets \in 0 .. MaxUpsets

\* MemoryBudget counts every payload that is alive, and only those: in a task's
\* hands, buffered for later, on its way into the sink, or held by other jobs
\* (permits follow their payload through trims, moves and cancellation).
MemoryExact ==
  used = loan + Total([t \in Tasks |-> task[t].held + task[t].cur.mem], Tasks)
              + Total([c \in pending |-> c.mem], pending)

\* Where a task has an operation token, and the tasks that have one.
WithOp == {"bytes", "write", "lock", "room", "drain", "push", "free_bytes", "free_ops", "dropped"}
Holders == {t \in Tasks : task[t].pc \in WithOp}

\* What is not in the channels is in the hands of a task that will return it, or was
\* taken by a task that is dropped before it has all its byte units.  capacity.rs says
\* that "error and cancel paths cannot strand credits"; here is where they do.
CreditsExact ==
  /\ ops + Cardinality(Holders) = Ops
  /\ units + Total([t \in Tasks |-> task[t].got], Tasks) = ByteUnits

\* The sink receives the artifact's bytes in order, none twice and none skipped,
\* and a byte a live task has delivered is in the sink, on its way or buffered.
InOrderAndKept ==
  /\ \A i \in 1 .. Len(out) : out[i] = i - 1
  /\ ~stop /\ (\E t \in Tasks : ~Ended(t)) =>
       \A t \in Tasks : \A b \in Start(t) .. task[t].off - 1 :
         \/ b < next
         \/ \E c \in pending \cup {task[u].cur : u \in Tasks} : c.off <= b /\ b < Last(c)

\* A chunk was buffered, and a chunk that overlaps it was pushed: the buffered one
\* starts behind next_offset and the drain loop stops at it for good.
Stuck == \E c \in pending : c.off < next

\* A task sleeps until the buffer has room for its chunk.
WaitsForRoom(t) == At(t, "room") /\ ~task[t].woken /\ task[t].off > next /\ ~HasRoom(task[t].len)

\* A task sleeps for memory, for an operation token or for byte units that are not there.
Lacks(t) ==
  \/ At(t, "parked") /\ ~task[t].woken /\ ~Room(t)
  \/ At(t, "ops") /\ ops = 0
  \/ At(t, "bytes") /\ units = 0

\* Nobody that is left will take another step, and other jobs hold no memory.
Halted == loan = 0 /\ \A t \in Tasks : Ended(t) \/ WaitsForRoom(t) \/ Lacks(t)

\* Somebody lacks memory or credits, while somebody that waits holds some.
Starved == (\E t \in Tasks : Lacks(t)) /\ \E t \in Holders : ~Ended(t)

\* No wake-up is lost, and no cycle of waiting closes but these: every task ends,
\* cancelled or not, unless all that are left wait for good, because the buffer is
\* stuck or because tasks that wait for room, or for more byte units, keep what the
\* others lack.
EndsOrStuck == <>((\A t \in Tasks : Ended(t)) \/ (Halted /\ (Stuck \/ Starved)))

\* "The engine inserts bounded reordering so segmented transfer still works"
\* (engine.rs:368): when every task has delivered its range, the sink has it all.
SegmentedStillWorks ==
  (\A t \in Tasks : At(t, "done")) /\ ~stop => Len(out) = Length
=============================================================================
