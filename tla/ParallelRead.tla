----------------------------- MODULE ParallelRead -----------------------------
(***************************************************************************)
(* Reading one array of a data file with several tasks: the VTK reader's   *)
(* ReadFileRangeIntoParallel (vtk/src/FileHandle.cpp), the EnSight         *)
(* reader's ReadChunkedArrayInto and ReadPlanarVec3ArrayInto, and the      *)
(* OpenFOAM reader's ReadChunkedBinaryArray.                               *)
(*                                                                         *)
(* All three cut the array into pieces, give the pieces to tasks, run the  *)
(* tasks with WorkParallelForN and share one atomic flag that the first    *)
(* task to fail sets.  They differ in how the pieces are cut and in when   *)
(* the flag is looked at:                                                  *)
(*   "ranges"   VTK: one contiguous range per task;                        *)
(*   "blocks"   EnSight: a contiguous run of chunks per task;              *)
(*   "strided"  OpenFOAM: every taskCount-th chunk, flag looked at before  *)
(*              every chunk.                                               *)
(*                                                                         *)
(* WorkParallelForN cuts the task numbers into ranges and runs one body    *)
(* per range, concurrently; it returns when all bodies have returned.  The *)
(* file may shrink while it is read.  An element of the array is abstract: *)
(* it is identified by its position in the file.                           *)
(***************************************************************************)
EXTENDS Naturals, FiniteSets

CONSTANTS
  Styles,      \* subset of {"ranges", "blocks", "strided"}
  MaxCount,    \* bound on the number of elements
  MaxThreads,  \* bound on ioThreads and on the work limit
  Grain,       \* elements per chunk
  Threshold,   \* below it the VTK reader uses one task
  NoElement    \* the content of uninitialized memory

ASSUME ConstantsAssumption ==
  /\ Styles \subseteq {"ranges", "blocks", "strided"}
  /\ MaxCount \in Nat /\ Threshold \in Nat
  /\ MaxThreads \in Nat \ {0} /\ Grain \in Nat \ {0}
  /\ NoElement \notin Nat

VARIABLES
  style, count, ioThreads, workLimit,  \* the request
  bodies,    \* the task ranges of WorkParallelForN: first task to end
  length,    \* elements of the array that the file now holds
  array,     \* the destination
  failed,    \* the atomic flag
  failure,   \* the message of the first failure (VTK)
  pc, task, piece,  \* where each body is
  result     \* "running", "ok" or "error"

vars == <<style, count, ioThreads, workLimit, bodies, length, array, failed,
          failure, pc, task, piece, result>>
request == <<style, count, ioThreads, workLimit, bodies>>

-----------------------------------------------------------------------------
(* How an array is cut.                                                    *)

MinOf(S) == CHOOSE x \in S : \A y \in S : x <= y

ChunkCount(n) == (n + Grain - 1) \div Grain

\* TaskCountForBytes, or the chunked readers' taskCount, for an array that is
\* not empty.
TaskCount(how, n, threads, limit) ==
  IF how = "ranges"
  THEN IF n < Threshold \/ threads <= 1 THEN 1 ELSE MinOf({threads, limit, n})
  ELSE IF threads > 1 THEN MinOf({ChunkCount(n), threads}) ELSE 1

Tasks == TaskCount(style, count, ioThreads, workLimit)

Chunk(c) == [first |-> c * Grain, last |-> MinOf({(c + 1) * Grain, count})]

\* The pieces of task t, numbered from 0.
PieceCount(t) ==
  CASE style = "ranges" -> 1
    [] style = "blocks" ->
         (ChunkCount(count) * (t + 1)) \div Tasks - (ChunkCount(count) * t) \div Tasks
    [] style = "strided" ->
         Cardinality({c \in 0..(ChunkCount(count) - 1) : c % Tasks = t})


\* Seeded fault: the last element of a range is taken to be inclusive.
Piece_Inclusive(t, i) ==
  CASE style = "ranges" -> [first |-> (count * t) \div Tasks,
                            last |-> MinOf({(count * (t + 1)) \div Tasks + 1, count})]
    [] style = "blocks" -> Chunk((ChunkCount(count) * t) \div Tasks + i)
    [] style = "strided" -> Chunk(t + i * Tasks)

\* Piece i of task t.
Piece(t, i) ==
  CASE style = "ranges" -> [first |-> (count * t) \div Tasks,
                            last |-> (count * (t + 1)) \div Tasks]
    [] style = "blocks" -> Chunk((ChunkCount(count) * t) \div Tasks + i)
    [] style = "strided" -> Chunk(t + i * Tasks)

-----------------------------------------------------------------------------
Bodies == 0..(MaxThreads - 1)   \* a body is named after its first task
PCs == {"none", "task", "read", "report", "done"}

\* Body b is about to read and store a piece, its current one.
Reading(b) == pc[b] = "read" /\ piece[b] < PieceCount(task[b])

Current(b) == Piece(task[b], piece[b])

\* Types; a body works on a task of its own range, and no piece that a body is
\* about to store reaches beyond the end of the array.
TypeOK ==
  /\ style \in Styles
  /\ count \in 1..MaxCount
  /\ ioThreads \in 1..MaxThreads
  /\ workLimit \in 1..MaxThreads
  /\ bodies \in [Bodies -> 0..MaxThreads]
  /\ length \in 0..count
  /\ array \in [0..(count - 1) -> Nat \cup {NoElement}]
  /\ failed \in BOOLEAN
  /\ failure \in BOOLEAN
  /\ pc \in [Bodies -> PCs]
  /\ task \in [Bodies -> 0..MaxThreads]
  /\ piece \in [Bodies -> Nat]
  /\ result \in {"running", "ok", "error"}
  /\ \A b \in Bodies :
       /\ pc[b] \in {"task", "read"} => task[b] \in b..bodies[b]
       /\ Reading(b) => Current(b).last <= count

\* The ways WorkParallelForN can cut the task numbers: the ends of the ranges
\* that start at a body, 0 where none starts.
Cuts(n) ==
  {f \in [Bodies -> 0..n] :
     /\ f[0] > 0
     /\ \A b \in Bodies :
          /\ f[b] # 0 => f[b] > b
          /\ f[b] # 0 <=> b = 0 \/ \E a \in 0..(b - 1) : f[a] = b /\ b < n
     /\ \E b \in Bodies : f[b] = n}

\* A call has been made for an array that is not empty, and WorkParallelForN
\* has started its bodies.
Init ==
  /\ style \in Styles
  /\ count \in 1..MaxCount
  /\ ioThreads \in 1..MaxThreads
  /\ workLimit \in 1..MaxThreads
  /\ bodies \in Cuts(Tasks)
  /\ length = count
  /\ array = [i \in 0..(count - 1) |-> NoElement]
  /\ failed = FALSE
  /\ failure = FALSE
  /\ pc = [b \in Bodies |-> IF bodies[b] = 0 THEN "none" ELSE "task"]
  /\ task = [b \in Bodies |-> b]
  /\ piece = [b \in Bodies |-> 0]
  /\ result = "running"

Goto(b, step) == pc' = [pc EXCEPT ![b] = step]

\* Top of the loop over the tasks of a body: the end of the range, or the flag
\* (OpenFOAM looks at it further down).
NextTask(b) ==
  /\ pc[b] = "task"
  /\ Goto(b, IF task[b] = bodies[b] \/ (failed /\ style # "strided")
             THEN "done" ELSE "read")
  /\ piece' = [piece EXCEPT ![b] = 0]
  /\ UNCHANGED <<request, length, array, failed, failure, task, result>>

\* The pieces of a task are done.
EndTask(b) ==
  /\ pc[b] = "read"
  /\ piece[b] = PieceCount(task[b])
  /\ task' = [task EXCEPT ![b] = @ + 1]
  /\ Goto(b, "task")
  /\ UNCHANGED <<request, length, array, failed, failure, piece, result>>

\* What a read of a piece stores: as much of it as the file holds.
Stored(p) ==
  [i \in 0..(count - 1) |->
     IF p.first <= i /\ i < p.last /\ i < length THEN i ELSE array[i]]

\* OpenFOAM looks at the flag before every chunk.
StopEarly(b) ==
  /\ Reading(b)
  /\ style = "strided"
  /\ failed
  /\ Goto(b, "done")
  /\ UNCHANGED <<request, length, array, failed, failure, task, piece, result>>

\* A piece is read in full.
ReadPiece(b) ==
  /\ Reading(b)
  /\ ~(style = "strided" /\ failed)
  /\ Current(b).last <= length
  /\ array' = Stored(Current(b))
  /\ piece' = [piece EXCEPT ![b] = @ + 1]
  /\ UNCHANGED <<request, length, failed, failure, pc, task, result>>

\* Seeded fault: the body gives up without setting the flag.
ReadFails_Silent(b) ==
  /\ Reading(b)
  /\ ~(style = "strided" /\ failed)
  /\ array' \in {array, Stored(Current(b))}
  /\ Goto(b, "done")
  /\ UNCHANGED <<request, length, failed, failure, task, piece, result>>

\* The file is too short, or cannot be opened or read: the flag is set.
ReadFails(b) ==
  /\ Reading(b)
  /\ ~(style = "strided" /\ failed)
  /\ array' \in {array, Stored(Current(b))}
  /\ failed' = TRUE
  /\ Goto(b, IF style = "ranges" THEN "report" ELSE "done")
  /\ UNCHANGED <<request, length, failure, task, piece, result>>

\* The VTK reader then keeps the first message, under a mutex.
Report(b) ==
  /\ pc[b] = "report"
  /\ failure' = TRUE
  /\ Goto(b, "done")
  /\ UNCHANGED <<request, length, array, failed, task, piece, result>>

\* Seeded fault: the caller goes on as soon as the flag is set.
Join_Early ==
  /\ result = "running"
  /\ failed \/ \A b \in Bodies : pc[b] \in {"none", "done"}
  /\ result' = IF failed THEN "error" ELSE "ok"
  /\ UNCHANGED <<request, length, array, failed, failure, pc, task, piece>>

\* WorkParallelForN returns and the caller looks at the flag.
Join ==
  /\ result = "running"
  /\ \A b \in Bodies : pc[b] \in {"none", "done"}
  /\ result' = IF failed THEN "error" ELSE "ok"
  /\ UNCHANGED <<request, length, array, failed, failure, pc, task, piece>>

\* Something outside truncates the file.
Truncate ==
  /\ result = "running"
  /\ \E l \in 0..(length - 1) : length' = l
  /\ UNCHANGED <<request, array, failed, failure, pc, task, piece, result>>

Next ==
  \/ \E b \in Bodies :
       \/ NextTask(b)
       \/ EndTask(b)
       \/ StopEarly(b)
       \/ ReadPiece(b)
       \/ ReadFails(b)
       \/ Report(b)
  \/ Join
  \/ Truncate

Spec == Init /\ [][Next]_vars

-----------------------------------------------------------------------------
(* Properties.                                                             *)

\* The array is allocated uninitialized: a call that succeeds has stored the
\* element of every position, whatever the tasks did in which order, and
\* whatever happened to the file meanwhile.
NothingUninitialized ==
  result = "ok" => \A i \in 0..(count - 1) : array[i] = i

\* Two bodies that are reading never store to the same element: the unlocked
\* writes into the shared array do not race.
NoSharedElement ==
  \A a, b \in Bodies :
    a # b /\ Reading(a) /\ Reading(b) =>
      \/ Current(a).last <= Current(b).first
      \/ Current(b).last <= Current(a).first

\* Tasks keep to the array and to their own part of it.
TasksStayApart == TypeOK /\ NoSharedElement

\* When the call returns, no task can touch the array any more, and an error
\* of the VTK reader carries the message of the task that failed.
ReturnIsQuiet ==
  result # "running" =>
    /\ \A b \in Bodies : ~Reading(b)
    /\ failed /\ style = "ranges" => failure

=============================================================================
