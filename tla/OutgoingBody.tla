---------------------------- MODULE OutgoingBody ----------------------------
(***************************************************************************)
(* HttpOutgoingBody of host-apis/wasi-0.2.0/host_api.cpp, and the task     *)
(* that copies an HttpIncomingBody into it, BodyAppendTask.                *)
(*                                                                         *)
(* A task waits in the queue of the event loop for the pollable of the     *)
(* incoming or of the outgoing stream, copies as much as the host permits  *)
(* without blocking, and queues itself again.  The host runs next to it:   *)
(* bytes arrive, the client takes bytes or goes away between any two host  *)
(* calls.  More than one incoming body may be appended to the same one.    *)
(* A body may instead be written by write_all, in a loop of its own.       *)
(***************************************************************************)
EXTENDS Integers, Sequences, FiniteSets, SequencesExt

CONSTANTS
  NumSources, \* how many incoming bodies may be appended
  MaxBytes,   \* bound: bytes of each incoming body, and of what write_all gets
  MaxSent,    \* bound: bytes that write_all sends, those that it sends again included
  MaxRoom,    \* the most that the host ever permits to write
  WordSize    \* 2^32: read takes an uint32_t, and a size_t of wasm32 is no wider

ASSUME NumSourcesAssumption == NumSources \in Nat \ {0}
ASSUME MaxBytesAssumption == MaxBytes \in Nat
ASSUME MaxRoomAssumption == MaxRoom \in Nat \ {0}
ASSUME MaxSentAssumption == MaxSent \in Nat
ASSUME WordSizeAssumption == WordSize \in Nat \ {0}

VARIABLES
  arrived,   \* of each incoming body: how many bytes the host has received
  taken,     \* of each incoming body: how many bytes were read
  ended,     \* of each incoming body: open, closed or broken
  out,       \* the bytes that were written, <<source, number>>; source 0: write_all
  room,      \* what check-write answers
  gone,      \* the client is gone: check-write and write fail
  tasks,     \* the BodyAppendTasks in the queue, oldest first, by source
  state,     \* BodyAppendTask::state_, "none" before the task exists
  cur,       \* the task that the loop runs, 0 for none
  capacity,  \* the local `capacity` of run
  chunk,     \* the local `bytes` from `offset` on; in write_all, from `bytes` on
  pc         \* what the (only) thread is doing

inVars == <<arrived, taken, ended>>
outVars == <<out, room, gone>>
taskVars == <<tasks, state, cur, capacity>>
vars == <<inVars, outVars, taskVars, chunk, pc>>

\* The incoming bodies, in the order in which they are appended.
Sources == 1..NumSources

Blocked == {"BlockedOnBoth", "BlockedOnIncoming", "BlockedOnOutgoing"}
Ended == {"returned", "failed", "trapped"}

\* The bytes from number i to number j of source s.
BytesOf(s, i, j) == [k \in 1..(j - i + 1) |-> <<s, i + k - 1>>]
Byte == ({0} \cup Sources) \X (1..MaxBytes)

TypeOK ==
  /\ arrived \in [Sources -> 0..MaxBytes]
  /\ taken \in [Sources -> 0..MaxBytes]
  /\ ended \in [Sources -> {"open", "closed", "broken"}]
  /\ out \in Seq(Byte)
  /\ room \in 0..MaxRoom
  /\ gone \in BOOLEAN
  /\ tasks \in Seq(Sources) /\ IsInjective(tasks)
  /\ state \in [Sources -> Blocked \cup {"none", "Ready", "Done"}]
  /\ cur \in Sources \cup {0}
  /\ capacity \in 0..MaxRoom
  /\ chunk \in Seq(Byte)
  /\ pc \in {"loop", "peek", "capacity", "read", "write", "recheck", "write_all"} \cup Ended

Init ==
  /\ arrived = [s \in Sources |-> 0]
  /\ taken = [s \in Sources |-> 0]
  /\ ended = [s \in Sources |-> "open"]
  /\ out = <<>>
  /\ room \in 0..MaxRoom
  /\ gone = FALSE
  /\ tasks = <<>>
  /\ state = [s \in Sources |-> "none"]
  /\ cur = 0
  /\ capacity = 0
  /\ chunk = <<>>
  /\ pc = "loop"

-----------------------------------------------------------------------------
(* The program. *)

\* Sources are appended in order, each when the stream of the one before it was
\* closed, which append_body does at once.
NextSource(s) == state[s] = "none" /\ \A r \in 1..(s - 1) : state[r] # "none"

\* append_body, HttpOutgoingBody::append: a new BodyAppendTask is queued.  This
\* is the release build: a debug build stops at append_body's assertion that the
\* destination is not used when a second source is appended.
AppendSource(s) ==
  /\ pc = "loop"
  /\ NextSource(s)
  /\ out = <<>> \/ s # 1
  /\ state' = [state EXCEPT ![s] = "BlockedOnBoth"]
  /\ tasks' = Append(tasks, s)
  /\ UNCHANGED <<inVars, outVars, cur, capacity, chunk, pc>>

NothingAppended == \A s \in Sources : state[s] = "none"

\* The number of the last byte that write_all has sent.
LastSent == IF out = <<>> THEN 0 ELSE Last(out)[2]

\* write_all of n bytes, to a body to which nothing is appended; len is a size_t.
WriteAll(n) ==
  /\ pc = "loop"
  /\ NothingAppended
  /\ n < WordSize
  /\ LastSent + n <= MaxBytes
  /\ chunk' = BytesOf(0, LastSent + 1, LastSent + n)
  /\ pc' = "write_all"
  /\ UNCHANGED <<inVars, outVars, taskVars>>

-----------------------------------------------------------------------------
(* The host. *)

Arrive(s) ==
  /\ ended[s] = "open"
  /\ arrived[s] < MaxBytes
  /\ arrived' = [arrived EXCEPT ![s] = @ + 1]
  /\ UNCHANGED <<taken, ended, outVars, taskVars, chunk, pc>>

\* The sender ends the body, or the connection breaks.
EndSource(s, how) ==
  /\ ended[s] = "open"
  /\ ended' = [ended EXCEPT ![s] = how]
  /\ UNCHANGED <<arrived, taken, outVars, taskVars, chunk, pc>>

\* The client takes bytes: more is permitted.
MakeRoom(n) ==
  /\ ~gone
  /\ room < n
  /\ room' = n
  /\ UNCHANGED <<inVars, out, gone, taskVars, chunk, pc>>

ClientLeaves ==
  /\ ~gone
  /\ gone' = TRUE
  /\ UNCHANGED <<inVars, out, room, taskVars, chunk, pc>>

Left(s) == arrived[s] - taken[s]

-----------------------------------------------------------------------------
(* AsyncTask::select on the pollables that the tasks' id() returns. *)

IsReady(s) ==
  IF state[s] = "BlockedOnOutgoing" THEN gone \/ room > 0
                                    ELSE Left(s) > 0 \/ ended[s] # "open"

Select ==
  /\ pc = "loop"
  /\ \E i \in DOMAIN tasks :
       /\ IsReady(tasks[i])
       /\ \A j \in 1..(i - 1) : ~IsReady(tasks[j])
       /\ cur' = tasks[i]
       /\ pc' = IF state[tasks[i]] = "BlockedOnOutgoing" THEN "capacity" ELSE "peek"
  /\ UNCHANGED <<inVars, outVars, tasks, state, capacity, chunk>>

-----------------------------------------------------------------------------
(* BodyAppendTask::run *)

\* The loop erases the entry at the index that select returned: the task it ran.
Place(s) == CHOOSE i \in DOMAIN tasks : tasks[i] = s
Erased == RemoveAt(tasks, Place(cur))

\* run queues the task again, blocked as st says.
\* The mutants do not queue it, leave its state alone, or keep the old entry.
Finished(queue) ==
  /\ tasks' = queue
  /\ cur' = 0
  /\ pc' = "loop"
MutantRequeue(st) ==
  /\ state' = [state EXCEPT ![cur] = st]
  /\ Finished(Erased)
MutantRequeueReady(st) ==
  /\ UNCHANGED state
  /\ Finished(Append(Erased, cur))
MutantRequeueTwice(st) ==
  /\ state' = [state EXCEPT ![cur] = st]
  /\ Finished(Append(tasks, cur))
Requeue(st) ==
  /\ state' = [state EXCEPT ![cur] = st]
  /\ Finished(Append(Erased, cur))

\* run returns true and does not queue the task.
Complete ==
  /\ state' = [state EXCEPT ![cur] = "Done"]
  /\ Finished(Erased)

\* run returns false, and so does the loop.
Fails ==
  /\ pc' = "failed"
  /\ UNCHANGED <<tasks, state, cur>>

\* read(0) on a stream that is closed tells so.  An error is not expected here.
Peek ==
  /\ pc = "peek"
  /\ \/ /\ Left(cur) = 0
        /\ ended[cur] = "closed"
        /\ Complete
     \/ /\ Left(cur) = 0
        /\ ended[cur] = "broken"
        /\ pc' = "trapped"
        /\ UNCHANGED <<tasks, state, cur>>
     \/ /\ Left(cur) > 0 \/ ended[cur] = "open"
        /\ state' = [state EXCEPT ![cur] = "BlockedOnOutgoing"]
        /\ pc' = "capacity"
        /\ UNCHANGED <<tasks, cur>>
  /\ UNCHANGED <<inVars, outVars, capacity, chunk>>

\* The first check-write of run, and the one at the end of its loop.
CheckCapacity ==
  /\ pc \in {"capacity", "recheck"}
  /\ capacity' = room
  /\ \/ gone /\ Fails
     \/ ~gone /\ room = 0 /\ Requeue("BlockedOnOutgoing")
     \/ /\ ~gone
        /\ room > 0
        /\ state' = [state EXCEPT ![cur] = "Ready"]
        /\ pc' = "read"
        /\ UNCHANGED <<tasks, cur>>
  /\ UNCHANGED <<inVars, outVars, chunk>>

\* capacity is an uint64_t, the parameter of read an uint32_t.
ChunkSize == capacity % WordSize

\* The host returns k bytes of those that there are, up to chunk_size.
MutantTake(k) ==
  /\ k <= Left(cur)
  /\ chunk' = BytesOf(cur, taken[cur] + 1, taken[cur] + k)
  /\ taken' = [taken EXCEPT ![cur] = @ + k]
Take(k) ==
  /\ k <= Left(cur)
  /\ k <= ChunkSize
  /\ chunk' = BytesOf(cur, taken[cur] + 1, taken[cur] + k)
  /\ taken' = [taken EXCEPT ![cur] = @ + k]

ReadChunk ==
  /\ pc = "read"
  /\ \E k \in 1..MaxBytes : Take(k)
  /\ pc' = "write"
  /\ UNCHANGED <<arrived, ended, outVars, taskVars>>

\* Nothing was read: the end, an error, or nothing there.
MutantReadEmpty ==
  /\ pc = "read"
  /\ Left(cur) = 0 \/ ChunkSize = 0
  /\ IF Left(cur) = 0 /\ ended[cur] = "broken" THEN Fails ELSE Complete
  /\ UNCHANGED <<inVars, outVars, capacity, chunk>>
ReadEmpty ==
  /\ pc = "read"
  /\ Left(cur) = 0 \/ ChunkSize = 0
  /\ \/ Left(cur) = 0 /\ ended[cur] = "broken" /\ Fails
     \/ Left(cur) = 0 /\ ended[cur] = "closed" /\ Complete
     \/ /\ Left(cur) > 0 \/ ended[cur] = "open"
        /\ Requeue("BlockedOnIncoming")
  /\ UNCHANGED <<inVars, outVars, capacity, chunk>>

\* What is left of the chunk when n bytes of it were written.
MutantAdvance(n) == SubSeq(chunk, IF n > 1 THEN n ELSE n + 1, Len(chunk))
Advance(n) == SubSeq(chunk, n + 1, Len(chunk))

\* std::min(len, static_cast<size_t>(capacity)), with the capacity read again.
Permitted == room % WordSize
BytesToWrite == IF Len(chunk) <= Permitted THEN Len(chunk) ELSE Permitted

\* The host takes n bytes of the chunk.
Put(n) ==
  /\ out' = out \o SubSeq(chunk, 1, n)
  /\ room' = room - n
  /\ UNCHANGED gone

\* HttpOutgoingBody::write of the rest of the chunk, in the loop around it, which
\* spins while BytesToWrite is 0.
Write ==
  /\ pc = "write"
  /\ \/ /\ gone
        /\ Fails
        /\ UNCHANGED <<outVars, chunk>>
     \/ /\ ~gone
        /\ Put(BytesToWrite)
        /\ chunk' = Advance(BytesToWrite)
        /\ pc' = IF chunk' = <<>> THEN "recheck" ELSE "write"
        /\ UNCHANGED <<tasks, state, cur>>
  /\ UNCHANGED <<inVars, capacity>>

\* One turn of the loop of write_all, which passes len to the host but advances by
\* bytes_to_write: the host traps when len is more than it permits, and when the
\* permit is truncated, bytes that were sent are sent again.
WriteAllStep ==
  /\ pc = "write_all"
  /\ \/ /\ chunk = <<>>
        /\ pc' = "loop"
        /\ UNCHANGED <<outVars, chunk>>
     \/ /\ chunk # <<>> /\ gone
        /\ pc' = "failed"
        /\ UNCHANGED <<outVars, chunk>>
     \/ /\ chunk # <<>> /\ ~gone /\ Len(chunk) > room
        /\ pc' = "trapped"
        /\ UNCHANGED <<outVars, chunk>>
     \/ /\ chunk # <<>> /\ ~gone /\ Len(chunk) <= room
        /\ Len(out) + Len(chunk) <= MaxSent
        /\ Put(Len(chunk))
        /\ chunk' = Advance(BytesToWrite)
        /\ UNCHANGED pc
  /\ UNCHANGED <<inVars, taskVars>>

LoopEnds ==
  /\ pc = "loop"
  /\ tasks = <<>>
  /\ pc' = "returned"
  /\ UNCHANGED <<inVars, outVars, taskVars, chunk>>

-----------------------------------------------------------------------------
(* The specification. *)

Stopped == pc \in Ended /\ UNCHANGED vars

Program ==
  \/ \E s \in Sources : AppendSource(s)
  \/ \E n \in 1..MaxBytes : WriteAll(n)

Host ==
  \/ \E s \in Sources : Arrive(s) \/ \E how \in {"closed", "broken"} : EndSource(s, how)
  \/ \E n \in 1..MaxRoom : MakeRoom(n)
  \/ ClientLeaves

Task ==
  \/ Select \/ Peek \/ CheckCapacity \/ ReadChunk \/ ReadEmpty \/ Write
  \/ WriteAllStep \/ LoopEnds

Next == Program \/ Host \/ Task \/ Stopped

Spec == Init /\ [][Next]_vars

\* The loop runs a task that is ready, and a client that stays takes its bytes:
\* the permit does not stay where it is, in particular not at 2^32, where the
\* loop around write spins.
Fairness ==
  /\ WF_vars(Task)
  /\ WF_vars(\E n \in 1..MaxRoom : MakeRoom(n))

FairSpec == Spec /\ Fairness

-----------------------------------------------------------------------------
(* Properties. *)

\* The bytes of source s in q, in their order.
OfSource(q, s) ==
  LET upTo[n \in 0..Len(q)] ==
        IF n = 0 THEN <<>>
        ELSE IF q[n][1] = s THEN Append(upTo[n - 1], q[n]) ELSE upTo[n - 1]
  IN  upTo[Len(q)]

\* The bytes of source s that were written, and those that the task has in hand.
Delivered(s) == OfSource(out, s)
InHand(s) == OfSource(chunk, s)

\* Each byte of q is at most the one after the byte in front of it.
NoneSkipped(q) == \A i \in 1..Len(q) : q[i][2] <= (IF i = 1 THEN 0 ELSE q[i - 1][2]) + 1

\* Every byte that a task read was written once and in order, or is in the rest
\* of the chunk that the task has in hand: the requeueing, the partial writes
\* of a truncated permit and the other task lose, repeat and reorder nothing.
\* write_all, which may repeat bytes, leaves none out on the way.
Intact ==
  /\ \A s \in Sources : Delivered(s) \o InHand(s) = BytesOf(s, 1, taken[s])
  /\ NothingAppended => NoneSkipped(out \o chunk)

\* Although the capacity is read again before each write, what a task read is
\* written at once, unless the host has come to permit 2^32 bytes or more: only
\* then does the loop around write go round again, or spin.
ShortWritesAreTruncated ==
  pc = "write" /\ ~gone /\ BytesToWrite < Len(chunk) => room >= WordSize

\* BodyAppendTask::id asserts that a queued task is not known to be ready.
PolledTasksAreBlocked ==
  pc = "loop" => \A i \in DOMAIN tasks : state[tasks[i]] \in Blocked

Pipes == INSTANCE BytePipe WITH
  Bytes <- Byte,
  arrived <- [s \in Sources |-> BytesOf(s, 1, arrived[s])],
  ended <- [s \in Sources |-> ended[s] = "closed"],
  target <- [s \in Sources |-> Delivered(s)],
  status <- [s \in Sources |->
               IF state[s] = "Done" THEN "done"
               ELSE IF pc \in {"failed", "trapped"} THEN "failed" ELSE "copying"]

\* Each appended body is a pipe of its own, whatever the other one does: its copy
\* is done only when all that its sender sent was written (a read that returns
\* nothing is not taken for the end), and nothing is written after it is done or
\* has failed.
EveryCopyIsAPipe == Pipes!Spec

\* A body that was appended and has ended is copied, or the copy fails visibly:
\* no task is forgotten between two waits.
CopyEnds ==
  \A s \in Sources :
    state[s] # "none" /\ ended[s] = "closed"
      ~> state[s] = "Done" \/ pc \in {"failed", "trapped"}

=============================================================================
