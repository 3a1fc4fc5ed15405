--------------------------- MODULE TransformStream ---------------------------
(***************************************************************************)
(* A TransformStream: a writable side, a transformer, and a readable side, *)
(* with back-pressure from the second to the first.                        *)
(* (builtins/web/streams/transform-stream.cpp, its default controller, and *)
(* the native sink and source.)                                            *)
(*                                                                         *)
(* Without a transformer chunks pass through as they are.  With one, what  *)
(* is enqueued, and when transform() and flush() settle, is up to content, *)
(* or to CompressionStream and DecompressionStream, whose native functions *)
(* are such transformers.                                                  *)
(*                                                                         *)
(* The readable and the writable side are streams of the JS engine: their  *)
(* operations below are those of the Streams standard.  Jobs that can run  *)
(* may do so in any order, between any two steps of content; the order in  *)
(* which one promise calls its reactions is kept.                          *)
(***************************************************************************)
EXTENDS Integers, Sequences, SequencesExt

CONSTANTS
  MaxWrites,    \* bound: how often content calls writer.write
  MaxReads,     \* bound: how often content calls reader.read
  MaxEnqueues,  \* bound: how often content calls controller.enqueue
  MaxHwm        \* bound: the high-water mark of the readable side

ASSUME BoundsAssumption ==
  MaxWrites \in Nat /\ MaxReads \in Nat /\ MaxEnqueues \in Nat /\ MaxHwm \in Nat

VARIABLES
  config,    \* transformer or none, the high-water mark, the chunk whose size() throws
  start,     \* the promise of start(): pending, resolved or rejected
  readable,  \* the readable side
  writable,  \* the writable side
  ts,        \* the slots backpressure and algorithms (set or cleared)
  failed,    \* the assertion that failed first; a release build goes on
  got,       \* the chunks that content read
  calls      \* how often content has called write, read, enqueue and cancel, and
             \* how often it wrote a chunk that has no size

sides == <<readable, writable, ts, failed, got>>
vars == <<config, start, sides, calls>>

Close == 0  \* in the queue of the writable side
Upto(n) == [i \in 1..n |-> i]

Init ==
  /\ config \in [transformer : BOOLEAN, hwm : 0..MaxHwm, throws : {0, MaxWrites}]
  /\ start = "pending"
  /\ readable = [state |-> "readable", started |-> FALSE, queue |-> <<>>, requests |-> 0,
                 closing |-> FALSE, pulling |-> "no", pullAgain |-> FALSE]
  /\ writable = [state |-> "writable", started |-> FALSE, queue |-> <<>>, closing |-> FALSE,
                 inFlight |-> "none", phase |-> "none", abort |-> "none"]
  /\ ts = [backpressure |-> TRUE, algorithms |-> TRUE]
  /\ failed = "none"
  /\ got = <<>>
  /\ calls = [write |-> 0, read |-> 0, enqueue |-> 0, cancel |-> 0, sizeless |-> 0]

\* Operations take and return a record of the two sides and what is between.
World == [r |-> readable, w |-> writable, ts |-> ts, failed |-> failed, got |-> got]
Become(S) ==
  /\ readable' = S.r /\ writable' = S.w /\ ts' = S.ts
  /\ failed' = S.failed /\ got' = S.got

MozAssert(S, name, holds) ==
  IF holds \/ S.failed # "none" THEN S ELSE [S EXCEPT !.failed = name]

---------------------------------------------------------------------------
(* Back-pressure.  A pull and a write in flight wait on the same promise,  *)
(* which every change resolves.                                            *)

\* Mutant: a reaction that belongs to no write is called as well.
MutantSetBackpressure(S, b) ==
  [S EXCEPT !.ts.backpressure = b, !.r.pulling = IF @ = "waiting" THEN "resolved" ELSE @,
            !.w.phase = IF @ \in {"blocked", "none"} THEN "unblocked" ELSE @]

SetBackpressure(S, b) ==
  LET T == MozAssert(S, "SetBackpressure", S.ts.backpressure # b)
  IN  [T EXCEPT !.ts.backpressure = b,
                !.r.pulling = IF @ = "waiting" THEN "resolved" ELSE @,
                !.w.phase = IF @ = "blocked" THEN "unblocked" ELSE @]

\* Mutant: pulls and writes that wait are forgotten.
MutantDefaultSourcePull(S) == [S EXCEPT !.ts.backpressure = FALSE, !.r.pulling = "waiting"]

\* DefaultSourcePullAlgorithm returns the promise of the next change.
DefaultSourcePull(S) ==
  [SetBackpressure(MozAssert(S, "pull", S.ts.backpressure), FALSE) EXCEPT !.r.pulling = "waiting"]

---------------------------------------------------------------------------
(* The readable side *)

ShouldCallPull(r) ==
  /\ r.state = "readable" /\ ~r.closing /\ r.started
  /\ r.requests > 0 \/ Len(r.queue) < config.hwm

CallPullIfNeeded(S) ==
  IF ~ShouldCallPull(S.r) THEN S
  ELSE IF S.r.pulling # "no" THEN [S EXCEPT !.r.pullAgain = TRUE]
  ELSE DefaultSourcePull(S)

CanCloseOrEnqueue(S) == S.r.state = "readable" /\ ~S.r.closing

ReadableEnqueue(S, chunk) ==
  CallPullIfNeeded(
    IF S.r.requests > 0 THEN [S EXCEPT !.r.requests = @ - 1, !.got = Append(@, chunk)]
    ELSE [S EXCEPT !.r.queue = Append(@, chunk)])

CloseNow(S) == [S EXCEPT !.r.state = "closed", !.r.queue = <<>>, !.r.requests = 0]

\* Mutant: what is still in the queue is dropped.
MutantReadableClose(S) == [CloseNow(S) EXCEPT !.r.closing = TRUE]

ReadableClose(S) ==
  IF S.r.queue = <<>> THEN [CloseNow(S) EXCEPT !.r.closing = TRUE]
  ELSE [S EXCEPT !.r.closing = TRUE]

ReadableError(S) ==
  IF S.r.state # "readable" THEN S
  ELSE [S EXCEPT !.r.state = "errored", !.r.queue = <<>>, !.r.requests = 0]

---------------------------------------------------------------------------
(* Errors of the writable side, which wait for what is in flight *)

\* Mutant: a write that waits for the reader keeps waiting.
MutantUnblock(S) == [S EXCEPT !.ts.algorithms = FALSE]

\* Steps 1 and 3 of ErrorWritableAndUnblockWrite
Unblock(S) ==
  LET T == [S EXCEPT !.ts.algorithms = FALSE]
  IN  IF T.ts.backpressure THEN SetBackpressure(T, FALSE) ELSE T

\* Mutant: the readable side is not told.
MutantDefaultSinkAbort(S) == Unblock(S)

\* DefaultSinkAbortAlgorithm.  The writable side is not "writable" any more,
\* so that Error has nothing to error there.
DefaultSinkAbort(S) == Unblock(ReadableError(S))

FinishErroring(S) ==
  LET T == [S EXCEPT !.w.state = "errored", !.w.queue = <<>>, !.w.abort = "none"]
  IN  IF S.w.abort = "pending" THEN DefaultSinkAbort(T) ELSE T

StartErroring(S) ==
  LET T == [S EXCEPT !.w.state = "erroring"]
  IN  IF T.w.inFlight = "none" /\ T.w.started THEN FinishErroring(T) ELSE T

DealWithRejection(S) ==
  IF S.w.state = "writable" THEN StartErroring(S) ELSE FinishErroring(S)

ErrorWritableAndUnblockWrite(S) ==
  Unblock(IF S.w.state = "writable" THEN StartErroring(S) ELSE S)

ErrorStream(S) == ErrorWritableAndUnblockWrite(ReadableError(S))

---------------------------------------------------------------------------
(* The controller *)

\* Enqueue throws: the readable side takes no more, or size() threw.
Throws(S, chunk) ==
  ~CanCloseOrEnqueue(S) \/ (chunk = config.throws /\ S.r.requests = 0)

Enqueue(S, chunk) ==
  IF ~CanCloseOrEnqueue(S) THEN S
  ELSE IF Throws(S, chunk) THEN ErrorStream(S)
  ELSE LET E == ReadableEnqueue(S, chunk)
           backpressure == ~ShouldCallPull(E.r)
       IN  IF backpressure = E.ts.backpressure THEN E
           ELSE SetBackpressure(MozAssert(E, "Enqueue", backpressure), TRUE)

Terminate(S) ==
  ErrorWritableAndUnblockWrite(IF CanCloseOrEnqueue(S) THEN ReadableClose(S) ELSE S)

\* PerformTransform.  A cleared algorithm is a null function.
PerformTransform(S, chunk) ==
  IF ~S.ts.algorithms THEN [S EXCEPT !.failed = "null"]
  ELSE IF config.transformer THEN [S EXCEPT !.w.phase = "pending"]
  ELSE [Enqueue(S, chunk) EXCEPT !.w.phase = IF Throws(S, chunk) THEN "failed" ELSE "done"]

---------------------------------------------------------------------------
(* The sink.  A chunk stays in the queue until its write is done.          *)

DefaultSinkWrite(S) ==
  LET T == MozAssert(S, "write", S.w.state = "writable")
  IN  IF T.ts.backpressure THEN [T EXCEPT !.w.phase = "blocked"]
      ELSE PerformTransform(T, Head(T.w.queue))

\* DefaultSinkCloseAlgorithm calls flush and clears the algorithms.
DefaultSinkClose(S) ==
  IF ~S.ts.algorithms THEN [S EXCEPT !.failed = "null"]
  ELSE [S EXCEPT !.ts.algorithms = FALSE,
                 !.w.phase = IF config.transformer THEN "pending" ELSE "fulfilled"]

AdvanceQueueIfNeeded(S) ==
  CASE ~S.w.started \/ S.w.inFlight # "none" -> S
    [] OTHER ->
         IF S.w.state = "erroring" THEN FinishErroring(S)
         ELSE IF S.w.queue = <<>> THEN S
         ELSE IF Head(S.w.queue) = Close
         THEN DefaultSinkClose([S EXCEPT !.w.queue = Tail(@), !.w.inFlight = "close"])
         ELSE DefaultSinkWrite([S EXCEPT !.w.inFlight = "write"])

---------------------------------------------------------------------------
(* What content calls *)

\* start() has returned, or the promise that it returned is settled.
StartSettles ==
  /\ start = "pending"
  /\ start' \in {"resolved"} \cup (IF config.transformer THEN {"rejected"} ELSE {})
  /\ UNCHANGED <<config, sides, calls>>

Count(call, bound) ==
  /\ calls[call] < bound
  /\ calls' = [calls EXCEPT ![call] = @ + 1]
  /\ UNCHANGED <<config, start>>

Other == UNCHANGED <<config, start, calls>>

\* writer.write: refused without effect unless the side is writable.
Write ==
  /\ writable.state = "writable" /\ ~writable.closing
  /\ Count("write", MaxWrites)
  /\ Become(AdvanceQueueIfNeeded([World EXCEPT !.w.queue = Append(@, calls.write + 1)]))

\* writer.write of a chunk for which the size() of the writable strategy throws, or
\* is not a number.  The engine errors the writable side (if size() throws, also one
\* that is closing), and calls no algorithm of the sink for it.
WriteSizeless ==
  /\ writable.state = "writable"
  /\ Count("sizeless", 1)
  /\ Become(StartErroring(World))

WriterClose ==
  /\ writable.state \in {"writable", "erroring"} /\ ~writable.closing
  /\ Become(AdvanceQueueIfNeeded([World EXCEPT !.w.queue = Append(@, Close), !.w.closing = TRUE]))
  /\ Other

Abort ==
  /\ writable.state \in {"writable", "erroring"} /\ writable.abort = "none"
  /\ Become(IF writable.state = "writable"
            THEN StartErroring([World EXCEPT !.w.abort = "pending"])
            ELSE [World EXCEPT !.w.abort = "late"])
  /\ Other

Read ==
  /\ readable.state = "readable"
  /\ Count("read", MaxReads)
  /\ Become(
       IF readable.queue = <<>> THEN CallPullIfNeeded([World EXCEPT !.r.requests = @ + 1])
       ELSE LET T == [World EXCEPT !.got = Append(@, Head(readable.queue)), !.r.queue = Tail(@)]
            IN  IF T.r.closing /\ T.r.queue = <<>> THEN CloseNow(T) ELSE CallPullIfNeeded(T))

\* cancel closes the stream before it calls DefaultSourceCancelAlgorithm.
Cancel ==
  /\ readable.state = "readable"
  /\ Count("cancel", 1)
  /\ Become(ErrorWritableAndUnblockWrite(CloseNow(World)))

\* controller.enqueue, which is for transformers.
ControllerEnqueue ==
  /\ config.transformer
  /\ Count("enqueue", MaxEnqueues)
  /\ Become(Enqueue(World, calls.enqueue + 1))

ControllerError == config.transformer /\ Become(ErrorStream(World)) /\ Other

ControllerTerminate == config.transformer /\ Become(Terminate(World)) /\ Other

\* The promise of transform() or flush() is settled.
Settle ==
  /\ writable.phase = "pending"
  /\ \E how \in {IF writable.inFlight = "write" THEN "done" ELSE "fulfilled", "failed"} :
       Become([World EXCEPT !.w.phase = how])
  /\ Other

---------------------------------------------------------------------------
(* Jobs *)

\* The promise of start() calls the writable side first.
WritableStarted ==
  /\ start # "pending" /\ ~writable.started
  /\ LET T == [World EXCEPT !.w.started = TRUE]
     IN  Become(IF start = "resolved" THEN AdvanceQueueIfNeeded(T) ELSE DealWithRejection(T))
  /\ Other

ReadableStarted ==
  /\ writable.started /\ ~readable.started
  /\ LET T == [World EXCEPT !.r.started = TRUE]
     IN  Become(IF start = "resolved" THEN CallPullIfNeeded(T) ELSE ReadableError(T))
  /\ Other

Pulled ==
  /\ readable.pulling = "resolved"
  /\ LET T == [World EXCEPT !.r.pulling = "no", !.r.pullAgain = FALSE]
     IN  Become(IF readable.pullAgain THEN CallPullIfNeeded(T) ELSE T)
  /\ Other

\* Mutant: the state of the writable side is not looked at again.
MutantWriteUnblocked ==
  /\ writable.phase = "unblocked"
  /\ Become(PerformTransform(World, Head(writable.queue)))
  /\ Other

\* default_sink_write_algo_then_handler
WriteUnblocked ==
  /\ writable.phase = "unblocked"
  /\ Become(IF writable.state = "erroring" THEN [World EXCEPT !.w.phase = "rejected"]
            ELSE PerformTransform(MozAssert(World, "unblocked", writable.state = "writable"),
                                  Head(writable.queue)))
  /\ Other

\* transformPromise_catch_handler and default_sink_close_algo_catch_handler
TransformerFailed ==
  /\ writable.phase = "failed"
  /\ Become([ErrorStream(World) EXCEPT !.w.phase = "rejected"])
  /\ Other

\* default_sink_close_algo_then_handler
Flushed ==
  /\ writable.phase = "fulfilled"
  /\ LET T == [World EXCEPT !.w.phase = IF readable.state = "errored" THEN "rejected" ELSE "done"]
     IN  Become(IF CanCloseOrEnqueue(T) THEN ReadableClose(T) ELSE T)
  /\ Other

\* The writable side reacts to the promise of its sink.
OperationDone ==
  /\ writable.phase = "done"
  /\ LET T == [World EXCEPT !.w.phase = "none", !.w.inFlight = "none"]
     IN  Become(IF writable.inFlight = "close" THEN [T EXCEPT !.w.state = "closed", !.w.abort = "none"]
                ELSE AdvanceQueueIfNeeded([T EXCEPT !.w.queue = Tail(@)]))
  /\ Other

OperationRejected ==
  /\ writable.phase = "rejected"
  /\ Become(DealWithRejection(
       [World EXCEPT !.w.phase = "none", !.w.inFlight = "none",
                     !.w.abort = IF writable.inFlight = "close" THEN "none" ELSE @]))
  /\ Other

---------------------------------------------------------------------------
Content ==
  \/ StartSettles \/ Write \/ WriteSizeless \/ WriterClose \/ Abort \/ Read \/ Cancel
  \/ ControllerEnqueue \/ ControllerError \/ ControllerTerminate \/ Settle
Job ==
  \/ WritableStarted \/ ReadableStarted \/ Pulled \/ WriteUnblocked
  \/ TransformerFailed \/ Flushed \/ OperationDone \/ OperationRejected

\* A call of a null function ends the program.
Next == failed # "null" /\ (Content \/ Job)

Spec == Init /\ [][Next]_vars

\* The event loop runs the jobs that can run.
FairSpec == Spec /\ WF_vars(failed # "null" /\ Job)

---------------------------------------------------------------------------
(* Properties *)

\* The shape of the state.
TypeOK ==
  /\ readable.state \in {"readable", "closed", "errored"}
  /\ readable.requests \in 0..MaxReads
  /\ readable.pulling \in {"no", "waiting", "resolved"}
  /\ {readable.started, readable.closing, readable.pullAgain} \subseteq BOOLEAN
  /\ writable.state \in {"writable", "erroring", "errored", "closed"}
  /\ writable.inFlight \in {"none", "write", "close"}
  /\ writable.phase \in {"none", "blocked", "unblocked", "pending", "fulfilled", "failed",
                         "done", "rejected"}
  /\ writable.phase = "none" <=> writable.inFlight = "none"
  /\ writable.abort \in {"none", "pending", "late"}
  /\ {writable.started, writable.closing} \subseteq BOOLEAN
  /\ ts \in [backpressure : BOOLEAN, algorithms : BOOLEAN]

\* Of the assertions in this code, those in pull, write and SetBackpressure
\* hold, and no algorithm is called after it was cleared, however errors and
\* a close of the two sides come together.  That of enqueue does not: two reads
\* between two enqueues call for less back-pressure, where it expects more.
AssertionsHold == failed \in {"none", "Enqueue"}

\* No job waits to run.
Idle ==
  /\ start = "pending" \/ readable.started
  /\ readable.pulling # "resolved"
  /\ writable.phase \in {"none", "blocked", "pending"}

\* A write waits for nothing but a reader: when all jobs have run, one that is
\* blocked finds a readable side that is open and wants no chunk.
BlockedForAReason ==
  Idle /\ writable.phase = "blocked" =>
    readable.state = "readable" /\ ~readable.closing /\ ~ShouldCallPull(readable)

\* An error or an end of one side reaches the other: when all jobs have run,
\* the writable side has ended if the readable side has, unless transform() or
\* flush() is not settled; and the readable side has ended or is about to,
\* if the writable side has.  Only an error of the size() of the writable strategy
\* does not reach the readable side, which stays open.
SidesEndTogether ==
  Idle /\ readable.started =>
    /\ readable.state # "readable" =>
         writable.state \in {"errored", "closed"} \/ writable.phase = "pending"
    /\ writable.state = "closed" \/ (writable.state = "errored" /\ calls.sizeless = 0) =>
         readable.state # "readable" \/ readable.closing

\* The chunks in the queue of the writable side; a close comes after them.
Chunks(queue) ==
  IF queue # <<>> /\ Last(queue) = Close THEN Len(queue) - 1 ELSE Len(queue)

\* The first of them was passed on already.
Delivered(w) == w.inFlight = "write" /\ w.phase \notin {"none", "blocked", "unblocked"}

\* The chunks that are written and not yet enqueued on the readable side.
Waiting ==
  SubSeq(writable.queue, IF Delivered(writable) THEN 2 ELSE 1, Chunks(writable.queue))

\* Without a transformer nothing is lost, repeated or reordered between the
\* two sides; and one that was closed, and not cancelled, passes on all of it.
PassesEverything ==
  ~config.transformer =>
    /\ IsPrefix(got, Upto(calls.write))
    /\ (writable.state \in {"writable", "closed"} /\ readable.state # "errored" /\ calls.cancel = 0) =>
         got \o readable.queue \o Waiting = Upto(calls.write)

\* A write that is blocked goes on when somebody reads, unless content enqueues
\* what was asked for, and when the readable side has ended.
BlockedWriteGoesOn ==
  (writable.phase = "blocked" /\ (readable.requests > 0 \/ readable.state # "readable")) ~>
    (writable.phase # "blocked" \/ (readable.requests = 0 /\ readable.state = "readable"))

=============================================================================
