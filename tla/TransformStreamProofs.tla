------------------------ MODULE TransformStreamProofs ------------------------
(***************************************************************************)
(* Proofs about TransformStream, for any number of writes, reads and       *)
(* enqueues and any high-water mark: the assertions on back-pressure hold, *)
(* and no algorithm is called after it was cleared; the two sides end      *)
(* together, and a write waits for nothing but a reader; and, without a    *)
(* transformer, every chunk is passed on.                                  *)
(*                                                                         *)
(* The steps are made of operators on a record of the two sides.  There is *)
(* one lemma per operator, on Good, which holds of that record between any *)
(* two of them; Paired holds between the steps only.                       *)
(***************************************************************************)
EXTENDS TransformStream, SequenceTheorems, TLAPS

Readable ==
  [state : {"readable", "closed", "errored"}, started : BOOLEAN, queue : Seq(Nat),
   requests : Nat, closing : BOOLEAN, pulling : {"no", "waiting", "resolved"},
   pullAgain : BOOLEAN]

Phases ==
  {"none", "blocked", "unblocked", "pending", "fulfilled", "failed", "done", "rejected"}

Writable ==
  [state : {"writable", "erroring", "errored", "closed"}, started : BOOLEAN,
   queue : Seq(Nat), closing : BOOLEAN, inFlight : {"none", "write", "close"},
   phase : Phases, abort : {"none", "pending", "late"}]

Slots == [backpressure : BOOLEAN, algorithms : BOOLEAN]

Worlds ==
  [r : Readable, w : Writable, ts : Slots, failed : {"none", "Enqueue"}, got : Seq(Nat)]

Open(r) == r.state = "readable" /\ ~r.closing

\* As long as the readable side takes chunks, a pull waits for the writable side
\* exactly while there is no back-pressure.
PullWaits(S) == Open(S.r) => (S.r.pulling = "waiting" <=> ~S.ts.backpressure)

\* Nothing is in flight before the writable side has started or after it has
\* ended.
Ends(S) ==
  /\ S.w.inFlight # "none" => S.w.state \in {"writable", "erroring"} /\ S.w.started
  /\ ~S.w.started => S.w.state \in {"writable", "erroring"}
  /\ S.w.inFlight = "write" => S.w.queue # <<>>

\* The algorithms are there for as long as the writable side may call them.
Callable(S) ==
  /\ Ends(S)
  /\ S.w.state = "writable" /\ S.w.inFlight # "close" => S.ts.algorithms

Good(S) == S \in Worlds /\ PullWaits(S) /\ Callable(S)

\* A phase is that of an operation in flight; only a write waits for a reader.
Paired(S) ==
  /\ S.w.phase = "none" <=> S.w.inFlight = "none"
  /\ S.w.phase \in {"blocked", "unblocked"} => S.w.inFlight = "write"

Calls == [{"write", "read", "enqueue", "cancel", "sizeless"} -> Nat]

\* The inductive invariant.
Inv ==
  /\ calls \in Calls
  /\ Good(World)
  /\ Paired(World)

\* What an operator that no write or close is passed to leaves alone.
Keeps(S, T) ==
  /\ T.w.inFlight = S.w.inFlight
  /\ T.w.started = S.w.started
  /\ T.w.phase = S.w.phase \/ (S.w.phase = "blocked" /\ T.w.phase = "unblocked")
  /\ Open(T.r) => Open(S.r)

LEMMA KeepsTransitive ==
  ASSUME NEW S, NEW T, NEW U, Keeps(S, T), Keeps(T, U)
  PROVE  Keeps(S, U)
BY DEF Keeps

LEMMA KeepsPaired ==
  ASSUME NEW S, NEW T, Keeps(S, T), Paired(S)
  PROVE  Paired(T)
BY DEF Keeps, Paired

-----------------------------------------------------------------------------
(* Back-pressure and the readable side. *)

LEMMA ChangeIsAWorld ==
  ASSUME NEW S \in Worlds, NEW b \in BOOLEAN, NEW q \in Phases,
         NEW p \in {"no", "waiting", "resolved"}
  PROVE  [S EXCEPT !.ts.backpressure = b, !.r.pulling = p, !.w.phase = q] \in Worlds
BY DEF Worlds, Readable, Writable, Slots, Phases

LEMMA SetBackpressureChanges ==
  ASSUME NEW S \in Worlds, Callable(S), NEW b \in BOOLEAN,
         S.ts.backpressure # b \/ S.failed = "Enqueue"
  PROVE  LET T == SetBackpressure(S, b)
         IN  /\ T \in Worlds /\ Callable(T) /\ Keeps(S, T)
             /\ T.ts.backpressure = b /\ T.r.pulling # "waiting"
             /\ T.w.state = S.w.state /\ T.w.abort = S.w.abort /\ T.w.phase # "blocked"
             /\ T.r.state = S.r.state /\ T.r.closing = S.r.closing
             /\ T.r.started = S.r.started /\ T.r.requests = S.r.requests
             /\ T.r.queue = S.r.queue /\ T.r.pullAgain = S.r.pullAgain
             /\ S.r.pulling # "waiting" => T.r.pulling = S.r.pulling
<1>1. MozAssert(S, "SetBackpressure", S.ts.backpressure # b) = S
  BY DEF MozAssert
<1> DEFINE T == SetBackpressure(S, b)
           p == IF S.r.pulling = "waiting" THEN "resolved" ELSE S.r.pulling
           q == IF S.w.phase = "blocked" THEN "unblocked" ELSE S.w.phase
<1>2. T = [S EXCEPT !.ts.backpressure = b, !.r.pulling = p, !.w.phase = q]
  BY <1>1 DEF SetBackpressure, Worlds
<1>3. /\ p \in {"no", "waiting", "resolved"} /\ p # "waiting" /\ q \in Phases
      /\ q # "blocked"
      /\ S.r.pulling # "waiting" => p = S.r.pulling
  BY DEF Worlds, Readable, Writable, Phases
<1>4. q = S.w.phase \/ (S.w.phase = "blocked" /\ q = "unblocked")
  OBVIOUS
<1> HIDE DEF p, q, T
<1>5. T \in Worlds
  BY <1>2, <1>3, ChangeIsAWorld
<1>6. /\ T.ts.backpressure = b /\ T.ts.algorithms = S.ts.algorithms
      /\ T.r = [S.r EXCEPT !.pulling = p]
      /\ T.w = [S.w EXCEPT !.phase = q]
  BY <1>2, <1>3 DEF Worlds, Slots
<1>7. /\ T.r.pulling = p /\ T.r.state = S.r.state /\ T.r.closing = S.r.closing
      /\ T.w.state = S.w.state /\ T.w.inFlight = S.w.inFlight /\ T.w.phase = q
      /\ T.w.started = S.w.started /\ T.w.queue = S.w.queue /\ T.w.abort = S.w.abort
      /\ T.r.started = S.r.started /\ T.r.requests = S.r.requests
      /\ T.r.queue = S.r.queue /\ T.r.pullAgain = S.r.pullAgain
  BY <1>6 DEF Worlds, Readable, Writable
<1>8. Callable(T)
  BY <1>6, <1>7 DEF Callable, Ends
<1>9. Keeps(S, T)
  BY <1>4, <1>7 DEF Keeps, Open
<1> QED BY <1>3, <1>5, <1>6, <1>7, <1>8, <1>9 DEF T

\* Back-pressure goes on, or off when the readable side takes no more.
LEMMA SetBackpressureGood ==
  ASSUME NEW S \in Worlds, Callable(S), NEW b \in BOOLEAN,
         S.ts.backpressure # b \/ S.failed = "Enqueue",
         b \/ ~Open(S.r)
  PROVE  LET T == SetBackpressure(S, b)
         IN  Good(T) /\ Keeps(S, T) /\ T.w.state = S.w.state
BY SetBackpressureChanges DEF Good, PullWaits, Keeps

LEMMA PullingIsAWorld ==
  ASSUME NEW S \in Worlds, NEW p \in {"no", "waiting", "resolved"}
  PROVE  LET T == [S EXCEPT !.r.pulling = p]
         IN  /\ T \in Worlds /\ T.w = S.w /\ T.ts = S.ts /\ T.r.pulling = p
             /\ T.r.state = S.r.state /\ T.r.closing = S.r.closing
             /\ T.r.started = S.r.started /\ T.r.requests = S.r.requests
BY DEF Worlds, Readable

\* The assertion of the pull algorithm: there is back-pressure, for otherwise a
\* pull would be waiting.
LEMMA DefaultSourcePullGood ==
  ASSUME NEW S \in Worlds, Good(S), Open(S.r), S.r.pulling = "no"
  PROVE  LET T == DefaultSourcePull(S)
         IN  Good(T) /\ Keeps(S, T) /\ T.w.state = S.w.state
<1> DEFINE B == SetBackpressure(S, FALSE)
           T == [B EXCEPT !.r.pulling = "waiting"]
<1>1. S.ts.backpressure /\ Callable(S)
  BY DEF Good, PullWaits
<1>2. DefaultSourcePull(S) = T
  BY <1>1 DEF DefaultSourcePull, MozAssert
<1>3. /\ B \in Worlds /\ Callable(B) /\ Keeps(S, B)
      /\ B.ts.backpressure = FALSE /\ B.w.state = S.w.state
  BY <1>1, SetBackpressureChanges
<1> HIDE DEF B
<1>4. /\ T \in Worlds /\ T.w = B.w /\ T.ts = B.ts /\ T.r.pulling = "waiting"
      /\ T.r.state = B.r.state /\ T.r.closing = B.r.closing
  BY <1>3, PullingIsAWorld
<1> HIDE DEF T
<1>5. Good(T) /\ Keeps(S, T) /\ T.w.state = S.w.state
  BY <1>3, <1>4 DEF Good, PullWaits, Callable, Ends, Keeps, Open
<1> QED BY <1>2, <1>5

LEMMA PullAgainIsAWorld ==
  ASSUME NEW S \in Worlds
  PROVE  LET T == [S EXCEPT !.r.pullAgain = TRUE]
         IN  /\ T \in Worlds /\ T.w = S.w /\ T.ts = S.ts /\ T.r.pulling = S.r.pulling
             /\ T.r.state = S.r.state /\ T.r.closing = S.r.closing /\ T.r.pullAgain
             /\ T.r.started = S.r.started /\ T.r.requests = S.r.requests
BY DEF Worlds, Readable

LEMMA CallPullIfNeededGood ==
  ASSUME NEW S \in Worlds, Good(S)
  PROVE  LET T == CallPullIfNeeded(S)
         IN  Good(T) /\ Keeps(S, T) /\ T.w.state = S.w.state
<1>1. CASE ~ShouldCallPull(S.r)
  BY <1>1 DEF CallPullIfNeeded, Keeps
<1>2. CASE ShouldCallPull(S.r) /\ S.r.pulling # "no"
  <2> DEFINE T == [S EXCEPT !.r.pullAgain = TRUE]
  <2>1. CallPullIfNeeded(S) = T
    BY <1>2 DEF CallPullIfNeeded
  <2>2. /\ T \in Worlds /\ T.w = S.w /\ T.ts = S.ts /\ T.r.pulling = S.r.pulling
        /\ T.r.state = S.r.state /\ T.r.closing = S.r.closing
    BY PullAgainIsAWorld
  <2> HIDE DEF T
  <2>3. Good(T) /\ Keeps(S, T) /\ T.w.state = S.w.state
    BY <2>2 DEF Good, PullWaits, Callable, Ends, Keeps, Open
  <2> QED BY <2>1, <2>3
<1>3. CASE ShouldCallPull(S.r) /\ S.r.pulling = "no"
  <2>1. CallPullIfNeeded(S) = DefaultSourcePull(S)
    BY <1>3 DEF CallPullIfNeeded
  <2>2. Open(S.r)
    BY <1>3 DEF ShouldCallPull, Open
  <2> QED BY <1>3, <2>1, <2>2, DefaultSourcePullGood
<1> QED BY <1>1, <1>2, <1>3

\* A step of the readable side that touches its queue and requests.
LEMMA QueueIsAWorld ==
  ASSUME NEW S \in Worlds, NEW chunk \in Nat
  PROVE  LET T == IF S.r.requests > 0
                  THEN [S EXCEPT !.r.requests = @ - 1, !.got = Append(@, chunk)]
                  ELSE [S EXCEPT !.r.queue = Append(@, chunk)]
         IN  /\ T \in Worlds /\ T.w = S.w /\ T.ts = S.ts /\ T.r.pulling = S.r.pulling
             /\ T.r.state = S.r.state /\ T.r.closing = S.r.closing
             /\ T.r.started = S.r.started
             /\ T.r.requests = S.r.requests \/ T.r.requests = S.r.requests - 1
<1>1. CASE S.r.requests > 0
  <2>1. S.r.requests - 1 \in Nat /\ Append(S.got, chunk) \in Seq(Nat)
    BY <1>1, AppendProperties DEF Worlds, Readable
  <2> QED BY <1>1, <2>1 DEF Worlds, Readable
<1>2. CASE ~(S.r.requests > 0)
  <2>1. Append(S.r.queue, chunk) \in Seq(Nat)
    BY AppendProperties DEF Worlds, Readable
  <2> QED BY <1>2, <2>1 DEF Worlds, Readable
<1> QED BY <1>1, <1>2

LEMMA ReadableEnqueueGood ==
  ASSUME NEW S \in Worlds, Good(S), NEW chunk \in Nat
  PROVE  LET T == ReadableEnqueue(S, chunk)
         IN  Good(T) /\ Keeps(S, T) /\ T.w.state = S.w.state
<1> DEFINE T == IF S.r.requests > 0
                THEN [S EXCEPT !.r.requests = @ - 1, !.got = Append(@, chunk)]
                ELSE [S EXCEPT !.r.queue = Append(@, chunk)]
<1>1. ReadableEnqueue(S, chunk) = CallPullIfNeeded(T)
  BY DEF ReadableEnqueue
<1>2. /\ T \in Worlds /\ T.w = S.w /\ T.ts = S.ts /\ T.r.pulling = S.r.pulling
      /\ T.r.state = S.r.state /\ T.r.closing = S.r.closing
  BY QueueIsAWorld
<1> HIDE DEF T
<1>3. Good(T) /\ Keeps(S, T) /\ T.w.state = S.w.state
  BY <1>2 DEF Good, PullWaits, Callable, Ends, Keeps, Open
<1>4. /\ Good(CallPullIfNeeded(T)) /\ Keeps(T, CallPullIfNeeded(T))
      /\ CallPullIfNeeded(T).w.state = T.w.state
  BY <1>2, <1>3, CallPullIfNeededGood
<1> QED BY <1>1, <1>3, <1>4, KeepsTransitive

LEMMA EmptyReadable ==
  ASSUME NEW S \in Worlds, NEW state \in {"closed", "errored"}
  PROVE  LET T == [S EXCEPT !.r.state = state, !.r.queue = <<>>, !.r.requests = 0]
         IN  /\ T \in Worlds /\ T.w = S.w /\ T.ts = S.ts /\ T.r.state = state
             /\ T.r.closing = S.r.closing /\ T.r.started = S.r.started
             /\ T.r.requests = 0
<1>1. \A q \in Seq(Nat) :
        LET T == [S EXCEPT !.r.state = state, !.r.queue = q, !.r.requests = 0]
        IN  /\ T \in Worlds /\ T.w = S.w /\ T.ts = S.ts /\ T.r.state = state
            /\ T.r.closing = S.r.closing /\ T.r.started = S.r.started
            /\ T.r.requests = 0
  BY DEF Worlds, Readable
<1>2. <<>> \in Seq(Nat)
  OBVIOUS
<1> QED BY <1>1, <1>2

LEMMA ClosingIsAWorld ==
  ASSUME NEW S \in Worlds
  PROVE  LET T == [S EXCEPT !.r.closing = TRUE]
         IN  /\ T \in Worlds /\ T.w = S.w /\ T.ts = S.ts /\ T.r.state = S.r.state
             /\ T.r.closing /\ T.r.started = S.r.started /\ T.r.requests = S.r.requests
BY DEF Worlds, Readable

\* The readable side has ended: no pull has to wait.
LEMMA EndedIsGood ==
  ASSUME NEW S \in Worlds, NEW T \in Worlds, Good(S), T.w = S.w, T.ts = S.ts, ~Open(T.r)
  PROVE  Good(T) /\ Keeps(S, T) /\ ~Open(T.r) /\ T.w.state = S.w.state
BY DEF Good, PullWaits, Callable, Ends, Keeps

LEMMA CloseNowGood ==
  ASSUME NEW S \in Worlds, Good(S)
  PROVE  LET T == CloseNow(S)
         IN  Good(T) /\ Keeps(S, T) /\ ~Open(T.r) /\ T.w.state = S.w.state /\ T.w = S.w /\ T.ts = S.ts
<1>1. /\ CloseNow(S) \in Worlds /\ CloseNow(S).w = S.w /\ CloseNow(S).ts = S.ts
      /\ CloseNow(S).r.state = "closed"
  BY EmptyReadable DEF CloseNow
<1>2. ~Open(CloseNow(S).r)
  BY <1>1 DEF Open
<1> QED BY <1>1, <1>2, EndedIsGood

LEMMA ReadableCloseGood ==
  ASSUME NEW S \in Worlds, Good(S)
  PROVE  LET T == ReadableClose(S)
         IN  Good(T) /\ Keeps(S, T) /\ ~Open(T.r) /\ T.w.state = S.w.state
<1> DEFINE C == IF S.r.queue = <<>> THEN CloseNow(S) ELSE S
           T == [C EXCEPT !.r.closing = TRUE]
<1>1. ReadableClose(S) = T
  BY DEF ReadableClose
<1>2. C \in Worlds /\ C.w = S.w /\ C.ts = S.ts
  BY CloseNowGood DEF Good
<1> HIDE DEF C
<1>3. T \in Worlds /\ T.w = C.w /\ T.ts = C.ts /\ T.r.closing
  BY <1>2, ClosingIsAWorld
<1> HIDE DEF T
<1>4. ~Open(T.r)
  BY <1>3 DEF Open
<1> QED BY <1>1, <1>2, <1>3, <1>4, EndedIsGood

LEMMA ReadableErrorGood ==
  ASSUME NEW S \in Worlds, Good(S)
  PROVE  LET T == ReadableError(S)
         IN  Good(T) /\ Keeps(S, T) /\ ~Open(T.r) /\ T.w.state = S.w.state
<1>1. CASE S.r.state # "readable"
  BY <1>1 DEF ReadableError, Keeps, Open
<1>2. CASE S.r.state = "readable"
  <2> DEFINE T == [S EXCEPT !.r.state = "errored", !.r.queue = <<>>, !.r.requests = 0]
  <2>1. ReadableError(S) = T
    BY <1>2 DEF ReadableError
  <2>2. T \in Worlds /\ T.w = S.w /\ T.ts = S.ts /\ T.r.state = "errored"
    BY EmptyReadable
  <2> HIDE DEF T
  <2>3. ~Open(T.r)
    BY <2>2 DEF Open
  <2> QED BY <2>1, <2>2, <2>3, EndedIsGood
<1> QED BY <1>1, <1>2

-----------------------------------------------------------------------------
(* Errors of the writable side. *)

LEMMA ClearedIsAWorld ==
  ASSUME NEW S \in Worlds
  PROVE  LET T == [S EXCEPT !.ts.algorithms = FALSE]
         IN  /\ T \in Worlds /\ T.w = S.w /\ T.r = S.r /\ T.failed = S.failed
             /\ T.ts.backpressure = S.ts.backpressure
BY DEF Worlds, Slots

\* The algorithms are cleared and a write that waits is woken up only when the
\* readable side takes no more, and the writable side is not writable any more.
LEMMA UnblockGood ==
  ASSUME NEW S \in Worlds, Good(S), ~Open(S.r), S.w.state # "writable"
  PROVE  LET T == Unblock(S)
         IN  Good(T) /\ Keeps(S, T) /\ ~Open(T.r) /\ T.w.state = S.w.state
<1> DEFINE C == [S EXCEPT !.ts.algorithms = FALSE]
<1>1. Unblock(S) = IF C.ts.backpressure THEN SetBackpressure(C, FALSE) ELSE C
  BY DEF Unblock
<1>2. C \in Worlds /\ C.w = S.w /\ C.r = S.r
  BY ClearedIsAWorld
<1> HIDE DEF C
<1>3. Good(C) /\ Keeps(S, C)
  BY <1>2 DEF Good, PullWaits, Callable, Ends, Keeps
<1>4. CASE ~C.ts.backpressure
  BY <1>1, <1>2, <1>3, <1>4
<1>5. CASE C.ts.backpressure
  <2>1. Callable(C) /\ C.ts.backpressure # FALSE /\ ~Open(C.r)
    BY <1>2, <1>3, <1>5 DEF Good
  <2>2. LET T == SetBackpressure(C, FALSE)
        IN  Good(T) /\ Keeps(C, T) /\ T.w.state = C.w.state
    BY <1>2, <2>1, SetBackpressureGood
  <2>3. Unblock(S) = SetBackpressure(C, FALSE)
    BY <1>1, <1>5
  <2>4. Keeps(S, Unblock(S))
    BY <1>3, <2>2, <2>3, KeepsTransitive
  <2> QED BY <1>2, <2>2, <2>3, <2>4 DEF Keeps
<1> QED BY <1>4, <1>5

LEMMA DefaultSinkAbortGood ==
  ASSUME NEW S \in Worlds, Good(S), S.w.state # "writable"
  PROVE  LET T == DefaultSinkAbort(S)
         IN  Good(T) /\ Keeps(S, T) /\ T.w.state = S.w.state
<1> DEFINE E == ReadableError(S)
<1>1. DefaultSinkAbort(S) = Unblock(E)
  BY DEF DefaultSinkAbort
<1>2. Good(E) /\ Keeps(S, E) /\ ~Open(E.r) /\ E.w.state = S.w.state
  BY ReadableErrorGood
<1> HIDE DEF E
<1>3. E \in Worlds
  BY <1>2 DEF Good
<1>4. Good(Unblock(E)) /\ Keeps(E, Unblock(E)) /\ Unblock(E).w.state = E.w.state
  BY <1>2, <1>3, UnblockGood
<1> QED BY <1>1, <1>2, <1>4, KeepsTransitive

LEMMA ErroredIsAWorld ==
  ASSUME NEW S \in Worlds
  PROVE  LET T == [S EXCEPT !.w.state = "errored", !.w.queue = <<>>, !.w.abort = "none"]
         IN  /\ T \in Worlds /\ T.r = S.r /\ T.ts = S.ts /\ T.w.state = "errored"
             /\ T.w.inFlight = S.w.inFlight /\ T.w.started = S.w.started
             /\ T.w.phase = S.w.phase
<1>1. \A q \in Seq(Nat) :
        LET T == [S EXCEPT !.w.state = "errored", !.w.queue = q, !.w.abort = "none"]
        IN  /\ T \in Worlds /\ T.r = S.r /\ T.ts = S.ts /\ T.w.state = "errored"
            /\ T.w.inFlight = S.w.inFlight /\ T.w.started = S.w.started
            /\ T.w.phase = S.w.phase
  BY DEF Worlds, Writable
<1>2. <<>> \in Seq(Nat)
  OBVIOUS
<1> QED BY <1>1, <1>2

LEMMA FinishErroringGood ==
  ASSUME NEW S \in Worlds, PullWaits(S), Ends(S), S.w.inFlight = "none", S.w.started
  PROVE  LET T == FinishErroring(S)
         IN  Good(T) /\ Keeps(S, T) /\ T.w.state = "errored"
<1> DEFINE E == [S EXCEPT !.w.state = "errored", !.w.queue = <<>>, !.w.abort = "none"]
<1>1. FinishErroring(S) = IF S.w.abort = "pending" THEN DefaultSinkAbort(E) ELSE E
  BY DEF FinishErroring
<1>2. /\ E \in Worlds /\ E.r = S.r /\ E.ts = S.ts /\ E.w.state = "errored"
      /\ E.w.inFlight = S.w.inFlight /\ E.w.started = S.w.started
      /\ E.w.phase = S.w.phase
  BY ErroredIsAWorld
<1> HIDE DEF E
<1>3. Good(E) /\ Keeps(S, E)
  BY <1>2 DEF Good, PullWaits, Callable, Ends, Keeps
<1>4. CASE S.w.abort = "pending"
  <2>1. LET T == DefaultSinkAbort(E)
        IN  Good(T) /\ Keeps(E, T) /\ T.w.state = E.w.state
    BY <1>2, <1>3, DefaultSinkAbortGood
  <2> QED BY <1>1, <1>2, <1>3, <1>4, <2>1, KeepsTransitive
<1> QED BY <1>1, <1>2, <1>3, <1>4

LEMMA ErroringIsAWorld ==
  ASSUME NEW S \in Worlds
  PROVE  LET T == [S EXCEPT !.w.state = "erroring"]
         IN  /\ T \in Worlds /\ T.r = S.r /\ T.ts = S.ts /\ T.w.state = "erroring"
             /\ T.w.inFlight = S.w.inFlight /\ T.w.started = S.w.started
             /\ T.w.phase = S.w.phase /\ T.w.queue = S.w.queue /\ T.w.abort = S.w.abort
BY DEF Worlds, Writable

LEMMA StartErroringGood ==
  ASSUME NEW S \in Worlds, PullWaits(S), Ends(S), S.w.state = "writable"
  PROVE  LET T == StartErroring(S)
         IN  Good(T) /\ Keeps(S, T) /\ T.w.state # "writable"
<1> DEFINE E == [S EXCEPT !.w.state = "erroring"]
<1>1. StartErroring(S) =
        IF E.w.inFlight = "none" /\ E.w.started THEN FinishErroring(E) ELSE E
  BY DEF StartErroring
<1>2. /\ E \in Worlds /\ E.r = S.r /\ E.ts = S.ts /\ E.w.state = "erroring"
      /\ E.w.inFlight = S.w.inFlight /\ E.w.started = S.w.started
      /\ E.w.phase = S.w.phase /\ E.w.queue = S.w.queue
  BY ErroringIsAWorld
<1> HIDE DEF E
<1>3. Good(E) /\ Keeps(S, E)
  BY <1>2 DEF Good, PullWaits, Callable, Ends, Keeps
<1>4. CASE E.w.inFlight = "none" /\ E.w.started
  <2>1. LET T == FinishErroring(E)
        IN  Good(T) /\ Keeps(E, T) /\ T.w.state = "errored"
    BY <1>2, <1>3, <1>4, FinishErroringGood DEF Good, Callable
  <2> QED BY <1>1, <1>3, <1>4, <2>1, KeepsTransitive
<1> QED BY <1>1, <1>2, <1>3, <1>4

LEMMA DealWithRejectionGood ==
  ASSUME NEW S \in Worlds, PullWaits(S), Ends(S), S.w.inFlight = "none", S.w.started
  PROVE  LET T == DealWithRejection(S) IN Good(T) /\ Keeps(S, T)
<1>1. CASE S.w.state = "writable"
  BY <1>1, StartErroringGood DEF DealWithRejection
<1>2. CASE S.w.state # "writable"
  BY <1>2, FinishErroringGood DEF DealWithRejection
<1> QED BY <1>1, <1>2

LEMMA ErrorWritableGood ==
  ASSUME NEW S \in Worlds, Good(S), ~Open(S.r)
  PROVE  LET T == ErrorWritableAndUnblockWrite(S) IN Good(T) /\ Keeps(S, T)
<1> DEFINE E == IF S.w.state = "writable" THEN StartErroring(S) ELSE S
<1>1. ErrorWritableAndUnblockWrite(S) = Unblock(E)
  BY DEF ErrorWritableAndUnblockWrite
<1>2. Good(E) /\ Keeps(S, E) /\ E.w.state # "writable"
  <2>1. CASE S.w.state = "writable"
    BY <2>1, StartErroringGood DEF Good, Callable
  <2>2. CASE S.w.state # "writable"
    BY <2>2 DEF Keeps
  <2> QED BY <2>1, <2>2
<1> HIDE DEF E
<1>3. E \in Worlds /\ ~Open(E.r)
  BY <1>2 DEF Good, Keeps
<1>4. Good(Unblock(E)) /\ Keeps(E, Unblock(E))
  BY <1>2, <1>3, UnblockGood
<1> QED BY <1>1, <1>2, <1>4, KeepsTransitive

LEMMA ErrorStreamGood ==
  ASSUME NEW S \in Worlds, Good(S)
  PROVE  LET T == ErrorStream(S) IN Good(T) /\ Keeps(S, T)
<1> DEFINE E == ReadableError(S)
<1>1. ErrorStream(S) = ErrorWritableAndUnblockWrite(E)
  BY DEF ErrorStream
<1>2. Good(E) /\ Keeps(S, E) /\ ~Open(E.r)
  BY ReadableErrorGood
<1> HIDE DEF E
<1>3. E \in Worlds
  BY <1>2 DEF Good
<1>4. LET T == ErrorWritableAndUnblockWrite(E) IN Good(T) /\ Keeps(E, T)
  BY <1>2, <1>3, ErrorWritableGood
<1> QED BY <1>1, <1>2, <1>4, KeepsTransitive

-----------------------------------------------------------------------------
(* The controller and the sink. *)

LEMMA FailedIsAWorld ==
  ASSUME NEW S \in Worlds
  PROVE  LET T == [S EXCEPT !.failed = "Enqueue"]
         IN  /\ T \in Worlds /\ T.r = S.r /\ T.w = S.w /\ T.ts = S.ts
             /\ T.failed = "Enqueue"
BY DEF Worlds

\* When back-pressure is on already, the assertion of enqueue has failed.
LEMMA EnqueueGood ==
  ASSUME NEW S \in Worlds, Good(S), NEW chunk \in Nat
  PROVE  LET T == Enqueue(S, chunk) IN Good(T) /\ Keeps(S, T)
<1> DEFINE E == ReadableEnqueue(S, chunk)
           b == ~ShouldCallPull(E.r)
           A == MozAssert(E, "Enqueue", b)
<1>1. CASE ~CanCloseOrEnqueue(S)
  BY <1>1 DEF Enqueue, Keeps
<1>2. CASE CanCloseOrEnqueue(S) /\ Throws(S, chunk)
  BY <1>2, ErrorStreamGood DEF Enqueue
<1>3. CASE CanCloseOrEnqueue(S) /\ ~Throws(S, chunk)
  <2>1. Enqueue(S, chunk) = IF b = E.ts.backpressure THEN E ELSE SetBackpressure(A, TRUE)
    BY <1>3 DEF Enqueue
  <2>2. Good(E) /\ Keeps(S, E)
    BY ReadableEnqueueGood
  <2>3. b \in BOOLEAN
    OBVIOUS
  <2> HIDE DEF E, b
  <2>4. E \in Worlds /\ E.ts.backpressure \in BOOLEAN /\ E.failed \in {"none", "Enqueue"}
    BY <2>2 DEF Good, Worlds, Slots
  <2>5. CASE b = E.ts.backpressure
    BY <2>1, <2>2, <2>5
  <2>6. CASE b # E.ts.backpressure
    <3>1. /\ A \in Worlds /\ A.r = E.r /\ A.w = E.w /\ A.ts = E.ts
          /\ A.ts.backpressure # TRUE \/ A.failed = "Enqueue"
      <4>1. CASE b
        BY <2>3, <2>4, <2>6, <4>1 DEF MozAssert
      <4>2. CASE ~b /\ E.failed # "none"
        BY <2>4, <4>2 DEF MozAssert
      <4>3. CASE ~b /\ E.failed = "none"
        BY <2>4, <4>3, FailedIsAWorld DEF MozAssert
      <4> QED BY <4>1, <4>2, <4>3
    <3> HIDE DEF A
    <3>2. Callable(A) /\ Keeps(S, A)
      BY <2>2, <3>1 DEF Good, Callable, Ends, Keeps
    <3>3. LET T == SetBackpressure(A, TRUE) IN Good(T) /\ Keeps(A, T)
      BY <3>1, <3>2, SetBackpressureGood
    <3> QED BY <2>1, <2>6, <3>2, <3>3, KeepsTransitive
  <2> QED BY <2>5, <2>6
<1> QED BY <1>1, <1>2, <1>3

LEMMA TerminateGood ==
  ASSUME NEW S \in Worlds, Good(S)
  PROVE  LET T == Terminate(S) IN Good(T) /\ Keeps(S, T)
<1> DEFINE E == IF CanCloseOrEnqueue(S) THEN ReadableClose(S) ELSE S
<1>1. Terminate(S) = ErrorWritableAndUnblockWrite(E)
  BY DEF Terminate
<1>2. Good(E) /\ Keeps(S, E) /\ ~Open(E.r)
  <2>1. CASE CanCloseOrEnqueue(S)
    BY <2>1, ReadableCloseGood
  <2>2. CASE ~CanCloseOrEnqueue(S)
    BY <2>2 DEF CanCloseOrEnqueue, Open, Keeps
  <2> QED BY <2>1, <2>2
<1> HIDE DEF E
<1>3. E \in Worlds
  BY <1>2 DEF Good
<1>4. LET T == ErrorWritableAndUnblockWrite(E) IN Good(T) /\ Keeps(E, T)
  BY <1>2, <1>3, ErrorWritableGood
<1> QED BY <1>1, <1>2, <1>4, KeepsTransitive

LEMMA PhaseIsAWorld ==
  ASSUME NEW S \in Worlds, NEW q \in Phases
  PROVE  LET T == [S EXCEPT !.w.phase = q]
         IN  /\ T \in Worlds /\ T.r = S.r /\ T.ts = S.ts /\ T.w.state = S.w.state
             /\ T.w.inFlight = S.w.inFlight /\ T.w.started = S.w.started
             /\ T.w.phase = q /\ T.w.queue = S.w.queue
BY DEF Worlds, Writable

LEMMA PhaseGood ==
  ASSUME NEW S \in Worlds, Good(S), NEW q \in Phases
  PROVE  LET T == [S EXCEPT !.w.phase = q]
         IN  Good(T) /\ T.w.inFlight = S.w.inFlight /\ T.w.phase = q
<1> DEFINE T == [S EXCEPT !.w.phase = q]
<1>1. /\ T \in Worlds /\ T.r = S.r /\ T.ts = S.ts /\ T.w.state = S.w.state
      /\ T.w.inFlight = S.w.inFlight /\ T.w.started = S.w.started
      /\ T.w.phase = q /\ T.w.queue = S.w.queue
  BY PhaseIsAWorld
<1> HIDE DEF T
<1>2. Good(T)
  BY <1>1 DEF Good, PullWaits, Callable, Ends
<1> QED BY <1>1, <1>2 DEF T

\* The transformation of a chunk finds its algorithm.
LEMMA PerformTransformGood ==
  ASSUME NEW S \in Worlds, Good(S), NEW chunk \in Nat,
         S.w.state = "writable", S.w.inFlight = "write"
  PROVE  LET T == PerformTransform(S, chunk)
         IN  /\ Good(T) /\ T.w.inFlight = "write"
             /\ T.w.phase \in {"pending", "failed", "done"}
<1>1. S.ts.algorithms
  BY DEF Good, Callable
<1>2. CASE config.transformer
  <2>1. PerformTransform(S, chunk) = [S EXCEPT !.w.phase = "pending"]
    BY <1>1, <1>2 DEF PerformTransform
  <2>2. "pending" \in Phases
    BY DEF Phases
  <2> QED BY <2>1, <2>2, PhaseGood
<1>3. CASE ~config.transformer
  <2> DEFINE E == Enqueue(S, chunk)
             q == IF Throws(S, chunk) THEN "failed" ELSE "done"
  <2>1. PerformTransform(S, chunk) = [E EXCEPT !.w.phase = q]
    BY <1>1, <1>3 DEF PerformTransform
  <2>2. Good(E) /\ E.w.inFlight = "write"
    BY EnqueueGood DEF Keeps
  <2>3. q \in Phases /\ q \in {"failed", "done"}
    BY DEF Phases
  <2> HIDE DEF E, q
  <2>4. E \in Worlds
    BY <2>2 DEF Good
  <2> QED BY <2>1, <2>2, <2>3, <2>4, PhaseGood
<1> QED BY <1>2, <1>3

LEMMA DefaultSinkWriteGood ==
  ASSUME NEW S \in Worlds, Good(S), S.w.state = "writable", S.w.inFlight = "write"
  PROVE  LET T == DefaultSinkWrite(S) IN Good(T) /\ Paired(T)
<1>1. DefaultSinkWrite(S) = IF S.ts.backpressure THEN [S EXCEPT !.w.phase = "blocked"]
                            ELSE PerformTransform(S, Head(S.w.queue))
  BY DEF DefaultSinkWrite, MozAssert
<1>2. CASE S.ts.backpressure
  <2>1. "blocked" \in Phases
    BY DEF Phases
  <2>2. LET T == [S EXCEPT !.w.phase = "blocked"]
        IN  Good(T) /\ T.w.inFlight = S.w.inFlight /\ T.w.phase = "blocked"
    BY <2>1, PhaseGood
  <2> QED BY <1>1, <1>2, <2>2 DEF Paired
<1>3. CASE ~S.ts.backpressure
  <2>1. S.w.queue \in Seq(Nat) /\ S.w.queue # <<>>
    BY DEF Worlds, Writable, Good, Callable, Ends
  <2>2. Head(S.w.queue) \in Nat
    BY <2>1, HeadTailProperties
  <2>3. LET T == PerformTransform(S, Head(S.w.queue))
        IN  /\ Good(T) /\ T.w.inFlight = "write"
            /\ T.w.phase \in {"pending", "failed", "done"}
    BY <2>2, PerformTransformGood
  <2> QED BY <1>1, <1>3, <2>3 DEF Paired
<1> QED BY <1>2, <1>3

LEMMA CloseIsAWorld ==
  ASSUME NEW S \in Worlds, S.w.queue # <<>>
  PROVE  LET T == [S EXCEPT !.w.queue = Tail(@), !.w.inFlight = "close"]
         IN  /\ T \in Worlds /\ T.r = S.r /\ T.ts = S.ts /\ T.w.inFlight = "close"
             /\ T.w.state = S.w.state /\ T.w.started = S.w.started
<1>1. S.w.queue \in Seq(Nat)
  BY DEF Worlds, Writable
<1>2. Tail(S.w.queue) \in Seq(Nat)
  BY <1>1, HeadTailProperties
<1> QED BY <1>2 DEF Worlds, Writable

LEMMA ClosedIsAWorld ==
  ASSUME NEW S \in Worlds, NEW q \in Phases
  PROVE  LET T == [S EXCEPT !.ts.algorithms = FALSE, !.w.phase = q]
         IN  /\ T \in Worlds /\ T.r = S.r /\ T.ts.backpressure = S.ts.backpressure
             /\ T.w.state = S.w.state /\ T.w.inFlight = S.w.inFlight
             /\ T.w.started = S.w.started /\ T.w.phase = q
BY DEF Worlds, Writable, Slots

LEMMA DefaultSinkCloseGood ==
  ASSUME NEW S \in Worlds, PullWaits(S), S.ts.algorithms, S.w.inFlight = "close",
         S.w.state \in {"writable", "erroring"}, S.w.started
  PROVE  LET T == DefaultSinkClose(S) IN Good(T) /\ Paired(T)
<1> DEFINE q == IF config.transformer THEN "pending" ELSE "fulfilled"
           T == [S EXCEPT !.ts.algorithms = FALSE, !.w.phase = q]
<1>1. DefaultSinkClose(S) = T
  BY DEF DefaultSinkClose
<1>2. q \in Phases /\ q \in {"pending", "fulfilled"}
  BY DEF Phases
<1> HIDE DEF q
<1>3. /\ T \in Worlds /\ T.r = S.r /\ T.ts.backpressure = S.ts.backpressure
      /\ T.w.state = S.w.state /\ T.w.inFlight = S.w.inFlight
      /\ T.w.started = S.w.started /\ T.w.phase = q
  BY <1>2, ClosedIsAWorld
<1> HIDE DEF T
<1>4. Good(T) /\ Paired(T)
  BY <1>2, <1>3 DEF Good, PullWaits, Callable, Ends, Paired
<1> QED BY <1>1, <1>4

LEMMA WritingIsAWorld ==
  ASSUME NEW S \in Worlds
  PROVE  LET T == [S EXCEPT !.w.inFlight = "write"]
         IN  /\ T \in Worlds /\ T.r = S.r /\ T.ts = S.ts /\ T.w.inFlight = "write"
             /\ T.w.state = S.w.state /\ T.w.started = S.w.started
             /\ T.w.queue = S.w.queue /\ T.w.phase = S.w.phase
BY DEF Worlds, Writable

LEMMA AdvanceQueueGood ==
  ASSUME NEW S \in Worlds, Good(S), Paired(S), S.w.state \in {"writable", "erroring"}
  PROVE  LET T == AdvanceQueueIfNeeded(S) IN Good(T) /\ Paired(T)
<1>1. CASE ~S.w.started \/ S.w.inFlight # "none"
  BY <1>1 DEF AdvanceQueueIfNeeded
<1>2. CASE /\ S.w.started /\ S.w.inFlight = "none"
           /\ S.w.state = "erroring"
  <2>1. AdvanceQueueIfNeeded(S) = FinishErroring(S)
    BY <1>2 DEF AdvanceQueueIfNeeded
  <2>2. LET T == FinishErroring(S) IN Good(T) /\ Keeps(S, T)
    BY <1>2, FinishErroringGood DEF Good, Callable
  <2> QED BY <2>1, <2>2, KeepsPaired
<1>3. CASE /\ S.w.started /\ S.w.inFlight = "none"
           /\ S.w.state = "writable" /\ S.w.queue = <<>>
  BY <1>3 DEF AdvanceQueueIfNeeded
<1>4. CASE /\ S.w.started /\ S.w.inFlight = "none"
           /\ S.w.state = "writable" /\ S.w.queue # <<>> /\ Head(S.w.queue) = Close
  <2> DEFINE C == [S EXCEPT !.w.queue = Tail(@), !.w.inFlight = "close"]
  <2>1. AdvanceQueueIfNeeded(S) = DefaultSinkClose(C)
    BY <1>4 DEF AdvanceQueueIfNeeded
  <2>2. /\ C \in Worlds /\ C.r = S.r /\ C.ts = S.ts /\ C.w.inFlight = "close"
        /\ C.w.state = S.w.state /\ C.w.started = S.w.started
    BY <1>4, CloseIsAWorld
  <2> HIDE DEF C
  <2>3. PullWaits(C) /\ C.ts.algorithms
    BY <1>4, <2>2 DEF Good, PullWaits, Callable
  <2>4. LET T == DefaultSinkClose(C) IN Good(T) /\ Paired(T)
    BY <1>4, <2>2, <2>3, DefaultSinkCloseGood
  <2> QED BY <2>1, <2>4
<1>5. CASE /\ S.w.started /\ S.w.inFlight = "none"
           /\ S.w.state = "writable" /\ S.w.queue # <<>> /\ Head(S.w.queue) # Close
  <2> DEFINE C == [S EXCEPT !.w.inFlight = "write"]
  <2>1. AdvanceQueueIfNeeded(S) = DefaultSinkWrite(C)
    BY <1>5 DEF AdvanceQueueIfNeeded
  <2>2. /\ C \in Worlds /\ C.r = S.r /\ C.ts = S.ts /\ C.w.inFlight = "write"
        /\ C.w.state = S.w.state /\ C.w.started = S.w.started
        /\ C.w.queue = S.w.queue
    BY WritingIsAWorld
  <2> HIDE DEF C
  <2>3. Good(C)
    BY <1>5, <2>2 DEF Good, PullWaits, Callable, Ends
  <2>4. LET T == DefaultSinkWrite(C) IN Good(T) /\ Paired(T)
    BY <1>5, <2>2, <2>3, DefaultSinkWriteGood
  <2> QED BY <2>1, <2>4
<1> QED BY <1>1, <1>2, <1>3, <1>4, <1>5

-----------------------------------------------------------------------------
(* What the steps change before they call an operator. *)

\* A change of queues, requests and flags that the invariant does not look at.
LEMMA GoodAgain ==
  ASSUME NEW S \in Worlds, NEW T \in Worlds, Good(S), Paired(S),
         T.ts = S.ts, T.w.state = S.w.state, T.w.inFlight = S.w.inFlight,
         T.w.phase = S.w.phase, T.w.started = S.w.started,
         S.w.queue # <<>> => T.w.queue # <<>>,
         Open(T.r) => Open(S.r),
         Open(T.r) => (T.r.pulling = "waiting" <=> S.r.pulling = "waiting")
  PROVE  Good(T) /\ Paired(T)
BY DEF Good, PullWaits, Callable, Ends, Paired

LEMMA WriteQueued ==
  ASSUME NEW S \in Worlds, Good(S), Paired(S), NEW n \in Nat
  PROVE  LET T == [S EXCEPT !.w.queue = Append(@, n)]
         IN  Good(T) /\ Paired(T) /\ T.w.state = S.w.state /\ T \in Worlds
<1> DEFINE q == Append(S.w.queue, n)
           T == [S EXCEPT !.w.queue = q]
<1>1. q \in Seq(Nat) /\ q # <<>>
  <2>1. S.w.queue \in Seq(Nat)
    BY DEF Worlds, Writable
  <2> QED BY <2>1, AppendProperties
<1> HIDE DEF q
<1>2. /\ T \in Worlds /\ T.r = S.r /\ T.ts = S.ts /\ T.w.state = S.w.state
      /\ T.w.inFlight = S.w.inFlight /\ T.w.phase = S.w.phase
      /\ T.w.started = S.w.started /\ T.w.queue = q
  BY <1>1 DEF Worlds, Writable
<1> HIDE DEF T
<1>3. Good(T) /\ Paired(T)
  BY <1>1, <1>2, GoodAgain
<1>4. T = [S EXCEPT !.w.queue = Append(@, n)]
  BY DEF T, q
<1> QED BY <1>2, <1>3, <1>4

LEMMA CloseQueued ==
  ASSUME NEW S \in Worlds, Good(S), Paired(S)
  PROVE  LET T == [S EXCEPT !.w.queue = Append(@, Close), !.w.closing = TRUE]
         IN  Good(T) /\ Paired(T) /\ T.w.state = S.w.state /\ T \in Worlds
<1> DEFINE q == Append(S.w.queue, Close)
           T == [S EXCEPT !.w.queue = q, !.w.closing = TRUE]
<1>1. q \in Seq(Nat) /\ q # <<>>
  <2>1. S.w.queue \in Seq(Nat) /\ Close \in Nat
    BY DEF Worlds, Writable, Close
  <2> QED BY <2>1, AppendProperties
<1> HIDE DEF q
<1>2. /\ T \in Worlds /\ T.r = S.r /\ T.ts = S.ts /\ T.w.state = S.w.state
      /\ T.w.inFlight = S.w.inFlight /\ T.w.phase = S.w.phase
      /\ T.w.started = S.w.started /\ T.w.queue = q
  BY <1>1 DEF Worlds, Writable
<1> HIDE DEF T
<1>3. Good(T) /\ Paired(T)
  BY <1>1, <1>2, GoodAgain
<1>4. T = [S EXCEPT !.w.queue = Append(@, Close), !.w.closing = TRUE]
  BY DEF T, q
<1> QED BY <1>2, <1>3, <1>4

LEMMA AbortNoted ==
  ASSUME NEW S \in Worlds, Good(S), Paired(S), NEW a \in {"pending", "late"}
  PROVE  LET T == [S EXCEPT !.w.abort = a]
         IN  Good(T) /\ Paired(T) /\ T.w.state = S.w.state /\ T \in Worlds
<1> DEFINE T == [S EXCEPT !.w.abort = a]
<1>1. /\ T \in Worlds /\ T.r = S.r /\ T.ts = S.ts /\ T.w.state = S.w.state
      /\ T.w.inFlight = S.w.inFlight /\ T.w.phase = S.w.phase
      /\ T.w.started = S.w.started /\ T.w.queue = S.w.queue
  BY DEF Worlds, Writable
<1> HIDE DEF T
<1>2. Good(T) /\ Paired(T)
  BY <1>1, GoodAgain
<1> QED BY <1>1, <1>2 DEF T

LEMMA RequestAdded ==
  ASSUME NEW S \in Worlds, Good(S), Paired(S)
  PROVE  LET T == [S EXCEPT !.r.requests = @ + 1]
         IN  Good(T) /\ Paired(T) /\ T \in Worlds
<1> DEFINE T == [S EXCEPT !.r.requests = @ + 1]
<1>1. /\ T \in Worlds /\ T.w = S.w /\ T.ts = S.ts /\ T.r.pulling = S.r.pulling
      /\ T.r.state = S.r.state /\ T.r.closing = S.r.closing
  <2>1. S.r.requests + 1 \in Nat
    BY DEF Worlds, Readable
  <2> QED BY <2>1 DEF Worlds, Readable
<1> HIDE DEF T
<1>2. Good(T) /\ Paired(T)
  BY <1>1, GoodAgain DEF Open
<1> QED BY <1>1, <1>2 DEF T

LEMMA ChunkRead ==
  ASSUME NEW S \in Worlds, Good(S), Paired(S), S.r.queue # <<>>
  PROVE  LET T == [S EXCEPT !.got = Append(@, Head(S.r.queue)), !.r.queue = Tail(@)]
         IN  Good(T) /\ Paired(T) /\ T \in Worlds
<1> DEFINE g == Append(S.got, Head(S.r.queue))
           q == Tail(S.r.queue)
           T == [S EXCEPT !.got = g, !.r.queue = q]
<1>1. q \in Seq(Nat) /\ Head(S.r.queue) \in Nat
  BY HeadTailProperties DEF Worlds, Readable
<1>2. g \in Seq(Nat)
  BY <1>1, AppendProperties DEF Worlds
<1> HIDE DEF g, q
<1>3. /\ T \in Worlds /\ T.w = S.w /\ T.ts = S.ts /\ T.r.pulling = S.r.pulling
      /\ T.r.state = S.r.state /\ T.r.closing = S.r.closing
  BY <1>1, <1>2 DEF Worlds, Readable
<1> HIDE DEF T
<1>4. Good(T) /\ Paired(T)
  BY <1>3, GoodAgain DEF Open
<1>5. T = [S EXCEPT !.got = Append(@, Head(S.r.queue)), !.r.queue = Tail(@)]
  BY DEF T, q, g
<1> QED BY <1>3, <1>4, <1>5

LEMMA WritableStarts ==
  ASSUME NEW S \in Worlds, Good(S), Paired(S), ~S.w.started
  PROVE  LET T == [S EXCEPT !.w.started = TRUE]
         IN  /\ Good(T) /\ Paired(T) /\ T \in Worlds /\ T.w.started
             /\ T.w.inFlight = "none" /\ T.w.state \in {"writable", "erroring"}
<1> DEFINE T == [S EXCEPT !.w.started = TRUE]
<1>1. /\ T \in Worlds /\ T.r = S.r /\ T.ts = S.ts /\ T.w.state = S.w.state
      /\ T.w.inFlight = S.w.inFlight /\ T.w.phase = S.w.phase
      /\ T.w.started /\ T.w.queue = S.w.queue
  BY DEF Worlds, Writable
<1> HIDE DEF T
<1>2. S.w.inFlight = "none" /\ S.w.state \in {"writable", "erroring"}
  BY DEF Good, Callable, Ends
<1>3. Good(T) /\ Paired(T)
  BY <1>1, <1>2 DEF Good, PullWaits, Callable, Ends, Paired
<1> QED BY <1>1, <1>2, <1>3 DEF T

LEMMA ReadableStarts ==
  ASSUME NEW S \in Worlds, Good(S), Paired(S)
  PROVE  LET T == [S EXCEPT !.r.started = TRUE]
         IN  Good(T) /\ Paired(T) /\ T \in Worlds
<1> DEFINE T == [S EXCEPT !.r.started = TRUE]
<1>1. /\ T \in Worlds /\ T.w = S.w /\ T.ts = S.ts /\ T.r.pulling = S.r.pulling
      /\ T.r.state = S.r.state /\ T.r.closing = S.r.closing
  BY DEF Worlds, Readable
<1> HIDE DEF T
<1>2. Good(T) /\ Paired(T)
  BY <1>1, GoodAgain DEF Open
<1> QED BY <1>1, <1>2 DEF T

LEMMA PullEnds ==
  ASSUME NEW S \in Worlds, Good(S), Paired(S), S.r.pulling = "resolved"
  PROVE  LET T == [S EXCEPT !.r.pulling = "no", !.r.pullAgain = FALSE]
         IN  Good(T) /\ Paired(T) /\ T \in Worlds
<1> DEFINE T == [S EXCEPT !.r.pulling = "no", !.r.pullAgain = FALSE]
<1>1. /\ T \in Worlds /\ T.w = S.w /\ T.ts = S.ts /\ T.r.pulling = "no"
      /\ T.r.state = S.r.state /\ T.r.closing = S.r.closing
  BY DEF Worlds, Readable
<1> HIDE DEF T
<1>2. Good(T) /\ Paired(T)
  BY <1>1, GoodAgain DEF Open
<1> QED BY <1>1, <1>2 DEF T

\* A write or a close is not in flight any more.  What a close has cleared is
\* missed if the side is still writable, so this is not yet Good.
LEMMA OperationEnds ==
  ASSUME NEW S \in Worlds, Good(S), NEW a \in {"none", "pending", "late"}
  PROVE  LET T == [S EXCEPT !.w.phase = "none", !.w.inFlight = "none", !.w.abort = a]
         IN  /\ T \in Worlds /\ PullWaits(T) /\ Ends(T) /\ Paired(T)
             /\ T.w.inFlight = "none" /\ T.w.phase = "none" /\ T.ts = S.ts /\ T.r = S.r
             /\ T.w.queue = S.w.queue /\ T.w.state = S.w.state
             /\ T.w.started = S.w.started
<1> DEFINE T == [S EXCEPT !.w.phase = "none", !.w.inFlight = "none", !.w.abort = a]
<1>1. /\ T \in Worlds /\ T.r = S.r /\ T.ts = S.ts /\ T.w.state = S.w.state
      /\ T.w.inFlight = "none" /\ T.w.phase = "none"
      /\ T.w.started = S.w.started /\ T.w.queue = S.w.queue
  BY DEF Worlds, Writable, Phases
<1> HIDE DEF T
<1>2. PullWaits(T) /\ Ends(T) /\ Paired(T)
  BY <1>1 DEF Good, PullWaits, Callable, Ends, Paired
<1> QED BY <1>1, <1>2 DEF T

LEMMA ClosedAtLast ==
  ASSUME NEW S \in Worlds, PullWaits(S), Ends(S), Paired(S), S.w.started,
         S.w.inFlight = "none"
  PROVE  LET T == [S EXCEPT !.w.state = "closed", !.w.abort = "none"]
         IN  Good(T) /\ Paired(T)
<1> DEFINE T == [S EXCEPT !.w.state = "closed", !.w.abort = "none"]
<1>1. /\ T \in Worlds /\ T.r = S.r /\ T.ts = S.ts /\ T.w.state = "closed"
      /\ T.w.inFlight = S.w.inFlight /\ T.w.phase = S.w.phase
      /\ T.w.started = S.w.started /\ T.w.queue = S.w.queue
  BY DEF Worlds, Writable
<1> HIDE DEF T
<1>2. Good(T) /\ Paired(T)
  BY <1>1 DEF Good, PullWaits, Callable, Ends, Paired
<1> QED BY <1>2 DEF T

LEMMA WriteIsDone ==
  ASSUME NEW S \in Worlds, Good(S), Paired(S), S.w.inFlight = "none", S.w.queue # <<>>
  PROVE  LET T == [S EXCEPT !.w.queue = Tail(@)]
         IN  Good(T) /\ Paired(T) /\ T \in Worlds /\ T.w.state = S.w.state
<1> DEFINE q == Tail(S.w.queue)
           T == [S EXCEPT !.w.queue = q]
<1>1. q \in Seq(Nat)
  BY HeadTailProperties DEF Worlds, Writable
<1> HIDE DEF q
<1>2. /\ T \in Worlds /\ T.r = S.r /\ T.ts = S.ts /\ T.w.state = S.w.state
      /\ T.w.inFlight = S.w.inFlight /\ T.w.phase = S.w.phase
      /\ T.w.started = S.w.started
  BY <1>1 DEF Worlds, Writable
<1> HIDE DEF T
<1>3. Good(T) /\ Paired(T)
  BY <1>2 DEF Good, PullWaits, Callable, Ends, Paired
<1>4. T = [S EXCEPT !.w.queue = Tail(@)]
  BY DEF T, q
<1> QED BY <1>2, <1>3, <1>4

-----------------------------------------------------------------------------
(* The steps. *)

LEMMA WorldParts ==
  /\ World.r = readable /\ World.w = writable /\ World.ts = ts
  /\ World.failed = failed /\ World.got = got
BY DEF World

LEMMA BecomeInv ==
  ASSUME NEW X, Become(X), Good(X), Paired(X), calls' \in Calls
  PROVE  Inv'
<1>1. X = [r |-> X.r, w |-> X.w, ts |-> X.ts, failed |-> X.failed, got |-> X.got]
  BY DEF Good, Worlds
<1>2. World' = X
  BY <1>1 DEF Become, World
<1> QED BY <1>2 DEF Inv

LEMMA CountCalls ==
  ASSUME NEW call \in {"write", "read", "enqueue", "cancel", "sizeless"}, NEW n, calls \in Calls,
         Count(call, n)
  PROVE  calls' \in Calls
BY DEF Calls, Count

LEMMA InitInv == Init => Inv
<1> SUFFICES ASSUME Init PROVE Inv
  OBVIOUS
<1>1. calls \in Calls
  BY DEF Init, Calls
<1>2. \A q \in Seq(Nat) : q = <<>> =>
        /\ [state |-> "readable", started |-> FALSE, queue |-> q, requests |-> 0,
            closing |-> FALSE, pulling |-> "no", pullAgain |-> FALSE] \in Readable
        /\ [state |-> "writable", started |-> FALSE, queue |-> q, closing |-> FALSE,
            inFlight |-> "none", phase |-> "none", abort |-> "none"] \in Writable
  BY DEF Readable, Writable, Phases
<1>3. <<>> \in Seq(Nat)
  OBVIOUS
<1>4. readable \in Readable /\ writable \in Writable /\ ts \in Slots /\ got \in Seq(Nat)
  BY <1>2, <1>3 DEF Init, Slots
<1>5. World \in Worlds
  BY <1>4 DEF Init, World, Worlds
<1>6. Good(World) /\ Paired(World)
  BY <1>5, WorldParts DEF Init, Good, PullWaits, Open, Callable, Ends, Paired
<1> QED BY <1>1, <1>6 DEF Inv

LEMMA WriteInv == Inv /\ Write => Inv'
<1> SUFFICES ASSUME Inv, Write PROVE Inv'
  OBVIOUS
<1> DEFINE n == calls.write + 1
           T == [World EXCEPT !.w.queue = Append(@, n)]
<1>1. /\ Become(AdvanceQueueIfNeeded(T)) /\ writable.state = "writable"
      /\ Count("write", MaxWrites)
  BY DEF Write
<1>2. World \in Worlds /\ Good(World) /\ Paired(World) /\ calls \in Calls /\ n \in Nat
  BY DEF Inv, Good, Calls
<1>3. Good(T) /\ Paired(T) /\ T.w.state = World.w.state /\ T \in Worlds
  BY <1>2, WriteQueued
<1> HIDE DEF T, n
<1>4. Good(AdvanceQueueIfNeeded(T)) /\ Paired(AdvanceQueueIfNeeded(T))
  BY <1>1, <1>3, WorldParts, AdvanceQueueGood
<1>5. calls' \in Calls
  BY <1>1, <1>2, CountCalls
<1> QED BY <1>1, <1>4, <1>5, BecomeInv

LEMMA WriteSizelessInv == Inv /\ WriteSizeless => Inv'
<1> SUFFICES ASSUME Inv, WriteSizeless PROVE Inv'
  OBVIOUS
<1> DEFINE T == StartErroring(World)
<1>1. Become(T) /\ writable.state = "writable" /\ Count("sizeless", 1)
  BY DEF WriteSizeless
<1>2. World \in Worlds /\ Good(World) /\ Paired(World) /\ calls \in Calls
  BY DEF Inv, Good
<1>3. Good(T) /\ Keeps(World, T)
  BY <1>1, <1>2, WorldParts, StartErroringGood DEF Good, Callable
<1>4. Paired(T) /\ calls' \in Calls
  BY <1>1, <1>2, <1>3, KeepsPaired, CountCalls
<1> QED BY <1>1, <1>3, <1>4, BecomeInv

LEMMA WriterCloseInv == Inv /\ WriterClose => Inv'
<1> SUFFICES ASSUME Inv, WriterClose PROVE Inv'
  OBVIOUS
<1> DEFINE T == [World EXCEPT !.w.queue = Append(@, Close), !.w.closing = TRUE]
<1>1. /\ Become(AdvanceQueueIfNeeded(T)) /\ writable.state \in {"writable", "erroring"}
      /\ calls' = calls
  BY DEF WriterClose, Other
<1>2. World \in Worlds /\ Good(World) /\ Paired(World) /\ calls \in Calls
  BY DEF Inv, Good
<1>3. Good(T) /\ Paired(T) /\ T.w.state = World.w.state /\ T \in Worlds
  BY <1>2, CloseQueued
<1> HIDE DEF T
<1>4. Good(AdvanceQueueIfNeeded(T)) /\ Paired(AdvanceQueueIfNeeded(T))
  BY <1>1, <1>3, WorldParts, AdvanceQueueGood
<1> QED BY <1>1, <1>2, <1>4, BecomeInv

LEMMA AbortInv == Inv /\ Abort => Inv'
<1> SUFFICES ASSUME Inv, Abort PROVE Inv'
  OBVIOUS
<1> DEFINE P == [World EXCEPT !.w.abort = "pending"]
           L == [World EXCEPT !.w.abort = "late"]
<1>1. /\ Become(IF writable.state = "writable" THEN StartErroring(P) ELSE L)
      /\ calls' = calls
  BY DEF Abort, Other
<1>2. World \in Worlds /\ Good(World) /\ Paired(World) /\ calls \in Calls
  BY DEF Inv, Good
<1>3. /\ Good(P) /\ Paired(P) /\ P.w.state = World.w.state /\ P \in Worlds
      /\ Good(L) /\ Paired(L)
  BY <1>2, AbortNoted
<1> HIDE DEF P, L
<1>4. CASE writable.state = "writable"
  <2>1. Good(StartErroring(P)) /\ Keeps(P, StartErroring(P))
    BY <1>3, <1>4, WorldParts, StartErroringGood DEF Good, Callable
  <2>2. Paired(StartErroring(P))
    BY <1>3, <2>1, KeepsPaired
  <2> QED BY <1>1, <1>2, <1>4, <2>1, <2>2, BecomeInv
<1>5. CASE writable.state # "writable"
  BY <1>1, <1>2, <1>3, <1>5, BecomeInv
<1> QED BY <1>4, <1>5

LEMMA ReadInv == Inv /\ Read => Inv'
<1> SUFFICES ASSUME Inv, Read PROVE Inv'
  OBVIOUS
<1> DEFINE R == [World EXCEPT !.r.requests = @ + 1]
           T == [World EXCEPT !.got = Append(@, Head(readable.queue)), !.r.queue = Tail(@)]
<1>1. /\ Become(IF readable.queue = <<>> THEN CallPullIfNeeded(R)
                ELSE IF T.r.closing /\ T.r.queue = <<>> THEN CloseNow(T)
                                                        ELSE CallPullIfNeeded(T))
      /\ Count("read", MaxReads)
  BY DEF Read
<1>2. World \in Worlds /\ Good(World) /\ Paired(World) /\ calls \in Calls
  BY DEF Inv, Good
<1>3. calls' \in Calls
  BY <1>1, <1>2, CountCalls
<1>4. CASE readable.queue = <<>>
  <2>1. Good(R) /\ Paired(R) /\ R \in Worlds
    BY <1>2, RequestAdded
  <2> HIDE DEF R
  <2>2. Good(CallPullIfNeeded(R)) /\ Keeps(R, CallPullIfNeeded(R))
    BY <2>1, CallPullIfNeededGood
  <2>3. Paired(CallPullIfNeeded(R))
    BY <2>1, <2>2, KeepsPaired
  <2>4. Become(CallPullIfNeeded(R))
    BY <1>1, <1>4
  <2> QED BY <1>3, <2>2, <2>3, <2>4, BecomeInv
<1>5. CASE readable.queue # <<>>
  <2>1. Good(T) /\ Paired(T) /\ T \in Worlds
    BY <1>2, <1>5, ChunkRead, WorldParts
  <2> HIDE DEF T
  <2>2. CASE T.r.closing /\ T.r.queue = <<>>
    <3>1. Good(CloseNow(T)) /\ Keeps(T, CloseNow(T))
      BY <2>1, CloseNowGood
    <3>2. Paired(CloseNow(T))
      BY <2>1, <3>1, KeepsPaired
    <3>3. Become(CloseNow(T))
      BY <1>1, <1>5, <2>2
    <3> QED BY <1>3, <3>1, <3>2, <3>3, BecomeInv
  <2>3. CASE ~(T.r.closing /\ T.r.queue = <<>>)
    <3>1. Good(CallPullIfNeeded(T)) /\ Keeps(T, CallPullIfNeeded(T))
      BY <2>1, CallPullIfNeededGood
    <3>2. Paired(CallPullIfNeeded(T))
      BY <2>1, <3>1, KeepsPaired
    <3>3. Become(CallPullIfNeeded(T))
      BY <1>1, <1>5, <2>3
    <3> QED BY <1>3, <3>1, <3>2, <3>3, BecomeInv
  <2> QED BY <2>2, <2>3
<1> QED BY <1>4, <1>5

LEMMA CancelInv == Inv /\ Cancel => Inv'
<1> SUFFICES ASSUME Inv, Cancel PROVE Inv'
  OBVIOUS
<1> DEFINE C == CloseNow(World)
           T == ErrorWritableAndUnblockWrite(C)
<1>1. Become(T) /\ Count("cancel", 1)
  BY DEF Cancel
<1>2. World \in Worlds /\ Good(World) /\ Paired(World) /\ calls \in Calls
  BY DEF Inv, Good
<1>3. Good(C) /\ Keeps(World, C) /\ ~Open(C.r)
  BY <1>2, CloseNowGood
<1> HIDE DEF C
<1>4. Good(T) /\ Keeps(C, T)
  BY <1>3, ErrorWritableGood DEF Good
<1>5. Paired(C) /\ Paired(T)
  BY <1>2, <1>3, <1>4, KeepsPaired
<1>6. calls' \in Calls
  BY <1>1, <1>2, CountCalls
<1> QED BY <1>1, <1>4, <1>5, <1>6, BecomeInv

LEMMA ControllerInv == Inv /\ (ControllerEnqueue \/ ControllerError \/ ControllerTerminate) => Inv'
<1> SUFFICES ASSUME Inv, ControllerEnqueue \/ ControllerError \/ ControllerTerminate
             PROVE  Inv'
  OBVIOUS
<1>1. World \in Worlds /\ Good(World) /\ Paired(World) /\ calls \in Calls
  BY DEF Inv, Good
<1>2. CASE ControllerEnqueue
  <2> DEFINE n == calls.enqueue + 1
             T == Enqueue(World, n)
  <2>1. Become(T) /\ Count("enqueue", MaxEnqueues)
    BY <1>2 DEF ControllerEnqueue
  <2>2. n \in Nat
    BY <1>1 DEF Calls
  <2> HIDE DEF n
  <2>3. Good(T) /\ Keeps(World, T)
    BY <1>1, <2>2, EnqueueGood
  <2>4. Paired(T) /\ calls' \in Calls
    BY <1>1, <2>1, <2>3, KeepsPaired, CountCalls
  <2> QED BY <2>1, <2>3, <2>4, BecomeInv
<1>3. CASE ControllerError
  <2>1. Become(ErrorStream(World)) /\ calls' = calls
    BY <1>3 DEF ControllerError, Other
  <2>2. Good(ErrorStream(World)) /\ Keeps(World, ErrorStream(World))
    BY <1>1, ErrorStreamGood
  <2>3. Paired(ErrorStream(World))
    BY <1>1, <2>2, KeepsPaired
  <2> QED BY <1>1, <2>1, <2>2, <2>3, BecomeInv
<1>4. CASE ControllerTerminate
  <2>1. Become(Terminate(World)) /\ calls' = calls
    BY <1>4 DEF ControllerTerminate, Other
  <2>2. Good(Terminate(World)) /\ Keeps(World, Terminate(World))
    BY <1>1, TerminateGood
  <2>3. Paired(Terminate(World))
    BY <1>1, <2>2, KeepsPaired
  <2> QED BY <1>1, <2>1, <2>2, <2>3, BecomeInv
<1> QED BY <1>2, <1>3, <1>4

\* The promise of transform() or flush() is that of the operation in flight.
LEMMA SettleInv == Inv /\ Settle => Inv'
<1> SUFFICES ASSUME Inv, Settle PROVE Inv'
  OBVIOUS
<1>1. PICK how \in {IF writable.inFlight = "write" THEN "done" ELSE "fulfilled", "failed"} :
        Become([World EXCEPT !.w.phase = how])
  BY DEF Settle
<1>2. /\ World \in Worlds /\ Good(World) /\ Paired(World) /\ calls \in Calls
      /\ calls' = calls /\ writable.phase = "pending"
  BY DEF Inv, Good, Settle, Other
<1>3. how \in Phases /\ how \in {"done", "fulfilled", "failed"}
  BY DEF Phases
<1> DEFINE T == [World EXCEPT !.w.phase = how]
<1>4. Good(T) /\ T.w.inFlight = World.w.inFlight /\ T.w.phase = how
  BY <1>2, <1>3, PhaseGood
<1> HIDE DEF T
<1>5. Paired(T)
  BY <1>2, <1>3, <1>4, WorldParts DEF Paired
<1> QED BY <1>1, <1>2, <1>4, <1>5, BecomeInv DEF T

LEMMA WritableStartedInv == Inv /\ WritableStarted => Inv'
<1> SUFFICES ASSUME Inv, WritableStarted PROVE Inv'
  OBVIOUS
<1> DEFINE T == [World EXCEPT !.w.started = TRUE]
<1>1. /\ Become(IF start = "resolved" THEN AdvanceQueueIfNeeded(T) ELSE DealWithRejection(T))
      /\ calls' = calls /\ ~writable.started
  BY DEF WritableStarted, Other
<1>2. World \in Worlds /\ Good(World) /\ Paired(World) /\ calls \in Calls
  BY DEF Inv, Good
<1>3. /\ Good(T) /\ Paired(T) /\ T \in Worlds /\ T.w.started
      /\ T.w.inFlight = "none" /\ T.w.state \in {"writable", "erroring"}
  BY <1>1, <1>2, WorldParts, WritableStarts
<1> HIDE DEF T
<1>4. Good(AdvanceQueueIfNeeded(T)) /\ Paired(AdvanceQueueIfNeeded(T))
  BY <1>3, AdvanceQueueGood
<1>5. Good(DealWithRejection(T)) /\ Keeps(T, DealWithRejection(T))
  BY <1>3, DealWithRejectionGood DEF Good, Callable
<1>6. Paired(DealWithRejection(T))
  BY <1>3, <1>5, KeepsPaired
<1> QED BY <1>1, <1>2, <1>4, <1>5, <1>6, BecomeInv

LEMMA ReadableStartedInv == Inv /\ ReadableStarted => Inv'
<1> SUFFICES ASSUME Inv, ReadableStarted PROVE Inv'
  OBVIOUS
<1> DEFINE T == [World EXCEPT !.r.started = TRUE]
<1>1. /\ Become(IF start = "resolved" THEN CallPullIfNeeded(T) ELSE ReadableError(T))
      /\ calls' = calls
  BY DEF ReadableStarted, Other
<1>2. World \in Worlds /\ Good(World) /\ Paired(World) /\ calls \in Calls
  BY DEF Inv, Good
<1>3. Good(T) /\ Paired(T) /\ T \in Worlds
  BY <1>2, ReadableStarts
<1> HIDE DEF T
<1>4. /\ Good(CallPullIfNeeded(T)) /\ Keeps(T, CallPullIfNeeded(T))
      /\ Good(ReadableError(T)) /\ Keeps(T, ReadableError(T))
  BY <1>3, CallPullIfNeededGood, ReadableErrorGood
<1>5. Paired(CallPullIfNeeded(T)) /\ Paired(ReadableError(T))
  BY <1>3, <1>4, KeepsPaired
<1> QED BY <1>1, <1>2, <1>4, <1>5, BecomeInv

LEMMA PulledInv == Inv /\ Pulled => Inv'
<1> SUFFICES ASSUME Inv, Pulled PROVE Inv'
  OBVIOUS
<1> DEFINE T == [World EXCEPT !.r.pulling = "no", !.r.pullAgain = FALSE]
<1>1. /\ Become(IF readable.pullAgain THEN CallPullIfNeeded(T) ELSE T)
      /\ calls' = calls /\ readable.pulling = "resolved"
  BY DEF Pulled, Other
<1>2. World \in Worlds /\ Good(World) /\ Paired(World) /\ calls \in Calls
  BY DEF Inv, Good
<1>3. Good(T) /\ Paired(T) /\ T \in Worlds
  BY <1>1, <1>2, WorldParts, PullEnds
<1> HIDE DEF T
<1>4. Good(CallPullIfNeeded(T)) /\ Keeps(T, CallPullIfNeeded(T))
  BY <1>3, CallPullIfNeededGood
<1>5. Paired(CallPullIfNeeded(T))
  BY <1>3, <1>4, KeepsPaired
<1> QED BY <1>1, <1>2, <1>3, <1>4, <1>5, BecomeInv

\* A write that waited finds the side erroring, or its algorithm.
LEMMA WriteUnblockedInv == Inv /\ WriteUnblocked => Inv'
<1> SUFFICES ASSUME Inv, WriteUnblocked PROVE Inv'
  OBVIOUS
<1>1. /\ World \in Worlds /\ Good(World) /\ Paired(World) /\ calls \in Calls
      /\ calls' = calls /\ writable.phase = "unblocked"
  BY DEF Inv, Good, WriteUnblocked, Other
<1>2. /\ writable.inFlight = "write" /\ writable.state \in {"writable", "erroring"}
      /\ writable.queue # <<>> /\ writable.queue \in Seq(Nat)
  BY <1>1, WorldParts DEF Good, Callable, Ends, Paired, Worlds, Writable
<1>3. CASE writable.state = "erroring"
  <2> DEFINE T == [World EXCEPT !.w.phase = "rejected"]
  <2>1. Become(T)
    BY <1>3 DEF WriteUnblocked
  <2>2. "rejected" \in Phases
    BY DEF Phases
  <2>3. Good(T) /\ T.w.inFlight = World.w.inFlight /\ T.w.phase = "rejected"
    BY <1>1, <2>2, PhaseGood
  <2> HIDE DEF T
  <2>4. Paired(T)
    BY <1>2, <2>3, WorldParts DEF Paired
  <2> QED BY <1>1, <2>1, <2>3, <2>4, BecomeInv
<1>4. CASE writable.state = "writable"
  <2> DEFINE T == PerformTransform(World, Head(writable.queue))
  <2>1. MozAssert(World, "unblocked", writable.state = "writable") = World
    BY <1>4 DEF MozAssert
  <2>2. Become(T)
    BY <1>4, <2>1 DEF WriteUnblocked
  <2>3. Head(writable.queue) \in Nat
    BY <1>2, HeadTailProperties
  <2>4. /\ Good(T) /\ T.w.inFlight = "write"
        /\ T.w.phase \in {"pending", "failed", "done"}
    BY <1>1, <1>2, <1>4, <2>3, WorldParts, PerformTransformGood
  <2> HIDE DEF T
  <2>5. Paired(T)
    BY <2>4 DEF Paired
  <2> QED BY <1>1, <2>2, <2>4, <2>5, BecomeInv
<1> QED BY <1>2, <1>3, <1>4

LEMMA TransformerFailedInv == Inv /\ TransformerFailed => Inv'
<1> SUFFICES ASSUME Inv, TransformerFailed PROVE Inv'
  OBVIOUS
<1> DEFINE E == ErrorStream(World)
           T == [E EXCEPT !.w.phase = "rejected"]
<1>1. Become(T) /\ calls' = calls /\ writable.phase = "failed"
  BY DEF TransformerFailed, Other
<1>2. World \in Worlds /\ Good(World) /\ Paired(World) /\ calls \in Calls
  BY DEF Inv, Good
<1>3. Good(E) /\ E.w.inFlight = writable.inFlight
  BY <1>2, ErrorStreamGood, WorldParts DEF Keeps
<1> HIDE DEF E
<1>4. "rejected" \in Phases
  BY DEF Phases
<1>5. Good(T) /\ T.w.inFlight = E.w.inFlight /\ T.w.phase = "rejected"
  BY <1>3, <1>4, PhaseGood DEF Good
<1> HIDE DEF T
<1>6. Paired(T)
  BY <1>1, <1>2, <1>3, <1>5, WorldParts DEF Paired
<1> QED BY <1>1, <1>2, <1>5, <1>6, BecomeInv

LEMMA FlushedInv == Inv /\ Flushed => Inv'
<1> SUFFICES ASSUME Inv, Flushed PROVE Inv'
  OBVIOUS
<1> DEFINE q == IF readable.state = "errored" THEN "rejected" ELSE "done"
           T == [World EXCEPT !.w.phase = q]
<1>1. /\ Become(IF CanCloseOrEnqueue(T) THEN ReadableClose(T) ELSE T)
      /\ calls' = calls /\ writable.phase = "fulfilled"
  BY DEF Flushed, Other
<1>2. World \in Worlds /\ Good(World) /\ Paired(World) /\ calls \in Calls
  BY DEF Inv, Good
<1>3. q \in Phases /\ q \in {"rejected", "done"}
  BY DEF Phases
<1> HIDE DEF q
<1>4. Good(T) /\ T.w.inFlight = World.w.inFlight /\ T.w.phase = q
  BY <1>2, <1>3, PhaseGood
<1> HIDE DEF T
<1>5. Paired(T) /\ T \in Worlds
  BY <1>1, <1>2, <1>3, <1>4, WorldParts DEF Paired, Good
<1>6. Good(ReadableClose(T)) /\ Keeps(T, ReadableClose(T))
  BY <1>4, <1>5, ReadableCloseGood
<1>7. Paired(ReadableClose(T))
  BY <1>5, <1>6, KeepsPaired
<1> QED BY <1>1, <1>2, <1>4, <1>5, <1>6, <1>7, BecomeInv

LEMMA NoAbort ==
  ASSUME NEW S \in Worlds
  PROVE  /\ S.w.abort \in {"none", "pending", "late"}
         /\ [S EXCEPT !.w.phase = "none", !.w.inFlight = "none"]
              = [S EXCEPT !.w.phase = "none", !.w.inFlight = "none", !.w.abort = S.w.abort]
BY DEF Worlds, Writable

LEMMA OperationDoneInv == Inv /\ OperationDone => Inv'
<1> SUFFICES ASSUME Inv, OperationDone PROVE Inv'
  OBVIOUS
<1> DEFINE T == [World EXCEPT !.w.phase = "none", !.w.inFlight = "none"]
           C == [T EXCEPT !.w.state = "closed", !.w.abort = "none"]
           W == [T EXCEPT !.w.queue = Tail(@)]
<1>1. /\ Become(IF writable.inFlight = "close" THEN C ELSE AdvanceQueueIfNeeded(W))
      /\ calls' = calls /\ writable.phase = "done"
  BY DEF OperationDone, Other
<1>2. World \in Worlds /\ Good(World) /\ Paired(World) /\ calls \in Calls
  BY DEF Inv, Good
<1>3. /\ writable.inFlight \in {"write", "close"} /\ writable.started
      /\ writable.state \in {"writable", "erroring"}
      /\ writable.inFlight = "write" => writable.queue # <<>>
      /\ writable.state = "writable" /\ writable.inFlight = "write" => ts.algorithms
  BY <1>1, <1>2, WorldParts DEF Good, Callable, Ends, Paired, Worlds, Writable
<1>4. /\ T \in Worlds /\ PullWaits(T) /\ Ends(T) /\ Paired(T)
      /\ T.w.inFlight = "none" /\ T.w.phase = "none" /\ T.ts = ts
      /\ T.w.queue = writable.queue /\ T.w.state = writable.state
      /\ T.w.started
  <2> DEFINE a == World.w.abort
             U == [World EXCEPT !.w.phase = "none", !.w.inFlight = "none", !.w.abort = a]
  <2>1. a \in {"none", "pending", "late"} /\ T = U
    BY <1>2, NoAbort
  <2> HIDE DEF a, T
  <2>2. /\ U \in Worlds /\ PullWaits(U) /\ Ends(U) /\ Paired(U)
        /\ U.w.inFlight = "none" /\ U.w.phase = "none" /\ U.ts = World.ts
        /\ U.w.queue = World.w.queue /\ U.w.state = World.w.state
        /\ U.w.started = World.w.started
    BY <1>2, <2>1, OperationEnds
  <2> HIDE DEF U
  <2> QED BY <1>3, <2>1, <2>2, WorldParts
<1> HIDE DEF T
<1>5. CASE writable.inFlight = "close"
  <2>1. Good(C) /\ Paired(C)
    BY <1>4, ClosedAtLast
  <2> QED BY <1>1, <1>2, <1>5, <2>1, BecomeInv
<1>6. CASE writable.inFlight = "write"
  <2>1. Good(T)
    BY <1>3, <1>4, <1>6 DEF Good, Callable
  <2>2. Good(W) /\ Paired(W) /\ W \in Worlds /\ W.w.state = T.w.state
    BY <1>3, <1>4, <1>6, <2>1, WriteIsDone
  <2> HIDE DEF W
  <2>3. Good(AdvanceQueueIfNeeded(W)) /\ Paired(AdvanceQueueIfNeeded(W))
    BY <1>3, <1>4, <2>2, AdvanceQueueGood
  <2> QED BY <1>1, <1>2, <1>6, <2>3, BecomeInv
<1> QED BY <1>3, <1>5, <1>6

LEMMA OperationRejectedInv == Inv /\ OperationRejected => Inv'
<1> SUFFICES ASSUME Inv, OperationRejected PROVE Inv'
  OBVIOUS
<1> DEFINE a == IF writable.inFlight = "close" THEN "none" ELSE writable.abort
           T == [World EXCEPT !.w.phase = "none", !.w.inFlight = "none", !.w.abort = a]
<1>1. World \in Worlds /\ Good(World) /\ Paired(World) /\ calls \in Calls
  BY DEF Inv, Good
<1>2. /\ Become(DealWithRejection(T)) /\ calls' = calls /\ writable.phase = "rejected"
  BY <1>1, WorldParts DEF OperationRejected, Other, Worlds, Writable
<1>3. writable.started /\ a \in {"none", "pending", "late"}
  BY <1>1, <1>2, WorldParts DEF Good, Callable, Ends, Paired, Worlds, Writable
<1> HIDE DEF a
<1>4. /\ T \in Worlds /\ PullWaits(T) /\ Ends(T) /\ Paired(T)
      /\ T.w.inFlight = "none" /\ T.w.started
  <2>1. /\ T \in Worlds /\ PullWaits(T) /\ Ends(T) /\ Paired(T)
        /\ T.w.inFlight = "none" /\ T.w.started = World.w.started
    BY <1>1, <1>3, OperationEnds
  <2> HIDE DEF T
  <2> QED BY <1>3, <2>1, WorldParts
<1> HIDE DEF T
<1>5. Good(DealWithRejection(T)) /\ Keeps(T, DealWithRejection(T))
  BY <1>4, DealWithRejectionGood
<1>6. Paired(DealWithRejection(T))
  BY <1>4, <1>5, KeepsPaired
<1> QED BY <1>1, <1>2, <1>5, <1>6, BecomeInv

LEMMA IdleInv == Inv /\ (StartSettles \/ UNCHANGED vars) => Inv'
<1> SUFFICES ASSUME Inv, StartSettles \/ UNCHANGED vars PROVE Inv'
  OBVIOUS
<1>1. World' = World /\ calls' = calls
  BY DEF StartSettles, sides, vars, World
<1> QED BY <1>1 DEF Inv

LEMMA StepInv == Inv /\ [Next]_vars => Inv'
BY WriteInv, WriteSizelessInv, WriterCloseInv, AbortInv, ReadInv, CancelInv, ControllerInv, SettleInv,
   WritableStartedInv, ReadableStartedInv, PulledInv, WriteUnblockedInv,
   TransformerFailedInv, FlushedInv, OperationDoneInv, OperationRejectedInv, IdleInv
   DEF Next, Content, Job

-----------------------------------------------------------------------------
(* How the two sides end.  What the operators do to the end of the sides,   *)
(* to requests and to a write that waits, whatever the state they are       *)
(* called in.                                                               *)

\* A write that waits does so for back-pressure.
Waits(S) == S.w.phase = "blocked" => S.ts.backpressure

\* A pull that is called for is on its way.
PullsAgain(S) ==
  ShouldCallPull(S.r) =>
    S.r.pulling = "waiting" \/ (S.r.pulling = "resolved" /\ S.r.pullAgain)

Moves(S, T) ==
  /\ T.r.started = S.r.started /\ T.r.requests <= S.r.requests
  /\ S.r.state # "readable" => T.r.state # "readable"
  /\ Waits(S) => Waits(T)
  /\ S.w.state = "errored" => T.w.state = "errored"
  /\ T.w.state = "erroring" =>
       S.w.state = "erroring" \/ S.w.inFlight # "none" \/ ~S.w.started

\* Neither side ends.
Still(S, T) ==
  /\ T.w.state = S.w.state /\ T.w.abort = S.w.abort
  /\ T.r.state = S.r.state /\ T.r.closing = S.r.closing

\* Both sides end, and a write that waited for the reader does not any more.
Shuts(S, T) ==
  ~Open(T.r) /\ T.w.state # "writable" /\ (Waits(S) => T.w.phase # "blocked")

LEMMA MovesTransitive ==
  ASSUME NEW S \in Worlds, NEW T \in Worlds, NEW U \in Worlds,
         Keeps(S, T), Moves(S, T), Moves(T, U)
  PROVE  Moves(S, U)
<1>1. U.r.requests <= S.r.requests
  BY DEF Moves, Worlds, Readable
<1> QED BY <1>1 DEF Moves, Keeps

LEMMA MovesItself ==
  ASSUME NEW S \in Worlds
  PROVE  Moves(S, S) /\ Still(S, S) /\ Keeps(S, S)
<1>1. S.r.requests <= S.r.requests
  BY DEF Worlds, Readable
<1> QED BY <1>1 DEF Moves, Still, Keeps

\* An operator that touches the readable side only.
LEMMA ReadableMoves ==
  ASSUME NEW S \in Worlds, NEW T \in Worlds, T.w = S.w, T.ts = S.ts,
         T.r.started = S.r.started, T.r.requests <= S.r.requests,
         S.r.state # "readable" => T.r.state # "readable"
  PROVE  Moves(S, T)
BY DEF Moves, Waits

LEMMA SetBackpressureMoves ==
  ASSUME NEW S \in Worlds, Callable(S), NEW b \in BOOLEAN,
         S.ts.backpressure # b \/ S.failed = "Enqueue"
  PROVE  LET T == SetBackpressure(S, b)
         IN  /\ Moves(S, T) /\ Still(S, T) /\ T.w.phase # "blocked"
             /\ ShouldCallPull(T.r) <=> ShouldCallPull(S.r)
             /\ PullsAgain(S) /\ S.r.pulling # "waiting" => PullsAgain(T)
<1> DEFINE T == SetBackpressure(S, b)
<1>1. /\ T.ts.backpressure = b /\ T.r.pulling # "waiting" /\ T \in Worlds
      /\ T.w.state = S.w.state /\ T.w.abort = S.w.abort /\ T.w.phase # "blocked"
      /\ T.r.state = S.r.state /\ T.r.closing = S.r.closing
      /\ T.r.started = S.r.started /\ T.r.requests = S.r.requests
      /\ T.r.queue = S.r.queue /\ T.r.pullAgain = S.r.pullAgain
      /\ Keeps(S, T)
  BY SetBackpressureChanges
<1>2. S.r.pulling # "waiting" => T.r.pulling = S.r.pulling
  BY SetBackpressureChanges
<1> HIDE DEF T
<1>3. T.r.requests <= S.r.requests
  BY <1>1 DEF Worlds, Readable
<1>4. Moves(S, T) /\ Still(S, T)
  BY <1>1, <1>3 DEF Moves, Still, Waits
<1>5. ShouldCallPull(T.r) <=> ShouldCallPull(S.r)
  BY <1>1 DEF ShouldCallPull
<1>6. PullsAgain(S) /\ S.r.pulling # "waiting" => PullsAgain(T)
  BY <1>1, <1>2, <1>5 DEF PullsAgain
<1> QED BY <1>1, <1>4, <1>5, <1>6 DEF T

LEMMA DefaultSourcePullMoves ==
  ASSUME NEW S \in Worlds, Good(S), Open(S.r), S.r.pulling = "no"
  PROVE  LET T == DefaultSourcePull(S)
         IN  Moves(S, T) /\ Still(S, T) /\ PullsAgain(T)
<1> DEFINE B == SetBackpressure(S, FALSE)
           T == [B EXCEPT !.r.pulling = "waiting"]
<1>1. S.ts.backpressure /\ Callable(S)
  BY DEF Good, PullWaits
<1>2. DefaultSourcePull(S) = T
  BY <1>1 DEF DefaultSourcePull, MozAssert
<1>3. Moves(S, B) /\ Still(S, B) /\ B \in Worlds /\ Keeps(S, B)
  BY <1>1, SetBackpressureMoves, SetBackpressureChanges
<1> HIDE DEF B
<1>4. /\ T \in Worlds /\ T.w = B.w /\ T.ts = B.ts /\ T.r.pulling = "waiting"
      /\ T.r.state = B.r.state /\ T.r.closing = B.r.closing
      /\ T.r.started = B.r.started /\ T.r.requests = B.r.requests
  BY <1>3, PullingIsAWorld
<1> HIDE DEF T
<1>5. T.r.requests <= B.r.requests
  BY <1>3, <1>4 DEF Worlds, Readable
<1>6. Moves(B, T)
  BY <1>3, <1>4, <1>5, ReadableMoves
<1>7. Moves(S, T)
  BY <1>3, <1>4, <1>6, MovesTransitive
<1>8. Still(S, T) /\ PullsAgain(T)
  BY <1>3, <1>4 DEF Still, PullsAgain
<1> QED BY <1>2, <1>7, <1>8

\* After this call a pull is on its way if one is called for, whatever was
\* before.
LEMMA CallPullIfNeededMoves ==
  ASSUME NEW S \in Worlds, Good(S)
  PROVE  LET T == CallPullIfNeeded(S)
         IN  Moves(S, T) /\ Still(S, T) /\ PullsAgain(T)
<1>1. CASE ~ShouldCallPull(S.r)
  BY <1>1, MovesItself DEF CallPullIfNeeded, PullsAgain
<1>2. CASE ShouldCallPull(S.r) /\ S.r.pulling # "no"
  <2> DEFINE T == [S EXCEPT !.r.pullAgain = TRUE]
  <2>1. CallPullIfNeeded(S) = T
    BY <1>2 DEF CallPullIfNeeded
  <2>2. /\ T \in Worlds /\ T.w = S.w /\ T.ts = S.ts /\ T.r.pulling = S.r.pulling
        /\ T.r.state = S.r.state /\ T.r.closing = S.r.closing /\ T.r.pullAgain
        /\ T.r.started = S.r.started /\ T.r.requests = S.r.requests
    BY PullAgainIsAWorld
  <2> HIDE DEF T
  <2>3. T.r.requests <= S.r.requests
    BY <2>2 DEF Worlds, Readable
  <2>4. Moves(S, T) /\ Still(S, T)
    BY <2>2, <2>3, ReadableMoves DEF Still
  <2>5. PullsAgain(T)
    BY <1>2, <2>2 DEF PullsAgain, Worlds, Readable
  <2> QED BY <2>1, <2>4, <2>5
<1>3. CASE ShouldCallPull(S.r) /\ S.r.pulling = "no"
  <2>1. CallPullIfNeeded(S) = DefaultSourcePull(S)
    BY <1>3 DEF CallPullIfNeeded
  <2>2. Open(S.r)
    BY <1>3 DEF ShouldCallPull, Open
  <2> QED BY <1>3, <2>1, <2>2, DefaultSourcePullMoves
<1> QED BY <1>1, <1>2, <1>3

LEMMA StillTransitive ==
  ASSUME NEW S, NEW T, NEW U, Still(S, T), Still(T, U)
  PROVE  Still(S, U)
BY DEF Still

LEMMA ReadableEnqueueMoves ==
  ASSUME NEW S \in Worlds, Good(S), NEW chunk \in Nat
  PROVE  LET T == ReadableEnqueue(S, chunk)
         IN  Moves(S, T) /\ Still(S, T) /\ PullsAgain(T)
<1> DEFINE T == IF S.r.requests > 0
                THEN [S EXCEPT !.r.requests = @ - 1, !.got = Append(@, chunk)]
                ELSE [S EXCEPT !.r.queue = Append(@, chunk)]
<1>1. ReadableEnqueue(S, chunk) = CallPullIfNeeded(T)
  BY DEF ReadableEnqueue
<1>2. /\ T \in Worlds /\ T.w = S.w /\ T.ts = S.ts /\ T.r.pulling = S.r.pulling
      /\ T.r.state = S.r.state /\ T.r.closing = S.r.closing
      /\ T.r.started = S.r.started
      /\ T.r.requests = S.r.requests \/ T.r.requests = S.r.requests - 1
  BY QueueIsAWorld
<1> HIDE DEF T
<1>3. T.r.requests <= S.r.requests
  BY <1>2 DEF Worlds, Readable
<1>4. Good(T) /\ Keeps(S, T) /\ Moves(S, T) /\ Still(S, T)
  BY <1>2, <1>3, ReadableMoves
     DEF Good, PullWaits, Callable, Ends, Keeps, Open, Still
<1>5. LET U == CallPullIfNeeded(T) IN U \in Worlds /\ Moves(T, U) /\ Still(T, U) /\ PullsAgain(U)
  BY <1>2, <1>4, CallPullIfNeededMoves, CallPullIfNeededGood DEF Good
<1> QED BY <1>1, <1>2, <1>4, <1>5, MovesTransitive, StillTransitive

LEMMA CloseNowMoves ==
  ASSUME NEW S \in Worlds, Good(S)
  PROVE  Moves(S, CloseNow(S))
<1> DEFINE T == CloseNow(S)
<1>1. /\ T \in Worlds /\ T.w = S.w /\ T.ts = S.ts /\ T.r.state = "closed"
      /\ T.r.started = S.r.started /\ T.r.requests = 0
  BY EmptyReadable DEF CloseNow
<1> HIDE DEF T
<1>2. T.r.requests <= S.r.requests
  BY <1>1 DEF Worlds, Readable
<1>3. Moves(S, T)
  BY <1>1, <1>2, ReadableMoves
<1> QED BY <1>3 DEF T

LEMMA ReadableCloseMoves ==
  ASSUME NEW S \in Worlds, Good(S)
  PROVE  LET T == ReadableClose(S) IN Moves(S, T) /\ T.w = S.w
<1> DEFINE C == IF S.r.queue = <<>> THEN CloseNow(S) ELSE S
           T == [C EXCEPT !.r.closing = TRUE]
<1>1. ReadableClose(S) = T
  BY DEF ReadableClose
<1>2. C \in Worlds /\ C.w = S.w /\ Moves(S, C) /\ Keeps(S, C)
  BY CloseNowGood, CloseNowMoves, MovesItself DEF Good
<1> HIDE DEF C
<1>3. /\ T \in Worlds /\ T.w = C.w /\ T.ts = C.ts /\ T.r.state = C.r.state
      /\ T.r.started = C.r.started /\ T.r.requests = C.r.requests
  BY <1>2, ClosingIsAWorld
<1> HIDE DEF T
<1>4. T.r.requests <= C.r.requests
  BY <1>3 DEF Worlds, Readable
<1>5. Moves(C, T)
  BY <1>2, <1>3, <1>4, ReadableMoves
<1> QED BY <1>1, <1>2, <1>3, <1>5, MovesTransitive

LEMMA ReadableErrorMoves ==
  ASSUME NEW S \in Worlds, Good(S)
  PROVE  LET T == ReadableError(S)
         IN  Moves(S, T) /\ T.w = S.w /\ T.r.state # "readable"
<1>1. CASE S.r.state # "readable"
  BY <1>1, MovesItself DEF ReadableError
<1>2. CASE S.r.state = "readable"
  <2> DEFINE T == [S EXCEPT !.r.state = "errored", !.r.queue = <<>>, !.r.requests = 0]
  <2>1. ReadableError(S) = T
    BY <1>2 DEF ReadableError
  <2>2. /\ T \in Worlds /\ T.w = S.w /\ T.ts = S.ts /\ T.r.state = "errored"
        /\ T.r.started = S.r.started /\ T.r.requests = 0
    BY EmptyReadable
  <2> HIDE DEF T
  <2>3. T.r.requests <= S.r.requests
    BY <2>2 DEF Worlds, Readable
  <2>4. Moves(S, T)
    BY <2>2, <2>3, ReadableMoves
  <2> QED BY <2>1, <2>2, <2>4
<1> QED BY <1>1, <1>2

\* A write that waits does so for back-pressure: this wakes it up.
LEMMA UnblockMoves ==
  ASSUME NEW S \in Worlds, Good(S), ~Open(S.r), S.w.state # "writable"
  PROVE  LET T == Unblock(S) IN Moves(S, T) /\ (Waits(S) => T.w.phase # "blocked")
<1> DEFINE C == [S EXCEPT !.ts.algorithms = FALSE]
<1>1. Unblock(S) = IF C.ts.backpressure THEN SetBackpressure(C, FALSE) ELSE C
  BY DEF Unblock
<1>2. /\ C \in Worlds /\ C.w = S.w /\ C.r = S.r
      /\ C.ts.backpressure = S.ts.backpressure
  BY ClearedIsAWorld
<1> HIDE DEF C
<1>3. Good(C) /\ Keeps(S, C)
  BY <1>2 DEF Good, PullWaits, Callable, Ends, Keeps
<1>4. S.r.requests <= S.r.requests
  BY DEF Worlds, Readable
<1>5. Moves(S, C) /\ (Waits(S) => Waits(C))
  BY <1>2, <1>4 DEF Moves, Waits
<1>6. CASE ~C.ts.backpressure
  BY <1>1, <1>5, <1>6 DEF Waits
<1>7. CASE C.ts.backpressure
  <2>1. C.ts.backpressure # FALSE /\ Callable(C)
    BY <1>3, <1>7 DEF Good
  <2>2. LET T == SetBackpressure(C, FALSE)
        IN  T \in Worlds /\ Moves(C, T) /\ T.w.phase # "blocked"
    BY <1>2, <2>1, SetBackpressureMoves, SetBackpressureChanges
  <2>3. Unblock(S) = SetBackpressure(C, FALSE)
    BY <1>1, <1>7
  <2> QED BY <1>2, <1>3, <1>5, <2>2, <2>3, MovesTransitive
<1> QED BY <1>6, <1>7

LEMMA DefaultSinkAbortMoves ==
  ASSUME NEW S \in Worlds, Good(S), S.w.state # "writable"
  PROVE  LET T == DefaultSinkAbort(S) IN Moves(S, T) /\ Shuts(S, T)
<1> DEFINE E == ReadableError(S)
<1>1. DefaultSinkAbort(S) = Unblock(E)
  BY DEF DefaultSinkAbort
<1>2. Good(E) /\ Keeps(S, E) /\ ~Open(E.r) /\ E.w.state = S.w.state /\ Moves(S, E)
  BY ReadableErrorGood, ReadableErrorMoves
<1> HIDE DEF E
<1>3. E \in Worlds
  BY <1>2 DEF Good
<1>4. LET T == Unblock(E)
      IN  Good(T) /\ ~Open(T.r) /\ T.w.state = E.w.state
  BY <1>2, <1>3, UnblockGood
<1>5. LET T == Unblock(E) IN Moves(E, T) /\ (Waits(E) => T.w.phase # "blocked")
  BY <1>2, <1>3, UnblockMoves
<1>6. Unblock(E) \in Worlds
  BY <1>4 DEF Good
<1>7. Moves(S, Unblock(E))
  BY <1>2, <1>3, <1>5, <1>6, MovesTransitive
<1>8. Shuts(S, Unblock(E))
  BY <1>2, <1>4, <1>5 DEF Shuts, Moves
<1> QED BY <1>1, <1>7, <1>8


\* An error that ends takes an abort, or an end of the readable side, with it.
LEMMA FinishErroringMoves ==
  ASSUME NEW S \in Worlds, PullWaits(S), Ends(S), S.w.inFlight = "none", S.w.started
  PROVE  LET T == FinishErroring(S)
         IN  /\ Moves(S, T) /\ (T.r = S.r \/ ~Open(T.r))
             /\ S.w.abort = "pending" \/ ~Open(S.r) => ~Open(T.r)
<1> DEFINE E == [S EXCEPT !.w.state = "errored", !.w.queue = <<>>, !.w.abort = "none"]
<1>1. FinishErroring(S) = IF S.w.abort = "pending" THEN DefaultSinkAbort(E) ELSE E
  BY DEF FinishErroring
<1>2. /\ E \in Worlds /\ E.r = S.r /\ E.ts = S.ts /\ E.w.state = "errored"
      /\ E.w.inFlight = S.w.inFlight /\ E.w.started = S.w.started
      /\ E.w.phase = S.w.phase
  BY ErroredIsAWorld
<1> HIDE DEF E
<1>3. Good(E) /\ Keeps(S, E)
  BY <1>2 DEF Good, PullWaits, Callable, Ends, Keeps
<1>4. S.r.requests <= S.r.requests
  BY DEF Worlds, Readable
<1>5. Moves(S, E)
  BY <1>2, <1>4 DEF Moves, Waits
<1>6. CASE S.w.abort = "pending"
  <2>1. LET T == DefaultSinkAbort(E)
        IN  Moves(E, T) /\ ~Open(T.r) /\ Good(T)
    BY <1>2, <1>3, DefaultSinkAbortMoves, DefaultSinkAbortGood DEF Shuts
  <2> QED BY <1>1, <1>2, <1>3, <1>5, <1>6, <2>1, MovesTransitive DEF Good
<1>7. CASE S.w.abort # "pending"
  BY <1>1, <1>2, <1>5, <1>7
<1> QED BY <1>6, <1>7

LEMMA StartErroringMoves ==
  ASSUME NEW S \in Worlds, PullWaits(S), Ends(S), S.w.state = "writable"
  PROVE  LET T == StartErroring(S)
         IN  /\ Moves(S, T) /\ (T.r = S.r \/ ~Open(T.r))
             /\ \/ T.w.state = "erroring" /\ T.w.abort = S.w.abort /\ T.r = S.r
                \/ /\ T.w.state = "errored"
                   /\ S.w.abort = "pending" \/ ~Open(S.r) => ~Open(T.r)
<1> DEFINE E == [S EXCEPT !.w.state = "erroring"]
<1>1. StartErroring(S) =
        IF E.w.inFlight = "none" /\ E.w.started THEN FinishErroring(E) ELSE E
  BY DEF StartErroring
<1>2. /\ E \in Worlds /\ E.r = S.r /\ E.ts = S.ts /\ E.w.state = "erroring"
      /\ E.w.inFlight = S.w.inFlight /\ E.w.started = S.w.started
      /\ E.w.phase = S.w.phase /\ E.w.queue = S.w.queue /\ E.w.abort = S.w.abort
  BY ErroringIsAWorld
<1> HIDE DEF E
<1>3. PullWaits(E) /\ Ends(E)
  BY <1>2 DEF PullWaits, Ends
<1>4. S.r.requests <= S.r.requests
  BY DEF Worlds, Readable
<1>5. CASE E.w.inFlight = "none" /\ E.w.started
  <2>1. LET T == FinishErroring(E)
        IN  /\ Moves(E, T) /\ (T.r = E.r \/ ~Open(T.r))
            /\ E.w.abort = "pending" \/ ~Open(E.r) => ~Open(T.r)
    BY <1>2, <1>3, <1>5, FinishErroringMoves
  <2>2. FinishErroring(E).w.state = "errored"
    BY <1>2, <1>3, <1>5, FinishErroringGood
  <2>3. StartErroring(S) = FinishErroring(E)
    BY <1>1, <1>5
  <2>4. Moves(S, FinishErroring(E))
    BY <1>2, <1>4, <2>1, <2>2 DEF Moves, Waits
  <2> QED BY <1>2, <2>1, <2>2, <2>3, <2>4
<1>6. CASE ~(E.w.inFlight = "none" /\ E.w.started)
  <2>1. Moves(S, E)
    BY <1>2, <1>4, <1>6 DEF Moves, Waits
  <2> QED BY <1>1, <1>2, <1>6, <2>1
<1> QED BY <1>5, <1>6

LEMMA DealWithRejectionMoves ==
  ASSUME NEW S \in Worlds, PullWaits(S), Ends(S), S.w.inFlight = "none", S.w.started
  PROVE  LET T == DealWithRejection(S)
         IN  /\ Moves(S, T) /\ (T.r = S.r \/ ~Open(T.r))
             /\ T.w.state = "errored"
             /\ S.w.abort = "pending" \/ ~Open(S.r) => ~Open(T.r)
<1>1. CASE S.w.state # "writable"
  BY <1>1, FinishErroringMoves, FinishErroringGood DEF DealWithRejection
<1>2. CASE S.w.state = "writable"
  <2>1. DealWithRejection(S) = StartErroring(S)
    BY <1>2 DEF DealWithRejection
  <2>2. LET T == StartErroring(S)
        IN  /\ Moves(S, T) /\ (T.r = S.r \/ ~Open(T.r))
            /\ \/ T.w.state = "erroring" /\ T.w.abort = S.w.abort
               \/ /\ T.w.state = "errored"
                  /\ S.w.abort = "pending" \/ ~Open(S.r) => ~Open(T.r)
    BY <1>2, StartErroringMoves
  <2> QED BY <1>2, <2>1, <2>2 DEF Moves
<1> QED BY <1>1, <1>2

LEMMA ErrorWritableMoves ==
  ASSUME NEW S \in Worlds, Good(S), ~Open(S.r)
  PROVE  LET T == ErrorWritableAndUnblockWrite(S) IN Moves(S, T) /\ Shuts(S, T)
<1> DEFINE E == IF S.w.state = "writable" THEN StartErroring(S) ELSE S
<1>1. ErrorWritableAndUnblockWrite(S) = Unblock(E)
  BY DEF ErrorWritableAndUnblockWrite
<1>2. Good(E) /\ Keeps(S, E) /\ E.w.state # "writable" /\ Moves(S, E)
  <2>1. CASE S.w.state = "writable"
    BY <2>1, StartErroringGood, StartErroringMoves DEF Good, Callable
  <2>2. CASE S.w.state # "writable"
    BY <2>2, MovesItself
  <2> QED BY <2>1, <2>2
<1> HIDE DEF E
<1>3. E \in Worlds /\ ~Open(E.r)
  BY <1>2 DEF Good, Keeps
<1>4. LET T == Unblock(E)
      IN  Good(T) /\ ~Open(T.r) /\ T.w.state = E.w.state
  BY <1>2, <1>3, UnblockGood
<1>5. LET T == Unblock(E) IN Moves(E, T) /\ (Waits(E) => T.w.phase # "blocked")
  BY <1>2, <1>3, UnblockMoves
<1>6. Unblock(E) \in Worlds
  BY <1>4 DEF Good
<1>7. Moves(S, Unblock(E))
  BY <1>2, <1>3, <1>5, <1>6, MovesTransitive
<1>8. Shuts(S, Unblock(E))
  BY <1>2, <1>4, <1>5 DEF Shuts, Moves
<1> QED BY <1>1, <1>7, <1>8

LEMMA ShutsAfter ==
  ASSUME NEW S \in Worlds, NEW T \in Worlds, NEW U \in Worlds,
         Keeps(S, T), Moves(S, T), Moves(T, U), Shuts(T, U)
  PROVE  Moves(S, U) /\ Shuts(S, U)
<1>1. Moves(S, U)
  BY MovesTransitive
<1>2. Shuts(S, U)
  BY DEF Shuts, Moves
<1> QED BY <1>1, <1>2

LEMMA ErrorStreamMoves ==
  ASSUME NEW S \in Worlds, Good(S)
  PROVE  LET T == ErrorStream(S) IN Moves(S, T) /\ Shuts(S, T)
<1> DEFINE E == ReadableError(S)
<1>1. ErrorStream(S) = ErrorWritableAndUnblockWrite(E)
  BY DEF ErrorStream
<1>2. Good(E) /\ Keeps(S, E) /\ ~Open(E.r) /\ Moves(S, E)
  BY ReadableErrorGood, ReadableErrorMoves
<1> HIDE DEF E
<1>3. E \in Worlds
  BY <1>2 DEF Good
<1>4. LET T == ErrorWritableAndUnblockWrite(E)
      IN  T \in Worlds /\ Moves(E, T) /\ Shuts(E, T)
  BY <1>2, <1>3, ErrorWritableMoves, ErrorWritableGood DEF Good
<1> QED BY <1>1, <1>2, <1>3, <1>4, ShutsAfter

LEMMA TerminateMoves ==
  ASSUME NEW S \in Worlds, Good(S)
  PROVE  LET T == Terminate(S) IN Moves(S, T) /\ Shuts(S, T)
<1> DEFINE E == IF CanCloseOrEnqueue(S) THEN ReadableClose(S) ELSE S
<1>1. Terminate(S) = ErrorWritableAndUnblockWrite(E)
  BY DEF Terminate
<1>2. Good(E) /\ Keeps(S, E) /\ ~Open(E.r) /\ Moves(S, E)
  <2>1. CASE CanCloseOrEnqueue(S)
    BY <2>1, ReadableCloseGood, ReadableCloseMoves
  <2>2. CASE ~CanCloseOrEnqueue(S)
    BY <2>2, MovesItself DEF CanCloseOrEnqueue, Open
  <2> QED BY <2>1, <2>2
<1> HIDE DEF E
<1>3. E \in Worlds
  BY <1>2 DEF Good
<1>4. LET T == ErrorWritableAndUnblockWrite(E)
      IN  T \in Worlds /\ Moves(E, T) /\ Shuts(E, T)
  BY <1>2, <1>3, ErrorWritableMoves, ErrorWritableGood DEF Good
<1> QED BY <1>1, <1>2, <1>3, <1>4, ShutsAfter

\* A side that has ended calls for no pull.
LEMMA ShutPulls ==
  ASSUME NEW T, ~Open(T.r)
  PROVE  PullsAgain(T) /\ ~ShouldCallPull(T.r)
BY DEF PullsAgain, ShouldCallPull, Open

\* An enqueue ends no side, or both.
LEMMA EnqueueMoves ==
  ASSUME NEW S \in Worlds, Good(S), NEW chunk \in Nat, PullsAgain(S)
  PROVE  LET T == Enqueue(S, chunk)
         IN  Moves(S, T) /\ PullsAgain(T) /\ (Still(S, T) \/ Shuts(S, T))
<1> DEFINE E == ReadableEnqueue(S, chunk)
           b == ~ShouldCallPull(E.r)
           A == MozAssert(E, "Enqueue", b)
<1>1. CASE ~CanCloseOrEnqueue(S)
  BY <1>1, MovesItself DEF Enqueue
<1>2. CASE CanCloseOrEnqueue(S) /\ Throws(S, chunk)
  <2>1. Enqueue(S, chunk) = ErrorStream(S)
    BY <1>2 DEF Enqueue
  <2>2. Moves(S, ErrorStream(S)) /\ Shuts(S, ErrorStream(S))
    BY ErrorStreamMoves
  <2>3. PullsAgain(ErrorStream(S))
    BY <2>2, ShutPulls DEF Shuts
  <2> QED BY <2>1, <2>2, <2>3
<1>3. CASE CanCloseOrEnqueue(S) /\ ~Throws(S, chunk)
  <2>1. Enqueue(S, chunk) = IF b = E.ts.backpressure THEN E ELSE SetBackpressure(A, TRUE)
    BY <1>3 DEF Enqueue
  <2>2. Good(E) /\ Keeps(S, E) /\ Moves(S, E) /\ Still(S, E) /\ PullsAgain(E)
    BY ReadableEnqueueGood, ReadableEnqueueMoves
  <2>3. b \in BOOLEAN /\ (b <=> ~ShouldCallPull(E.r))
    OBVIOUS
  <2> HIDE DEF E, b
  <2>4. E \in Worlds /\ E.ts.backpressure \in BOOLEAN /\ E.failed \in {"none", "Enqueue"}
    BY <2>2 DEF Good, Worlds, Slots
  <2>5. CASE b = E.ts.backpressure
    BY <2>1, <2>2, <2>5
  <2>6. CASE b # E.ts.backpressure
    <3>1. /\ A \in Worlds /\ A.r = E.r /\ A.w = E.w /\ A.ts = E.ts
          /\ A.ts.backpressure # TRUE \/ A.failed = "Enqueue"
      <4>1. CASE b
        BY <2>3, <2>4, <2>6, <4>1 DEF MozAssert
      <4>2. CASE ~b /\ E.failed # "none"
        BY <2>4, <4>2 DEF MozAssert
      <4>3. CASE ~b /\ E.failed = "none"
        BY <2>4, <4>3, FailedIsAWorld DEF MozAssert
      <4> QED BY <4>1, <4>2, <4>3
    <3> HIDE DEF A
    <3>2. /\ Callable(A) /\ Keeps(S, A) /\ Moves(S, A) /\ Still(S, A)
          /\ PullsAgain(A)
      BY <2>2, <3>1 DEF Good, Callable, Ends, Keeps, Moves, Waits, Still, PullsAgain
    <3>3. ShouldCallPull(A.r) => A.r.pulling # "waiting"
      BY <2>2, <2>3, <2>4, <2>6, <3>1 DEF Good, PullWaits, ShouldCallPull, Open
    <3> DEFINE U == SetBackpressure(A, TRUE)
    <3>4. /\ Moves(A, U) /\ Still(A, U) /\ U \in Worlds
          /\ ShouldCallPull(U.r) <=> ShouldCallPull(A.r)
          /\ PullsAgain(A) /\ A.r.pulling # "waiting" => PullsAgain(U)
      BY <3>1, <3>2, SetBackpressureMoves, SetBackpressureChanges
    <3> HIDE DEF U
    <3>5. PullsAgain(U)
      BY <3>2, <3>3, <3>4 DEF PullsAgain
    <3>6. Moves(S, U) /\ Still(S, U)
      BY <3>1, <3>2, <3>4, MovesTransitive, StillTransitive
    <3> QED BY <2>1, <2>6, <3>5, <3>6 DEF U
  <2> QED BY <2>5, <2>6
<1> QED BY <1>1, <1>2, <1>3


-----------------------------------------------------------------------------
(* What ties the two sides together. *)

\* An error of the writable side, and then its end, comes with an end of the
\* readable side or with an abort, which ends the readable side when the error
\* takes effect; unless start() failed, which the readable side learns next, or
\* the size() of the writable strategy did, which it never learns.  The end of
\* the readable side is the end of the writable side, or of flush().
Linked(S) ==
  /\ S.w.state = "erroring" =>
       \/ ~Open(S.r) \/ S.w.abort = "pending"
       \/ start = "rejected" /\ ~S.w.started
       \/ calls.sizeless # 0
  /\ S.w.state \in {"errored", "closed"} =>
       \/ ~Open(S.r)
       \/ start = "rejected" /\ ~S.r.started
       \/ S.w.state = "errored" /\ calls.sizeless # 0
  /\ ~Open(S.r) => S.w.state # "writable" \/ S.w.inFlight = "close"

\* An error takes effect when nothing is in flight any more.
Lingers(S) == S.w.state = "erroring" => S.w.inFlight # "none" \/ ~S.w.started

\* A write that is blocked waits for a reader.  An operation is refused only
\* with an error, and flush() has ended the readable side before a close ends.
Phased(S) ==
  /\ S.w.phase = "blocked" => S.ts.backpressure /\ Open(S.r)
  /\ S.w.phase = "rejected" =>
       ~Open(S.r) \/ (S.w.inFlight = "write" /\ S.w.state = "erroring")
  /\ S.w.inFlight = "close" /\ S.w.phase \in {"done", "rejected"} => ~Open(S.r)
  /\ S.w.phase = "fulfilled" => S.w.inFlight = "close"

\* The promise of start() calls the writable side first.
Begun(S) ==
  /\ S.r.started => S.w.started
  /\ S.w.started => start # "pending"
  /\ S.w.started /\ start = "rejected" => S.w.state = "errored"
  /\ S.r.started /\ start = "rejected" => S.r.state # "readable"

Tied(S) == Linked(S) /\ Phased(S) /\ Begun(S)

Joined(S) == Tied(S) /\ Lingers(S) /\ PullsAgain(S)

JoinInv ==
  /\ Joined(World)
  /\ readable.requests <= calls.read
  /\ calls.read \in 0..MaxReads
  /\ start \in {"pending", "resolved", "rejected"}

\* An operator that ends no side, or both.
LEMMA StillJoined ==
  ASSUME NEW S \in Worlds, NEW T \in Worlds, Keeps(S, T), Moves(S, T), Still(S, T),
         Paired(S), Tied(S), Lingers(S), PullsAgain(T)
  PROVE  Joined(T)
<1>1. Open(T.r) <=> Open(S.r)
  BY DEF Still, Open
<1>2. Linked(T)
  BY <1>1 DEF Still, Keeps, Moves, Tied, Linked
<1>3. Waits(S)
  BY DEF Tied, Phased, Waits
<1>4. Phased(T)
  BY <1>1, <1>3 DEF Still, Keeps, Moves, Waits, Tied, Phased
<1>5. Begun(T)
  BY DEF Still, Keeps, Moves, Tied, Begun
<1>6. Lingers(T)
  BY DEF Still, Keeps, Lingers
<1> QED BY <1>2, <1>4, <1>5, <1>6 DEF Joined, Tied

LEMMA ShutJoined ==
  ASSUME NEW S \in Worlds, NEW T \in Worlds, Keeps(S, T), Moves(S, T), Shuts(S, T),
         Phased(S), Begun(S), Lingers(S)
  PROVE  Joined(T)
<1>1. ~Open(T.r) /\ T.w.state # "writable" /\ T.w.phase # "blocked"
  BY DEF Shuts, Phased, Waits
<1>2. Linked(T)
  BY <1>1 DEF Linked
<1>3. Phased(T)
  BY <1>1 DEF Keeps, Phased
<1>4. Begun(T)
  BY DEF Keeps, Moves, Begun
<1>5. Lingers(T)
  BY DEF Keeps, Moves, Lingers
<1> QED BY <1>1, <1>2, <1>3, <1>4, <1>5, ShutPulls DEF Joined, Tied

\* A change of queues, requests and flags, before an operator is called.
LEMMA TiedAgain ==
  ASSUME NEW S, NEW T, Tied(S), Lingers(S),
         T.ts = S.ts, T.w.state = S.w.state, T.w.inFlight = S.w.inFlight,
         T.w.phase = S.w.phase, T.w.started = S.w.started, T.r.started = S.r.started,
         T.w.abort = S.w.abort \/ S.w.state # "erroring" \/ S.w.abort # "pending",
         S.r.state # "readable" => T.r.state # "readable",
         Open(T.r) <=> Open(S.r)
  PROVE  Tied(T) /\ Lingers(T)
<1>1. Linked(T)
  BY DEF Tied, Linked
<1>2. Phased(T)
  BY DEF Tied, Phased
<1>3. Begun(T)
  BY DEF Tied, Begun
<1> QED BY <1>1, <1>2, <1>3 DEF Tied, Lingers

LEMMA PullsLike ==
  ASSUME NEW S, NEW T, PullsAgain(S), T.r = S.r
  PROVE  PullsAgain(T)
BY DEF PullsAgain

\* An error takes effect: the readable side has ended, or does so now, unless it
\* is not told.
LEMMA FinishErroringJoined ==
  ASSUME NEW S \in Worlds, Good(S), Paired(S), Tied(S), PullsAgain(S),
         S.w.inFlight = "none", S.w.started, S.w.state = "erroring"
  PROVE  LET T == FinishErroring(S) IN Joined(T) /\ T.r.requests <= S.r.requests
<1> DEFINE T == FinishErroring(S)
<1>1. Good(T) /\ Keeps(S, T) /\ T.w.state = "errored"
  BY FinishErroringGood DEF Good, Callable
<1>2. /\ Moves(S, T) /\ (T.r = S.r \/ ~Open(T.r))
      /\ S.w.abort = "pending" \/ ~Open(S.r) => ~Open(T.r)
  BY FinishErroringMoves DEF Good, Callable
<1> HIDE DEF T
<1>3. ~Open(T.r) \/ calls.sizeless # 0
  BY <1>2 DEF Tied, Linked
<1>4. T.w.phase = "none" /\ T.w.inFlight = "none"
  BY <1>1 DEF Keeps, Paired
<1>5. Linked(T) /\ Phased(T) /\ Lingers(T)
  BY <1>1, <1>3, <1>4 DEF Linked, Phased, Lingers
<1>6. Begun(T)
  BY <1>1, <1>2 DEF Keeps, Moves, Tied, Begun
<1>7. PullsAgain(T)
  BY <1>2, PullsLike, ShutPulls
<1>8. Joined(T)
  BY <1>5, <1>6, <1>7 DEF Joined, Tied
<1> QED BY <1>2, <1>8 DEF T, Moves

LEMMA PerformTransformJoined ==
  ASSUME NEW S \in Worlds, Good(S), NEW chunk \in Nat,
         S.w.state = "writable", S.w.inFlight = "write", S.w.phase # "blocked",
         Open(S.r), PullsAgain(S), Begun(S)
  PROVE  LET T == PerformTransform(S, chunk)
         IN  Joined(T) /\ T.r.requests <= S.r.requests
<1>1. S.ts.algorithms
  BY DEF Good, Callable
<1>2. CASE config.transformer
  <2> DEFINE T == [S EXCEPT !.w.phase = "pending"]
  <2>1. PerformTransform(S, chunk) = T
    BY <1>1, <1>2 DEF PerformTransform
  <2>2. "pending" \in Phases
    BY DEF Phases
  <2>3. /\ T \in Worlds /\ T.r = S.r /\ T.w.state = S.w.state
        /\ T.w.inFlight = S.w.inFlight /\ T.w.started = S.w.started
        /\ T.w.phase = "pending"
    BY <2>2, PhaseIsAWorld
  <2> HIDE DEF T
  <2>4. Linked(T) /\ Phased(T) /\ Begun(T) /\ Lingers(T)
    BY <2>3 DEF Linked, Phased, Begun, Lingers
  <2>5. T.r.requests <= S.r.requests
    BY <2>3 DEF Worlds, Readable
  <2> QED BY <2>1, <2>3, <2>4, <2>5, PullsLike DEF Joined, Tied
<1>3. CASE ~config.transformer
  <2> DEFINE E == Enqueue(S, chunk)
             q == IF Throws(S, chunk) THEN "failed" ELSE "done"
             T == [E EXCEPT !.w.phase = q]
  <2>1. PerformTransform(S, chunk) = T
    BY <1>1, <1>3 DEF PerformTransform
  <2>2. Good(E) /\ Keeps(S, E)
    BY EnqueueGood
  <2>3. Moves(S, E) /\ PullsAgain(E) /\ (Still(S, E) \/ Shuts(S, E))
    BY EnqueueMoves
  <2>4. q \in Phases /\ q \in {"failed", "done"}
    BY DEF Phases
  <2> HIDE DEF E, q
  <2>5. E \in Worlds
    BY <2>2 DEF Good
  <2>6. /\ T \in Worlds /\ T.r = E.r /\ T.w.state = E.w.state
        /\ T.w.inFlight = E.w.inFlight /\ T.w.started = E.w.started
        /\ T.w.phase = q
    BY <2>4, <2>5, PhaseIsAWorld
  <2> HIDE DEF T
  <2>7. T.w.inFlight = "write" /\ T.w.started = S.w.started
    BY <2>2, <2>6 DEF Keeps
  <2>8. Phased(T) /\ Lingers(T)
    BY <2>4, <2>6, <2>7 DEF Phased, Lingers
  <2>9. Begun(T)
    BY <2>2, <2>3, <2>6 DEF Keeps, Moves, Begun
  <2>10. Linked(T)
    <3>1. CASE Still(S, E)
      BY <2>6, <3>1 DEF Still, Linked, Open
    <3>2. CASE Shuts(S, E)
      BY <2>6, <3>2 DEF Shuts, Linked
    <3> QED BY <2>3, <3>1, <3>2
  <2>11. T.r.requests <= S.r.requests
    BY <2>3, <2>6 DEF Moves
  <2> QED BY <2>1, <2>3, <2>6, <2>8, <2>9, <2>10, <2>11, PullsLike DEF Joined, Tied
<1> QED BY <1>2, <1>3

\* A write waits for a reader that is there: the readable side has not ended, for
\* the writable side would have.
LEMMA DefaultSinkWriteJoined ==
  ASSUME NEW S \in Worlds, Good(S), S.w.state = "writable", S.w.inFlight = "write",
         S.w.phase = "none", Open(S.r), PullsAgain(S), Begun(S)
  PROVE  LET T == DefaultSinkWrite(S) IN Joined(T) /\ T.r.requests <= S.r.requests
<1>1. DefaultSinkWrite(S) = IF S.ts.backpressure THEN [S EXCEPT !.w.phase = "blocked"]
                            ELSE PerformTransform(S, Head(S.w.queue))
  BY DEF DefaultSinkWrite, MozAssert
<1>2. CASE S.ts.backpressure
  <2> DEFINE T == [S EXCEPT !.w.phase = "blocked"]
  <2>1. "blocked" \in Phases
    BY DEF Phases
  <2>2. /\ T \in Worlds /\ T.r = S.r /\ T.w.state = S.w.state /\ T.ts = S.ts
        /\ T.w.inFlight = S.w.inFlight /\ T.w.started = S.w.started
        /\ T.w.phase = "blocked"
    BY <2>1, PhaseIsAWorld
  <2> HIDE DEF T
  <2>3. Linked(T) /\ Phased(T) /\ Begun(T) /\ Lingers(T)
    BY <1>2, <2>2 DEF Linked, Phased, Begun, Lingers
  <2>4. T.r.requests <= S.r.requests
    BY <2>2 DEF Worlds, Readable
  <2> QED BY <1>1, <1>2, <2>2, <2>3, <2>4, PullsLike DEF Joined, Tied, T
<1>3. CASE ~S.ts.backpressure
  <2>1. S.w.queue \in Seq(Nat) /\ S.w.queue # <<>>
    BY DEF Worlds, Writable, Good, Callable, Ends
  <2>2. Head(S.w.queue) \in Nat
    BY <2>1, HeadTailProperties
  <2>3. LET T == PerformTransform(S, Head(S.w.queue))
        IN  Joined(T) /\ T.r.requests <= S.r.requests
    BY <2>2, PerformTransformJoined
  <2> QED BY <1>1, <1>3, <2>3
<1> QED BY <1>2, <1>3

LEMMA DefaultSinkCloseJoined ==
  ASSUME NEW S \in Worlds, S.ts.algorithms, S.w.inFlight = "close",
         S.w.state = "writable", PullsAgain(S), Begun(S)
  PROVE  LET T == DefaultSinkClose(S) IN Joined(T) /\ T.r.requests <= S.r.requests
<1> DEFINE q == IF config.transformer THEN "pending" ELSE "fulfilled"
           T == [S EXCEPT !.ts.algorithms = FALSE, !.w.phase = q]
<1>1. DefaultSinkClose(S) = T
  BY DEF DefaultSinkClose
<1>2. q \in Phases /\ q \in {"pending", "fulfilled"}
  BY DEF Phases
<1> HIDE DEF q
<1>3. /\ T \in Worlds /\ T.r = S.r /\ T.w.state = S.w.state
      /\ T.w.inFlight = S.w.inFlight /\ T.w.started = S.w.started /\ T.w.phase = q
  BY <1>2, ClosedIsAWorld
<1> HIDE DEF T
<1>4. Linked(T) /\ Phased(T) /\ Begun(T) /\ Lingers(T)
  BY <1>2, <1>3 DEF Linked, Phased, Begun, Lingers
<1>5. T.r.requests <= S.r.requests
  BY <1>3 DEF Worlds, Readable
<1> QED BY <1>1, <1>3, <1>4, <1>5, PullsLike DEF Joined, Tied

LEMMA AdvanceQueueJoined ==
  ASSUME NEW S \in Worlds, Good(S), Paired(S), S.w.state \in {"writable", "erroring"},
         Tied(S), PullsAgain(S)
  PROVE  LET T == AdvanceQueueIfNeeded(S) IN Joined(T) /\ T.r.requests <= S.r.requests
<1>0. S.r.requests <= S.r.requests
  BY DEF Worlds, Readable
<1>1. CASE ~S.w.started \/ S.w.inFlight # "none"
  BY <1>0, <1>1 DEF AdvanceQueueIfNeeded, Joined, Lingers
<1>2. CASE S.w.started /\ S.w.inFlight = "none" /\ S.w.state = "erroring"
  <2>1. AdvanceQueueIfNeeded(S) = FinishErroring(S)
    BY <1>2 DEF AdvanceQueueIfNeeded
  <2> QED BY <1>2, <2>1, FinishErroringJoined
<1>3. CASE /\ S.w.started /\ S.w.inFlight = "none"
           /\ S.w.state = "writable" /\ S.w.queue = <<>>
  BY <1>0, <1>3 DEF AdvanceQueueIfNeeded, Joined, Lingers
<1>4. CASE /\ S.w.started /\ S.w.inFlight = "none"
           /\ S.w.state = "writable" /\ S.w.queue # <<>> /\ Head(S.w.queue) = Close
  <2> DEFINE C == [S EXCEPT !.w.queue = Tail(@), !.w.inFlight = "close"]
  <2>1. AdvanceQueueIfNeeded(S) = DefaultSinkClose(C)
    BY <1>4 DEF AdvanceQueueIfNeeded
  <2>2. /\ C \in Worlds /\ C.r = S.r /\ C.ts = S.ts /\ C.w.inFlight = "close"
        /\ C.w.state = S.w.state /\ C.w.started = S.w.started
    BY <1>4, CloseIsAWorld
  <2> HIDE DEF C
  <2>3. C.ts.algorithms /\ Begun(C) /\ PullsAgain(C)
    BY <1>4, <2>2, PullsLike DEF Good, Callable, Tied, Begun
  <2>4. LET T == DefaultSinkClose(C) IN Joined(T) /\ T.r.requests <= C.r.requests
    BY <1>4, <2>2, <2>3, DefaultSinkCloseJoined
  <2> QED BY <2>1, <2>2, <2>4
<1>5. CASE /\ S.w.started /\ S.w.inFlight = "none"
           /\ S.w.state = "writable" /\ S.w.queue # <<>> /\ Head(S.w.queue) # Close
  <2> DEFINE C == [S EXCEPT !.w.inFlight = "write"]
  <2>1. AdvanceQueueIfNeeded(S) = DefaultSinkWrite(C)
    BY <1>5 DEF AdvanceQueueIfNeeded
  <2>2. /\ C \in Worlds /\ C.r = S.r /\ C.ts = S.ts /\ C.w.inFlight = "write"
        /\ C.w.state = S.w.state /\ C.w.started = S.w.started
        /\ C.w.queue = S.w.queue /\ C.w.phase = S.w.phase
    BY WritingIsAWorld
  <2> HIDE DEF C
  <2>3. Good(C)
    BY <1>5, <2>2 DEF Good, PullWaits, Callable, Ends
  <2>4. Open(C.r) /\ Begun(C) /\ PullsAgain(C) /\ C.w.phase = "none"
    BY <1>5, <2>2, PullsLike DEF Tied, Linked, Begun, Paired
  <2>5. LET T == DefaultSinkWrite(C) IN Joined(T) /\ T.r.requests <= C.r.requests
    BY <1>5, <2>2, <2>3, <2>4, DefaultSinkWriteJoined
  <2> QED BY <2>1, <2>2, <2>5
<1> QED BY <1>1, <1>2, <1>3, <1>4, <1>5


LEMMA BecomeJoined ==
  ASSUME NEW X, Become(X), X \in Worlds, Joined(X), X.r.requests <= calls'.read,
         calls'.read \in 0..MaxReads, start' = start, config' = config, JoinInv,
         calls.sizeless # 0 => calls'.sizeless # 0
  PROVE  JoinInv'
<1>1. X = [r |-> X.r, w |-> X.w, ts |-> X.ts, failed |-> X.failed, got |-> X.got]
  BY DEF Worlds
<1>2. World' = X /\ readable' = X.r
  BY <1>1 DEF Become, World
<1> QED BY <1>2 DEF JoinInv, Joined, Tied, Linked, Phased, Begun, Lingers, PullsAgain,
                    ShouldCallPull

\* A step that is no read.
LEMMA StepJoined ==
  ASSUME NEW X, Become(X), X \in Worlds, Joined(X), X.r.requests <= World.r.requests,
         Inv, JoinInv,
         \/ Other \/ Count("write", MaxWrites) \/ Count("enqueue", MaxEnqueues)
         \/ Count("cancel", 1)
  PROVE  JoinInv'
<1>1. /\ calls'.read = calls.read /\ start' = start /\ config' = config
      /\ calls'.sizeless = calls.sizeless
  BY DEF Other, Count, Inv, Calls
<1>2. World.r.requests <= calls.read /\ calls.read \in 0..MaxReads
  BY WorldParts DEF JoinInv
<1>3. World.r.requests \in Nat /\ X.r.requests \in Nat
  BY DEF Inv, Good, Worlds, Readable
<1>4. X.r.requests <= calls'.read /\ calls'.read \in 0..MaxReads
  BY <1>1, <1>2, <1>3
<1> QED BY <1>1, <1>4, BecomeJoined

LEMMA JoinedParts ==
  ASSUME Inv, JoinInv
  PROVE  /\ World \in Worlds /\ Good(World) /\ Paired(World)
         /\ Tied(World) /\ Lingers(World) /\ PullsAgain(World)
         /\ World.r.requests \in Nat
BY DEF Inv, JoinInv, Joined, Good, Worlds, Readable

LEMMA InitJoined == Init => JoinInv
<1> SUFFICES ASSUME Init PROVE JoinInv
  OBVIOUS
<1>1. /\ World.r = readable /\ World.w = writable /\ World.ts = ts
      /\ readable.state = "readable" /\ ~readable.started /\ readable.requests = 0
      /\ ~readable.closing
      /\ writable.state = "writable" /\ ~writable.started /\ writable.phase = "none"
      /\ writable.inFlight = "none" /\ start = "pending" /\ calls.read = 0
  BY WorldParts DEF Init
<1>2. Joined(World)
  BY <1>1 DEF Joined, Tied, Linked, Phased, Begun, Lingers, PullsAgain, ShouldCallPull, Open
<1> QED BY <1>1, <1>2, BoundsAssumption DEF JoinInv

LEMMA WriteJoined == Inv /\ JoinInv /\ Write => JoinInv'
<1> SUFFICES ASSUME Inv, JoinInv, Write PROVE JoinInv'
  OBVIOUS
<1> DEFINE n == calls.write + 1
           q == Append(World.w.queue, n)
           T == [World EXCEPT !.w.queue = Append(@, n)]
<1>1. /\ Become(AdvanceQueueIfNeeded(T)) /\ writable.state = "writable"
      /\ Count("write", MaxWrites)
  BY DEF Write
<1>2. n \in Nat
  BY DEF Inv, Calls
<1>3. /\ World \in Worlds /\ Good(World) /\ Paired(World)
      /\ Tied(World) /\ Lingers(World) /\ PullsAgain(World)
  BY JoinedParts
<1>4. /\ Good(T) /\ Paired(T) /\ T \in Worlds /\ T.w.state = "writable"
      /\ Good(AdvanceQueueIfNeeded(T))
  BY <1>1, <1>2, <1>3, WriteQueued, WorldParts, AdvanceQueueGood
<1>5. T = [World EXCEPT !.w.queue = q]
  OBVIOUS
<1> HIDE DEF q, T
<1>6. /\ T.r = World.r /\ T.ts = World.ts /\ T.w.state = World.w.state
      /\ T.w.inFlight = World.w.inFlight /\ T.w.phase = World.w.phase
      /\ T.w.started = World.w.started /\ T.w.abort = World.w.abort
  BY <1>3, <1>5 DEF Worlds, Writable
<1>7. Tied(T) /\ PullsAgain(T)
  BY <1>3, <1>6, TiedAgain, PullsLike
<1>8. /\ Joined(AdvanceQueueIfNeeded(T))
      /\ AdvanceQueueIfNeeded(T).r.requests <= World.r.requests
  BY <1>4, <1>6, <1>7, AdvanceQueueJoined
<1> QED BY <1>1, <1>4, <1>8, StepJoined DEF Good

LEMMA SizelessBecomes ==
  ASSUME NEW X, Become(X), X \in Worlds, X.w.state \in {"erroring", "errored"},
         Phased(X), Begun(X), Lingers(X), PullsAgain(X), X.r.requests <= calls.read,
         Inv, JoinInv, Count("sizeless", 1)
  PROVE  JoinInv'
<1>1. X = [r |-> X.r, w |-> X.w, ts |-> X.ts, failed |-> X.failed, got |-> X.got]
  BY DEF Worlds
<1>2. World' = X /\ readable' = X.r
  BY <1>1 DEF Become, World
<1>3. /\ start' = start /\ config' = config /\ calls'.read = calls.read
      /\ calls'.sizeless = calls.sizeless + 1 /\ calls.sizeless \in Nat
  BY DEF Count, Inv, Calls
<1>4. Linked(World)'
  BY <1>2, <1>3 DEF Linked
<1> QED BY <1>2, <1>3, <1>4 DEF JoinInv, Joined, Tied, Phased, Begun, Lingers, PullsAgain,
                                ShouldCallPull

\* A chunk without a size makes the writable side erroring, or ends it at once,
\* and does not touch the readable side.
LEMMA WriteSizelessJoined == Inv /\ JoinInv /\ WriteSizeless => JoinInv'
<1> SUFFICES ASSUME Inv, JoinInv, WriteSizeless PROVE JoinInv'
  OBVIOUS
<1> DEFINE T == StartErroring(World)
<1>1. Become(T) /\ World.w.state = "writable" /\ Count("sizeless", 1)
  BY WorldParts DEF WriteSizeless
<1>2. /\ World \in Worlds /\ Good(World) /\ Paired(World)
      /\ Tied(World) /\ Lingers(World) /\ PullsAgain(World) /\ World.r.requests \in Nat
  BY JoinedParts
<1>3. PullWaits(World) /\ Ends(World)
  BY <1>2 DEF Good, Callable
<1>4. Good(T) /\ Keeps(World, T) /\ T \in Worlds
  BY <1>1, <1>2, <1>3, StartErroringGood DEF Good
<1>5. /\ Moves(World, T) /\ (T.r = World.r \/ ~Open(T.r))
      /\ \/ T.w.state = "erroring" /\ T.w.abort = World.w.abort /\ T.r = World.r
         \/ T.w.state = "errored"
  BY <1>1, <1>2, <1>3, StartErroringMoves
<1> HIDE DEF T
<1>8. Lingers(T)
  BY <1>1, <1>3, <1>4, <1>5 DEF Lingers, Moves, Keeps
<1>9. Begun(T)
  BY <1>1, <1>2, <1>4, <1>5 DEF Begun, Moves, Keeps, Tied
<1>10. PullsAgain(T)
  BY <1>2, <1>5, PullsLike, ShutPulls
<1>11. /\ T.w.phase \in {World.w.phase, "unblocked"} /\ T.w.inFlight = World.w.inFlight
       /\ T.w.phase = "blocked" => World.w.phase = "blocked"
       /\ T.w.phase = "unblocked" \/ T.w.phase = World.w.phase
       /\ T.w.phase = "none" <=> T.w.inFlight = "none"
  BY <1>2, <1>4 DEF Keeps, Paired
<1>12. T.w.inFlight # "none" => T.w.state = "erroring" /\ T.r = World.r
  BY <1>4, <1>5 DEF Good, Callable, Ends
<1>13. Phased(T)
  BY <1>2, <1>5, <1>11, <1>12 DEF Phased, Waits, Moves, Tied
<1>14. T.r.requests <= calls.read /\ calls.read \in 0..MaxReads
  BY <1>2, <1>4, <1>5, WorldParts DEF JoinInv, Moves, Worlds, Readable
<1> QED BY <1>1, <1>4, <1>5, <1>8, <1>9, <1>10, <1>13, <1>14, SizelessBecomes

LEMMA WriterCloseJoined == Inv /\ JoinInv /\ WriterClose => JoinInv'
<1> SUFFICES ASSUME Inv, JoinInv, WriterClose PROVE JoinInv'
  OBVIOUS
<1> DEFINE q == Append(World.w.queue, Close)
           T == [World EXCEPT !.w.queue = Append(@, Close), !.w.closing = TRUE]
<1>1. /\ Become(AdvanceQueueIfNeeded(T)) /\ writable.state \in {"writable", "erroring"}
      /\ Other
  BY DEF WriterClose
<1>2. /\ World \in Worlds /\ Good(World) /\ Paired(World)
      /\ Tied(World) /\ Lingers(World) /\ PullsAgain(World)
  BY JoinedParts
<1>3. Good(T) /\ Paired(T) /\ T \in Worlds /\ T.w.state = World.w.state
  BY <1>2, CloseQueued
<1>4. T = [World EXCEPT !.w.queue = q, !.w.closing = TRUE]
  OBVIOUS
<1> HIDE DEF q, T
<1>5. /\ T.r = World.r /\ T.ts = World.ts
      /\ T.w.inFlight = World.w.inFlight /\ T.w.phase = World.w.phase
      /\ T.w.started = World.w.started /\ T.w.abort = World.w.abort
  BY <1>2, <1>4 DEF Worlds, Writable
<1>6. Tied(T) /\ PullsAgain(T) /\ T.w.state \in {"writable", "erroring"}
  BY <1>1, <1>2, <1>3, <1>5, TiedAgain, PullsLike, WorldParts
<1>7. /\ Joined(AdvanceQueueIfNeeded(T)) /\ Good(AdvanceQueueIfNeeded(T))
      /\ AdvanceQueueIfNeeded(T).r.requests <= World.r.requests
  BY <1>3, <1>5, <1>6, AdvanceQueueJoined, AdvanceQueueGood
<1> QED BY <1>1, <1>7, StepJoined DEF Good

\* An abort makes the writable side erroring or, when nothing is in flight, ends
\* both sides at once.
LEMMA AbortJoined == Inv /\ JoinInv /\ Abort => JoinInv'
<1> SUFFICES ASSUME Inv, JoinInv, Abort PROVE JoinInv'
  OBVIOUS
<1> DEFINE P == [World EXCEPT !.w.abort = "pending"]
           L == [World EXCEPT !.w.abort = "late"]
<1>1. /\ Become(IF writable.state = "writable" THEN StartErroring(P) ELSE L)
      /\ Other /\ World.w.abort = "none"
  BY WorldParts DEF Abort
<1>2. /\ World \in Worlds /\ Good(World) /\ Paired(World)
      /\ Tied(World) /\ Lingers(World) /\ PullsAgain(World) /\ World.r.requests \in Nat
  BY JoinedParts
<1>3. /\ Good(P) /\ Paired(P) /\ P.w.state = World.w.state /\ P \in Worlds
      /\ L \in Worlds
  BY <1>2, AbortNoted
<1>4. /\ P.r = World.r /\ P.ts = World.ts /\ P.w.abort = "pending"
      /\ P.w.inFlight = World.w.inFlight /\ P.w.phase = World.w.phase
      /\ P.w.started = World.w.started
  BY <1>2 DEF Worlds, Writable
<1>5. /\ L.r = World.r /\ L.ts = World.ts /\ L.w.state = World.w.state
      /\ L.w.inFlight = World.w.inFlight /\ L.w.phase = World.w.phase
      /\ L.w.started = World.w.started
  BY <1>2 DEF Worlds, Writable
<1> HIDE DEF P, L
<1>6. CASE writable.state = "writable"
  <2> DEFINE T == StartErroring(P)
  <2>1. P.w.state = "writable" /\ PullWaits(P) /\ Ends(P)
    BY <1>3, <1>6, WorldParts DEF Good, Callable
  <2>2. Good(T) /\ Keeps(P, T)
    BY <1>3, <2>1, StartErroringGood
  <2>3. /\ Moves(P, T) /\ (T.r = P.r \/ ~Open(T.r))
        /\ \/ T.w.state = "erroring" /\ T.w.abort = P.w.abort /\ T.r = P.r
           \/ /\ T.w.state = "errored"
              /\ P.w.abort = "pending" \/ ~Open(P.r) => ~Open(T.r)
    BY <1>3, <2>1, StartErroringMoves
  <2>4. Tied(P) /\ Lingers(P) /\ PullsAgain(P)
    BY <1>1, <1>2, <1>3, <1>4, TiedAgain, PullsLike
  <2> HIDE DEF T
  <2>5. T.w.state = "erroring" \/ (T.w.state = "errored" /\ ~Open(T.r))
    BY <1>4, <2>3
  <2>6. T.w.state = "erroring" => T.w.abort = "pending" /\ T.r = P.r
    BY <1>4, <2>3
  <2>7. Linked(T) /\ PullsAgain(T)
    BY <2>4, <2>5, <2>6, PullsLike, ShutPulls DEF Linked
  <2>8. Lingers(T)
    BY <2>1, <2>2, <2>3 DEF Lingers, Moves, Keeps
  <2>9. Begun(T)
    BY <2>2, <2>3, <2>4 DEF Begun, Moves, Keeps, Tied
  <2>10. T.w.inFlight # "none" => T.w.state = "erroring"
    BY <2>2, <2>5 DEF Good, Callable, Ends
  <2>11. T.w.phase \in {P.w.phase, "unblocked"} /\ T.w.inFlight = P.w.inFlight
         /\ (T.w.phase = "none" <=> T.w.inFlight = "none")
    BY <1>3, <2>2 DEF Keeps, Paired
  <2>12. Phased(T)
    BY <2>1, <2>2, <2>3, <2>4, <2>5, <2>6, <2>10, <2>11
       DEF Phased, Waits, Moves, Keeps, Tied
  <2>13. T.r.requests <= World.r.requests
    BY <1>4, <2>3 DEF Moves
  <2>14. Joined(T)
    BY <2>7, <2>8, <2>9, <2>12 DEF Joined, Tied
  <2> QED BY <1>1, <1>6, <2>2, <2>13, <2>14, StepJoined DEF T, Good
<1>7. CASE writable.state # "writable"
  <2>1. Tied(L) /\ Lingers(L) /\ PullsAgain(L)
    BY <1>1, <1>2, <1>5, TiedAgain, PullsLike
  <2>2. L.r.requests <= World.r.requests
    BY <1>2, <1>5
  <2> QED BY <1>1, <1>3, <1>7, <2>1, <2>2, StepJoined DEF Joined
<1> QED BY <1>6, <1>7

LEMMA ReadJoined == Inv /\ JoinInv /\ Read => JoinInv'
<1> SUFFICES ASSUME Inv, JoinInv, Read PROVE JoinInv'
  OBVIOUS
<1> DEFINE n == World.r.requests + 1
           g == Append(World.got, Head(readable.queue))
           q == Tail(World.r.queue)
           R == [World EXCEPT !.r.requests = n]
           T == [World EXCEPT !.got = g, !.r.queue = q]
<1>1. /\ Become(IF readable.queue = <<>> THEN CallPullIfNeeded(R)
                ELSE IF T.r.closing /\ T.r.queue = <<>> THEN CloseNow(T)
                                                        ELSE CallPullIfNeeded(T))
      /\ Count("read", MaxReads)
  BY DEF Read
<1>2. /\ World \in Worlds /\ Good(World) /\ Paired(World)
      /\ Tied(World) /\ Lingers(World) /\ PullsAgain(World) /\ World.r.requests \in Nat
  BY JoinedParts
<1>3. /\ calls'.read = calls.read + 1 /\ calls.read \in Nat /\ calls'.read \in 0..MaxReads
      /\ calls'.sizeless = calls.sizeless /\ start' = start /\ config' = config
  BY <1>1, BoundsAssumption DEF Count, Inv, Calls
<1>4. World.r.requests <= calls.read
  BY WorldParts DEF JoinInv
<1>5. CASE readable.queue = <<>>
  <2> DEFINE U == CallPullIfNeeded(R)
  <2>1. Good(R) /\ Paired(R) /\ R \in Worlds
    BY <1>2, RequestAdded
  <2>2. /\ R.w = World.w /\ R.ts = World.ts /\ R.r.state = World.r.state
        /\ R.r.closing = World.r.closing /\ R.r.started = World.r.started
        /\ R.r.requests = n
    BY <1>2 DEF Worlds, Readable
  <2> HIDE DEF R
  <2>3. Tied(R) /\ Lingers(R)
    BY <1>2, <2>2, TiedAgain DEF Open
  <2>4. U \in Worlds /\ Keeps(R, U) /\ Moves(R, U) /\ Still(R, U) /\ PullsAgain(U)
    BY <2>1, CallPullIfNeededGood, CallPullIfNeededMoves DEF Good
  <2> HIDE DEF U
  <2>5. Joined(U)
    BY <2>1, <2>3, <2>4, StillJoined
  <2>6. U.r.requests <= calls'.read
    BY <1>2, <1>3, <1>4, <2>2, <2>4 DEF Moves, Worlds, Readable
  <2>7. Become(U)
    BY <1>1, <1>5 DEF U
  <2> QED BY <1>3, <2>4, <2>5, <2>6, <2>7, BecomeJoined
<1>6. CASE readable.queue # <<>>
  <2>1. Good(T) /\ Paired(T) /\ T \in Worlds
    BY <1>2, <1>6, ChunkRead, WorldParts
  <2> HIDE DEF g, q
  <2>2. /\ T.w = World.w /\ T.ts = World.ts /\ T.r.state = World.r.state
        /\ T.r.closing = World.r.closing /\ T.r.started = World.r.started
        /\ T.r.requests = World.r.requests
    BY <1>2 DEF Worlds, Readable
  <2> HIDE DEF T
  <2>3. Tied(T) /\ Lingers(T)
    BY <1>2, <2>2, TiedAgain DEF Open
  <2>4. CASE T.r.closing /\ T.r.queue = <<>>
    <3> DEFINE U == CloseNow(T)
    <3>1. /\ U \in Worlds /\ Keeps(T, U) /\ Moves(T, U) /\ ~Open(U.r)
          /\ U.w = T.w /\ U.ts = T.ts
      BY <2>1, CloseNowGood, CloseNowMoves DEF Good
    <3> HIDE DEF U
    <3>2. ~Open(T.r)
      BY <2>4 DEF Open
    <3>3. U.r.started = T.r.started /\ (T.r.state # "readable" => U.r.state # "readable")
      BY <3>1 DEF Moves
    <3>4. Tied(U) /\ Lingers(U)
      BY <2>3, <3>1, <3>2, <3>3, TiedAgain
    <3>5. Joined(U)
      BY <3>1, <3>4, ShutPulls DEF Joined
    <3>6. U.r.requests <= calls'.read
      BY <1>2, <1>3, <1>4, <2>2, <3>1 DEF Moves, Worlds, Readable
    <3>7. Become(U)
      BY <1>1, <1>6, <2>4 DEF U
    <3> QED BY <1>3, <3>1, <3>5, <3>6, <3>7, BecomeJoined
  <2>5. CASE ~(T.r.closing /\ T.r.queue = <<>>)
    <3> DEFINE U == CallPullIfNeeded(T)
    <3>1. U \in Worlds /\ Keeps(T, U) /\ Moves(T, U) /\ Still(T, U) /\ PullsAgain(U)
      BY <2>1, CallPullIfNeededGood, CallPullIfNeededMoves DEF Good
    <3> HIDE DEF U
    <3>2. Joined(U)
      BY <2>1, <2>3, <3>1, StillJoined
    <3>3. U.r.requests <= calls'.read
      BY <1>2, <1>3, <1>4, <2>2, <3>1 DEF Moves, Worlds, Readable
    <3>4. Become(U)
      BY <1>1, <1>6, <2>5 DEF U
    <3> QED BY <1>3, <3>1, <3>2, <3>3, <3>4, BecomeJoined
  <2> QED BY <2>4, <2>5
<1> QED BY <1>5, <1>6

LEMMA CancelJoined == Inv /\ JoinInv /\ Cancel => JoinInv'
<1> SUFFICES ASSUME Inv, JoinInv, Cancel PROVE JoinInv'
  OBVIOUS
<1> DEFINE C == CloseNow(World)
           T == ErrorWritableAndUnblockWrite(C)
<1>1. Become(T) /\ Count("cancel", 1)
  BY DEF Cancel
<1>2. /\ World \in Worlds /\ Good(World) /\ Paired(World)
      /\ Tied(World) /\ Lingers(World)
  BY JoinedParts
<1>3. Good(C) /\ Keeps(World, C) /\ Moves(World, C) /\ ~Open(C.r) /\ C \in Worlds
  BY <1>2, CloseNowGood, CloseNowMoves DEF Good
<1> HIDE DEF C
<1>4. Good(T) /\ Keeps(C, T) /\ Moves(C, T) /\ Shuts(C, T) /\ T \in Worlds
  BY <1>3, ErrorWritableGood, ErrorWritableMoves DEF Good
<1> HIDE DEF T
<1>5. Keeps(World, T) /\ Moves(World, T) /\ Shuts(World, T)
  BY <1>2, <1>3, <1>4, KeepsTransitive, ShutsAfter
<1>6. Joined(T) /\ T.r.requests <= World.r.requests
  BY <1>2, <1>4, <1>5, ShutJoined DEF Moves, Tied
<1> QED BY <1>1, <1>4, <1>6, StepJoined


LEMMA ControllerJoined ==
  Inv /\ JoinInv /\ (ControllerEnqueue \/ ControllerError \/ ControllerTerminate) => JoinInv'
<1> SUFFICES ASSUME Inv, JoinInv, ControllerEnqueue \/ ControllerError \/ ControllerTerminate
             PROVE  JoinInv'
  OBVIOUS
<1>1. /\ World \in Worlds /\ Good(World) /\ Paired(World)
      /\ Tied(World) /\ Lingers(World) /\ PullsAgain(World)
  BY JoinedParts
<1>2. CASE ControllerEnqueue
  <2> DEFINE n == calls.enqueue + 1
             T == Enqueue(World, n)
  <2>1. Become(T) /\ Count("enqueue", MaxEnqueues)
    BY <1>2 DEF ControllerEnqueue
  <2>2. n \in Nat
    BY DEF Inv, Calls
  <2> HIDE DEF n
  <2>3. Keeps(World, T) /\ T \in Worlds
    BY <1>1, <2>2, EnqueueGood DEF Good
  <2>4. Moves(World, T) /\ PullsAgain(T) /\ (Still(World, T) \/ Shuts(World, T))
    BY <1>1, <2>2, EnqueueMoves
  <2> HIDE DEF T
  <2>5. Joined(T)
    BY <1>1, <2>3, <2>4, StillJoined, ShutJoined DEF Tied
  <2> QED BY <2>1, <2>3, <2>4, <2>5, StepJoined DEF Moves
<1>3. CASE ControllerError
  <2> DEFINE T == ErrorStream(World)
  <2>1. Become(T) /\ Other
    BY <1>3 DEF ControllerError
  <2>2. Keeps(World, T) /\ Moves(World, T) /\ Shuts(World, T) /\ T \in Worlds
    BY <1>1, ErrorStreamGood, ErrorStreamMoves DEF Good
  <2> HIDE DEF T
  <2>3. Joined(T)
    BY <1>1, <2>2, ShutJoined DEF Tied
  <2> QED BY <2>1, <2>2, <2>3, StepJoined DEF Moves
<1>4. CASE ControllerTerminate
  <2> DEFINE T == Terminate(World)
  <2>1. Become(T) /\ Other
    BY <1>4 DEF ControllerTerminate
  <2>2. Keeps(World, T) /\ Moves(World, T) /\ Shuts(World, T) /\ T \in Worlds
    BY <1>1, TerminateGood, TerminateMoves DEF Good
  <2> HIDE DEF T
  <2>3. Joined(T)
    BY <1>1, <2>2, ShutJoined DEF Tied
  <2> QED BY <2>1, <2>2, <2>3, StepJoined DEF Moves
<1> QED BY <1>2, <1>3, <1>4

\* Another phase of what is in flight.
LEMMA PhaseJoined ==
  ASSUME Inv, JoinInv, NEW q \in Phases, q # "blocked",
         q = "rejected" => writable.inFlight = "write" /\ writable.state = "erroring",
         writable.inFlight = "close" => q # "done",
         q = "fulfilled" => writable.inFlight = "close"
  PROVE  LET T == [World EXCEPT !.w.phase = q]
         IN  T \in Worlds /\ Joined(T) /\ T.r.requests <= World.r.requests
<1> DEFINE T == [World EXCEPT !.w.phase = q]
<1>1. /\ World \in Worlds /\ Good(World) /\ Paired(World) /\ World.r.requests \in Nat
      /\ Tied(World) /\ Lingers(World) /\ PullsAgain(World)
  BY JoinedParts
<1>2. /\ T \in Worlds /\ T.r = World.r /\ T.ts = World.ts /\ T.w.state = World.w.state
      /\ T.w.inFlight = World.w.inFlight /\ T.w.started = World.w.started
      /\ T.w.phase = q
  BY <1>1, PhaseIsAWorld
<1>3. T.w.abort = World.w.abort
  BY <1>1 DEF Worlds, Writable
<1> HIDE DEF T
<1>4. Linked(T) /\ Begun(T) /\ Lingers(T)
  BY <1>1, <1>2, <1>3 DEF Tied, Linked, Begun, Lingers
<1>5. Phased(T)
  BY <1>2, WorldParts DEF Phased
<1>6. PullsAgain(T)
  BY <1>1, <1>2, PullsLike
<1>7. T.r.requests <= World.r.requests
  BY <1>1, <1>2
<1> QED BY <1>2, <1>4, <1>5, <1>6, <1>7 DEF Joined, Tied, T

LEMMA SettleJoined == Inv /\ JoinInv /\ Settle => JoinInv'
<1> SUFFICES ASSUME Inv, JoinInv, Settle PROVE JoinInv'
  OBVIOUS
<1>1. PICK how \in {IF writable.inFlight = "write" THEN "done" ELSE "fulfilled", "failed"} :
        Become([World EXCEPT !.w.phase = how])
  BY DEF Settle
<1>2. writable.phase = "pending" /\ Other
  BY DEF Settle
<1>3. writable.inFlight \in {"write", "close"}
  BY <1>2, JoinedParts, WorldParts DEF Paired, Worlds, Writable
<1>4. /\ how \in Phases /\ how # "blocked" /\ how # "rejected"
      /\ writable.inFlight = "close" => how # "done"
  BY <1>3 DEF Phases
<1>5. how = "fulfilled" => writable.inFlight = "close"
  BY <1>3
<1> DEFINE T == [World EXCEPT !.w.phase = how]
<1>6. T \in Worlds /\ Joined(T) /\ T.r.requests <= World.r.requests
  BY <1>4, <1>5, PhaseJoined
<1> HIDE DEF T
<1> QED BY <1>1, <1>2, <1>6, StepJoined DEF T

\* When start() has failed the readable side learns of it next.
LEMMA WritableStartedJoined == Inv /\ JoinInv /\ WritableStarted => JoinInv'
<1> SUFFICES ASSUME Inv, JoinInv, WritableStarted PROVE JoinInv'
  OBVIOUS
<1> DEFINE T == [World EXCEPT !.w.started = TRUE]
<1>1. /\ Become(IF start = "resolved" THEN AdvanceQueueIfNeeded(T) ELSE DealWithRejection(T))
      /\ Other /\ ~World.w.started /\ start \in {"resolved", "rejected"}
  BY WorldParts DEF WritableStarted, JoinInv
<1>2. /\ World \in Worlds /\ Good(World) /\ Paired(World) /\ World.r.requests \in Nat
      /\ Tied(World) /\ Lingers(World) /\ PullsAgain(World)
  BY JoinedParts
<1>3. /\ Good(T) /\ Paired(T) /\ T \in Worlds /\ T.w.started
      /\ T.w.inFlight = "none" /\ T.w.state \in {"writable", "erroring"}
  BY <1>1, <1>2, WritableStarts
<1>4. /\ T.r = World.r /\ T.ts = World.ts /\ T.w.state = World.w.state
      /\ T.w.inFlight = World.w.inFlight /\ T.w.phase = World.w.phase
      /\ T.w.abort = World.w.abort
  BY <1>2 DEF Worlds, Writable
<1> HIDE DEF T
<1>5. PullsAgain(T)
  BY <1>2, <1>4, PullsLike
<1>6. CASE start = "resolved"
  <2> DEFINE U == AdvanceQueueIfNeeded(T)
  <2>1. Tied(T)
    BY <1>1, <1>2, <1>3, <1>4, <1>6 DEF Tied, Linked, Phased, Begun
  <2>2. U \in Worlds /\ Joined(U) /\ U.r.requests <= T.r.requests
    BY <1>3, <1>5, <2>1, AdvanceQueueGood, AdvanceQueueJoined DEF Good
  <2> HIDE DEF U
  <2> QED BY <1>1, <1>4, <1>6, <2>2, StepJoined DEF U
<1>7. CASE start = "rejected"
  <2> DEFINE U == DealWithRejection(T)
  <2>1. U \in Worlds /\ Keeps(T, U)
    BY <1>3, DealWithRejectionGood DEF Good, Callable
  <2>2. Moves(T, U) /\ (T.r = U.r \/ ~Open(U.r)) /\ U.w.state = "errored"
    BY <1>3, DealWithRejectionMoves DEF Good, Callable
  <2> HIDE DEF U
  <2>3. ~U.r.started /\ U.w.phase = "none" /\ U.w.inFlight = "none"
    BY <1>1, <1>2, <1>3, <1>4, <2>1, <2>2 DEF Tied, Begun, Moves, Keeps, Paired
  <2>4. Linked(U) /\ Phased(U) /\ Begun(U) /\ Lingers(U)
    BY <1>7, <2>2, <2>3 DEF Linked, Phased, Begun, Lingers
  <2>5. PullsAgain(U)
    BY <1>5, <2>2, PullsLike, ShutPulls
  <2>6. U.r.requests <= World.r.requests
    BY <1>4, <2>2 DEF Moves
  <2> QED BY <1>1, <1>7, <2>1, <2>4, <2>5, <2>6, StepJoined DEF Joined, Tied, U
<1> QED BY <1>1, <1>6, <1>7

LEMMA ReadableStartedJoined == Inv /\ JoinInv /\ ReadableStarted => JoinInv'
<1> SUFFICES ASSUME Inv, JoinInv, ReadableStarted PROVE JoinInv'
  OBVIOUS
<1> DEFINE T == [World EXCEPT !.r.started = TRUE]
<1>1. /\ Become(IF start = "resolved" THEN CallPullIfNeeded(T) ELSE ReadableError(T))
      /\ Other /\ World.w.started /\ ~World.r.started
  BY WorldParts DEF ReadableStarted
<1>2. /\ World \in Worlds /\ Good(World) /\ Paired(World) /\ World.r.requests \in Nat
      /\ Tied(World) /\ Lingers(World) /\ PullsAgain(World)
  BY JoinedParts
<1>3. start \in {"resolved", "rejected"}
  BY <1>1, <1>2 DEF JoinInv, Tied, Begun
<1>4. Good(T) /\ Paired(T) /\ T \in Worlds
  BY <1>2, ReadableStarts
<1>5. /\ T.w = World.w /\ T.ts = World.ts /\ T.r.state = World.r.state
      /\ T.r.closing = World.r.closing /\ T.r.requests = World.r.requests /\ T.r.started
  BY <1>2 DEF Worlds, Readable
<1> HIDE DEF T
<1>6. Phased(T) /\ Lingers(T)
  BY <1>2, <1>5 DEF Tied, Phased, Lingers, Open
<1>7. CASE start = "resolved"
  <2> DEFINE U == CallPullIfNeeded(T)
  <2>1. Tied(T)
    BY <1>1, <1>2, <1>5, <1>6, <1>7 DEF Tied, Linked, Begun, Open
  <2>2. U \in Worlds /\ Keeps(T, U) /\ Moves(T, U) /\ Still(T, U) /\ PullsAgain(U)
    BY <1>4, CallPullIfNeededGood, CallPullIfNeededMoves DEF Good
  <2> HIDE DEF U
  <2>3. Joined(U)
    BY <1>4, <1>6, <2>1, <2>2, StillJoined
  <2>4. U.r.requests <= World.r.requests
    BY <1>5, <2>2 DEF Moves
  <2> QED BY <1>1, <1>7, <2>2, <2>3, <2>4, StepJoined DEF U
<1>8. CASE start = "rejected"
  <2> DEFINE U == ReadableError(T)
  <2>1. U \in Worlds /\ Keeps(T, U) /\ ~Open(U.r)
    BY <1>4, ReadableErrorGood DEF Good
  <2>2. Moves(T, U) /\ U.w = T.w /\ U.r.state # "readable"
    BY <1>4, ReadableErrorMoves
  <2> HIDE DEF U
  <2>3. World.w.state = "errored" /\ World.w.inFlight = "none" /\ World.w.phase = "none"
    BY <1>1, <1>2, <1>8 DEF Tied, Begun, Good, Callable, Ends, Paired
  <2>4. Linked(U) /\ Phased(U) /\ Begun(U) /\ Lingers(U)
    BY <1>1, <1>5, <1>8, <2>1, <2>2, <2>3 DEF Linked, Phased, Begun, Lingers
  <2>5. U.r.requests <= World.r.requests
    BY <1>5, <2>2 DEF Moves
  <2> QED BY <1>1, <1>8, <2>1, <2>4, <2>5, ShutPulls, StepJoined DEF Joined, Tied, U
<1> QED BY <1>3, <1>7, <1>8

LEMMA PulledJoined == Inv /\ JoinInv /\ Pulled => JoinInv'
<1> SUFFICES ASSUME Inv, JoinInv, Pulled PROVE JoinInv'
  OBVIOUS
<1> DEFINE T == [World EXCEPT !.r.pulling = "no", !.r.pullAgain = FALSE]
<1>1. /\ Become(IF readable.pullAgain THEN CallPullIfNeeded(T) ELSE T)
      /\ Other /\ World.r.pulling = "resolved"
  BY WorldParts DEF Pulled
<1>2. /\ World \in Worlds /\ Good(World) /\ Paired(World) /\ World.r.requests \in Nat
      /\ Tied(World) /\ Lingers(World) /\ PullsAgain(World)
  BY JoinedParts
<1>3. Good(T) /\ Paired(T) /\ T \in Worlds
  BY <1>1, <1>2, PullEnds
<1>4. /\ T.w = World.w /\ T.ts = World.ts /\ T.r.state = World.r.state
      /\ T.r.closing = World.r.closing /\ T.r.started = World.r.started
      /\ T.r.requests = World.r.requests /\ T.r.queue = World.r.queue
  BY <1>2 DEF Worlds, Readable
<1> HIDE DEF T
<1>5. Tied(T) /\ Lingers(T)
  BY <1>2, <1>4, TiedAgain DEF Open
<1>6. CASE readable.pullAgain
  <2> DEFINE U == CallPullIfNeeded(T)
  <2>1. U \in Worlds /\ Keeps(T, U) /\ Moves(T, U) /\ Still(T, U) /\ PullsAgain(U)
    BY <1>3, CallPullIfNeededGood, CallPullIfNeededMoves DEF Good
  <2> HIDE DEF U
  <2>2. Joined(U)
    BY <1>3, <1>5, <2>1, StillJoined
  <2>3. U.r.requests <= World.r.requests
    BY <1>4, <2>1 DEF Moves
  <2> QED BY <1>1, <1>6, <2>1, <2>2, <2>3, StepJoined DEF U
<1>7. CASE ~readable.pullAgain
  <2>1. ~ShouldCallPull(World.r)
    BY <1>1, <1>2, <1>7, WorldParts DEF PullsAgain
  <2>2. PullsAgain(T)
    BY <1>4, <2>1 DEF PullsAgain, ShouldCallPull
  <2>3. T.r.requests <= World.r.requests
    BY <1>2, <1>4
  <2> QED BY <1>1, <1>3, <1>5, <1>7, <2>2, <2>3, StepJoined DEF Joined
<1> QED BY <1>6, <1>7


LEMMA WriteUnblockedJoined == Inv /\ JoinInv /\ WriteUnblocked => JoinInv'
<1> SUFFICES ASSUME Inv, JoinInv, WriteUnblocked PROVE JoinInv'
  OBVIOUS
<1>1. /\ World \in Worlds /\ Good(World) /\ Paired(World)
      /\ Tied(World) /\ Lingers(World) /\ PullsAgain(World)
      /\ Other /\ writable.phase = "unblocked"
  BY JoinedParts DEF WriteUnblocked
<1>2. /\ writable.inFlight = "write" /\ writable.state \in {"writable", "erroring"}
      /\ writable.queue # <<>> /\ writable.queue \in Seq(Nat)
  BY <1>1, WorldParts DEF Good, Callable, Ends, Paired, Worlds, Writable
<1>3. CASE writable.state = "erroring"
  <2> DEFINE T == [World EXCEPT !.w.phase = "rejected"]
  <2>1. Become(T)
    BY <1>3 DEF WriteUnblocked
  <2>2. "rejected" \in Phases
    BY DEF Phases
  <2>3. T \in Worlds /\ Joined(T) /\ T.r.requests <= World.r.requests
    BY <1>2, <1>3, <2>2, PhaseJoined
  <2> HIDE DEF T
  <2> QED BY <1>1, <2>1, <2>3, StepJoined
<1>4. CASE writable.state = "writable"
  <2> DEFINE T == PerformTransform(World, Head(writable.queue))
  <2>1. MozAssert(World, "unblocked", writable.state = "writable") = World
    BY <1>4 DEF MozAssert
  <2>2. Become(T)
    BY <1>4, <2>1 DEF WriteUnblocked
  <2>3. Head(writable.queue) \in Nat
    BY <1>2, HeadTailProperties
  <2>4. Open(World.r) /\ Begun(World)
    BY <1>1, <1>2, <1>4, WorldParts DEF Tied, Linked
  <2>5. Good(T)
    BY <1>1, <1>2, <1>4, <2>3, WorldParts, PerformTransformGood
  <2>6. Joined(T) /\ T.r.requests <= World.r.requests
    BY <1>1, <1>2, <1>4, <2>3, <2>4, WorldParts, PerformTransformJoined
  <2> HIDE DEF T
  <2> QED BY <1>1, <2>2, <2>5, <2>6, StepJoined DEF Good
<1> QED BY <1>2, <1>3, <1>4

LEMMA TransformerFailedJoined == Inv /\ JoinInv /\ TransformerFailed => JoinInv'
<1> SUFFICES ASSUME Inv, JoinInv, TransformerFailed PROVE JoinInv'
  OBVIOUS
<1> DEFINE E == ErrorStream(World)
           T == [E EXCEPT !.w.phase = "rejected"]
<1>1. Become(T) /\ Other
  BY DEF TransformerFailed
<1>2. /\ World \in Worlds /\ Good(World) /\ Paired(World)
      /\ Tied(World) /\ Lingers(World)
  BY JoinedParts
<1>3. /\ E \in Worlds /\ Keeps(World, E) /\ Moves(World, E) /\ Shuts(World, E)
  BY <1>2, ErrorStreamGood, ErrorStreamMoves DEF Good
<1> HIDE DEF E
<1>4. Joined(E)
  BY <1>2, <1>3, ShutJoined DEF Tied
<1>5. "rejected" \in Phases
  BY DEF Phases
<1>6. /\ T \in Worlds /\ T.r = E.r /\ T.w.state = E.w.state
      /\ T.w.inFlight = E.w.inFlight /\ T.w.started = E.w.started
      /\ T.w.phase = "rejected"
  BY <1>3, <1>5, PhaseIsAWorld
<1> HIDE DEF T
<1>7. ~Open(T.r)
  BY <1>3, <1>6 DEF Shuts
<1>8. Linked(T) /\ Phased(T) /\ Lingers(T) /\ Begun(T)
  BY <1>4, <1>6, <1>7 DEF Joined, Tied, Linked, Phased, Lingers, Begun
<1>9. Joined(T) /\ T.r.requests <= World.r.requests
  BY <1>3, <1>6, <1>7, <1>8, ShutPulls DEF Joined, Tied, Moves
<1> QED BY <1>1, <1>6, <1>9, StepJoined

\* After flush() the readable side has ended, or will when it is drained.
LEMMA FlushedJoined == Inv /\ JoinInv /\ Flushed => JoinInv'
<1> SUFFICES ASSUME Inv, JoinInv, Flushed PROVE JoinInv'
  OBVIOUS
<1> DEFINE q == IF readable.state = "errored" THEN "rejected" ELSE "done"
           T == [World EXCEPT !.w.phase = q]
           U == IF CanCloseOrEnqueue(T) THEN ReadableClose(T) ELSE T
<1>1. Become(U) /\ Other /\ World.w.phase = "fulfilled"
  BY WorldParts DEF Flushed
<1>2. /\ World \in Worlds /\ Good(World) /\ Paired(World) /\ World.r.requests \in Nat
      /\ Tied(World) /\ Lingers(World)
  BY JoinedParts
<1>3. q \in Phases /\ q \in {"rejected", "done"}
  BY DEF Phases
<1> HIDE DEF q
<1>4. /\ T \in Worlds /\ T.r = World.r /\ T.w.state = World.w.state
      /\ T.w.inFlight = World.w.inFlight /\ T.w.started = World.w.started
      /\ T.w.phase = q
  BY <1>2, <1>3, PhaseIsAWorld
<1>5. Good(T)
  BY <1>2, <1>3, PhaseGood
<1> HIDE DEF T
<1>6. U \in Worlds /\ ~Open(U.r) /\ Moves(T, U) /\ U.w = T.w
  <2>1. CASE CanCloseOrEnqueue(T)
    BY <1>4, <1>5, <2>1, ReadableCloseGood, ReadableCloseMoves DEF Good
  <2>2. CASE ~CanCloseOrEnqueue(T)
    BY <1>4, <2>2, MovesItself DEF CanCloseOrEnqueue, Open
  <2> QED BY <2>1, <2>2
<1> HIDE DEF U
<1>7. World.w.inFlight = "close"
  BY <1>1, <1>2 DEF Tied, Phased
<1>8. Linked(U)
  BY <1>4, <1>6, <1>7 DEF Linked
<1>9. Phased(U)
  BY <1>3, <1>4, <1>6 DEF Phased
<1>10. Lingers(U)
  BY <1>4, <1>6, <1>7 DEF Lingers
<1>11. Begun(U)
  BY <1>2, <1>4, <1>6 DEF Tied, Begun, Moves
<1>12. U.r.requests <= World.r.requests
  BY <1>4, <1>6 DEF Moves
<1>13. Joined(U)
  BY <1>6, <1>8, <1>9, <1>10, <1>11, ShutPulls DEF Joined, Tied
<1> QED BY <1>1, <1>6, <1>12, <1>13, StepJoined

LEMMA OperationDoneJoined == Inv /\ JoinInv /\ OperationDone => JoinInv'
<1> SUFFICES ASSUME Inv, JoinInv, OperationDone PROVE JoinInv'
  OBVIOUS
<1> DEFINE T == [World EXCEPT !.w.phase = "none", !.w.inFlight = "none"]
           C == [T EXCEPT !.w.state = "closed", !.w.abort = "none"]
           q == Tail(T.w.queue)
           W == [T EXCEPT !.w.queue = q]
<1>1. /\ Become(IF writable.inFlight = "close" THEN C ELSE AdvanceQueueIfNeeded(W))
      /\ Other /\ World.w.phase = "done"
  BY WorldParts DEF OperationDone
<1>2. /\ World \in Worlds /\ Good(World) /\ Paired(World) /\ World.r.requests \in Nat
      /\ Tied(World) /\ Lingers(World) /\ PullsAgain(World)
  BY JoinedParts
<1>3. /\ World.w.inFlight \in {"write", "close"} /\ World.w.started
      /\ World.w.state \in {"writable", "erroring"}
      /\ World.w.inFlight = "write" => World.w.queue # <<>>
      /\ World.w.state = "writable" /\ World.w.inFlight = "write" => World.ts.algorithms
  BY <1>1, <1>2 DEF Good, Callable, Ends, Paired, Worlds, Writable
<1>4. /\ T \in Worlds /\ PullWaits(T) /\ Ends(T) /\ Paired(T)
      /\ T.w.inFlight = "none" /\ T.w.phase = "none" /\ T.ts = World.ts /\ T.r = World.r
      /\ T.w.queue = World.w.queue /\ T.w.state = World.w.state
      /\ T.w.started
  <2> DEFINE a == World.w.abort
             V == [World EXCEPT !.w.phase = "none", !.w.inFlight = "none", !.w.abort = a]
  <2>1. a \in {"none", "pending", "late"} /\ T = V
    BY <1>2, NoAbort
  <2> HIDE DEF a, T
  <2>2. /\ V \in Worlds /\ PullWaits(V) /\ Ends(V) /\ Paired(V)
        /\ V.w.inFlight = "none" /\ V.w.phase = "none" /\ V.ts = World.ts /\ V.r = World.r
        /\ V.w.queue = World.w.queue /\ V.w.state = World.w.state
        /\ V.w.started = World.w.started
    BY <1>2, <2>1, OperationEnds
  <2> HIDE DEF V
  <2> QED BY <1>3, <2>1, <2>2
<1>5. T.w.abort = World.w.abort
  BY <1>2 DEF Worlds, Writable
<1> HIDE DEF T
<1>6. CASE writable.inFlight = "close"
  <2>1. Good(C)
    BY <1>4, ClosedAtLast
  <2>2. /\ C.r = T.r /\ C.w.state = "closed" /\ C.w.inFlight = "none"
        /\ C.w.phase = "none" /\ C.w.started
    BY <1>4 DEF Worlds, Writable
  <2> HIDE DEF C
  <2>3. ~Open(C.r)
    BY <1>1, <1>2, <1>4, <1>6, <2>2, WorldParts DEF Tied, Phased
  <2>4. ~(start = "rejected") /\ start # "pending"
    BY <1>2, <1>3 DEF Tied, Begun
  <2>5. Linked(C) /\ Phased(C) /\ Begun(C) /\ Lingers(C)
    BY <2>2, <2>3, <2>4 DEF Linked, Phased, Begun, Lingers
  <2>6. C.r.requests <= World.r.requests
    BY <1>2, <1>4, <2>2
  <2> QED BY <1>1, <1>6, <2>1, <2>3, <2>5, <2>6, ShutPulls, StepJoined
          DEF Joined, Tied, Good
<1>7. CASE writable.inFlight = "write"
  <2>1. World.w.inFlight = "write"
    BY <1>7, WorldParts
  <2>2. Good(T)
    BY <1>3, <1>4, <2>1 DEF Good, Callable
  <2>3. Good(W) /\ Paired(W) /\ W \in Worlds /\ W.w.state = T.w.state
    BY <1>3, <1>4, <2>1, <2>2, WriteIsDone
  <2> HIDE DEF q
  <2>4. /\ W.r = T.r /\ W.ts = T.ts /\ W.w.inFlight = T.w.inFlight
        /\ W.w.phase = T.w.phase /\ W.w.started = T.w.started /\ W.w.abort = T.w.abort
    BY <1>4 DEF Worlds, Writable
  <2> HIDE DEF W
  <2>5. Linked(W)
    BY <1>2, <1>3, <1>4, <1>5, <2>1, <2>3, <2>4 DEF Tied, Linked
  <2>6. Phased(W)
    BY <1>4, <2>4 DEF Phased
  <2>7. Begun(W)
    BY <1>2, <1>3, <1>4, <2>3, <2>4 DEF Tied, Begun
  <2>8. PullsAgain(W)
    BY <1>2, <1>4, <2>4, PullsLike
  <2>9. W.w.state \in {"writable", "erroring"}
    BY <1>3, <1>4, <2>3
  <2> DEFINE U == AdvanceQueueIfNeeded(W)
  <2>10. Joined(U) /\ U.r.requests <= W.r.requests /\ Good(U)
    BY <2>3, <2>5, <2>6, <2>7, <2>8, <2>9, AdvanceQueueJoined, AdvanceQueueGood DEF Tied
  <2> HIDE DEF U
  <2>11. U.r.requests <= World.r.requests
    BY <1>4, <2>4, <2>10
  <2> QED BY <1>1, <1>7, <2>10, <2>11, StepJoined DEF Good, U
<1> QED BY <1>3, <1>6, <1>7, WorldParts

\* What is refused was refused for an end of the readable side, for an abort
\* that takes effect now, or for a chunk without a size.
LEMMA OperationRejectedJoined == Inv /\ JoinInv /\ OperationRejected => JoinInv'
<1> SUFFICES ASSUME Inv, JoinInv, OperationRejected PROVE JoinInv'
  OBVIOUS
<1> DEFINE a == IF writable.inFlight = "close" THEN "none" ELSE writable.abort
           T == [World EXCEPT !.w.phase = "none", !.w.inFlight = "none", !.w.abort = a]
           U == DealWithRejection(T)
<1>1. /\ World \in Worlds /\ Good(World) /\ Paired(World) /\ World.r.requests \in Nat
      /\ Tied(World) /\ Lingers(World) /\ PullsAgain(World)
  BY JoinedParts
<1>2. Become(U) /\ Other /\ World.w.phase = "rejected"
  BY <1>1, WorldParts DEF OperationRejected, Worlds, Writable
<1>3. /\ World.w.started /\ a \in {"none", "pending", "late"}
      /\ World.w.state \in {"writable", "erroring"}
      /\ World.w.inFlight = "write" => a = World.w.abort
  BY <1>1, <1>2, WorldParts DEF Good, Callable, Ends, Paired, Worlds, Writable
<1> HIDE DEF a
<1>4. /\ T \in Worlds /\ PullWaits(T) /\ Ends(T) /\ Paired(T) /\ T.r = World.r
      /\ T.w.inFlight = "none" /\ T.w.phase = "none" /\ T.w.started
      /\ T.w.state = World.w.state
  <2>1. /\ T \in Worlds /\ PullWaits(T) /\ Ends(T) /\ Paired(T) /\ T.r = World.r
        /\ T.w.inFlight = "none" /\ T.w.phase = "none" /\ T.w.state = World.w.state
        /\ T.w.started = World.w.started
    BY <1>1, <1>3, OperationEnds
  <2> HIDE DEF T
  <2> QED BY <1>3, <2>1
<1>5. T.w.abort = a
  BY <1>1 DEF Worlds, Writable
<1> HIDE DEF T
<1>6. Good(U) /\ Keeps(T, U)
  BY <1>4, DealWithRejectionGood
<1>7. /\ Moves(T, U) /\ U.w.state = "errored" /\ (U.r = T.r \/ ~Open(U.r))
      /\ T.w.abort = "pending" \/ ~Open(T.r) => ~Open(U.r)
  BY <1>4, DealWithRejectionMoves
<1> HIDE DEF U
<1>8. \/ ~Open(World.r)
      \/ World.w.inFlight = "write" /\ World.w.abort = "pending"
      \/ calls.sizeless # 0
  BY <1>1, <1>2, <1>3 DEF Tied, Phased, Linked
<1>9. ~Open(U.r) \/ calls.sizeless # 0
  BY <1>3, <1>4, <1>5, <1>7, <1>8
<1>10. start # "pending" /\ start # "rejected"
  BY <1>1, <1>3 DEF Tied, Begun
<1>11. U.w.phase = "none" /\ U.w.inFlight = "none" /\ U.w.started
  BY <1>4, <1>6 DEF Keeps
<1>12. Linked(U) /\ Phased(U) /\ Begun(U) /\ Lingers(U)
  BY <1>7, <1>9, <1>10, <1>11 DEF Linked, Phased, Begun, Lingers
<1>13. U.r.requests <= World.r.requests
  BY <1>4, <1>7 DEF Moves
<1>14. PullsAgain(U)
  BY <1>1, <1>4, <1>7, PullsLike, ShutPulls
<1> QED BY <1>2, <1>6, <1>12, <1>13, <1>14, StepJoined DEF Joined, Tied, Good

LEMMA IdleJoined == Inv /\ JoinInv /\ (StartSettles \/ UNCHANGED vars) => JoinInv'
<1> SUFFICES ASSUME Inv, JoinInv, StartSettles \/ UNCHANGED vars PROVE JoinInv'
  OBVIOUS
<1>1. World' = World /\ calls' = calls /\ config' = config /\ readable' = readable
  BY DEF StartSettles, sides, vars, World
<1>2. PullsAgain(World)' /\ Phased(World)' /\ Lingers(World)'
  BY <1>1 DEF JoinInv, Joined, Tied, PullsAgain, ShouldCallPull, Phased, Lingers
<1>3. \/ start' = start
      \/ start = "pending" /\ start' \in {"resolved", "rejected"}
  BY DEF StartSettles, vars
<1>4. Linked(World)' /\ Begun(World)'
  BY <1>1, <1>3 DEF JoinInv, Joined, Tied, Linked, Begun
<1> QED BY <1>1, <1>2, <1>3, <1>4 DEF JoinInv, Joined, Tied

LEMMA StepJoin == Inv /\ JoinInv /\ [Next]_vars => JoinInv'
BY WriteJoined, WriteSizelessJoined, WriterCloseJoined, AbortJoined, ReadJoined, CancelJoined,
   ControllerJoined, SettleJoined, WritableStartedJoined, ReadableStartedJoined,
   PulledJoined, WriteUnblockedJoined, TransformerFailedJoined, FlushedJoined,
   OperationDoneJoined, OperationRejectedJoined, IdleJoined DEF Next, Content, Job

-----------------------------------------------------------------------------

\* The inductive invariant: whatever the two sides, content and the jobs do, and
\* in which order, a pull waits exactly while there is no back-pressure, and a
\* side that may call its algorithms has them.
THEOREM TransformInvariance == Spec => []Inv
BY InitInv, StepInv, PTL DEF Spec

\* The assertions of the pull and the write algorithm and of SetBackpressure
\* hold, and PerformTransform and the sink's close never call an algorithm that
\* was cleared.
THEOREM TransformAssertions == Spec => []AssertionsHold
<1>1. Inv => AssertionsHold
  BY WorldParts DEF Inv, Good, Worlds, AssertionsHold
<1> QED BY <1>1, TransformInvariance, PTL

\* The ends of the two sides, an operation in flight and the promise of start()
\* stay tied, and a pull that is called for is on its way.  What an error of the
\* writable side is tied to is an end of the readable one, an abort, a failed
\* start(), or a failed size() of the writable strategy.
THEOREM SidesStayTied == Spec => []JoinInv
BY InitInv, InitJoined, StepInv, StepJoin, TransformInvariance, PTL DEF Spec

\* The state has its shape; there are no more requests than reads.
THEOREM SidesHaveTheirShape == Spec => []TypeOK
<1>1. Inv /\ JoinInv => TypeOK
  <2> SUFFICES ASSUME Inv, JoinInv PROVE TypeOK
    OBVIOUS
  <2>1. /\ readable \in Readable /\ writable \in Writable /\ ts \in Slots
        /\ writable.phase = "none" <=> writable.inFlight = "none"
    BY WorldParts DEF Inv, Good, Worlds, Paired
  <2>2. readable.requests \in 0..MaxReads
    BY <2>1, BoundsAssumption DEF JoinInv, Readable
  <2> QED BY <2>1, <2>2 DEF TypeOK, Readable, Writable, Slots, Phases
<1> QED BY <1>1, TransformInvariance, SidesStayTied, PTL

\* A write waits for nothing but a reader: when no job waits to run, the readable
\* side is open and calls for no chunk.
THEOREM WritesBlockForAReason == Spec => []BlockedForAReason
<1>1. Inv /\ JoinInv => BlockedForAReason
  <2> SUFFICES ASSUME Inv, JoinInv, Idle, writable.phase = "blocked"
               PROVE  /\ readable.state = "readable" /\ ~readable.closing
                      /\ ~ShouldCallPull(readable)
    BY DEF BlockedForAReason
  <2>1. ts.backpressure /\ Open(readable)
    BY WorldParts DEF JoinInv, Joined, Tied, Phased
  <2>2. readable.pulling # "waiting" /\ readable.pulling # "resolved"
    BY <2>1, WorldParts DEF Inv, Good, PullWaits, Worlds, Slots, Idle
  <2>3. ~ShouldCallPull(readable)
    BY <2>2, WorldParts DEF JoinInv, Joined, PullsAgain
  <2> QED BY <2>1, <2>3 DEF Open
<1> QED BY <1>1, TransformInvariance, SidesStayTied, PTL

\* An error or an end of one side reaches the other, by the time that no job
\* waits to run; except that the readable side is not told of a failed size() of
\* the writable strategy.
THEOREM SidesDoEndTogether == Spec => []SidesEndTogether
<1>1. Inv /\ JoinInv => SidesEndTogether
  <2> SUFFICES ASSUME Inv, JoinInv, Idle, readable.started
               PROVE  /\ readable.state # "readable" =>
                           writable.state \in {"errored", "closed"} \/ writable.phase = "pending"
                      /\ \/ writable.state = "closed"
                         \/ writable.state = "errored" /\ calls.sizeless = 0
                         => readable.state # "readable" \/ readable.closing
    BY DEF SidesEndTogether
  <2>1. /\ World.r = readable /\ World.w = writable
        /\ Linked(World) /\ Phased(World) /\ Begun(World) /\ Lingers(World)
        /\ Paired(World) /\ writable \in Writable
    BY WorldParts DEF Inv, JoinInv, Joined, Tied, Good, Worlds
  <2>2. \/ writable.state = "closed"
        \/ writable.state = "errored" /\ calls.sizeless = 0
        => ~Open(readable)
    BY <2>1 DEF Linked
  <2>3. readable.state # "readable" =>
          writable.state \in {"errored", "closed"} \/ writable.phase = "pending"
    <3> SUFFICES ASSUME readable.state # "readable", writable.phase # "pending"
                 PROVE  writable.state \in {"errored", "closed"}
      OBVIOUS
    <3>1. ~Open(readable)
      BY DEF Open
    <3>2. writable.phase = "none" /\ writable.inFlight = "none"
      BY <2>1, <3>1 DEF Idle, Phased, Paired
    <3>3. writable.state # "writable" /\ writable.state # "erroring"
      BY <2>1, <3>1, <3>2 DEF Linked, Lingers, Begun
    <3> QED BY <2>1, <3>3 DEF Writable
  <2> QED BY <2>2, <2>3 DEF Open
<1> QED BY <1>1, TransformInvariance, SidesStayTied, PTL

-----------------------------------------------------------------------------
(* Chunks, without a transformer. *)

\* The first k elements of a sequence count on from a.
Runs(s, k, a) == \A i \in 1..k : s[i] = a + i

\* The chunks are in three places, in the order in which they were written.
Ordered(S, n) ==
  /\ Runs(S.got, Len(S.got), 0)
  /\ Runs(S.r.queue, Len(S.r.queue), Len(S.got))
  /\ Len(S.got) + Len(S.r.queue) <= n
  /\ Chunks(S.w.queue) <= n
  /\ Runs(S.w.queue, Chunks(S.w.queue), n - Chunks(S.w.queue))

\* A reader that waits finds nothing in the queue.  A close comes last in its
\* queue, and is taken from it alone.
Shaped(S) ==
  /\ S.r.state # "readable" \/ S.r.requests > 0 => S.r.queue = <<>>
  /\ S.w.queue # <<>> /\ Last(S.w.queue) = Close => S.w.closing
  /\ S.w.inFlight = "close" \/ S.w.state = "closed" => S.w.queue = <<>> /\ S.w.closing
  /\ S.w.inFlight = "write" => Chunks(S.w.queue) >= 1

\* No side has dropped its chunks, or is about to.  A close that is in flight
\* takes effect whatever happens meanwhile.
Passing(S, cancelled) ==
  /\ S.w.state \in {"writable", "closed"} \/ S.w.inFlight = "close"
  /\ S.r.state # "errored" /\ ~cancelled

\* n chunks were written: as long as nothing is dropped, what was enqueued is
\* followed by what waits.
Flow(S, n, cancelled) ==
  /\ Ordered(S, n) /\ Shaped(S)
  /\ S.r.state = "readable" => ~cancelled
  /\ Passing(S, cancelled) =>
       Len(S.got) + Len(S.r.queue)
         = (n - Chunks(S.w.queue)) + (IF Delivered(S.w) THEN 1 ELSE 0)

FlowInv == ~config.transformer => Flow(World, calls.write, calls.cancel # 0)

-----------------------------------------------------------------------------
(* What becomes of the chunks.  Operators that pass nothing on leave the    *)
(* chunks where they are, or drop them with an error of their side.         *)

Leaves(S, T) ==
  /\ T.got = S.got /\ T.w.closing = S.w.closing
  /\ \/ T.r.state = S.r.state /\ T.r.queue = S.r.queue /\ T.r.requests = S.r.requests
     \/ T.r.state = "errored" /\ T.r.queue = <<>> /\ T.r.requests = 0
  /\ \/ T.w.state = S.w.state /\ T.w.queue = S.w.queue
     \/ /\ T.w.state \in {"erroring", "errored"}
        /\ T.w.queue = S.w.queue \/ (T.w.queue = <<>> /\ T.w.inFlight = "none")

LEMMA LeavesTransitive ==
  ASSUME NEW S, NEW T, NEW U, Keeps(T, U), Leaves(S, T), Leaves(T, U)
  PROVE  Leaves(S, U)
BY DEF Leaves, Keeps

LEMMA LeavesItself ==
  ASSUME NEW S
  PROVE  Leaves(S, S)
BY DEF Leaves

LEMMA ChangeLeaves ==
  ASSUME NEW S \in Worlds, NEW b, NEW p, NEW q
  PROVE  Leaves(S, [S EXCEPT !.ts.backpressure = b, !.r.pulling = p, !.w.phase = q])
<1> DEFINE T == [S EXCEPT !.ts.backpressure = b, !.r.pulling = p, !.w.phase = q]
<1>1. /\ T.got = S.got /\ T.r = [S.r EXCEPT !.pulling = p]
      /\ T.w = [S.w EXCEPT !.phase = q]
  BY DEF Worlds
<1> HIDE DEF T
<1>2. T.r.state = S.r.state /\ T.r.queue = S.r.queue /\ T.r.requests = S.r.requests
  BY <1>1 DEF Worlds, Readable
<1>3. T.w.state = S.w.state /\ T.w.queue = S.w.queue /\ T.w.closing = S.w.closing
  BY <1>1 DEF Worlds, Writable
<1>4. Leaves(S, T)
  BY <1>1, <1>2, <1>3 DEF Leaves
<1> QED BY <1>4 DEF T

LEMMA SetBackpressureLeaves ==
  ASSUME NEW S \in Worlds, NEW b \in BOOLEAN, S.ts.backpressure # b \/ S.failed = "Enqueue"
  PROVE  Leaves(S, SetBackpressure(S, b))
<1>1. MozAssert(S, "SetBackpressure", S.ts.backpressure # b) = S
  BY DEF MozAssert
<1> DEFINE p == IF S.r.pulling = "waiting" THEN "resolved" ELSE S.r.pulling
           q == IF S.w.phase = "blocked" THEN "unblocked" ELSE S.w.phase
<1>2. SetBackpressure(S, b) = [S EXCEPT !.ts.backpressure = b, !.r.pulling = p, !.w.phase = q]
  BY <1>1 DEF SetBackpressure, Worlds
<1> HIDE DEF p, q
<1>3. Leaves(S, [S EXCEPT !.ts.backpressure = b, !.r.pulling = p, !.w.phase = q])
  BY ChangeLeaves
<1> QED BY <1>2, <1>3

LEMMA PullingLeaves ==
  ASSUME NEW S \in Worlds, NEW p
  PROVE  /\ Leaves(S, [S EXCEPT !.r.pulling = p])
         /\ Leaves(S, [S EXCEPT !.r.pullAgain = p])
BY DEF Leaves, Worlds, Readable

LEMMA DefaultSourcePullLeaves ==
  ASSUME NEW S \in Worlds, Good(S), Open(S.r), S.r.pulling = "no"
  PROVE  Leaves(S, DefaultSourcePull(S))
<1> DEFINE B == SetBackpressure(S, FALSE)
           T == [B EXCEPT !.r.pulling = "waiting"]
<1>1. S.ts.backpressure /\ Callable(S)
  BY DEF Good, PullWaits
<1>2. DefaultSourcePull(S) = T
  BY <1>1 DEF DefaultSourcePull, MozAssert
<1>3. B \in Worlds /\ Leaves(S, B)
  BY <1>1, SetBackpressureChanges, SetBackpressureLeaves
<1> HIDE DEF B
<1>4. T.w = B.w /\ Leaves(B, T)
  BY <1>3, PullingIsAWorld, PullingLeaves
<1> HIDE DEF T
<1>5. Leaves(S, T)
  BY <1>3, <1>4 DEF Leaves
<1> QED BY <1>2, <1>5

LEMMA CallPullIfNeededLeaves ==
  ASSUME NEW S \in Worlds, Good(S)
  PROVE  Leaves(S, CallPullIfNeeded(S))
<1>1. CASE ~ShouldCallPull(S.r)
  BY <1>1, LeavesItself DEF CallPullIfNeeded
<1>2. CASE ShouldCallPull(S.r) /\ S.r.pulling # "no"
  <2>1. CallPullIfNeeded(S) = [S EXCEPT !.r.pullAgain = TRUE]
    BY <1>2 DEF CallPullIfNeeded
  <2> QED BY <2>1, PullingLeaves
<1>3. CASE ShouldCallPull(S.r) /\ S.r.pulling = "no"
  <2>1. CallPullIfNeeded(S) = DefaultSourcePull(S)
    BY <1>3 DEF CallPullIfNeeded
  <2>2. Open(S.r)
    BY <1>3 DEF ShouldCallPull, Open
  <2> QED BY <1>3, <2>1, <2>2, DefaultSourcePullLeaves
<1> QED BY <1>1, <1>2, <1>3

\* The readable side with its queue dropped.
Emptied(S, state) == [S EXCEPT !.r.state = state, !.r.queue = <<>>, !.r.requests = 0]

LEMMA EmptyFields ==
  ASSUME NEW S \in Worlds, NEW state
  PROVE  LET T == Emptied(S, state)
         IN  /\ T.got = S.got /\ T.w = S.w /\ T.r.state = state /\ T.r.queue = <<>>
             /\ T.r.requests = 0
<1>1. ASSUME NEW q
      PROVE  LET T == [S EXCEPT !.r.state = state, !.r.queue = q, !.r.requests = 0]
             IN  /\ T.got = S.got /\ T.w = S.w /\ T.r.state = state /\ T.r.queue = q
                 /\ T.r.requests = 0
  BY DEF Worlds, Readable
<1> QED BY <1>1 DEF Emptied

LEMMA ReadableErrorLeaves ==
  ASSUME NEW S \in Worlds
  PROVE  Leaves(S, ReadableError(S))
<1>1. CASE S.r.state # "readable"
  BY <1>1, LeavesItself DEF ReadableError
<1>2. CASE S.r.state = "readable"
  <2> DEFINE T == Emptied(S, "errored")
  <2>1. ReadableError(S) = T
    BY <1>2 DEF ReadableError, Emptied
  <2>2. T.got = S.got /\ T.w = S.w /\ T.r.state = "errored" /\ T.r.queue = <<>> /\ T.r.requests = 0
    BY EmptyFields
  <2> HIDE DEF T
  <2> QED BY <2>1, <2>2 DEF Leaves
<1> QED BY <1>1, <1>2

LEMMA ClearedLeaves ==
  ASSUME NEW S \in Worlds
  PROVE  Leaves(S, [S EXCEPT !.ts.algorithms = FALSE])
BY DEF Leaves, Worlds

LEMMA UnblockLeaves ==
  ASSUME NEW S \in Worlds, Good(S), ~Open(S.r), S.w.state # "writable"
  PROVE  Leaves(S, Unblock(S))
<1> DEFINE C == [S EXCEPT !.ts.algorithms = FALSE]
<1>1. Unblock(S) = IF C.ts.backpressure THEN SetBackpressure(C, FALSE) ELSE C
  BY DEF Unblock
<1>2. C \in Worlds /\ Leaves(S, C) /\ C.w = S.w /\ C.r = S.r
  BY ClearedIsAWorld, ClearedLeaves
<1> HIDE DEF C
<1>3. CASE ~C.ts.backpressure
  BY <1>1, <1>2, <1>3
<1>4. CASE C.ts.backpressure
  <2>1. Callable(C) /\ C.ts.backpressure # FALSE
    BY <1>2, <1>4 DEF Good, Callable, Ends
  <2>2. LET T == SetBackpressure(C, FALSE) IN Leaves(C, T) /\ Keeps(C, T)
    BY <1>2, <2>1, SetBackpressureLeaves, SetBackpressureChanges
  <2>3. Unblock(S) = SetBackpressure(C, FALSE)
    BY <1>1, <1>4
  <2> QED BY <1>2, <2>2, <2>3, LeavesTransitive
<1> QED BY <1>3, <1>4

LEMMA DefaultSinkAbortLeaves ==
  ASSUME NEW S \in Worlds, Good(S), S.w.state # "writable"
  PROVE  Leaves(S, DefaultSinkAbort(S))
<1> DEFINE E == ReadableError(S)
<1>1. DefaultSinkAbort(S) = Unblock(E)
  BY DEF DefaultSinkAbort
<1>2. Good(E) /\ ~Open(E.r) /\ E.w.state = S.w.state /\ Leaves(S, E)
  BY ReadableErrorGood, ReadableErrorLeaves
<1> HIDE DEF E
<1>3. E \in Worlds
  BY <1>2 DEF Good
<1>4. Leaves(E, Unblock(E)) /\ Keeps(E, Unblock(E))
  BY <1>2, <1>3, UnblockLeaves, UnblockGood
<1> QED BY <1>1, <1>2, <1>4, LeavesTransitive

LEMMA ErroredFields ==
  ASSUME NEW S \in Worlds
  PROVE  LET T == [S EXCEPT !.w.state = "errored", !.w.queue = <<>>, !.w.abort = "none"]
         IN  /\ T.got = S.got /\ T.r = S.r /\ T.w.state = "errored" /\ T.w.queue = <<>>
             /\ T.w.closing = S.w.closing
<1>1. ASSUME NEW q
      PROVE  LET T == [S EXCEPT !.w.state = "errored", !.w.queue = q, !.w.abort = "none"]
             IN  /\ T.got = S.got /\ T.r = S.r /\ T.w.state = "errored" /\ T.w.queue = q
                 /\ T.w.closing = S.w.closing
  BY DEF Worlds, Writable
<1> QED BY <1>1

LEMMA FinishErroringLeaves ==
  ASSUME NEW S \in Worlds, PullWaits(S), Ends(S), S.w.inFlight = "none", S.w.started
  PROVE  Leaves(S, FinishErroring(S))
<1> DEFINE E == [S EXCEPT !.w.state = "errored", !.w.queue = <<>>, !.w.abort = "none"]
<1>1. FinishErroring(S) = IF S.w.abort = "pending" THEN DefaultSinkAbort(E) ELSE E
  BY DEF FinishErroring
<1>2. /\ E \in Worlds /\ E.r = S.r /\ E.ts = S.ts /\ E.w.state = "errored"
      /\ E.w.inFlight = S.w.inFlight /\ E.w.started = S.w.started
      /\ E.w.phase = S.w.phase
  BY ErroredIsAWorld
<1>3. E.got = S.got /\ E.w.queue = <<>> /\ E.w.closing = S.w.closing
  BY ErroredFields
<1> HIDE DEF E
<1>4. Good(E) /\ Leaves(S, E)
  BY <1>2, <1>3 DEF Good, PullWaits, Callable, Ends, Leaves
<1>5. CASE S.w.abort = "pending"
  <2>1. LET T == DefaultSinkAbort(E) IN Leaves(E, T) /\ Keeps(E, T)
    BY <1>2, <1>4, DefaultSinkAbortLeaves, DefaultSinkAbortGood
  <2> QED BY <1>1, <1>4, <1>5, <2>1, LeavesTransitive
<1> QED BY <1>1, <1>4, <1>5

LEMMA StartErroringLeaves ==
  ASSUME NEW S \in Worlds, PullWaits(S), Ends(S), S.w.state = "writable"
  PROVE  Leaves(S, StartErroring(S))
<1> DEFINE E == [S EXCEPT !.w.state = "erroring"]
<1>1. StartErroring(S) =
        IF E.w.inFlight = "none" /\ E.w.started THEN FinishErroring(E) ELSE E
  BY DEF StartErroring
<1>2. /\ E \in Worlds /\ E.r = S.r /\ E.ts = S.ts /\ E.w.state = "erroring"
      /\ E.w.inFlight = S.w.inFlight /\ E.w.started = S.w.started
      /\ E.w.phase = S.w.phase /\ E.w.queue = S.w.queue
  BY ErroringIsAWorld
<1>3. E.got = S.got /\ E.w.closing = S.w.closing
  BY DEF Worlds, Writable
<1> HIDE DEF E
<1>4. PullWaits(E) /\ Ends(E) /\ Leaves(S, E)
  BY <1>2, <1>3 DEF PullWaits, Ends, Leaves
<1>5. CASE E.w.inFlight = "none" /\ E.w.started
  <2>1. LET T == FinishErroring(E) IN Leaves(E, T) /\ Keeps(E, T)
    BY <1>2, <1>4, <1>5, FinishErroringLeaves, FinishErroringGood
  <2> QED BY <1>1, <1>4, <1>5, <2>1, LeavesTransitive
<1> QED BY <1>1, <1>4, <1>5

LEMMA DealWithRejectionLeaves ==
  ASSUME NEW S \in Worlds, PullWaits(S), Ends(S), S.w.inFlight = "none", S.w.started
  PROVE  Leaves(S, DealWithRejection(S))
<1>1. CASE S.w.state = "writable"
  BY <1>1, StartErroringLeaves DEF DealWithRejection
<1>2. CASE S.w.state # "writable"
  BY <1>2, FinishErroringLeaves DEF DealWithRejection
<1> QED BY <1>1, <1>2

LEMMA ErrorWritableLeaves ==
  ASSUME NEW S \in Worlds, Good(S), ~Open(S.r)
  PROVE  Leaves(S, ErrorWritableAndUnblockWrite(S))
<1> DEFINE E == IF S.w.state = "writable" THEN StartErroring(S) ELSE S
<1>1. ErrorWritableAndUnblockWrite(S) = Unblock(E)
  BY DEF ErrorWritableAndUnblockWrite
<1>2. Good(E) /\ Keeps(S, E) /\ E.w.state # "writable" /\ Leaves(S, E)
  <2>1. CASE S.w.state = "writable"
    BY <2>1, StartErroringGood, StartErroringLeaves DEF Good, Callable
  <2>2. CASE S.w.state # "writable"
    BY <2>2, LeavesItself, MovesItself
  <2> QED BY <2>1, <2>2
<1> HIDE DEF E
<1>3. E \in Worlds /\ ~Open(E.r)
  BY <1>2 DEF Good, Keeps
<1>4. Leaves(E, Unblock(E)) /\ Keeps(E, Unblock(E))
  BY <1>2, <1>3, UnblockLeaves, UnblockGood
<1> QED BY <1>1, <1>2, <1>4, LeavesTransitive

LEMMA ErrorStreamLeaves ==
  ASSUME NEW S \in Worlds, Good(S)
  PROVE  /\ Leaves(S, ErrorStream(S))
         /\ S.r.state = "readable" => ErrorStream(S).r.state = "errored"
<1> DEFINE E == ReadableError(S)
<1>1. ErrorStream(S) = ErrorWritableAndUnblockWrite(E)
  BY DEF ErrorStream
<1>2. Good(E) /\ ~Open(E.r) /\ Leaves(S, E)
  BY ReadableErrorGood, ReadableErrorLeaves
<1>3. S.r.state = "readable" => E.r.state = "errored"
  BY EmptyFields DEF ReadableError, Emptied
<1> HIDE DEF E
<1>4. E \in Worlds
  BY <1>2 DEF Good
<1>5. LET T == ErrorWritableAndUnblockWrite(E) IN Leaves(E, T) /\ Keeps(E, T)
  BY <1>2, <1>4, ErrorWritableLeaves, ErrorWritableGood
<1>6. Leaves(S, ErrorStream(S))
  BY <1>1, <1>2, <1>5, LeavesTransitive
<1> QED BY <1>1, <1>3, <1>5, <1>6 DEF Leaves

-----------------------------------------------------------------------------
(* Sequences that count on. *)

LEMMA RunsEmpty ==
  ASSUME NEW s, NEW a
  PROVE  Runs(s, 0, a)
BY DEF Runs

LEMMA RunsLonger ==
  ASSUME NEW s \in Seq(Nat), NEW k \in 0..Len(s), NEW a \in Nat, Runs(s, k, a), NEW x \in Nat
  PROVE  /\ Runs(Append(s, x), k, a)
         /\ (k = Len(s) /\ x = (a + k) + 1 => Runs(Append(s, x), k + 1, a))
<1> DEFINE l == Len(s)
           t == Append(s, x)
<1>1. l \in Nat /\ (\A i \in 1..l : t[i] = s[i]) /\ t[l + 1] = x
  BY AppendProperties
<1> HIDE DEF l, t
<1>2. k \in 0..l
  BY DEF l
<1>3. Runs(t, k, a)
  BY <1>1, <1>2 DEF Runs
<1>4. ASSUME k = l, x = (a + k) + 1
      PROVE  Runs(t, k + 1, a)
  BY <1>1, <1>3, <1>4 DEF Runs
<1> QED BY <1>3, <1>4 DEF t, l

LEMMA OneMore ==
  ASSUME NEW s \in Seq(Nat), NEW a \in Nat, Runs(s, Len(s), a),
         NEW x \in Nat, x = (a + Len(s)) + 1
  PROVE  Len(Append(s, x)) = Len(s) + 1 /\ Runs(Append(s, x), Len(s) + 1, a)
<1>1. Len(s) \in 0..Len(s)
  BY LenProperties
<1> QED BY <1>1, RunsLonger, AppendProperties

LEMMA RunsOn ==
  ASSUME NEW s \in Seq(Nat), s # <<>>, NEW k \in Nat, k <= Len(s), k >= 1, NEW a \in Nat,
         Runs(s, k, a)
  PROVE  Head(s) = a + 1 /\ Runs(Tail(s), k - 1, a + 1)
<1> DEFINE l == Len(s)
           t == Tail(s)
<1>1. l \in Nat /\ (\A i \in 1..(l - 1) : t[i] = s[i + 1]) /\ Head(s) = s[1]
  BY HeadTailProperties
<1> HIDE DEF l, t
<1>2. k <= l
  BY DEF l
<1>3. Runs(t, k - 1, a + 1) /\ s[1] = a + 1
  BY <1>1, <1>2 DEF Runs
<1> QED BY <1>1, <1>3 DEF t

LEMMA ChunksBounded ==
  ASSUME NEW q \in Seq(Nat)
  PROVE  /\ Chunks(q) \in Nat /\ Chunks(q) <= Len(q)
         /\ Len(q) <= Chunks(q) + 1
         /\ (q = <<>> \/ Last(q) # Close => Chunks(q) = Len(q))
         /\ (q # <<>> /\ Last(q) = Close => Chunks(q) = Len(q) - 1)
<1> DEFINE l == Len(q)
<1>1. l \in Nat /\ (q # <<>> => l >= 1)
  BY EmptySeq
<1>2. Chunks(q) = IF q # <<>> /\ Last(q) = Close THEN l - 1 ELSE l
  BY DEF Chunks
<1> HIDE DEF l
<1>3. /\ Chunks(q) \in Nat /\ Chunks(q) <= l /\ l <= Chunks(q) + 1
      /\ (q = <<>> \/ Last(q) # Close => Chunks(q) = l)
      /\ (q # <<>> /\ Last(q) = Close => Chunks(q) = l - 1)
  BY <1>1, <1>2
<1> QED BY <1>3 DEF l

LEMMA ChunksEmpty == Chunks(<<>>) = 0
BY DEF Chunks

LEMMA ChunkAdded ==
  ASSUME NEW q \in Seq(Nat), q = <<>> \/ Last(q) # Close, NEW x \in Nat
  PROVE  LET t == Append(q, x)
         IN  /\ t \in Seq(Nat) /\ t # <<>> /\ Last(t) = x
             /\ Chunks(q) = Len(q)
             /\ Chunks(t) = IF x = Close THEN Chunks(q) ELSE Chunks(q) + 1
<1> DEFINE l == Len(q)
           t == Append(q, x)
<1>1. l \in Nat /\ t \in Seq(Nat) /\ t # <<>> /\ Len(t) = l + 1 /\ t[l + 1] = x /\ Chunks(q) = l
  BY AppendProperties, ChunksBounded
<1> HIDE DEF l, t
<1>2. Last(t) = x
  BY <1>1 DEF Last
<1>3. Chunks(t) = IF x = Close THEN l ELSE l + 1
  BY <1>1, <1>2 DEF Chunks
<1> QED BY <1>1, <1>2, <1>3 DEF l, t

LEMMA ChunkTaken ==
  ASSUME NEW q \in Seq(Nat), q # <<>>
  PROVE  /\ Tail(q) \in Seq(Nat)
         /\ (Chunks(q) >= 1 => Chunks(Tail(q)) = Chunks(q) - 1)
         /\ (Chunks(q) = 0 => Head(q) = Close /\ Tail(q) = <<>> /\ Last(q) = Close)
         /\ (Tail(q) # <<>> => Last(Tail(q)) = Last(q))
<1> DEFINE l == Len(q)
           t == Tail(q)
<1>1. /\ l \in Nat /\ l >= 1 /\ t \in Seq(Nat) /\ Len(t) = l - 1 /\ Head(q) = q[1]
      /\ \A i \in 1..(l - 1) : t[i] = q[i + 1]
  BY HeadTailProperties, EmptySeq
<1>2. t # <<>> <=> l # 1
  BY <1>1, EmptySeq
<1>3. Last(q) = q[l] /\ Chunks(q) = IF Last(q) = Close THEN l - 1 ELSE l
  BY DEF Last, Chunks
<1> HIDE DEF l, t
<1>4. t # <<>> => Last(t) = q[l]
  BY <1>1, <1>2 DEF Last
<1>5. Chunks(t) = IF t # <<>> /\ Last(t) = Close THEN l - 2 ELSE l - 1
  BY <1>1 DEF Chunks
<1>6. Chunks(q) >= 1 => Chunks(t) = Chunks(q) - 1
  BY <1>1, <1>2, <1>3, <1>4, <1>5
<1>7. Chunks(q) = 0 => q[1] = Close /\ t = <<>> /\ Last(q) = Close
  BY <1>1, <1>2, <1>3
<1> QED BY <1>1, <1>3, <1>4, <1>6, <1>7 DEF t

-----------------------------------------------------------------------------
(* Steps that move no chunk. *)

LEMMA FlowSame ==
  ASSUME NEW S, NEW T, NEW n, NEW c, Flow(S, n, c),
         T.got = S.got, T.r.state = S.r.state, T.r.queue = S.r.queue,
         T.r.requests = S.r.requests \/ T.r.queue = <<>>,
         T.w.state = S.w.state, T.w.queue = S.w.queue, T.w.closing = S.w.closing,
         T.w.inFlight = S.w.inFlight, Delivered(T.w) = Delivered(S.w)
  PROVE  Flow(T, n, c)
<1>1. Ordered(T, n)
  BY DEF Flow, Ordered
<1>2. Shaped(T)
  BY DEF Flow, Shaped
<1>3. Passing(T, c) <=> Passing(S, c)
  BY DEF Passing
<1> QED BY <1>1, <1>2, <1>3 DEF Flow

LEMMA FlowLeft ==
  ASSUME NEW S \in Worlds, NEW T \in Worlds, NEW n \in Nat, NEW c \in BOOLEAN,
         Keeps(S, T), Leaves(S, T), Flow(S, n, c)
  PROVE  Flow(T, n, c)
<1>1. Delivered(T.w) = Delivered(S.w) /\ T.w.inFlight = S.w.inFlight
  BY DEF Keeps, Delivered
<1>2. /\ T.got = S.got /\ T.w.closing = S.w.closing
      /\ (T.r.queue = S.r.queue /\ T.r.state = S.r.state /\ T.r.requests = S.r.requests)
           \/ (T.r.queue = <<>> /\ T.r.state = "errored")
      /\ \/ T.w.state = S.w.state /\ T.w.queue = S.w.queue
         \/ /\ T.w.state \in {"erroring", "errored"}
            /\ T.w.queue = S.w.queue \/ (T.w.queue = <<>> /\ T.w.inFlight = "none")
  BY DEF Leaves
<1>3. S.got \in Seq(Nat) /\ S.r.queue \in Seq(Nat) /\ S.w.queue \in Seq(Nat)
  BY DEF Worlds, Readable, Writable
<1>4. Len(S.got) \in Nat /\ Len(S.r.queue) \in Nat /\ Len(<<>>) = 0
  BY <1>3, LenProperties, EmptySeq
<1>5. Chunks(S.w.queue) \in Nat /\ Chunks(<<>>) = 0
  BY <1>3, ChunksBounded, ChunksEmpty
<1>6. Runs(<<>>, 0, Len(S.got)) /\ Runs(<<>>, 0, n - 0)
  BY RunsEmpty
<1>7. Ordered(S, n) /\ Shaped(S)
  BY DEF Flow
<1>8. /\ Runs(T.got, Len(T.got), 0)
      /\ Runs(T.r.queue, Len(T.r.queue), Len(T.got))
      /\ Len(T.got) + Len(T.r.queue) <= n
  <2>1. CASE T.r.queue = S.r.queue
    BY <1>2, <1>7, <2>1 DEF Ordered
  <2>2. CASE T.r.queue = <<>>
    <3>1. T.got = S.got /\ Len(T.r.queue) = 0 /\ Runs(T.r.queue, 0, Len(T.got))
      BY <1>2, <1>6, <2>2
    <3>2. Len(S.got) + 0 <= n
      <4> DEFINE g == Len(S.got)
                 l == Len(S.r.queue)
      <4>1. g \in Nat /\ l \in Nat /\ g + l <= n
        BY <1>4, <1>7 DEF Ordered
      <4> HIDE DEF g, l
      <4>2. g + 0 <= n
        BY <4>1
      <4> QED BY <4>2 DEF g
    <3> QED BY <1>7, <3>1, <3>2 DEF Ordered
  <2> QED BY <1>2, <2>1, <2>2
<1>9. Chunks(T.w.queue) <= n /\ Runs(T.w.queue, Chunks(T.w.queue), n - Chunks(T.w.queue))
  <2>1. CASE T.w.queue = S.w.queue
    BY <1>7, <2>1 DEF Ordered
  <2>2. CASE T.w.queue = <<>>
    BY <1>5, <1>6, <2>2
  <2> QED BY <1>2, <2>1, <2>2
<1>10. Shaped(T)
  BY <1>1, <1>2, <1>7 DEF Shaped
<1>11. Passing(T, c) => Passing(S, c) /\ T.r.queue = S.r.queue /\ T.w.queue = S.w.queue
  BY <1>1, <1>2 DEF Passing
<1>12. T.r.state = "readable" => ~c
  BY <1>2 DEF Flow
<1>13. Passing(T, c) =>
         Len(T.got) + Len(T.r.queue)
           = (n - Chunks(T.w.queue)) + (IF Delivered(T.w) THEN 1 ELSE 0)
  BY <1>1, <1>2, <1>11 DEF Flow
<1> QED BY <1>8, <1>9, <1>10, <1>12, <1>13 DEF Flow, Ordered

LEMMA CallPullIfNeededFlows ==
  ASSUME NEW S \in Worlds, Good(S), NEW n \in Nat, NEW c \in BOOLEAN, Flow(S, n, c)
  PROVE  Flow(CallPullIfNeeded(S), n, c)
<1> DEFINE T == CallPullIfNeeded(S)
<1>1. T \in Worlds /\ Keeps(S, T) /\ Leaves(S, T)
  BY CallPullIfNeededGood, CallPullIfNeededLeaves DEF Good
<1> HIDE DEF T
<1> QED BY <1>1, FlowLeft DEF T

LEMMA ErrorStreamFlows ==
  ASSUME NEW S \in Worlds, Good(S), NEW n \in Nat, NEW c \in BOOLEAN, Flow(S, n, c)
  PROVE  Flow(ErrorStream(S), n, c)
<1> DEFINE T == ErrorStream(S)
<1>1. T \in Worlds /\ Keeps(S, T) /\ Leaves(S, T)
  BY ErrorStreamGood, ErrorStreamLeaves DEF Good
<1> HIDE DEF T
<1> QED BY <1>1, FlowLeft DEF T

\* A phase of the same kind.
LEMMA PhaseFlows ==
  ASSUME NEW S \in Worlds, NEW n, NEW c, Flow(S, n, c), NEW p \in Phases,
         S.w.inFlight = "write" =>
           (p \in {"none", "blocked", "unblocked"} <=>
              S.w.phase \in {"none", "blocked", "unblocked"})
  PROVE  Flow([S EXCEPT !.w.phase = p], n, c)
<1> DEFINE T == [S EXCEPT !.w.phase = p]
<1>1. /\ T.got = S.got /\ T.r = S.r /\ T.w.state = S.w.state /\ T.w.queue = S.w.queue
      /\ T.w.closing = S.w.closing /\ T.w.inFlight = S.w.inFlight /\ T.w.phase = p
  BY DEF Worlds, Writable
<1> HIDE DEF T
<1>2. Delivered(T.w) = Delivered(S.w)
  BY <1>1 DEF Delivered
<1>3. Flow(T, n, c)
  BY <1>1, <1>2, FlowSame
<1> QED BY <1>3 DEF T

-----------------------------------------------------------------------------
(* A chunk is passed on. *)

\* A chunk reaches a reader that waits, or the end of the queue.
Adds(S, T, chunk) ==
  /\ T.r.state = S.r.state /\ T.w = S.w
  /\ \/ /\ S.r.requests > 0 /\ T.r.queue = S.r.queue
        /\ T.got = Append(S.got, chunk)
     \/ /\ T.r.requests = 0 /\ T.got = S.got
        /\ T.r.queue = Append(S.r.queue, chunk)

LEMMA QueueAdds ==
  ASSUME NEW S \in Worlds, NEW chunk \in Nat
  PROVE  Adds(S, IF S.r.requests > 0
                 THEN [S EXCEPT !.r.requests = @ - 1, !.got = Append(@, chunk)]
                 ELSE [S EXCEPT !.r.queue = Append(@, chunk)], chunk)
<1>1. CASE S.r.requests > 0
  <2> DEFINE T == [S EXCEPT !.r.requests = @ - 1, !.got = Append(@, chunk)]
  <2>1. /\ T.w = S.w /\ T.r.state = S.r.state /\ T.r.queue = S.r.queue
        /\ T.got = Append(S.got, chunk)
    BY DEF Worlds, Readable
  <2> HIDE DEF T
  <2>2. Adds(S, T, chunk)
    BY <1>1, <2>1 DEF Adds
  <2> QED BY <1>1, <2>2 DEF T
<1>2. CASE ~(S.r.requests > 0)
  <2> DEFINE T == [S EXCEPT !.r.queue = Append(@, chunk)]
  <2>1. /\ T.w = S.w /\ T.r.state = S.r.state /\ T.r.requests = S.r.requests
        /\ T.got = S.got /\ T.r.queue = Append(S.r.queue, chunk)
    BY DEF Worlds, Readable
  <2>2. S.r.requests = 0
    BY <1>2 DEF Worlds, Readable
  <2> HIDE DEF T
  <2>3. Adds(S, T, chunk)
    BY <2>1, <2>2 DEF Adds
  <2> QED BY <1>2, <2>3 DEF T
<1> QED BY <1>1, <1>2

\* Before it is passed on, the chunk is the first that waits; its phase then
\* says that it was.
LEMMA AddsFlow ==
  ASSUME NEW S \in Worlds, NEW T \in Worlds, NEW n \in Nat, NEW c \in BOOLEAN, Flow(S, n, c),
         S.r.state = "readable", S.w.state = "writable", S.w.inFlight = "write",
         ~Delivered(S.w), NEW chunk \in Nat, chunk = (n - Chunks(S.w.queue)) + 1,
         Adds(S, T, chunk), NEW q \in {"done", "failed"}
  PROVE  Flow([T EXCEPT !.w.phase = q], n, c)
<1> DEFINE U == [T EXCEPT !.w.phase = q]
           k == Chunks(S.w.queue)
           g == Len(S.got)
           l == Len(S.r.queue)
<1>1. /\ U.got = T.got /\ U.r = T.r /\ U.w.state = T.w.state /\ U.w.queue = T.w.queue
      /\ U.w.closing = T.w.closing /\ U.w.inFlight = T.w.inFlight /\ U.w.phase = q
  BY DEF Worlds, Writable
<1> HIDE DEF U
<1>2. /\ U.w.state = "writable" /\ U.w.queue = S.w.queue /\ U.w.closing = S.w.closing
      /\ U.w.inFlight = "write" /\ Delivered(U.w) /\ U.r.state = "readable"
  BY <1>1 DEF Adds, Delivered
<1>3. /\ S.got \in Seq(Nat) /\ S.r.queue \in Seq(Nat) /\ S.w.queue \in Seq(Nat)
      /\ g \in Nat /\ l \in Nat
  BY LenProperties DEF Worlds, Readable, Writable
<1>4. ~c /\ Passing(S, c) /\ Ordered(S, n) /\ Shaped(S)
  BY DEF Flow, Passing
<1>5. k \in Nat /\ k >= 1 /\ k <= n
  BY <1>3, <1>4, ChunksBounded DEF Shaped, Ordered
<1>6. g + l = n - k
  <2>1. g + l = (n - k) + (IF Delivered(S.w) THEN 1 ELSE 0)
    BY <1>4 DEF Flow
  <2> HIDE DEF g, l, k
  <2> QED BY <1>3, <1>5, <2>1
<1>7. Runs(S.got, g, 0) /\ Runs(S.r.queue, l, g) /\ Runs(S.w.queue, k, n - k)
  BY <1>4 DEF Ordered
<1>8. /\ Runs(U.got, Len(U.got), 0) /\ Runs(U.r.queue, Len(U.r.queue), Len(U.got))
      /\ Len(U.got) + Len(U.r.queue) = (g + l) + 1
      /\ U.r.requests > 0 => U.r.queue = <<>>
  <2>1. CASE /\ S.r.requests > 0 /\ T.r.queue = S.r.queue
             /\ T.got = Append(S.got, chunk)
    <3>1. S.r.queue = <<>> /\ l = 0
      BY <1>4, <2>1 DEF Shaped
    <3>2. chunk = (0 + g) + 1
      BY <1>3, <1>5, <1>6, <3>1
    <3> HIDE DEF k
    <3>3. /\ Len(Append(S.got, chunk)) = g + 1 /\ Runs(Append(S.got, chunk), g + 1, 0)
      BY <1>3, <1>7, <3>2, OneMore
    <3>4. /\ U.got = Append(S.got, chunk) /\ U.r.queue = <<>> /\ Len(U.r.queue) = 0
          /\ Len(U.got) = g + 1
      BY <1>1, <2>1, <3>1, <3>3
    <3>5. Runs(U.r.queue, 0, Len(U.got)) /\ Runs(U.got, g + 1, 0)
      BY <3>3, <3>4, RunsEmpty
    <3> HIDE DEF g, l
    <3> QED BY <1>3, <3>1, <3>4, <3>5
  <2>2. CASE /\ T.r.requests = 0 /\ T.got = S.got
             /\ T.r.queue = Append(S.r.queue, chunk)
    <3>1. chunk = (g + l) + 1
      BY <1>3, <1>5, <1>6
    <3> HIDE DEF k
    <3>2. /\ Len(Append(S.r.queue, chunk)) = l + 1
          /\ Runs(Append(S.r.queue, chunk), l + 1, g)
      BY <1>3, <1>7, <3>1, OneMore
    <3>3. /\ U.got = S.got /\ U.r.queue = Append(S.r.queue, chunk) /\ Len(U.got) = g
          /\ U.r.requests = 0
      BY <1>1, <2>2
    <3>4. Len(U.r.queue) = l + 1 /\ Runs(U.r.queue, l + 1, g) /\ Runs(U.got, g, 0)
      BY <1>7, <3>2, <3>3
    <3> HIDE DEF g, l
    <3>5. Len(U.got) + Len(U.r.queue) = (g + l) + 1
      <4> DEFINE x == Len(U.got)
                 y == Len(U.r.queue)
      <4>1. x = g /\ y = l + 1 /\ g \in Nat /\ l \in Nat
        BY <1>3, <3>3, <3>4
      <4> HIDE DEF g, l, x, y
      <4>2. x + y = (g + l) + 1
        BY <4>1
      <4> QED BY <4>2 DEF x, y
    <3>6. ~(U.r.requests > 0)
      BY <3>3
    <3> QED BY <3>3, <3>4, <3>5, <3>6
  <2> QED BY <2>1, <2>2 DEF Adds
<1>9. Ordered(U, n)
  <2>1. Len(U.got) + Len(U.r.queue) <= n
    <3> DEFINE x == Len(U.got) + Len(U.r.queue)
    <3>1. /\ x = (g + l) + 1 /\ g + l = n - k /\ k >= 1 /\ k \in Nat
          /\ g \in Nat /\ l \in Nat
      BY <1>3, <1>5, <1>6, <1>8
    <3> HIDE DEF g, l, k, x
    <3>2. x <= n
      BY <3>1
    <3> QED BY <3>2 DEF x
  <2> QED BY <1>2, <1>5, <1>7, <1>8, <2>1 DEF Ordered
<1>10. Shaped(U)
  BY <1>2, <1>4, <1>8 DEF Shaped
<1>11. Len(U.got) + Len(U.r.queue) = (n - k) + 1
  BY <1>6, <1>8
<1>12. Flow(U, n, c)
  BY <1>2, <1>4, <1>9, <1>10, <1>11 DEF Flow
<1> QED BY <1>12 DEF U

\* What is done after the chunk was added, as long as neither side ends.
LEMMA AddsOn ==
  ASSUME NEW S, NEW T, NEW U, NEW chunk, Adds(S, T, chunk), S.r.state = "readable",
         S.w.state = "writable", T.w.inFlight = "write",
         Leaves(T, U), Still(T, U), Keeps(T, U)
  PROVE  /\ U.r.state = S.r.state
         /\ U.w.state = S.w.state /\ U.w.queue = S.w.queue /\ U.w.closing = S.w.closing
         /\ U.w.inFlight = S.w.inFlight
         /\ U.r.queue = T.r.queue /\ U.r.requests = T.r.requests /\ U.got = T.got
BY DEF Adds, Leaves, Still, Keeps

\* As AddsFlow, after what else enqueue does.
LEMMA AddedFlows ==
  ASSUME NEW S \in Worlds, NEW T \in Worlds, NEW U \in Worlds, NEW n \in Nat,
         NEW c \in BOOLEAN, Flow(S, n, c),
         S.r.state = "readable", S.w.state = "writable", S.w.inFlight = "write",
         ~Delivered(S.w), NEW chunk \in Nat, chunk = (n - Chunks(S.w.queue)) + 1,
         Adds(S, T, chunk), Leaves(T, U), Still(T, U), Keeps(T, U)
  PROVE  Flow([U EXCEPT !.w.phase = "done"], n, c)
<1> DEFINE P == [T EXCEPT !.w.phase = "done"]
           Q == [U EXCEPT !.w.phase = "done"]
<1>1. Flow(P, n, c)
  BY AddsFlow
<1>2. /\ P.got = T.got /\ P.r = T.r /\ P.w.state = T.w.state /\ P.w.queue = T.w.queue
      /\ P.w.closing = T.w.closing /\ P.w.inFlight = T.w.inFlight /\ P.w.phase = "done"
  BY DEF Worlds, Writable
<1>3. /\ Q.got = U.got /\ Q.r = U.r /\ Q.w.state = U.w.state /\ Q.w.queue = U.w.queue
      /\ Q.w.closing = U.w.closing /\ Q.w.inFlight = U.w.inFlight /\ Q.w.phase = "done"
  BY DEF Worlds, Writable
<1>4. T.w = S.w /\ T.r.state = "readable"
  BY DEF Adds
<1>5. /\ U.r.state = S.r.state
      /\ U.w.state = S.w.state /\ U.w.queue = S.w.queue /\ U.w.closing = S.w.closing
      /\ U.w.inFlight = S.w.inFlight
      /\ U.r.queue = T.r.queue /\ U.r.requests = T.r.requests /\ U.got = T.got
  BY <1>4, AddsOn
<1> HIDE DEF P, Q
<1>6. Delivered(P.w) = Delivered(Q.w)
  BY <1>2, <1>3, <1>4, <1>5 DEF Delivered
<1>7. Flow(Q, n, c)
  BY <1>1, <1>2, <1>3, <1>4, <1>5, <1>6, FlowSame
<1> QED BY <1>7 DEF Q

\* enqueue adds the chunk, if it does not throw.
LEMMA EnqueueAdds ==
  ASSUME NEW S \in Worlds, Good(S), Open(S.r), NEW chunk \in Nat, ~Throws(S, chunk)
  PROVE  LET U == Enqueue(S, chunk)
         IN  \E T \in Worlds : Adds(S, T, chunk) /\ Leaves(T, U) /\ Still(T, U) /\ Keeps(T, U)
<1> DEFINE T == IF S.r.requests > 0
                THEN [S EXCEPT !.r.requests = @ - 1, !.got = Append(@, chunk)]
                ELSE [S EXCEPT !.r.queue = Append(@, chunk)]
           E == CallPullIfNeeded(T)
           b == ~ShouldCallPull(E.r)
           A == MozAssert(E, "Enqueue", b)
<1>1. Enqueue(S, chunk) = IF b = E.ts.backpressure THEN E ELSE SetBackpressure(A, TRUE)
  BY DEF Enqueue, Open, CanCloseOrEnqueue, ReadableEnqueue
<1>2. b \in BOOLEAN
  OBVIOUS
<1>3. /\ T \in Worlds /\ T.w = S.w /\ T.ts = S.ts /\ T.r.pulling = S.r.pulling
      /\ T.r.state = S.r.state /\ T.r.closing = S.r.closing
      /\ Adds(S, T, chunk)
  BY QueueIsAWorld, QueueAdds
<1> HIDE DEF T
<1>4. Good(T)
  BY <1>3 DEF Good, PullWaits, Callable, Ends, Open
<1>5. Good(E) /\ Leaves(T, E) /\ Still(T, E) /\ Keeps(T, E)
  BY <1>3, <1>4, CallPullIfNeededGood, CallPullIfNeededMoves, CallPullIfNeededLeaves
<1> HIDE DEF E, b
<1>6. E \in Worlds /\ E.ts.backpressure \in BOOLEAN /\ E.failed \in {"none", "Enqueue"}
  BY <1>5 DEF Good, Worlds, Slots
<1>7. CASE b = E.ts.backpressure
  BY <1>1, <1>3, <1>5, <1>7
<1>8. CASE b # E.ts.backpressure
  <2>1. /\ A \in Worlds /\ A.r = E.r /\ A.w = E.w /\ A.ts = E.ts /\ A.got = E.got
        /\ A.ts.backpressure # TRUE \/ A.failed = "Enqueue"
    <3>1. CASE b
      BY <1>2, <1>6, <1>8, <3>1 DEF MozAssert
    <3>2. CASE ~b /\ E.failed # "none"
      BY <1>6, <3>2 DEF MozAssert
    <3>3. CASE ~b /\ E.failed = "none"
      <4>1. A = [E EXCEPT !.failed = "Enqueue"]
        BY <3>3 DEF MozAssert
      <4>2. [E EXCEPT !.failed = "Enqueue"].got = E.got
        BY <1>6 DEF Worlds
      <4> HIDE DEF A
      <4> QED BY <1>6, <4>1, <4>2, FailedIsAWorld
    <3> QED BY <3>1, <3>2, <3>3
  <2> HIDE DEF A
  <2>2. Callable(A)
    BY <1>5, <2>1 DEF Good, Callable, Ends
  <2> DEFINE U == SetBackpressure(A, TRUE)
  <2>3. Leaves(A, U) /\ Still(A, U) /\ Keeps(A, U)
    BY <2>1, <2>2, SetBackpressureLeaves, SetBackpressureMoves, SetBackpressureChanges
  <2> HIDE DEF U
  <2>4. Leaves(E, U) /\ Still(E, U) /\ Keeps(E, U)
    BY <2>1, <2>3 DEF Leaves, Still, Keeps
  <2>5. Leaves(T, U) /\ Still(T, U) /\ Keeps(T, U)
    BY <1>5, <2>4, LeavesTransitive, StillTransitive, KeepsTransitive
  <2> QED BY <1>1, <1>3, <1>8, <2>5 DEF U
<1> QED BY <1>7, <1>8

LEMMA PerformTransformFlows ==
  ASSUME NEW S \in Worlds, Good(S), NEW n \in Nat, NEW c \in BOOLEAN, Flow(S, n, c),
         ~config.transformer, Open(S.r), S.w.state = "writable", S.w.inFlight = "write",
         ~Delivered(S.w), NEW chunk \in Nat, chunk = (n - Chunks(S.w.queue)) + 1
  PROVE  Flow(PerformTransform(S, chunk), n, c)
<1> DEFINE U == Enqueue(S, chunk)
<1>1. PerformTransform(S, chunk) =
        [U EXCEPT !.w.phase = IF Throws(S, chunk) THEN "failed" ELSE "done"]
  BY DEF PerformTransform, Good, Callable
<1>2. U \in Worlds /\ S.r.state = "readable"
  BY EnqueueGood DEF Good, Open
<1>3. CASE Throws(S, chunk)
  <2>1. U = ErrorStream(S)
    BY <1>3 DEF Enqueue, Open, CanCloseOrEnqueue
  <2>2. Flow(U, n, c) /\ U.r.state = "errored"
    BY <1>2, <2>1, ErrorStreamFlows, ErrorStreamLeaves
  <2> DEFINE P == [U EXCEPT !.w.phase = "failed"]
  <2>3. /\ P.got = U.got /\ P.r = U.r /\ P.w.state = U.w.state /\ P.w.queue = U.w.queue
        /\ P.w.closing = U.w.closing /\ P.w.inFlight = U.w.inFlight
    BY <1>2 DEF Worlds, Writable
  <2> HIDE DEF U, P
  <2>4. Ordered(P, n) /\ Shaped(P)
    BY <2>2, <2>3 DEF Flow, Ordered, Shaped
  <2>5. P.r.state = "errored" /\ ~Passing(P, c)
    BY <2>2, <2>3 DEF Passing
  <2>6. Flow(P, n, c)
    BY <2>4, <2>5 DEF Flow
  <2> QED BY <1>1, <1>3, <2>6 DEF P
<1>4. CASE ~Throws(S, chunk)
  <2>1. PICK T \in Worlds : Adds(S, T, chunk) /\ Leaves(T, U) /\ Still(T, U) /\ Keeps(T, U)
    BY <1>4, EnqueueAdds
  <2> HIDE DEF U
  <2>2. Flow([U EXCEPT !.w.phase = "done"], n, c)
    BY <1>2, <2>1, AddedFlows
  <2> QED BY <1>1, <1>4, <2>2
<1> QED BY <1>3, <1>4

LEMMA FirstChunk ==
  ASSUME NEW S \in Worlds, NEW n \in Nat, NEW c, Flow(S, n, c), Chunks(S.w.queue) >= 1
  PROVE  /\ Head(S.w.queue) \in Nat
         /\ Head(S.w.queue) = (n - Chunks(S.w.queue)) + 1
<1> DEFINE q == S.w.queue
           k == Chunks(q)
<1>1. q \in Seq(Nat)
  BY DEF Worlds, Writable
<1>2. k \in Nat /\ k <= Len(q) /\ k <= n /\ Runs(q, k, n - k)
  BY <1>1, ChunksBounded DEF Flow, Ordered
<1>3. q # <<>>
  BY ChunksEmpty
<1>4. k >= 1
  OBVIOUS
<1> HIDE DEF q, k
<1>5. n - k \in Nat
  BY <1>2
<1>6. Head(q) = (n - k) + 1
  BY <1>1, <1>2, <1>3, <1>4, <1>5, RunsOn
<1>7. Head(q) \in Nat
  BY <1>1, <1>3, HeadTailProperties
<1> QED BY <1>6, <1>7 DEF q, k

LEMMA DefaultSinkWriteFlows ==
  ASSUME NEW S \in Worlds, Good(S), NEW n \in Nat, NEW c \in BOOLEAN, Flow(S, n, c),
         ~config.transformer, Open(S.r), S.w.state = "writable", S.w.inFlight = "write",
         S.w.phase = "none"
  PROVE  Flow(DefaultSinkWrite(S), n, c)
<1>1. DefaultSinkWrite(S) = IF S.ts.backpressure THEN [S EXCEPT !.w.phase = "blocked"]
                            ELSE PerformTransform(S, Head(S.w.queue))
  BY DEF DefaultSinkWrite, MozAssert
<1>2. CASE S.ts.backpressure
  <2>1. "blocked" \in Phases
    BY DEF Phases
  <2>2. Flow([S EXCEPT !.w.phase = "blocked"], n, c)
    BY <2>1, PhaseFlows
  <2> QED BY <1>1, <1>2, <2>2
<1>3. CASE ~S.ts.backpressure
  <2>1. Chunks(S.w.queue) >= 1 /\ ~Delivered(S.w)
    BY DEF Flow, Shaped, Delivered
  <2>2. /\ Head(S.w.queue) \in Nat
        /\ Head(S.w.queue) = (n - Chunks(S.w.queue)) + 1
    BY <2>1, FirstChunk
  <2>3. Flow(PerformTransform(S, Head(S.w.queue)), n, c)
    BY <2>1, <2>2, PerformTransformFlows
  <2> QED BY <1>1, <1>3, <2>3
<1> QED BY <1>2, <1>3

\* A close comes out of the queue when no chunk is in it any more.
LEMMA CloseFlows ==
  ASSUME NEW S \in Worlds, NEW n \in Nat, NEW c \in BOOLEAN, Flow(S, n, c),
         S.w.inFlight = "none", S.w.state = "writable", S.w.queue # <<>>,
         Head(S.w.queue) = Close
  PROVE  Flow([S EXCEPT !.w.queue = Tail(@), !.w.inFlight = "close"], n, c)
<1> DEFINE T == [S EXCEPT !.w.queue = Tail(@), !.w.inFlight = "close"]
           q == S.w.queue
<1>1. q \in Seq(Nat)
  BY DEF Worlds, Writable
<1>2. Chunks(q) \in Nat /\ Chunks(q) <= n /\ Close = 0
  BY <1>1, ChunksBounded DEF Flow, Ordered, Close
<1>3. Chunks(q) = 0
  <2>1. ASSUME Chunks(q) >= 1
        PROVE  Head(q) = (n - Chunks(q)) + 1
    BY <2>1, FirstChunk
  <2> HIDE DEF q
  <2> DEFINE k == Chunks(q)
  <2>2. k \in Nat /\ k <= n
    BY <1>2
  <2>3. k >= 1 => Head(q) = (n - k) + 1
    BY <2>1
  <2>4. Head(q) = 0
    BY <1>2 DEF q
  <2> HIDE DEF k
  <2>5. k = 0
    BY <2>2, <2>3, <2>4
  <2> QED BY <2>5 DEF k
<1>4. Tail(q) = <<>> /\ Last(q) = Close
  BY <1>1, <1>3, ChunkTaken
<1>5. S.w.closing
  BY <1>4 DEF Flow, Shaped
<1>6. /\ T.got = S.got /\ T.r = S.r /\ T.w.state = "writable" /\ T.w.queue = Tail(q)
      /\ T.w.closing = S.w.closing /\ T.w.inFlight = "close"
  BY DEF Worlds, Writable
<1> HIDE DEF T, q
<1>7. T.w.queue = <<>> /\ Chunks(T.w.queue) = 0
  BY <1>4, <1>6, ChunksEmpty
<1>8. Runs(T.w.queue, 0, n - 0)
  BY RunsEmpty
<1>9. /\ Runs(T.got, Len(T.got), 0)
      /\ Runs(T.r.queue, Len(T.r.queue), Len(T.got))
      /\ Len(T.got) + Len(T.r.queue) <= n
  BY <1>6 DEF Flow, Ordered
<1>10. Ordered(T, n)
  <2> DEFINE k == Chunks(T.w.queue)
  <2>1. k = 0
    BY <1>7
  <2> HIDE DEF k
  <2>2. k <= n /\ Runs(T.w.queue, k, n - k)
    BY <1>8, <2>1
  <2> QED BY <1>9, <2>2 DEF Ordered, k
<1>11. Shaped(T)
  BY <1>5, <1>6, <1>7 DEF Flow, Shaped
<1>12. Passing(T, c) => Passing(S, c)
  BY <1>6 DEF Passing
<1>13. ~Delivered(S.w) /\ ~Delivered(T.w)
  BY <1>6 DEF Delivered
<1>14. Passing(T, c) =>
         Len(T.got) + Len(T.r.queue)
           = (n - Chunks(T.w.queue)) + (IF Delivered(T.w) THEN 1 ELSE 0)
  BY <1>3, <1>6, <1>7, <1>12, <1>13 DEF Flow, q
<1>15. T.r.state = "readable" => ~c
  BY <1>6 DEF Flow
<1>16. Flow(T, n, c)
  BY <1>10, <1>11, <1>14, <1>15 DEF Flow
<1> QED BY <1>16 DEF T

LEMMA AdvanceQueueFlows ==
  ASSUME NEW S \in Worlds, Good(S), Paired(S), S.w.state \in {"writable", "erroring"},
         NEW n \in Nat, NEW c \in BOOLEAN, Flow(S, n, c), ~config.transformer,
         S.w.state = "writable" /\ S.w.inFlight # "close" => Open(S.r)
  PROVE  Flow(AdvanceQueueIfNeeded(S), n, c)
<1>1. CASE ~S.w.started \/ S.w.inFlight # "none"
  BY <1>1 DEF AdvanceQueueIfNeeded
<1>2. CASE S.w.started /\ S.w.inFlight = "none" /\ S.w.state = "erroring"
  <2> DEFINE T == FinishErroring(S)
  <2>1. AdvanceQueueIfNeeded(S) = T
    BY <1>2 DEF AdvanceQueueIfNeeded
  <2>2. T \in Worlds /\ Keeps(S, T) /\ Leaves(S, T)
    BY <1>2, FinishErroringGood, FinishErroringLeaves DEF Good, Callable
  <2> HIDE DEF T
  <2> QED BY <2>1, <2>2, FlowLeft
<1>3. CASE /\ S.w.started /\ S.w.inFlight = "none"
           /\ S.w.state = "writable" /\ S.w.queue = <<>>
  BY <1>3 DEF AdvanceQueueIfNeeded
<1>4. CASE /\ S.w.started /\ S.w.inFlight = "none"
           /\ S.w.state = "writable" /\ S.w.queue # <<>> /\ Head(S.w.queue) = Close
  <2> DEFINE C == [S EXCEPT !.w.queue = Tail(@), !.w.inFlight = "close"]
             T == [C EXCEPT !.ts.algorithms = FALSE, !.w.phase = "fulfilled"]
  <2>1. AdvanceQueueIfNeeded(S) = DefaultSinkClose(C)
    BY <1>4 DEF AdvanceQueueIfNeeded
  <2>2. C \in Worlds /\ C.ts = S.ts /\ C.w.inFlight = "close"
    BY <1>4, CloseIsAWorld
  <2>3. Flow(C, n, c)
    BY <1>4, CloseFlows
  <2> HIDE DEF C
  <2>4. DefaultSinkClose(C) = T
    BY <1>4, <2>2 DEF DefaultSinkClose, Good, Callable
  <2>5. /\ T.got = C.got /\ T.r = C.r /\ T.w.state = C.w.state /\ T.w.queue = C.w.queue
        /\ T.w.closing = C.w.closing /\ T.w.inFlight = C.w.inFlight
    BY <2>2 DEF Worlds, Writable
  <2> HIDE DEF T
  <2>6. Delivered(T.w) = Delivered(C.w)
    BY <2>2, <2>5 DEF Delivered
  <2>7. Flow(T, n, c)
    BY <2>3, <2>5, <2>6, FlowSame
  <2> QED BY <2>1, <2>4, <2>7
<1>5. CASE /\ S.w.started /\ S.w.inFlight = "none"
           /\ S.w.state = "writable" /\ S.w.queue # <<>> /\ Head(S.w.queue) # Close
  <2> DEFINE C == [S EXCEPT !.w.inFlight = "write"]
  <2>1. AdvanceQueueIfNeeded(S) = DefaultSinkWrite(C)
    BY <1>5 DEF AdvanceQueueIfNeeded
  <2>2. /\ C \in Worlds /\ C.r = S.r /\ C.ts = S.ts /\ C.w.inFlight = "write"
        /\ C.w.state = S.w.state /\ C.w.started = S.w.started
        /\ C.w.queue = S.w.queue /\ C.w.phase = S.w.phase
    BY WritingIsAWorld
  <2>3. C.got = S.got /\ C.w.closing = S.w.closing
    BY DEF Worlds, Writable
  <2> HIDE DEF C
  <2>4. Good(C) /\ C.w.phase = "none" /\ Open(C.r)
    BY <1>5, <2>2 DEF Good, PullWaits, Callable, Ends, Paired
  <2>5. S.w.queue \in Seq(Nat)
    BY DEF Worlds, Writable
  <2>6. Chunks(S.w.queue) \in Nat /\ Chunks(S.w.queue) # 0
    BY <1>5, <2>5, ChunkTaken, ChunksBounded
  <2>7. ~Delivered(C.w) /\ ~Delivered(S.w)
    BY <1>5, <2>4 DEF Delivered
  <2>8. Ordered(C, n) /\ Shaped(C)
    <3>1. Ordered(C, n)
      BY <2>2, <2>3 DEF Flow, Ordered
    <3>2. Chunks(C.w.queue) >= 1
      BY <2>2, <2>6
    <3>3. Shaped(C)
      BY <1>5, <2>2, <2>3, <3>2 DEF Flow, Shaped
    <3> QED BY <3>1, <3>3
  <2>9. Passing(C, c) => Passing(S, c)
    BY <2>2 DEF Passing
  <2>10. Flow(C, n, c)
    BY <2>2, <2>3, <2>7, <2>8, <2>9 DEF Flow
  <2> QED BY <1>5, <2>1, <2>2, <2>4, <2>10, DefaultSinkWriteFlows
<1> QED BY <1>1, <1>2, <1>3, <1>4, <1>5

-----------------------------------------------------------------------------
(* What the steps do to the chunks before they call an operator. *)

\* A chunk is written.
LEMMA WriteFlows ==
  ASSUME NEW S \in Worlds, NEW n \in Nat, NEW c \in BOOLEAN, Flow(S, n, c),
         ~S.w.closing, S.w.state = "writable"
  PROVE  Flow([S EXCEPT !.w.queue = Append(@, n + 1)], n + 1, c)
<1> DEFINE q == S.w.queue
           t == Append(q, n + 1)
           T == [S EXCEPT !.w.queue = t]
           k == Chunks(q)
           x == Len(S.got) + Len(S.r.queue)
<1>1. q \in Seq(Nat) /\ (q = <<>> \/ Last(q) # Close)
  BY DEF Worlds, Writable, Flow, Shaped
<1>2. n + 1 \in Nat /\ n + 1 # Close
  BY DEF Close
<1>3. /\ t # <<>> /\ Last(t) = n + 1 /\ Chunks(t) = k + 1 /\ k = Len(q)
  BY <1>1, <1>2, ChunkAdded
<1>4. k \in Nat /\ k <= n /\ Runs(q, k, n - k) /\ x <= n
  BY <1>1, ChunksBounded DEF Flow, Ordered
<1>5. Len(S.got) \in Nat /\ Len(S.r.queue) \in Nat
  BY LenProperties DEF Worlds, Readable
<1>6. x \in Nat
  <2> DEFINE y == Len(S.got)
             z == Len(S.r.queue)
  <2>1. y \in Nat /\ z \in Nat
    BY <1>5
  <2> HIDE DEF y, z
  <2>2. y + z \in Nat
    BY <2>1
  <2> QED BY <2>2 DEF y, z
<1>7. Passing(S, c) => x = (n - k) + (IF Delivered(S.w) THEN 1 ELSE 0)
  BY DEF Flow
<1>8. /\ T.got = S.got /\ T.r = S.r /\ T.w.state = S.w.state /\ T.w.queue = t
      /\ T.w.closing = S.w.closing /\ T.w.inFlight = S.w.inFlight /\ T.w.phase = S.w.phase
  BY DEF Worlds, Writable
<1>9. T = [S EXCEPT !.w.queue = Append(@, n + 1)]
  OBVIOUS
<1> HIDE DEF T
<1>10. Runs(t, k + 1, n - k)
  <2> DEFINE a == n - k
  <2>1. a \in Nat /\ n + 1 = (a + k) + 1 /\ k \in 0..Len(q)
    BY <1>3, <1>4
  <2>2. Runs(q, k, a)
    BY <1>4
  <2> HIDE DEF a, k, q
  <2>3. Runs(Append(q, n + 1), k + 1, a)
    BY <1>1, <1>2, <1>3, <2>1, <2>2, RunsLonger
  <2> QED BY <2>3 DEF a
<1> HIDE DEF q, t, k
<1>11. Ordered(T, n + 1)
  <2>1. x <= n + 1 /\ k + 1 <= n + 1 /\ (n + 1) - (k + 1) = n - k
    <3> HIDE DEF x
    <3> QED BY <1>4, <1>6
  <2>2. /\ Runs(T.got, Len(T.got), 0)
        /\ Runs(T.r.queue, Len(T.r.queue), Len(T.got))
    BY <1>8 DEF Flow, Ordered
  <2>3. Len(T.got) + Len(T.r.queue) <= n + 1
    BY <1>8, <2>1
  <2>4. Chunks(T.w.queue) <= n + 1 /\ Runs(T.w.queue, k + 1, (n + 1) - (k + 1))
    BY <1>3, <1>8, <1>10, <2>1
  <2> QED BY <1>3, <1>8, <2>2, <2>3, <2>4 DEF Ordered
<1>12. S.w.inFlight # "close"
  BY DEF Flow, Shaped
<1>13. Shaped(T)
  <2>1. T.w.inFlight = "write" => Chunks(T.w.queue) >= 1
    BY <1>3, <1>4, <1>8
  <2>2. ~(Last(T.w.queue) = Close)
    BY <1>2, <1>3, <1>8
  <2> QED BY <1>8, <1>12, <2>1, <2>2 DEF Flow, Shaped
<1>14. Passing(T, c) => Passing(S, c)
  BY <1>8 DEF Passing
<1>15. Delivered(T.w) = Delivered(S.w)
  BY <1>8 DEF Delivered
<1>16. Passing(T, c) =>
         x = ((n + 1) - (k + 1)) + (IF Delivered(T.w) THEN 1 ELSE 0)
  <2> HIDE DEF x
  <2>1. (n + 1) - (k + 1) = n - k
    BY <1>4
  <2> QED BY <1>7, <1>14, <1>15, <2>1
<1>17. Flow(T, n + 1, c)
  BY <1>3, <1>8, <1>11, <1>13, <1>16 DEF Flow
<1> QED BY <1>9, <1>17

\* A close is queued, after all chunks.
LEMMA CloseQueuedFlows ==
  ASSUME NEW S \in Worlds, NEW n \in Nat, NEW c \in BOOLEAN, Flow(S, n, c),
         ~S.w.closing, S.w.state \in {"writable", "erroring"}
  PROVE  Flow([S EXCEPT !.w.queue = Append(@, Close), !.w.closing = TRUE], n, c)
<1> DEFINE q == S.w.queue
           t == Append(q, Close)
           T == [S EXCEPT !.w.queue = t, !.w.closing = TRUE]
           k == Chunks(q)
<1>1. q \in Seq(Nat) /\ (q = <<>> \/ Last(q) # Close) /\ Close \in Nat
  BY DEF Worlds, Writable, Flow, Shaped, Close
<1>2. Chunks(t) = k /\ k = Len(q)
  BY <1>1, ChunkAdded
<1>3. k \in Nat /\ k <= n /\ Runs(q, k, n - k)
  BY <1>1, ChunksBounded DEF Flow, Ordered
<1>4. /\ T.got = S.got /\ T.r = S.r /\ T.w.state = S.w.state /\ T.w.queue = t
      /\ T.w.closing /\ T.w.inFlight = S.w.inFlight /\ T.w.phase = S.w.phase
  BY DEF Worlds, Writable
<1>5. T = [S EXCEPT !.w.queue = Append(@, Close), !.w.closing = TRUE]
  OBVIOUS
<1> HIDE DEF T
<1>6. Runs(t, k, n - k)
  <2> DEFINE a == n - k
  <2>1. a \in Nat /\ k \in 0..Len(q) /\ Runs(q, k, a)
    BY <1>2, <1>3
  <2> HIDE DEF a, k, q
  <2>2. Runs(Append(q, Close), k, a)
    BY <1>1, <2>1, RunsLonger
  <2> QED BY <2>2 DEF a
<1> HIDE DEF q, t, k
<1>7. Ordered(T, n)
  BY <1>2, <1>3, <1>4, <1>6 DEF Flow, Ordered
<1>8. S.w.inFlight # "close"
  BY DEF Flow, Shaped
<1>9. Shaped(T)
  <2>1. T.w.inFlight = "write" => Chunks(T.w.queue) >= 1
    BY <1>2, <1>4 DEF Flow, Shaped, k, q
  <2> QED BY <1>4, <1>8, <2>1 DEF Flow, Shaped
<1>10. Passing(T, c) => Passing(S, c)
  BY <1>4 DEF Passing
<1>11. Delivered(T.w) = Delivered(S.w)
  BY <1>4 DEF Delivered
<1>12. Flow(T, n, c)
  BY <1>2, <1>4, <1>7, <1>9, <1>10, <1>11 DEF Flow, k, q
<1> QED BY <1>5, <1>12

LEMMA RequestFlows ==
  ASSUME NEW S \in Worlds, NEW n, NEW c, Flow(S, n, c), S.r.queue = <<>>
  PROVE  Flow([S EXCEPT !.r.requests = @ + 1], n, c)
<1> DEFINE T == [S EXCEPT !.r.requests = @ + 1]
<1>1. T.got = S.got /\ T.w = S.w /\ T.r.state = S.r.state /\ T.r.queue = S.r.queue
  BY DEF Worlds, Readable
<1> HIDE DEF T
<1>2. Flow(T, n, c)
  BY <1>1, FlowSame
<1> QED BY <1>2 DEF T

\* A read takes the first chunk of the queue.
LEMMA ReadFlows ==
  ASSUME NEW S \in Worlds, NEW n \in Nat, NEW c \in BOOLEAN, Flow(S, n, c), S.r.queue # <<>>
  PROVE  Flow([S EXCEPT !.got = Append(@, Head(S.r.queue)), !.r.queue = Tail(@)], n, c)
<1> DEFINE q == S.r.queue
           g == S.got
           h == Append(g, Head(q))
           t == Tail(q)
           T == [S EXCEPT !.got = h, !.r.queue = t]
           l == Len(q)
           k == Len(g)
<1>1. q \in Seq(Nat) /\ g \in Seq(Nat) /\ q # <<>>
  BY DEF Worlds, Readable
<1>2. Head(q) \in Nat /\ Len(t) = l - 1 /\ l \in Nat /\ l >= 1 /\ k \in Nat
  BY <1>1, HeadTailProperties, EmptySeq, LenProperties
<1>3. Runs(g, k, 0) /\ Runs(q, l, k) /\ k + l <= n
  BY DEF Flow, Ordered
<1>4. /\ T.got = h /\ T.w = S.w /\ T.r.state = S.r.state /\ T.r.queue = t
      /\ T.r.requests = S.r.requests
  BY DEF Worlds, Readable
<1>5. T = [S EXCEPT !.got = Append(@, Head(S.r.queue)), !.r.queue = Tail(@)]
  OBVIOUS
<1> HIDE DEF T
<1>6. Head(q) = k + 1 /\ Runs(t, l - 1, k + 1)
  <2>1. l <= Len(q)
    BY <1>2
  <2>2. Runs(q, l, k)
    BY <1>3
  <2> HIDE DEF q, k, l
  <2> QED BY <1>1, <1>2, <2>1, <2>2, RunsOn
<1>7. Len(h) = k + 1 /\ Runs(h, k + 1, 0)
  <2>1. Head(q) = (0 + k) + 1 /\ Head(q) \in Nat
    BY <1>2, <1>6
  <2> HIDE DEF q
  <2> QED BY <1>1, <1>3, <2>1, OneMore
<1>8. ~(S.r.state # "readable" \/ S.r.requests > 0)
  BY DEF Flow, Shaped
<1> HIDE DEF q, g, h, t, l, k
<1>9. Len(T.got) = k + 1 /\ Len(T.r.queue) = l - 1
  BY <1>2, <1>4, <1>7
<1>10. Len(T.got) + Len(T.r.queue) = k + l
  <2> DEFINE x == Len(T.got)
             y == Len(T.r.queue)
  <2>1. x = k + 1 /\ y = l - 1
    BY <1>9
  <2> HIDE DEF x, y
  <2>2. x + y = k + l
    BY <1>2, <2>1
  <2> QED BY <2>2 DEF x, y
<1>11. Ordered(T, n)
  <2>1. Runs(T.got, Len(T.got), 0) /\ Runs(T.r.queue, Len(T.r.queue), Len(T.got))
    BY <1>4, <1>6, <1>7, <1>9
  <2>2. Len(T.got) + Len(T.r.queue) <= n
    BY <1>3, <1>10
  <2> QED BY <1>4, <2>1, <2>2 DEF Flow, Ordered
<1>12. Shaped(T)
  BY <1>4, <1>8 DEF Flow, Shaped
<1>13. Passing(T, c) => Passing(S, c)
  BY <1>4 DEF Passing
<1>14. Passing(T, c) =>
         k + l = (n - Chunks(S.w.queue)) + (IF Delivered(S.w) THEN 1 ELSE 0)
  BY <1>13 DEF Flow, k, l, g, q
<1>15. T.r.state = "readable" => ~c
  BY <1>4 DEF Flow
<1>16. Flow(T, n, c)
  BY <1>4, <1>10, <1>11, <1>12, <1>14, <1>15 DEF Flow
<1> QED BY <1>5, <1>16

\* The readable side ends, either after its last chunk or because of a cancel.
LEMMA CloseNowFlows ==
  ASSUME NEW S \in Worlds, NEW n \in Nat, NEW c \in BOOLEAN, NEW d \in BOOLEAN,
         Flow(S, n, c), d \/ (S.r.queue = <<>> /\ d = c /\ S.r.state # "errored")
  PROVE  Flow(CloseNow(S), n, d)
<1> DEFINE T == CloseNow(S)
<1>0. T = Emptied(S, "closed")
  BY DEF CloseNow, Emptied
<1> HIDE DEF T
<1>1. /\ T.got = S.got /\ T.w = S.w /\ T.r.state = "closed" /\ T.r.queue = <<>>
      /\ T.r.requests = 0
  BY <1>0, EmptyFields
<1>2. Len(S.got) \in Nat /\ Len(S.r.queue) \in Nat /\ Len(<<>>) = 0
  BY LenProperties DEF Worlds, Readable
<1>3. Len(S.got) + 0 <= n
  <2> DEFINE x == Len(S.got)
             y == Len(S.r.queue)
  <2>1. x \in Nat /\ y \in Nat /\ x + y <= n
    BY <1>2 DEF Flow, Ordered
  <2> HIDE DEF x, y
  <2>2. x + 0 <= n
    BY <2>1
  <2> QED BY <2>2 DEF x
<1>4. Runs(<<>>, 0, Len(S.got))
  BY RunsEmpty
<1>5. Ordered(T, n)
  <2>1. Len(T.r.queue) = 0 /\ Runs(T.r.queue, 0, Len(T.got))
    BY <1>1, <1>2, <1>4
  <2>2. Len(T.got) + Len(T.r.queue) <= n
    BY <1>1, <1>3, <2>1
  <2> QED BY <1>1, <2>1, <2>2 DEF Flow, Ordered
<1>6. Shaped(T)
  BY <1>1 DEF Flow, Shaped
<1>7. ASSUME d
      PROVE  Flow(T, n, d)
  BY <1>1, <1>5, <1>6, <1>7 DEF Flow, Passing
<1>8. ASSUME S.r.queue = <<>>, d = c, S.r.state # "errored"
      PROVE  Flow(T, n, d)
  <2>1. Passing(T, d) => Passing(S, c)
    BY <1>1, <1>8 DEF Passing
  <2>2. Len(T.got) + Len(T.r.queue) = Len(S.got) + Len(S.r.queue)
    BY <1>1, <1>8
  <2> QED BY <1>1, <1>5, <1>6, <1>8, <2>1, <2>2 DEF Flow
<1> QED BY <1>7, <1>8 DEF T

LEMMA ReadableCloseFlows ==
  ASSUME NEW S \in Worlds, NEW n \in Nat, NEW c \in BOOLEAN, Flow(S, n, c),
         S.r.state = "readable"
  PROVE  Flow(ReadableClose(S), n, c)
<1> DEFINE C == IF S.r.queue = <<>> THEN CloseNow(S) ELSE S
           T == [C EXCEPT !.r.closing = TRUE]
<1>1. ReadableClose(S) = T
  BY DEF ReadableClose
<1>2. Flow(C, n, c)
  BY CloseNowFlows
<1>3. C \in Worlds
  BY EmptyReadable DEF CloseNow
<1> HIDE DEF C
<1>4. /\ T.got = C.got /\ T.w = C.w /\ T.r.state = C.r.state /\ T.r.queue = C.r.queue
      /\ T.r.requests = C.r.requests
  BY <1>3 DEF Worlds, Readable
<1> HIDE DEF T
<1>5. Flow(T, n, c)
  BY <1>2, <1>4, FlowSame
<1> QED BY <1>1, <1>5

\* A write is done: its chunk leaves the queue it was passed on from.
LEMMA WriteDoneFlows ==
  ASSUME NEW S \in Worlds, NEW T \in Worlds, NEW n \in Nat, NEW c \in BOOLEAN,
         Flow(S, n, c), S.w.inFlight = "write", S.w.phase = "done",
         S.w.state \in {"writable", "erroring"},
         T.got = S.got, T.r = S.r, T.w.state = S.w.state, T.w.queue = S.w.queue,
         T.w.closing = S.w.closing, T.w.inFlight = "none"
  PROVE  Flow([T EXCEPT !.w.queue = Tail(@)], n, c)
<1> DEFINE U == [T EXCEPT !.w.queue = Tail(@)]
           q == S.w.queue
           t == Tail(q)
           k == Chunks(q)
           x == Len(S.got) + Len(S.r.queue)
<1>1. q \in Seq(Nat) /\ k >= 1
  BY DEF Worlds, Writable, Flow, Shaped
<1>2. q # <<>>
  BY <1>1, ChunksEmpty
<1>3. /\ k \in Nat /\ k <= n /\ k <= Len(q) /\ Runs(q, k, n - k)
  BY <1>1, ChunksBounded DEF Flow, Ordered
<1>4. Chunks(t) = k - 1 /\ (t # <<>> => Last(t) = Last(q))
  BY <1>1, <1>2, ChunkTaken
<1>5. /\ U.got = S.got /\ U.r = S.r /\ U.w.state = S.w.state /\ U.w.queue = t
      /\ U.w.closing = S.w.closing /\ U.w.inFlight = "none"
  BY DEF Worlds, Writable
<1> HIDE DEF U
<1>6. Runs(t, k - 1, (n - k) + 1)
  <2> DEFINE a == n - k
  <2>1. a \in Nat /\ Runs(q, k, a)
    BY <1>3
  <2> HIDE DEF a, k, q
  <2>2. Runs(Tail(q), k - 1, a + 1)
    BY <1>1, <1>2, <1>3, <2>1, RunsOn
  <2> QED BY <2>2 DEF a
<1>7. Delivered(S.w) /\ ~Delivered(U.w)
  BY <1>5 DEF Delivered
<1>8. Passing(U, c) => Passing(S, c)
  BY <1>5 DEF Passing
<1>9. Passing(S, c) => x = (n - k) + 1
  BY <1>7 DEF Flow
<1> HIDE DEF q, t, x, k
<1>10. /\ k - 1 <= n /\ n - (k - 1) = (n - k) + 1
       /\ (n - (k - 1)) + 0 = (n - k) + 1
  BY <1>1, <1>3
<1>11. Ordered(U, n)
  <2>1. Chunks(U.w.queue) <= n /\ Runs(U.w.queue, k - 1, n - (k - 1))
    BY <1>4, <1>5, <1>6, <1>10
  <2> QED BY <1>4, <1>5, <2>1 DEF Flow, Ordered
<1>12. Shaped(U)
  <2>1. q # <<>> /\ Last(q) = Close => S.w.closing
    BY DEF Flow, Shaped, q
  <2> QED BY <1>2, <1>4, <1>5, <2>1 DEF Flow, Shaped
<1>13. Passing(U, c) => x = (n - (k - 1)) + 0
  BY <1>8, <1>9, <1>10
<1>14. Len(U.got) + Len(U.r.queue) = x
  BY <1>5 DEF x
<1>15. U.r.state = "readable" => ~c
  BY <1>5 DEF Flow
<1>16. Flow(U, n, c)
  BY <1>4, <1>5, <1>7, <1>11, <1>12, <1>13, <1>14, <1>15 DEF Flow
<1> QED BY <1>16 DEF U

\* A close is done or refused, or a write refused, whose side is in error.
LEMMA EndFlows ==
  ASSUME NEW S, NEW T, NEW n \in Nat, NEW c \in BOOLEAN, Flow(S, n, c),
         S.w.inFlight = "close" \/ T.w.state # "writable",
         T.got = S.got, T.r = S.r, T.w.queue = S.w.queue, T.w.closing = S.w.closing,
         T.w.inFlight = "none",
         \/ T.w.state = S.w.state /\ S.w.state \in {"writable", "erroring"}
         \/ T.w.state = "closed" /\ S.w.inFlight = "close"
  PROVE  Flow(T, n, c)
<1>1. Ordered(T, n) /\ Shaped(T)
  BY DEF Flow, Ordered, Shaped
<1>2. Passing(T, c) => S.w.inFlight = "close" /\ Passing(S, c)
  BY DEF Passing
<1>3. ~Delivered(T.w) /\ (S.w.inFlight = "close" => ~Delivered(S.w))
  BY DEF Delivered
<1> QED BY <1>1, <1>2, <1>3 DEF Flow

-----------------------------------------------------------------------------
(* The steps. *)

LEMMA BecomeFlows ==
  ASSUME NEW X, Become(X), X \in Worlds, config' = config,
         Flow(X, calls'.write, calls'.cancel # 0)
  PROVE  FlowInv'
<1>1. X = [r |-> X.r, w |-> X.w, ts |-> X.ts, failed |-> X.failed, got |-> X.got]
  BY DEF Worlds
<1>2. World' = X
  BY <1>1 DEF Become, World
<1> QED BY <1>2 DEF FlowInv

LEMMA FlowParts ==
  ASSUME Inv, JoinInv, FlowInv, ~config.transformer
  PROVE  /\ World \in Worlds /\ Good(World) /\ Paired(World) /\ Tied(World)
         /\ calls.write \in Nat /\ calls \in Calls /\ (calls.cancel # 0) \in BOOLEAN
         /\ Flow(World, calls.write, calls.cancel # 0)
BY DEF Inv, JoinInv, Joined, Good, FlowInv, Calls

\* A step that queues no chunk and cancels nothing.
LEMMA StepFlows ==
  ASSUME NEW X, Become(X), X \in Worlds, Inv,
         Other \/ Count("read", MaxReads) \/ Count("sizeless", 1),
         Flow(X, calls.write, calls.cancel # 0)
  PROVE  FlowInv'
<1>1. /\ config' = config /\ calls'.write = calls.write
      /\ calls'.cancel = calls.cancel
  BY DEF Other, Count, Inv, Calls
<1> QED BY <1>1, BecomeFlows

LEMMA InitFlows == Init => FlowInv
<1> SUFFICES ASSUME Init PROVE Flow(World, calls.write, calls.cancel # 0)
  BY DEF FlowInv
<1>1. /\ World.got = <<>> /\ World.r.state = "readable" /\ World.r.queue = <<>>
      /\ World.r.requests = 0 /\ World.w.state = "writable" /\ World.w.queue = <<>>
      /\ World.w.inFlight = "none" /\ calls.write = 0 /\ calls.cancel = 0
  BY WorldParts DEF Init
<1>2. Chunks(World.w.queue) = 0 /\ Len(World.got) = 0 /\ Len(World.r.queue) = 0
  BY <1>1, ChunksEmpty
<1>3. \A a : Runs(<<>>, 0, a)
  BY RunsEmpty
<1>4. Ordered(World, 0)
  BY <1>1, <1>2, <1>3 DEF Ordered
<1>5. Shaped(World) /\ ~Delivered(World.w)
  BY <1>1 DEF Shaped, Delivered
<1>6. 0 + 0 = (0 - 0) + 0
  OBVIOUS
<1> QED BY <1>1, <1>2, <1>4, <1>5, <1>6 DEF Flow

LEMMA WriteFlow == Inv /\ JoinInv /\ FlowInv /\ Write => FlowInv'
<1> SUFFICES ASSUME Inv, JoinInv, FlowInv, Write, ~config.transformer PROVE FlowInv'
  BY DEF FlowInv, Write, Count
<1> DEFINE n == calls.write
           c == (calls.cancel # 0)
           T == [World EXCEPT !.w.queue = Append(@, n + 1)]
<1>1. /\ World \in Worlds /\ Good(World) /\ Paired(World) /\ Tied(World)
      /\ n \in Nat /\ calls \in Calls /\ c \in BOOLEAN /\ Flow(World, n, c)
  BY FlowParts
<1>2. /\ Become(AdvanceQueueIfNeeded(T)) /\ Count("write", MaxWrites)
      /\ World.w.state = "writable" /\ ~World.w.closing
  BY WorldParts DEF Write
<1>3. config' = config /\ calls'.write = n + 1 /\ (calls'.cancel # 0) = c
  BY <1>1, <1>2 DEF Count, Calls
<1> HIDE DEF n, c
<1>4. Flow(T, n + 1, c)
  BY <1>1, <1>2, WriteFlows
<1>5. Good(T) /\ Paired(T) /\ T.w.state = "writable" /\ T \in Worlds
  <2>1. n + 1 \in Nat
    BY <1>1
  <2> QED BY <1>1, <1>2, <2>1, WriteQueued
<1>6. T.r = World.r /\ T.w.inFlight = World.w.inFlight
  BY <1>1 DEF Worlds, Writable
<1> HIDE DEF T
<1>7. T.w.inFlight # "close" => Open(T.r)
  BY <1>1, <1>2, <1>6 DEF Tied, Linked
<1>8. n + 1 \in Nat
  BY <1>1
<1>9. Flow(AdvanceQueueIfNeeded(T), n + 1, c)
  BY <1>1, <1>4, <1>5, <1>7, <1>8, AdvanceQueueFlows
<1>10. AdvanceQueueIfNeeded(T) \in Worlds
  BY <1>5, AdvanceQueueGood DEF Good
<1> QED BY <1>2, <1>3, <1>9, <1>10, BecomeFlows

LEMMA WriterCloseFlow == Inv /\ JoinInv /\ FlowInv /\ WriterClose => FlowInv'
<1> SUFFICES ASSUME Inv, JoinInv, FlowInv, WriterClose, ~config.transformer PROVE FlowInv'
  BY DEF FlowInv, WriterClose, Other
<1> DEFINE n == calls.write
           c == (calls.cancel # 0)
           T == [World EXCEPT !.w.queue = Append(@, Close), !.w.closing = TRUE]
<1>1. /\ World \in Worlds /\ Good(World) /\ Paired(World) /\ Tied(World)
      /\ n \in Nat /\ c \in BOOLEAN /\ Flow(World, n, c)
  BY FlowParts
<1>2. /\ Become(AdvanceQueueIfNeeded(T)) /\ Other
      /\ World.w.state \in {"writable", "erroring"} /\ ~World.w.closing
  BY WorldParts DEF WriterClose
<1> HIDE DEF n, c
<1>3. Flow(T, n, c)
  BY <1>1, <1>2, CloseQueuedFlows
<1>4. Good(T) /\ Paired(T) /\ T.w.state = World.w.state /\ T \in Worlds
  BY <1>1, CloseQueued
<1>5. T.r = World.r /\ T.w.inFlight = World.w.inFlight
  BY <1>1 DEF Worlds, Writable
<1> HIDE DEF T
<1>6. T.w.state = "writable" /\ T.w.inFlight # "close" => Open(T.r)
  BY <1>1, <1>4, <1>5 DEF Tied, Linked
<1>7. Flow(AdvanceQueueIfNeeded(T), n, c)
  BY <1>1, <1>2, <1>3, <1>4, <1>6, AdvanceQueueFlows
<1>8. AdvanceQueueIfNeeded(T) \in Worlds
  BY <1>2, <1>4, AdvanceQueueGood DEF Good
<1> QED BY <1>2, <1>7, <1>8, StepFlows DEF n, c

LEMMA WriteSizelessFlow == Inv /\ JoinInv /\ FlowInv /\ WriteSizeless => FlowInv'
<1> SUFFICES ASSUME Inv, JoinInv, FlowInv, WriteSizeless, ~config.transformer PROVE FlowInv'
  BY DEF FlowInv, WriteSizeless, Count
<1> DEFINE n == calls.write
           c == (calls.cancel # 0)
           T == StartErroring(World)
<1>1. /\ World \in Worlds /\ Good(World) /\ Paired(World)
      /\ n \in Nat /\ c \in BOOLEAN /\ Flow(World, n, c)
  BY FlowParts
<1>2. Become(T) /\ World.w.state = "writable" /\ Count("sizeless", 1)
  BY WorldParts DEF WriteSizeless
<1> HIDE DEF n, c
<1>3. T \in Worlds /\ Keeps(World, T) /\ Leaves(World, T)
  BY <1>1, <1>2, StartErroringGood, StartErroringLeaves DEF Good, Callable
<1> HIDE DEF T
<1>4. Flow(T, n, c)
  BY <1>1, <1>3, FlowLeft
<1> QED BY <1>2, <1>3, <1>4, StepFlows DEF n, c

LEMMA AbortFlow == Inv /\ JoinInv /\ FlowInv /\ Abort => FlowInv'
<1> SUFFICES ASSUME Inv, JoinInv, FlowInv, Abort, ~config.transformer PROVE FlowInv'
  BY DEF FlowInv, Abort, Other
<1> DEFINE n == calls.write
           c == (calls.cancel # 0)
           P == [World EXCEPT !.w.abort = "pending"]
           L == [World EXCEPT !.w.abort = "late"]
<1>1. /\ World \in Worlds /\ Good(World) /\ Paired(World)
      /\ n \in Nat /\ c \in BOOLEAN /\ Flow(World, n, c)
  BY FlowParts
<1>2. Become(IF World.w.state = "writable" THEN StartErroring(P) ELSE L) /\ Other
  BY WorldParts DEF Abort
<1>3. /\ Good(P) /\ P.w.state = World.w.state /\ P \in Worlds /\ L \in Worlds
  BY <1>1, AbortNoted
<1>4. ASSUME NEW a
      PROVE  LET T == [World EXCEPT !.w.abort = a]
             IN  /\ T.got = World.got /\ T.r = World.r /\ T.w.state = World.w.state
                 /\ T.w.queue = World.w.queue /\ T.w.closing = World.w.closing
                 /\ T.w.inFlight = World.w.inFlight /\ T.w.phase = World.w.phase
  BY <1>1 DEF Worlds, Writable
<1>5. ASSUME NEW a
      PROVE  Flow([World EXCEPT !.w.abort = a], n, c)
  <2> DEFINE T == [World EXCEPT !.w.abort = a]
  <2>1. /\ T.got = World.got /\ T.r = World.r /\ T.w.state = World.w.state
        /\ T.w.queue = World.w.queue /\ T.w.closing = World.w.closing
        /\ T.w.inFlight = World.w.inFlight /\ T.w.phase = World.w.phase
    BY <1>4
  <2> HIDE DEF T, n, c
  <2>2. Delivered(T.w) = Delivered(World.w)
    BY <2>1 DEF Delivered
  <2>3. Flow(T, n, c)
    BY <1>1, <2>1, <2>2, FlowSame
  <2> QED BY <2>3 DEF T
<1>6. Flow(P, n, c) /\ Flow(L, n, c)
  BY <1>5
<1> HIDE DEF n, c, P, L
<1>7. CASE World.w.state = "writable"
  <2> DEFINE T == StartErroring(P)
  <2>1. T \in Worlds /\ Keeps(P, T) /\ Leaves(P, T)
    BY <1>3, <1>7, StartErroringGood, StartErroringLeaves DEF Good, Callable
  <2> HIDE DEF T
  <2>2. Flow(T, n, c)
    BY <1>1, <1>3, <1>6, <2>1, FlowLeft
  <2> QED BY <1>2, <1>7, <2>1, <2>2, StepFlows DEF n, c, T
<1>8. CASE World.w.state # "writable"
  BY <1>2, <1>3, <1>6, <1>8, StepFlows DEF n, c
<1> QED BY <1>7, <1>8

LEMMA ReadFlow == Inv /\ JoinInv /\ FlowInv /\ Read => FlowInv'
<1> SUFFICES ASSUME Inv, JoinInv, FlowInv, Read, ~config.transformer PROVE FlowInv'
  BY DEF FlowInv, Read, Count
<1> DEFINE n == calls.write
           c == (calls.cancel # 0)
           R == [World EXCEPT !.r.requests = @ + 1]
           T == [World EXCEPT !.got = Append(@, Head(World.r.queue)), !.r.queue = Tail(@)]
<1>1. /\ World \in Worlds /\ Good(World) /\ Paired(World)
      /\ n \in Nat /\ c \in BOOLEAN /\ Flow(World, n, c)
  BY FlowParts
<1>2. /\ Become(IF World.r.queue = <<>> THEN CallPullIfNeeded(R)
                ELSE IF T.r.closing /\ T.r.queue = <<>> THEN CloseNow(T)
                                                        ELSE CallPullIfNeeded(T))
      /\ Count("read", MaxReads) /\ World.r.state = "readable"
  BY WorldParts DEF Read
<1> HIDE DEF n, c
<1>3. CASE World.r.queue = <<>>
  <2>1. Good(R) /\ R \in Worlds
    BY <1>1, RequestAdded
  <2>2. Flow(R, n, c)
    BY <1>1, <1>3, RequestFlows
  <2> HIDE DEF R
  <2>3. Flow(CallPullIfNeeded(R), n, c) /\ CallPullIfNeeded(R) \in Worlds
    BY <1>1, <2>1, <2>2, CallPullIfNeededFlows, CallPullIfNeededGood DEF Good
  <2> QED BY <1>2, <1>3, <2>3, StepFlows DEF n, c
<1>4. CASE World.r.queue # <<>>
  <2>1. Good(T) /\ T \in Worlds
    BY <1>1, <1>4, ChunkRead
  <2>2. Flow(T, n, c)
    BY <1>1, <1>4, ReadFlows
  <2>3. T.r.state = "readable"
    BY <1>1, <1>2 DEF Worlds, Readable
  <2> HIDE DEF T
  <2>4. CASE T.r.closing /\ T.r.queue = <<>>
    <3>1. Flow(CloseNow(T), n, c) /\ CloseNow(T) \in Worlds
      BY <1>1, <2>1, <2>2, <2>3, <2>4, CloseNowFlows, CloseNowGood DEF Good
    <3> QED BY <1>2, <1>4, <2>4, <3>1, StepFlows DEF n, c
  <2>5. CASE ~(T.r.closing /\ T.r.queue = <<>>)
    <3>1. Flow(CallPullIfNeeded(T), n, c) /\ CallPullIfNeeded(T) \in Worlds
      BY <1>1, <2>1, <2>2, CallPullIfNeededFlows, CallPullIfNeededGood DEF Good
    <3> QED BY <1>2, <1>4, <2>5, <3>1, StepFlows DEF n, c
  <2> QED BY <2>4, <2>5
<1> QED BY <1>3, <1>4

LEMMA CancelFlow == Inv /\ JoinInv /\ FlowInv /\ Cancel => FlowInv'
<1> SUFFICES ASSUME Inv, JoinInv, FlowInv, Cancel, ~config.transformer PROVE FlowInv'
  BY DEF FlowInv, Cancel, Count
<1> DEFINE n == calls.write
           c == (calls.cancel # 0)
           C == CloseNow(World)
           T == ErrorWritableAndUnblockWrite(C)
<1>1. /\ World \in Worlds /\ Good(World)
      /\ n \in Nat /\ calls \in Calls /\ c \in BOOLEAN /\ Flow(World, n, c)
  BY FlowParts
<1>2. Become(T) /\ Count("cancel", 1)
  BY DEF Cancel
<1>3. config' = config /\ calls'.write = n /\ (calls'.cancel # 0) = TRUE
  <2>1. calls'.cancel = calls.cancel + 1 /\ calls.cancel \in Nat
    BY <1>1, <1>2 DEF Count, Calls
  <2>2. calls'.cancel # 0
    BY <2>1
  <2> QED BY <1>1, <1>2, <2>2 DEF Count, Calls
<1> HIDE DEF n, c
<1>4. Flow(C, n, TRUE)
  BY <1>1, CloseNowFlows
<1>5. Good(C) /\ ~Open(C.r) /\ C \in Worlds
  BY <1>1, CloseNowGood DEF Good
<1> HIDE DEF C
<1>6. T \in Worlds /\ Keeps(C, T) /\ Leaves(C, T)
  BY <1>5, ErrorWritableGood, ErrorWritableLeaves DEF Good
<1> HIDE DEF T
<1>7. Flow(T, n, TRUE)
  BY <1>1, <1>4, <1>5, <1>6, FlowLeft
<1> QED BY <1>2, <1>3, <1>6, <1>7, BecomeFlows

LEMMA SettleFlow == Inv /\ JoinInv /\ FlowInv /\ Settle => FlowInv'
<1> SUFFICES ASSUME Inv, JoinInv, FlowInv, Settle, ~config.transformer PROVE FlowInv'
  BY DEF FlowInv, Settle, Other
<1> DEFINE n == calls.write
           c == (calls.cancel # 0)
<1>1. /\ World \in Worlds /\ n \in Nat /\ c \in BOOLEAN /\ Flow(World, n, c)
  BY FlowParts
<1>2. PICK how \in {"done", "fulfilled", "failed"} : Become([World EXCEPT !.w.phase = how])
  BY DEF Settle
<1>3. World.w.phase = "pending" /\ Other /\ how \in Phases
  BY WorldParts DEF Settle, Phases
<1> HIDE DEF n, c
<1> DEFINE T == [World EXCEPT !.w.phase = how]
<1>4. Flow(T, n, c) /\ T \in Worlds
  BY <1>1, <1>3, PhaseFlows, PhaseIsAWorld
<1> HIDE DEF T
<1> QED BY <1>2, <1>3, <1>4, StepFlows DEF n, c, T

LEMMA WritableStartedFlow == Inv /\ JoinInv /\ FlowInv /\ WritableStarted => FlowInv'
<1> SUFFICES ASSUME Inv, JoinInv, FlowInv, WritableStarted, ~config.transformer
             PROVE  FlowInv'
  BY DEF FlowInv, WritableStarted, Other
<1> DEFINE n == calls.write
           c == (calls.cancel # 0)
           T == [World EXCEPT !.w.started = TRUE]
           D == DealWithRejection(T)
<1>1. /\ World \in Worlds /\ Good(World) /\ Paired(World) /\ Tied(World)
      /\ n \in Nat /\ c \in BOOLEAN /\ Flow(World, n, c)
  BY FlowParts
<1>2. /\ Become(IF start = "resolved" THEN AdvanceQueueIfNeeded(T) ELSE D)
      /\ Other /\ ~World.w.started
  BY WorldParts DEF WritableStarted
<1> HIDE DEF n, c
<1>3. /\ Good(T) /\ Paired(T) /\ T \in Worlds /\ T.w.started
      /\ T.w.inFlight = "none" /\ T.w.state \in {"writable", "erroring"}
  BY <1>1, <1>2, WritableStarts
<1>4. /\ T.got = World.got /\ T.r = World.r /\ T.w.state = World.w.state
      /\ T.w.queue = World.w.queue /\ T.w.closing = World.w.closing
      /\ T.w.inFlight = World.w.inFlight /\ T.w.phase = World.w.phase
  BY <1>1 DEF Worlds, Writable
<1> HIDE DEF T
<1>5. Delivered(T.w) = Delivered(World.w)
  BY <1>4 DEF Delivered
<1>6. Flow(T, n, c)
  BY <1>1, <1>4, <1>5, FlowSame
<1>7. T.w.state = "writable" /\ T.w.inFlight # "close" => Open(T.r)
  BY <1>1, <1>4 DEF Tied, Linked
<1>8. Flow(AdvanceQueueIfNeeded(T), n, c) /\ AdvanceQueueIfNeeded(T) \in Worlds
  BY <1>1, <1>3, <1>6, <1>7, AdvanceQueueFlows, AdvanceQueueGood DEF Good
<1>9. D \in Worlds /\ Keeps(T, D) /\ Leaves(T, D)
  BY <1>3, DealWithRejectionGood, DealWithRejectionLeaves DEF Good, Callable
<1> HIDE DEF D
<1>10. Flow(D, n, c)
  BY <1>1, <1>3, <1>6, <1>9, FlowLeft
<1>11. CASE start = "resolved"
  BY <1>2, <1>8, <1>11, StepFlows DEF n, c
<1>12. CASE start # "resolved"
  BY <1>2, <1>9, <1>10, <1>12, StepFlows DEF n, c
<1> QED BY <1>11, <1>12

LEMMA ReadableStartedFlow == Inv /\ JoinInv /\ FlowInv /\ ReadableStarted => FlowInv'
<1> SUFFICES ASSUME Inv, JoinInv, FlowInv, ReadableStarted, ~config.transformer
             PROVE  FlowInv'
  BY DEF FlowInv, ReadableStarted, Other
<1> DEFINE n == calls.write
           c == (calls.cancel # 0)
           T == [World EXCEPT !.r.started = TRUE]
           E == ReadableError(T)
<1>1. /\ World \in Worlds /\ Good(World) /\ Paired(World)
      /\ n \in Nat /\ c \in BOOLEAN /\ Flow(World, n, c)
  BY FlowParts
<1>2. Become(IF start = "resolved" THEN CallPullIfNeeded(T) ELSE E) /\ Other
  BY DEF ReadableStarted
<1> HIDE DEF n, c
<1>3. Good(T) /\ T \in Worlds
  BY <1>1, ReadableStarts
<1>4. /\ T.got = World.got /\ T.w = World.w /\ T.r.state = World.r.state
      /\ T.r.queue = World.r.queue /\ T.r.requests = World.r.requests
  BY <1>1 DEF Worlds, Readable
<1> HIDE DEF T
<1>5. Flow(T, n, c)
  BY <1>1, <1>4, FlowSame
<1>6. Flow(CallPullIfNeeded(T), n, c) /\ CallPullIfNeeded(T) \in Worlds
  BY <1>1, <1>3, <1>5, CallPullIfNeededFlows, CallPullIfNeededGood DEF Good
<1>7. E \in Worlds /\ Keeps(T, E) /\ Leaves(T, E)
  BY <1>3, ReadableErrorGood, ReadableErrorLeaves DEF Good
<1> HIDE DEF E
<1>8. Flow(E, n, c)
  BY <1>1, <1>3, <1>5, <1>7, FlowLeft
<1>9. CASE start = "resolved"
  BY <1>2, <1>6, <1>9, StepFlows DEF n, c
<1>10. CASE start # "resolved"
  BY <1>2, <1>7, <1>8, <1>10, StepFlows DEF n, c
<1> QED BY <1>9, <1>10

LEMMA PulledFlow == Inv /\ JoinInv /\ FlowInv /\ Pulled => FlowInv'
<1> SUFFICES ASSUME Inv, JoinInv, FlowInv, Pulled, ~config.transformer PROVE FlowInv'
  BY DEF FlowInv, Pulled, Other
<1> DEFINE n == calls.write
           c == (calls.cancel # 0)
           T == [World EXCEPT !.r.pulling = "no", !.r.pullAgain = FALSE]
<1>1. /\ World \in Worlds /\ Good(World) /\ Paired(World)
      /\ n \in Nat /\ c \in BOOLEAN /\ Flow(World, n, c)
  BY FlowParts
<1>2. /\ Become(IF readable.pullAgain THEN CallPullIfNeeded(T) ELSE T) /\ Other
      /\ World.r.pulling = "resolved"
  BY WorldParts DEF Pulled
<1> HIDE DEF n, c
<1>3. Good(T) /\ T \in Worlds
  BY <1>1, <1>2, PullEnds
<1>4. /\ T.got = World.got /\ T.w = World.w /\ T.r.state = World.r.state
      /\ T.r.queue = World.r.queue /\ T.r.requests = World.r.requests
  BY <1>1 DEF Worlds, Readable
<1> HIDE DEF T
<1>5. Flow(T, n, c)
  BY <1>1, <1>4, FlowSame
<1>6. Flow(CallPullIfNeeded(T), n, c) /\ CallPullIfNeeded(T) \in Worlds
  BY <1>1, <1>3, <1>5, CallPullIfNeededFlows, CallPullIfNeededGood DEF Good
<1>7. CASE readable.pullAgain
  BY <1>2, <1>6, <1>7, StepFlows DEF n, c
<1>8. CASE ~readable.pullAgain
  BY <1>2, <1>3, <1>5, <1>8, StepFlows DEF n, c
<1> QED BY <1>7, <1>8

LEMMA WriteUnblockedFlow == Inv /\ JoinInv /\ FlowInv /\ WriteUnblocked => FlowInv'
<1> SUFFICES ASSUME Inv, JoinInv, FlowInv, WriteUnblocked, ~config.transformer
             PROVE  FlowInv'
  BY DEF FlowInv, WriteUnblocked, Other
<1> DEFINE n == calls.write
           c == (calls.cancel # 0)
<1>1. /\ World \in Worlds /\ Good(World) /\ Paired(World) /\ Tied(World)
      /\ n \in Nat /\ c \in BOOLEAN /\ Flow(World, n, c)
  BY FlowParts
<1>2. Other /\ World.w.phase = "unblocked" /\ writable = World.w
  BY WorldParts DEF WriteUnblocked
<1>3. World.w.inFlight = "write" /\ World.w.state \in {"writable", "erroring"}
  BY <1>1, <1>2 DEF Good, Callable, Ends, Paired
<1> HIDE DEF n, c
<1>4. CASE World.w.state = "erroring"
  <2> DEFINE T == [World EXCEPT !.w.phase = "rejected"]
  <2>1. Become(T)
    BY <1>2, <1>4 DEF WriteUnblocked
  <2>2. "rejected" \in Phases
    BY DEF Phases
  <2>3. T \in Worlds
    BY <1>1, <2>2, PhaseIsAWorld
  <2>4. /\ T.got = World.got /\ T.r = World.r /\ T.w.state = World.w.state
        /\ T.w.queue = World.w.queue /\ T.w.closing = World.w.closing
        /\ T.w.inFlight = World.w.inFlight
    BY <1>1 DEF Worlds, Writable
  <2> HIDE DEF T
  <2>5. Ordered(T, n) /\ Shaped(T)
    BY <1>1, <2>4 DEF Flow, Ordered, Shaped
  <2>6. ~Passing(T, c) /\ (T.r.state = "readable" => ~c)
    BY <1>1, <1>3, <1>4, <2>4 DEF Flow, Passing
  <2>7. Flow(T, n, c)
    BY <2>5, <2>6 DEF Flow
  <2> QED BY <1>2, <2>1, <2>3, <2>7, StepFlows DEF n, c
<1>5. CASE World.w.state = "writable"
  <2> DEFINE T == PerformTransform(World, Head(World.w.queue))
  <2>1. MozAssert(World, "unblocked", World.w.state = "writable") = World
    BY <1>5 DEF MozAssert
  <2>2. Become(T)
    BY <1>2, <1>5, <2>1 DEF WriteUnblocked
  <2>3. Open(World.r) /\ ~Delivered(World.w)
    BY <1>1, <1>2, <1>3, <1>5 DEF Tied, Linked, Delivered
  <2>4. Chunks(World.w.queue) >= 1
    BY <1>1, <1>3 DEF Flow, Shaped
  <2>5. /\ Head(World.w.queue) \in Nat
        /\ Head(World.w.queue) = (n - Chunks(World.w.queue)) + 1
    BY <1>1, <2>4, FirstChunk
  <2>6. Flow(T, n, c) /\ T \in Worlds
    BY <1>1, <1>3, <1>5, <2>3, <2>5, PerformTransformFlows, PerformTransformGood DEF Good
  <2> HIDE DEF T
  <2> QED BY <1>2, <2>2, <2>6, StepFlows DEF n, c
<1> QED BY <1>3, <1>4, <1>5

LEMMA TransformerFailedFlow == Inv /\ JoinInv /\ FlowInv /\ TransformerFailed => FlowInv'
<1> SUFFICES ASSUME Inv, JoinInv, FlowInv, TransformerFailed, ~config.transformer
             PROVE  FlowInv'
  BY DEF FlowInv, TransformerFailed, Other
<1> DEFINE n == calls.write
           c == (calls.cancel # 0)
           E == ErrorStream(World)
           T == [E EXCEPT !.w.phase = "rejected"]
<1>1. /\ World \in Worlds /\ Good(World)
      /\ n \in Nat /\ c \in BOOLEAN /\ Flow(World, n, c)
  BY FlowParts
<1>2. Become(T) /\ Other /\ World.w.phase = "failed"
  BY WorldParts DEF TransformerFailed
<1> HIDE DEF n, c
<1>3. E \in Worlds /\ Flow(E, n, c) /\ E.w.phase = "failed"
  BY <1>1, <1>2, ErrorStreamGood, ErrorStreamFlows DEF Good, Keeps
<1> HIDE DEF E
<1>4. "rejected" \in Phases
  BY DEF Phases
<1>5. Flow(T, n, c) /\ T \in Worlds
  BY <1>3, <1>4, PhaseFlows, PhaseIsAWorld
<1> HIDE DEF T
<1> QED BY <1>2, <1>5, StepFlows DEF n, c

LEMMA FlushedFlow == Inv /\ JoinInv /\ FlowInv /\ Flushed => FlowInv'
<1> SUFFICES ASSUME Inv, JoinInv, FlowInv, Flushed, ~config.transformer PROVE FlowInv'
  BY DEF FlowInv, Flushed, Other
<1> DEFINE n == calls.write
           c == (calls.cancel # 0)
           q == IF readable.state = "errored" THEN "rejected" ELSE "done"
           T == [World EXCEPT !.w.phase = q]
<1>1. /\ World \in Worlds /\ Good(World) /\ Tied(World)
      /\ n \in Nat /\ c \in BOOLEAN /\ Flow(World, n, c)
  BY FlowParts
<1>2. /\ Become(IF CanCloseOrEnqueue(T) THEN ReadableClose(T) ELSE T) /\ Other
      /\ World.w.phase = "fulfilled"
  BY WorldParts DEF Flushed
<1>3. q \in Phases
  BY DEF Phases
<1>4. World.w.inFlight = "close"
  BY <1>1, <1>2 DEF Tied, Phased
<1> HIDE DEF n, c, q
<1>5. Flow(T, n, c) /\ T \in Worlds /\ Good(T)
  BY <1>1, <1>3, <1>4, PhaseFlows, PhaseGood DEF Good
<1> HIDE DEF T
<1>6. CASE CanCloseOrEnqueue(T)
  <2>1. Flow(ReadableClose(T), n, c) /\ ReadableClose(T) \in Worlds
    BY <1>1, <1>5, <1>6, ReadableCloseFlows, ReadableCloseGood DEF Good, CanCloseOrEnqueue
  <2> QED BY <1>2, <1>6, <2>1, StepFlows DEF n, c
<1>7. CASE ~CanCloseOrEnqueue(T)
  BY <1>2, <1>5, <1>7, StepFlows DEF n, c
<1> QED BY <1>6, <1>7

LEMMA OperationDoneFlow == Inv /\ JoinInv /\ FlowInv /\ OperationDone => FlowInv'
<1> SUFFICES ASSUME Inv, JoinInv, FlowInv, OperationDone, ~config.transformer
             PROVE  FlowInv'
  BY DEF FlowInv, OperationDone, Other
<1> DEFINE n == calls.write
           c == (calls.cancel # 0)
           T == [World EXCEPT !.w.phase = "none", !.w.inFlight = "none"]
           C == [T EXCEPT !.w.state = "closed", !.w.abort = "none"]
           W == [T EXCEPT !.w.queue = Tail(@)]
<1>1. /\ World \in Worlds /\ Good(World) /\ Paired(World) /\ Tied(World)
      /\ n \in Nat /\ c \in BOOLEAN /\ Flow(World, n, c)
  BY FlowParts
<1>2. /\ Become(IF World.w.inFlight = "close" THEN C ELSE AdvanceQueueIfNeeded(W))
      /\ Other /\ World.w.phase = "done"
  BY WorldParts DEF OperationDone
<1> HIDE DEF n, c
<1>3. /\ World.w.inFlight \in {"write", "close"} /\ World.w.started
      /\ World.w.state \in {"writable", "erroring"}
      /\ World.w.inFlight = "write" => World.w.queue # <<>>
      /\ World.w.state = "writable" /\ World.w.inFlight = "write" => World.ts.algorithms
  BY <1>1, <1>2 DEF Good, Callable, Ends, Paired, Worlds, Writable
<1>4. /\ T \in Worlds /\ PullWaits(T) /\ Ends(T) /\ Paired(T) /\ T.ts = World.ts
      /\ T.w.state = World.w.state /\ T.w.queue = World.w.queue /\ T.w.started
      /\ T.w.inFlight = "none" /\ T.w.phase = "none"
  <2> DEFINE a == World.w.abort
             U == [World EXCEPT !.w.phase = "none", !.w.inFlight = "none", !.w.abort = a]
  <2>1. a \in {"none", "pending", "late"} /\ T = U
    BY <1>1, NoAbort
  <2> HIDE DEF a, T
  <2>2. /\ U \in Worlds /\ PullWaits(U) /\ Ends(U) /\ Paired(U)
        /\ U.w.inFlight = "none" /\ U.w.phase = "none" /\ U.ts = World.ts
        /\ U.w.queue = World.w.queue /\ U.w.state = World.w.state
        /\ U.w.started = World.w.started
    BY <1>1, <2>1, OperationEnds
  <2> HIDE DEF U
  <2> QED BY <1>3, <2>1, <2>2
<1>5. T.got = World.got /\ T.r = World.r /\ T.w.closing = World.w.closing
  BY <1>1 DEF Worlds, Writable
<1> HIDE DEF T
<1>6. CASE World.w.inFlight = "close"
  <2>1. C \in Worlds
    BY <1>4, ClosedAtLast DEF Good
  <2>2. /\ C.got = T.got /\ C.r = T.r /\ C.w.state = "closed" /\ C.w.queue = T.w.queue
        /\ C.w.closing = T.w.closing /\ C.w.inFlight = T.w.inFlight
    BY <1>4 DEF Worlds, Writable
  <2> HIDE DEF C
  <2>3. Flow(C, n, c)
    BY <1>1, <1>4, <1>5, <1>6, <2>2, EndFlows
  <2> QED BY <1>2, <1>6, <2>1, <2>3, StepFlows DEF n, c
<1>7. CASE World.w.inFlight = "write"
  <2>1. Good(T)
    BY <1>3, <1>4, <1>7 DEF Good, Callable
  <2>2. Good(W) /\ Paired(W) /\ W \in Worlds /\ W.w.state = T.w.state
    BY <1>3, <1>4, <1>7, <2>1, WriteIsDone
  <2>3. Flow(W, n, c)
    BY <1>1, <1>2, <1>3, <1>4, <1>5, <1>7, WriteDoneFlows
  <2>4. W.r = T.r
    BY <1>4 DEF Worlds
  <2> HIDE DEF W
  <2>5. W.w.state = "writable" => Open(W.r)
    BY <1>1, <1>4, <1>5, <1>7, <2>2, <2>4 DEF Tied, Linked
  <2>6. Flow(AdvanceQueueIfNeeded(W), n, c) /\ AdvanceQueueIfNeeded(W) \in Worlds
    BY <1>1, <1>3, <1>4, <2>2, <2>3, <2>5, AdvanceQueueFlows, AdvanceQueueGood DEF Good
  <2> QED BY <1>2, <1>7, <2>6, StepFlows DEF n, c
<1> QED BY <1>3, <1>6, <1>7

LEMMA OperationRejectedFlow == Inv /\ JoinInv /\ FlowInv /\ OperationRejected => FlowInv'
<1> SUFFICES ASSUME Inv, JoinInv, FlowInv, OperationRejected, ~config.transformer
             PROVE  FlowInv'
  BY DEF FlowInv, OperationRejected, Other
<1> DEFINE n == calls.write
           c == (calls.cancel # 0)
           a == IF writable.inFlight = "close" THEN "none" ELSE writable.abort
           T == [World EXCEPT !.w.phase = "none", !.w.inFlight = "none", !.w.abort = a]
           D == DealWithRejection(T)
<1>1. /\ World \in Worlds /\ Good(World) /\ Paired(World) /\ Tied(World)
      /\ n \in Nat /\ c \in BOOLEAN /\ Flow(World, n, c)
  BY FlowParts
<1>2. Become(D) /\ Other /\ World.w.phase = "rejected"
  BY <1>1, WorldParts DEF OperationRejected, Worlds, Writable
<1>3. /\ World.w.started /\ a \in {"none", "pending", "late"}
      /\ World.w.inFlight \in {"write", "close"}
      /\ World.w.state \in {"writable", "erroring"}
  BY <1>1, <1>2, WorldParts DEF Good, Callable, Ends, Paired, Worlds, Writable
<1> HIDE DEF n, c, a
<1>4. /\ T \in Worlds /\ PullWaits(T) /\ Ends(T) /\ T.w.inFlight = "none"
      /\ T.w.queue = World.w.queue /\ T.w.state = World.w.state
      /\ T.w.started = World.w.started
  BY <1>1, <1>3, OperationEnds
<1>5. T.got = World.got /\ T.r = World.r /\ T.w.closing = World.w.closing
  BY <1>1 DEF Worlds, Writable
<1> HIDE DEF T
<1>6. World.w.inFlight = "close" \/ T.w.state # "writable"
  BY <1>1, <1>2, <1>3, <1>4 DEF Tied, Linked, Phased
<1>7. Flow(T, n, c)
  BY <1>1, <1>3, <1>4, <1>5, <1>6, EndFlows
<1>8. D \in Worlds /\ Keeps(T, D) /\ Leaves(T, D)
  BY <1>3, <1>4, DealWithRejectionGood, DealWithRejectionLeaves DEF Good
<1> HIDE DEF D
<1>9. Flow(D, n, c)
  BY <1>1, <1>4, <1>7, <1>8, FlowLeft
<1> QED BY <1>2, <1>8, <1>9, StepFlows DEF n, c

LEMMA IdleFlow == FlowInv /\ (StartSettles \/ UNCHANGED vars) => FlowInv'
<1> SUFFICES ASSUME FlowInv, StartSettles \/ UNCHANGED vars PROVE FlowInv'
  OBVIOUS
<1>1. World' = World /\ calls' = calls /\ config' = config
  BY DEF StartSettles, sides, vars, World
<1> QED BY <1>1 DEF FlowInv

LEMMA ControllerFlow ==
  FlowInv /\ (ControllerEnqueue \/ ControllerError \/ ControllerTerminate) => FlowInv'
BY DEF FlowInv, ControllerEnqueue, ControllerError, ControllerTerminate, Count, Other

LEMMA StepFlow == Inv /\ JoinInv /\ FlowInv /\ [Next]_vars => FlowInv'
BY WriteFlow, WriteSizelessFlow, WriterCloseFlow, AbortFlow, ReadFlow, CancelFlow,
   ControllerFlow, SettleFlow,
   WritableStartedFlow, ReadableStartedFlow, PulledFlow, WriteUnblockedFlow,
   TransformerFailedFlow, FlushedFlow, OperationDoneFlow, OperationRejectedFlow, IdleFlow
   DEF Next, Content, Job

-----------------------------------------------------------------------------
(* What the reader gets. *)

LEMMA UptoIs ==
  ASSUME NEW n \in Nat
  PROVE  /\ Upto(n) \in Seq(Nat) /\ Len(Upto(n)) = n
         /\ \A i \in 1..n : Upto(n)[i] = i
<1> DEFINE s == [i \in 1..n |-> i]
<1>1. s \in Seq(Nat) /\ Len(s) = n /\ \A i \in 1..n : s[i] = i
  OBVIOUS
<1>2. Upto(n) = s
  BY DEF Upto
<1> HIDE DEF s
<1> QED BY <1>1, <1>2

LEMMA RunIsPrefix ==
  ASSUME NEW s \in Seq(Nat), NEW n \in Nat, Runs(s, Len(s), 0), Len(s) <= n
  PROVE  IsPrefix(s, Upto(n)) /\ (Len(s) = n => s = Upto(n))
<1> DEFINE l == Len(s)
           u == Upto(n)
           p == SubSeq(s, 1, l)
           q == SubSeq(u, 1, l)
<1>1. l \in Nat /\ l <= n /\ (\A i \in 1..l : s[i] = i)
  BY LenProperties DEF Runs
<1>2. u \in Seq(Nat) /\ Len(u) = n /\ (\A i \in 1..n : u[i] = i)
  BY UptoIs
<1> HIDE DEF l, u
<1>3. p \in Seq(Nat) /\ Len(p) = l /\ (\A i \in 1..l : p[i] = i)
  <2>1. \A i \in 1..l : s[i] \in Nat
    BY <1>1
  <2>2. /\ p \in Seq(Nat) /\ Len(p) = (IF 1 <= l THEN (l - 1) + 1 ELSE 0)
        /\ \A i \in 1..((l - 1) + 1) : p[i] = s[(1 + i) - 1]
    BY <1>1, <2>1, SubSeqProperties
  <2> HIDE DEF p
  <2> QED BY <1>1, <2>2
<1>4. q \in Seq(Nat) /\ Len(q) = l /\ (\A i \in 1..l : q[i] = i)
  <2>1. \A i \in 1..l : u[i] \in Nat
    BY <1>1, <1>2
  <2>2. /\ q \in Seq(Nat) /\ Len(q) = (IF 1 <= l THEN (l - 1) + 1 ELSE 0)
        /\ \A i \in 1..((l - 1) + 1) : q[i] = u[(1 + i) - 1]
    BY <1>1, <2>1, SubSeqProperties
  <2> HIDE DEF q
  <2> QED BY <1>1, <1>2, <2>2
<1>5. p = q
  <2> HIDE DEF p, q
  <2> QED BY <1>3, <1>4, SeqEqual
<1>6. l = n => s = u
  <2> SUFFICES ASSUME l = n PROVE s = u
    OBVIOUS
  <2>1. Len(s) = l
    BY DEF l
  <2> QED BY <1>1, <1>2, <2>1, SeqEqual
<1>7. IsPrefix(s, u)
  BY <1>1, <1>2, <1>5 DEF IsPrefix, l
<1> QED BY <1>6, <1>7 DEF l, u

LEMMA RunsConcat ==
  ASSUME NEW s \in Seq(Nat), NEW t \in Seq(Nat), NEW a \in Nat,
         Runs(s, Len(s), a), Runs(t, Len(t), a + Len(s))
  PROVE  /\ s \o t \in Seq(Nat) /\ Len(s \o t) = Len(s) + Len(t)
         /\ Runs(s \o t, Len(s \o t), a)
<1> DEFINE k == Len(s)
           l == Len(t)
           u == s \o t
<1>1. /\ k \in Nat /\ l \in Nat /\ u \in Seq(Nat) /\ Len(u) = k + l
      /\ \A i \in 1..(k + l) : u[i] = IF i <= k THEN s[i] ELSE t[i - k]
  BY ConcatProperties, LenProperties
<1>2. (\A i \in 1..k : s[i] = a + i) /\ (\A i \in 1..l : t[i] = (a + k) + i)
  BY DEF Runs
<1> HIDE DEF k, l, u
<1>3. \A i \in 1..(k + l) : u[i] = a + i
  <2> TAKE i \in 1..(k + l)
  <2>1. CASE i <= k
    <3>1. i \in 1..k /\ u[i] = s[i]
      BY <1>1, <2>1
    <3> QED BY <1>2, <3>1
  <2>2. CASE ~(i <= k)
    <3>1. i - k \in 1..l /\ u[i] = t[i - k]
      BY <1>1, <2>2
    <3>2. u[i] = (a + k) + (i - k)
      BY <1>2, <3>1
    <3> QED BY <1>1, <3>2
  <2> QED BY <2>1, <2>2
<1> QED BY <1>1, <1>3 DEF Runs, k, l, u

LEMMA RunsPart ==
  ASSUME NEW q \in Seq(Nat), NEW k \in Nat, NEW a \in Nat, Runs(q, k, a), NEW d \in {0, 1},
         d <= k
  PROVE  LET w == SubSeq(q, d + 1, k)
         IN  w \in Seq(Nat) /\ Len(w) = k - d /\ Runs(w, k - d, a + d)
<1> DEFINE w == SubSeq(q, d + 1, k)
<1>1. \A i \in 1..k : q[i] = a + i
  BY DEF Runs
<1>2. \A i \in (d + 1)..k : q[i] \in Nat
  BY <1>1
<1>3. /\ w \in Seq(Nat) /\ Len(w) = (IF d + 1 <= k THEN (k - (d + 1)) + 1 ELSE 0)
      /\ \A i \in 1..((k - (d + 1)) + 1) : w[i] = q[((d + 1) + i) - 1]
  BY <1>2, SubSeqProperties
<1> HIDE DEF w
<1>4. Len(w) = k - d
  BY <1>3
<1>5. \A i \in 1..(k - d) : w[i] = (a + d) + i
  <2> TAKE i \in 1..(k - d)
  <2>1. w[i] = q[d + i] /\ d + i \in 1..k
    BY <1>3
  <2> QED BY <1>1, <2>1
<1> QED BY <1>3, <1>4, <1>5 DEF Runs, w

LEMMA FlowPasses == Inv /\ FlowInv => PassesEverything
<1> SUFFICES ASSUME Inv, FlowInv, ~config.transformer
             PROVE  /\ IsPrefix(got, Upto(calls.write))
                    /\ (/\ writable.state \in {"writable", "closed"}
                        /\ readable.state # "errored" /\ calls.cancel = 0) =>
                         got \o readable.queue \o Waiting = Upto(calls.write)
  BY DEF PassesEverything
<1> DEFINE n == calls.write
           r == readable.queue
           q == writable.queue
           g == Len(got)
           l == Len(r)
           k == Chunks(q)
           d == IF Delivered(writable) THEN 1 ELSE 0
<1>1. /\ World \in Worlds /\ n \in Nat /\ Flow(World, n, calls.cancel # 0)
  BY DEF Inv, Good, FlowInv, Calls
<1>2. got \in Seq(Nat) /\ r \in Seq(Nat) /\ q \in Seq(Nat)
  BY <1>1, WorldParts DEF Worlds, Readable, Writable
<1>3. /\ Runs(got, g, 0) /\ Runs(r, l, g) /\ g + l <= n /\ k <= n /\ Runs(q, k, n - k)
  BY <1>1, WorldParts DEF Flow, Ordered
<1>4. g \in Nat /\ l \in Nat /\ k \in Nat /\ d \in {0, 1}
  BY <1>2, LenProperties, ChunksBounded
<1>5. d <= k
  <2>1. Delivered(writable) => k >= 1
    BY <1>1, WorldParts DEF Flow, Shaped, Delivered
  <2> HIDE DEF k
  <2> QED BY <1>4, <2>1
<1>6. IsPrefix(got, Upto(n))
  <2>1. g <= n
    <3> HIDE DEF g, l, n
    <3> QED BY <1>1, <1>3, <1>4
  <2> HIDE DEF n
  <2> QED BY <1>1, <1>2, <1>3, <2>1, RunIsPrefix
<1>7. ASSUME writable.state \in {"writable", "closed"}, readable.state # "errored",
             calls.cancel = 0
      PROVE  got \o r \o Waiting = Upto(n)
  <2>1. g + l = (n - k) + d
    BY <1>1, <1>7, WorldParts DEF Flow, Passing
  <2>2. Waiting = SubSeq(q, d + 1, k)
    <3>1. d + 1 = IF Delivered(writable) THEN 2 ELSE 1
      OBVIOUS
    <3> HIDE DEF d
    <3> QED BY <3>1 DEF Waiting
  <2> HIDE DEF d, k, q, n
  <2>3. n - k \in Nat
    BY <1>1, <1>3, <1>4
  <2>4. /\ Waiting \in Seq(Nat) /\ Len(Waiting) = k - d
        /\ Runs(Waiting, k - d, (n - k) + d)
    BY <1>2, <1>3, <1>4, <1>5, <2>2, <2>3, RunsPart
  <2> DEFINE s == got \o r
  <2>5. s \in Seq(Nat) /\ Len(s) = g + l /\ Runs(s, Len(s), 0)
    <3>1. 0 + g = g
      BY <1>4
    <3> QED BY <1>2, <1>3, <3>1, RunsConcat
  <2>6. 0 + Len(s) = (n - k) + d
    BY <1>4, <2>1, <2>5
  <2> HIDE DEF s, r, g, l
  <2> DEFINE u == s \o Waiting
  <2>7. u \in Seq(Nat) /\ Len(u) = Len(s) + (k - d) /\ Runs(u, Len(u), 0)
    BY <2>4, <2>5, <2>6, RunsConcat
  <2>8. Len(u) = n
    <3> DEFINE x == Len(s)
    <3>1. 0 + x = (n - k) + d /\ x \in Nat /\ Len(u) = x + (k - d)
      BY <2>5, <2>6, <2>7, LenProperties
    <3> HIDE DEF x, u
    <3> QED BY <1>1, <1>4, <3>1
  <2> HIDE DEF u
  <2>9. u = Upto(n)
    BY <1>1, <2>7, <2>8, RunIsPrefix
  <2> QED BY <2>9 DEF u, s
<1> QED BY <1>6, <1>7

\* The chunks keep their order, and as long as neither side drops its own, those
\* that were enqueued are followed by those that wait to be written.
THEOREM ChunksInOrder == Spec => []FlowInv
BY InitInv, StepInv, InitJoined, StepJoin, InitFlows, StepFlow, PTL DEF Spec

\* Without a transformer the reader gets the chunks that were written, in their
\* order, and nothing is lost between the two sides until one is in error or the
\* reader cancels.
THEOREM EverythingIsPassed == Spec => []PassesEverything
BY FlowPasses, TransformInvariance, ChunksInOrder, PTL

=============================================================================
