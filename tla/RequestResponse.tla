--------------------------- MODULE RequestResponse ---------------------------
(***************************************************************************)
(* The body of an incoming Request or Response, read by content through    *)
(* its `body` stream, by text() and its like, or forwarded by the host as  *)
(* the body of something that is sent; and fetch(), which may send it.     *)
(* (builtins/web/fetch/request-response.cpp and fetch-api.cpp.)            *)
(*                                                                         *)
(* Content runs between any two steps of the event loop, which runs all    *)
(* pending jobs (microtasks) before a task.  Bytes are counted: byte k is  *)
(* the k-th that the host receives, and a chunk is one byte.               *)
(*                                                                         *)
(* The ReadableStream is the JS engine's: its operations below are those   *)
(* of the Streams standard for a default controller with a high-water      *)
(* mark of 0.  The loop itself is module EventLoop.                        *)
(***************************************************************************)
EXTENDS Integers, Sequences, SequencesExt

CONSTANTS
  MaxBytes,   \* bound: bytes of the incoming body
  MaxReads    \* bound: how often content calls reader.read()

ASSUME MaxBytesAssumption == MaxBytes \in Nat
ASSUME MaxReadsAssumption == MaxReads \in Nat

VARIABLES
  host,      \* the incoming body: bytes arrived and taken, and how it ended
  rs,        \* its ReadableStream, NoStream before one is needed
  tasks,     \* the queue of the loop: "read" (BodyFutureTask), "append", "response"
  jobs,      \* the jobs that are pending, <<kind, argument>>
  got,       \* the bytes that content read
  text,      \* the promise in the BodyAllPromise slot, and what was read for it
  bodyUsed,  \* the BodyUsed slot
  fwd,       \* the body was appended to an outgoing one; bytes forwarded
  fetch,     \* the promise that fetch returned, and the body of its request
  loop,      \* running, failed (a task returned false) or crashed
  reads,     \* how often content has called read
  overlap    \* it has called read or cancel before the last read was answered

vars == <<host, rs, tasks, jobs, got, text, bodyUsed, fwd, fetch, loop, reads, overlap>>

Done == 0
Error == -1
Bytes(k) == [i \in 1..k |-> i]

NoStream == [state |-> "none"]
NewStream ==
  [state |-> "readable", started |-> FALSE, closing |-> FALSE, disturbed |-> FALSE,
   reader |-> "none", requests |-> 0, queue |-> <<>>, pulling |-> FALSE, pullAgain |-> FALSE]

Init ==
  /\ host = [arrived |-> 0, taken |-> 0, end |-> "open"]
  /\ rs = NoStream
  /\ tasks = <<>> /\ jobs = <<>>
  /\ got = <<>>
  /\ text = [status |-> "none", contents |-> <<>>]
  /\ bodyUsed = FALSE
  /\ fwd = [on |-> FALSE, bytes |-> 0]
  /\ fetch = [status |-> "none", body |-> "none"]
  /\ loop = "running"
  /\ reads = 0 /\ overlap = FALSE

---------------------------------------------------------------------------
(* The stream.  Its operations take and return all that they may change:   *)
(* a record of rs, tasks, jobs and got.                                    *)

World == [rs |-> rs, tasks |-> tasks, jobs |-> jobs, got |-> got]
Become(w) == rs' = w.rs /\ tasks' = w.tasks /\ jobs' = w.jobs /\ got' = w.got

Reified == rs.state # "none"
Locked(w) == w.rs.reader # "none"

\* Mutant: a stream that was read before is usable again.
MutantUnusable(w) == Locked(w)

\* body_unusable
Unusable(w) == w.rs.disturbed \/ Locked(w)

\* create_body_stream: the controller has started when a job of its own ran.
Create(w) == [w EXCEPT !.rs = NewStream, !.jobs = Append(@, <<"started", 0>>)]
Reify(w) == IF w.rs.state = "none" THEN Create(w) ELSE w

\* Mutant: two reads for one pull
MutantPull(w) == [w EXCEPT !.rs.pulling = TRUE, !.tasks = @ \o <<"read", "read">>,
                           !.jobs = Append(@, <<"pulled", 0>>)]

\* body_source_pull_algorithm
Pull(w) == [w EXCEPT !.rs.pulling = TRUE, !.tasks = Append(@, "read"),
                     !.jobs = Append(@, <<"pulled", 0>>)]

ShouldPull(r) == r.state = "readable" /\ ~r.closing /\ r.started /\ r.requests > 0
CallPullIfNeeded(w) ==
  IF ~ShouldPull(w.rs) THEN w
  ELSE IF w.rs.pulling THEN [w EXCEPT !.rs.pullAgain = TRUE]
  ELSE Pull(w)

\* The answer to a read: content keeps a byte, text() reacts in a job.
Answer(w, what) ==
  IF w.rs.reader = "text" THEN [w EXCEPT !.jobs = Append(@, <<"text", what>>)]
  ELSE IF what > 0 THEN [w EXCEPT !.got = Append(@, what)]
  ELSE w

\* The requests of one reader are all answered alike; text() makes one at a time.
AnswerAll(w, what) ==
  IF w.rs.requests = 0 THEN w ELSE [Answer(w, what) EXCEPT !.rs.requests = 0]

CloseStream(w) == AnswerAll([w EXCEPT !.rs.state = "closed", !.rs.queue = <<>>], Done)

\* Mutant: a request that can be answered at once is kept as well.
MutantRead(w) ==
  CallPullIfNeeded([Answer(w, Done) EXCEPT !.rs.disturbed = TRUE, !.rs.requests = @ + 2])

ReadBuffered(w) ==
  LET a == Answer([w EXCEPT !.rs.queue = Tail(@)], Head(w.rs.queue))
  IN  IF a.rs.closing /\ a.rs.queue = <<>> THEN CloseStream(a) ELSE CallPullIfNeeded(a)

ReadLater(w) == CallPullIfNeeded([w EXCEPT !.rs.requests = @ + 1])

Read(w) ==
  LET d == [w EXCEPT !.rs.disturbed = TRUE]
  IN  CASE w.rs.state = "closed" -> Answer(d, Done)
        [] w.rs.state = "errored" -> Answer(d, Error)
        [] w.rs.queue # <<>> -> ReadBuffered(d)
        [] OTHER -> ReadLater(d)

CanCloseOrEnqueue(w) == w.rs.state = "readable" /\ ~w.rs.closing

Enqueue(w, byte) ==
  CallPullIfNeeded(
    IF w.rs.requests > 0 THEN [Answer(w, byte) EXCEPT !.rs.requests = @ - 1]
    ELSE [w EXCEPT !.rs.queue = Append(@, byte)])

ControllerClose(w) ==
  IF w.rs.queue = <<>> THEN CloseStream(w) ELSE [w EXCEPT !.rs.closing = TRUE]

ControllerError(w) ==
  IF w.rs.state # "readable" THEN w
  ELSE AnswerAll([w EXCEPT !.rs.state = "errored", !.rs.queue = <<>>], Error)

---------------------------------------------------------------------------
(* What content calls *)

Running == loop = "running"
vars1 == <<host, text, bodyUsed, fwd, fetch, loop>>

\* The getter `body`
BodyGet ==
  /\ Running /\ ~Reified
  /\ Become(Create(World))
  /\ UNCHANGED <<vars1, reads, overlap>>

\* body.getReader()
GetReader ==
  /\ Running /\ Reified /\ ~Locked(World)
  /\ rs' = [rs EXCEPT !.reader = "user"]
  /\ UNCHANGED <<vars1, tasks, jobs, got, reads, overlap>>

UserReads ==
  /\ Running /\ Reified /\ rs.reader = "user"
  /\ reads < MaxReads
  /\ reads' = reads + 1
  /\ overlap' = (overlap \/ rs.requests > 0)
  /\ Become(Read(World))
  /\ UNCHANGED vars1

\* It throws while reads are not answered.
ReleaseLock ==
  /\ Running /\ Reified /\ rs.reader = "user" /\ rs.requests = 0
  /\ rs' = [rs EXCEPT !.reader = "none"]
  /\ UNCHANGED <<vars1, tasks, jobs, got, reads, overlap>>

\* reader.cancel(), or cancel() of a stream that is not locked.  Its
\* algorithm, body_source_cancel_algorithm, does nothing.
Cancel ==
  /\ Running /\ Reified /\ rs.reader \in {"user", "none"}
  /\ overlap' = (overlap \/ rs.requests > 0)
  /\ LET d == [World EXCEPT !.rs.disturbed = TRUE]
     IN  Become(IF rs.state = "readable" THEN CloseStream(d) ELSE d)
  /\ UNCHANGED <<vars1, reads>>

\* bodyAll, with mark_body_used.  The promise is returned either way; when
\* the stream is locked it is another one, rejected.
Text ==
  /\ Running /\ ~bodyUsed
  /\ bodyUsed' = TRUE
  /\ IF Reified /\ Locked(World)
     THEN /\ text' = [text EXCEPT !.status = "rejected"]
          /\ UNCHANGED <<rs, tasks, jobs, got>>
     ELSE LET w == IF Reified THEN [World EXCEPT !.rs.reader = "internal"] ELSE Create(World)
          IN  /\ text' = [text EXCEPT !.status = "pending"]
              /\ Become([w EXCEPT !.jobs = Append(@, <<"consume", 0>>)])
  /\ UNCHANGED <<host, fwd, fetch, loop, reads, overlap>>

\* append_body of this body to an outgoing one, and mark_body_used.
AppendBody ==
  /\ tasks' = Append(tasks, "append")
  /\ fwd' = [fwd EXCEPT !.on = TRUE]
  /\ bodyUsed' = TRUE
  /\ rs' = [rs EXCEPT !.reader = "internal"]

\* Mutant: only a stream that is locked now is refused.
MutantMayStream == Reified /\ ~Locked(World)

\* maybe_stream_body and extract_body refuse a stream that is unusable.
MayStream == Reified /\ ~Unusable(World)

\* event.respondWith(new Response(r.body))
Respond ==
  /\ Running /\ MayStream
  /\ AppendBody
  /\ UNCHANGED <<host, jobs, got, text, fetch, loop, reads, overlap>>

\* fetch(url, {body}): without a body or with one that is written at once,
\* with the body of the incoming message, or with a stream of content's own.
\* Only the first queues a task for the response.
Fetch(body) ==
  /\ Running /\ fetch.status = "none"
  /\ fetch' = [status |-> "pending", body |-> body]
  /\ CASE body = "written" ->
            tasks' = Append(tasks, "response") /\ UNCHANGED <<rs, fwd, bodyUsed>>
       [] body = "incoming" -> MayStream /\ AppendBody
       [] body = "content" -> UNCHANGED <<rs, tasks, fwd, bodyUsed>>
  /\ UNCHANGED <<host, jobs, got, text, loop, reads, overlap>>

---------------------------------------------------------------------------
(* Jobs *)

Job(kind) == Running /\ jobs # <<>> /\ Head(jobs)[1] = kind
Rest == [World EXCEPT !.jobs = Tail(@)]

Started ==
  /\ Job("started")
  /\ Become(CallPullIfNeeded([Rest EXCEPT !.rs.started = TRUE]))
  /\ UNCHANGED <<vars1, reads, overlap>>

Pulled ==
  /\ Job("pulled")
  /\ LET w == [Rest EXCEPT !.rs.pulling = FALSE, !.rs.pullAgain = FALSE]
     IN  Become(IF rs.pullAgain THEN CallPullIfNeeded(w) ELSE w)
  /\ UNCHANGED <<vars1, reads, overlap>>

\* consume_content_stream_for_bodyAll
Consume ==
  /\ Job("consume")
  /\ IF Unusable(World)
     THEN Become(Rest) /\ text' = [text EXCEPT !.status = "rejected"]
     ELSE Become(Read([Rest EXCEPT !.rs.reader = "text"])) /\ UNCHANGED text
  /\ UNCHANGED <<host, bodyUsed, fwd, fetch, loop, reads, overlap>>

\* Mutant: there is no catch handler.
MutantTextReacts ==
  /\ Job("text")
  /\ LET what == Head(jobs)[2]
     IN  CASE what = Done -> Become(Rest) /\ text' = [text EXCEPT !.status = "resolved"]
           [] what = Error -> Become(Rest) /\ UNCHANGED text
           [] OTHER -> Become(Read(Rest)) /\ text' = [text EXCEPT !.contents = Append(@, what)]
  /\ UNCHANGED <<host, bodyUsed, fwd, fetch, loop, reads, overlap>>

\* content_stream_read_then_handler and content_stream_read_catch_handler
TextReacts ==
  /\ Job("text")
  /\ LET what == Head(jobs)[2]
     IN  CASE what = Done -> Become(Rest) /\ text' = [text EXCEPT !.status = "resolved"]
           [] what = Error -> Become(Rest) /\ text' = [text EXCEPT !.status = "rejected"]
           [] OTHER -> Become(Read(Rest)) /\ text' = [text EXCEPT !.contents = Append(@, what)]
  /\ UNCHANGED <<host, bodyUsed, fwd, fetch, loop, reads, overlap>>

\* body_reader_then_handler and body_reader_catch_handler for the request of
\* fetch.  At the end of the stream a BodyFutureTask is made for the request,
\* which has no stream source: what is read from its slot is no object.
UploadReacts ==
  /\ Running /\ fetch.status = "pending" /\ fetch.body = "content"
  /\ \/ fetch' = [fetch EXCEPT !.status = "settled"] /\ UNCHANGED loop  \* not a Uint8Array
     \/ fetch' = [fetch EXCEPT !.body = "failed"] /\ UNCHANGED loop     \* the stream errored
     \/ loop' = "crashed" /\ UNCHANGED fetch                            \* the stream ended
  /\ UNCHANGED <<host, rs, tasks, jobs, got, text, bodyUsed, fwd, reads, overlap>>

---------------------------------------------------------------------------
(* Tasks *)

Task(kind, i) == Running /\ jobs = <<>> /\ i \in DOMAIN tasks /\ tasks[i] = kind
BodyReady == host.taken < host.arrived \/ host.end # "open"

\* BodyFutureTask::run.  An enqueue that throws errors the stream (which a
\* closed one ignores); a close that throws is returned to the loop.
RunRead(i) ==
  /\ Task("read", i) /\ BodyReady
  /\ LET w == [World EXCEPT !.tasks = RemoveAt(@, i)]
         byte == host.taken + 1
     IN  \/ /\ host.taken < host.arrived
            /\ host' = [host EXCEPT !.taken = byte]
            /\ Become(IF CanCloseOrEnqueue(w) THEN Enqueue(w, byte) ELSE ControllerError(w))
            /\ UNCHANGED loop
         \/ /\ host.taken = host.arrived /\ host.end = "broken"
            /\ Become(ControllerError(w))
            /\ UNCHANGED <<host, loop>>
         \/ /\ host.taken = host.arrived /\ host.end = "closed"
            /\ IF CanCloseOrEnqueue(w) THEN Become(ControllerClose(w)) /\ UNCHANGED loop
               ELSE Become(w) /\ loop' = "failed"
            /\ UNCHANGED host
  /\ UNCHANGED <<text, bodyUsed, fwd, fetch, reads, overlap>>

\* BodyAppendTask::run (module OutgoingBody), a byte at a time.
RunAppend(i) ==
  /\ Task("append", i) /\ BodyReady
  /\ IF host.taken < host.arrived
     THEN /\ host' = [host EXCEPT !.taken = @ + 1]
          /\ fwd' = [fwd EXCEPT !.bytes = @ + 1]
          /\ UNCHANGED tasks
     ELSE tasks' = RemoveAt(tasks, i) /\ UNCHANGED <<host, fwd>>
  /\ UNCHANGED <<rs, jobs, got, text, bodyUsed, fetch, loop, reads, overlap>>

\* ResponseFutureTask::run: there is a response or an error.
RunResponse(i) ==
  /\ Task("response", i)
  /\ tasks' = RemoveAt(tasks, i)
  /\ fetch' = [fetch EXCEPT !.status = "settled"]
  /\ UNCHANGED <<host, rs, jobs, got, text, bodyUsed, fwd, loop, reads, overlap>>

\* The peer
HostReceives ==
  /\ host.end = "open" /\ host.arrived < MaxBytes
  /\ host' = [host EXCEPT !.arrived = @ + 1]
  /\ UNCHANGED <<rs, tasks, jobs, got, text, bodyUsed, fwd, fetch, loop, reads, overlap>>

HostEnds ==
  /\ host.end = "open"
  /\ \E end \in {"closed", "broken"} : host' = [host EXCEPT !.end = end]
  /\ UNCHANGED <<rs, tasks, jobs, got, text, bodyUsed, fwd, fetch, loop, reads, overlap>>

---------------------------------------------------------------------------
Content ==
  \/ BodyGet \/ GetReader \/ UserReads \/ ReleaseLock \/ Cancel \/ Text \/ Respond
  \/ \E body \in {"written", "incoming", "content"} : Fetch(body)
RunJob == Started \/ Pulled \/ Consume \/ TextReacts
RunTask == \E i \in DOMAIN tasks : RunRead(i) \/ RunAppend(i) \/ RunResponse(i)

Next == Content \/ RunJob \/ UploadReacts \/ RunTask \/ HostReceives \/ HostEnds

Spec == Init /\ [][Next]_vars

\* The loop runs jobs and tasks that can run, and a body ends some day.
FairSpec ==
  Spec /\ WF_vars(RunJob) /\ WF_vars(RunTask) /\ WF_vars(UploadReacts) /\ WF_vars(HostEnds)

---------------------------------------------------------------------------
(* Properties *)

IsStream(r) ==
  /\ r.state \in {"readable", "closed", "errored"}
  /\ {r.started, r.closing, r.disturbed, r.pulling, r.pullAgain} \subseteq BOOLEAN
  /\ r.reader \in {"none", "user", "internal", "text"}
  /\ r.requests \in 0..MaxReads \cup {1}
  /\ r.reader = "text" => r.requests <= 1
  /\ r.queue \in Seq(1..MaxBytes)

\* The shape of the state.
TypeOK ==
  /\ host.arrived \in 0..MaxBytes /\ host.taken \in 0..host.arrived
  /\ host.end \in {"open", "closed", "broken"}
  /\ rs = NoStream \/ IsStream(rs)
  /\ tasks \in Seq({"read", "append", "response"})
  /\ jobs \in Seq({"started", "pulled", "consume", "text"} \X (Error..MaxBytes))
  /\ got \in Seq(1..MaxBytes)
  /\ text \in [status : {"none", "pending", "resolved", "rejected"}, contents : Seq(1..MaxBytes)]
  /\ bodyUsed \in BOOLEAN
  /\ fwd \in [on : BOOLEAN, bytes : 0..MaxBytes]
  /\ fetch.status \in {"none", "pending", "settled"}
  /\ loop \in {"running", "failed", "crashed"}
  /\ reads \in 0..MaxReads /\ overlap \in BOOLEAN

\* The bytes for text() that wait for its reaction.
InFlightOf(q) ==
  LET upTo[n \in 0..Len(q)] ==
        IF n = 0 THEN <<>>
        ELSE IF q[n][1] = "text" /\ q[n][2] > 0 THEN Append(upTo[n - 1], q[n][2]) ELSE upTo[n - 1]
  IN  upTo[Len(q)]
InFlight == InFlightOf(jobs)

\* The bytes that the host gives away are all forwarded, or all go through
\* the stream; and those come out in order and once, whoever reads them and
\* however many tasks read the host at a time.  Only a stream that is closed
\* by cancel, or errors, drops what it has.
OneConsumer ==
  IF fwd.bytes > 0 \/ (fwd.on /\ host.taken > 0)
  THEN fwd.bytes = host.taken /\ got \o text.contents \o InFlight = <<>>
  ELSE LET out == got \o text.contents \o InFlight
       IN  /\ IsPrefix(out, Bytes(host.taken))
           /\ Reified /\ rs.state = "readable" => out \o rs.queue = Bytes(host.taken)

\* text() gives the body or nothing: when it resolves, every byte was read
\* by it and the host said that the body is at its end.
TextIsWhole ==
  text.status = "resolved" =>
    text.contents = Bytes(host.arrived) /\ host.end = "closed" /\ got = <<>>

\* A task returns false, which ends the event loop for everybody, only if
\* content read again, or cancelled, before it had the answer to a read: the
\* second task then closes a stream that is closed.
FailureTakesOverlap == loop = "failed" => overlap

\* text() gives an answer in the end, unless the loop ends for everybody: its
\* reads are never lost, though other jobs, tasks and content come between.
TextSettles == text.status = "pending" ~> (text.status # "pending" \/ loop # "running")

\* fetch says of a request with a streamed body that "we need to wait for
\* streaming to complete before marking the request as pending".  When it is
\* complete nothing marks it: the promise of fetch is never settled.
ForwardingFetchSettles ==
  (fetch.status = "pending" /\ fetch.body = "incoming") ~>
    (fetch.status = "settled" \/ loop # "running")

=============================================================================
