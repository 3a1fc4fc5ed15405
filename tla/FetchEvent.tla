----------------------------- MODULE FetchEvent -----------------------------
(***************************************************************************)
(* One incoming request: exports_wasi_http_incoming_handler and the        *)
(* FetchEvent of builtins/web/fetch/fetch_event.cpp, with the part of      *)
(* request-response.cpp that streams the body of the response.             *)
(*                                                                         *)
(* The export dispatches the event to the fetch handlers, runs the event   *)
(* loop and then sends an error response or finishes the body.  respondWith*)
(* and waitUntil attach native reactions to promises of the program; when  *)
(* these settle the reactions become microtasks, interleaved with those of *)
(* the program and with the reactions that copy the response's body.       *)
(***************************************************************************)
EXTENDS Integers, Sequences, FiniteSets, SequencesExt

CONSTANTS
  Promises,     \* promises that the program may pass to respondWith, waitUntil
  Outcomes,     \* what they may settle to: a subset of Values
  MaxHandlers,  \* bound: fetch handlers that were registered
  MaxCalls      \* bound: calls the program makes while the event is handled

(***************************************************************************)
(* What the promise given to respondWith can settle to.  Responses of the  *)
(* program: "empty" without a body, "static" with a body that is already   *)
(* written, "closed" with a stream that is closed, "stream" with a stream  *)
(* of the program, "unusable" with a locked or disturbed one, "host" with  *)
(* the stream of a host body.  Responses from fetch(): "incoming", "bare"  *)
(* with a null-body status, "consumed" whose body was read before.         *)
(***************************************************************************)
Incoming == {"incoming", "bare", "consumed"}
Responses == {"empty", "static", "closed", "stream", "unusable", "host"} \cup Incoming
Values == Responses \cup {"other", "rejected"}

\* What a read of the body's stream can settle to.
Reads == {"bytes", "done", "junk", "error"}

ASSUME OutcomesAssumption == Outcomes \subseteq Values
ASSUME HandlersAssumption == MaxHandlers \in Nat
ASSUME CallsAssumption == MaxCalls \in Nat

VARIABLES
  state,       \* FetchEvent::Slots::State
  dispatching, \* FetchEvent::Slots::Dispatch
  count,       \* FetchEvent::Slots::PendingPromiseCount
  value,       \* of each promise: "pending" or what it settled to
  reactions,   \* of each pending promise: the native reactions, in order
  jobs,        \* the microtasks, oldest first
  work,        \* queued tasks of the program: timers, fetches, body reads
  append,      \* the BodyAppendTask that copies a host body: none, running, done
  reader,      \* the loop of body_reader_then_handler
  body,        \* the body of the response that was sent: none, open, finished
  streaming,   \* STREAMING_BODY # nullptr
  sent,        \* how often the host's response_outparam was set
  clientGone,  \* the host cannot deliver the body any more
  pc,          \* what the (only) thread is doing
  handlers,    \* FETCH_HANDLERS that are still to be called
  calls        \* calls the program may still make

eventVars == <<state, dispatching, count>>
promiseVars == <<value, reactions>>
bodyVars == <<append, reader, body, streaming>>
hostVars == <<sent, clientGone>>
vars == <<eventVars, promiseVars, bodyVars, hostVars, jobs, work, pc,
          handlers, calls>>

\* FetchEvent::State, and the order of its members.
Rank == [unhandled |-> 0, waitToRespond |-> 1, responseStreaming |-> 2,
         responseDone |-> 3, respondedWithError |-> 4]
Jobs == [kind : {"dec", "respond", "read", "js"}, value : Values \cup Reads \cup {"none"}]

Ended == {"returned", "failed", "aborted"}
InJS == pc \in {"handler", "job", "pull", "task"}

TypeOK ==
  /\ state \in DOMAIN Rank
  /\ dispatching \in BOOLEAN
  /\ count \in Int
  /\ value \in [Promises -> Outcomes \cup {"pending"}]
  /\ reactions \in [Promises -> Seq({"dec", "respond"})]
  /\ jobs \in Seq(Jobs)
  /\ work \in 0..MaxCalls
  /\ append \in {"none", "running", "done"}
  /\ reader \in {"none", "waiting", "queued", "stopped", "errored", "done"}
  /\ body \in {"none", "open", "finished"}
  /\ streaming \in BOOLEAN
  /\ sent \in Nat
  /\ clientGone \in BOOLEAN
  /\ pc \in {"instance", "dispatch", "handler", "loop", "job", "pull", "task",
              "finish"} \cup Ended
  /\ handlers \in 0..MaxHandlers
  /\ calls \in 0..MaxCalls

\* FetchEvent::create, when the instance is initialised, and FETCH_HANDLERS.
Init ==
  /\ state = "unhandled"
  /\ dispatching = FALSE
  /\ count = 0
  /\ value = [p \in Promises |-> "pending"]
  /\ reactions = [p \in Promises |-> <<>>]
  /\ jobs = <<>>
  /\ work = 0
  /\ append = "none"
  /\ reader = "none"
  /\ body = "none"
  /\ streaming = FALSE
  /\ sent = 0
  /\ clientGone = FALSE
  /\ pc = "instance"
  /\ handlers \in 0..MaxHandlers
  /\ calls = MaxCalls

-----------------------------------------------------------------------------
(* Helpers of the event. *)

MutantIsActive == dispatching \/ state = "responseStreaming"
IsActive == dispatching \/ state = "responseStreaming" \/ count > 0

MutantResponseStarted == state # "unhandled"
ResponseStarted == state \notin {"unhandled", "waitToRespond"}

\* The microtasks of reactions rs to a promise that settled to v.
JobsOf(rs, v) == [i \in DOMAIN rs |-> [kind |-> rs[i], value |-> v]]

\* JS::AddPromiseReactions: at once a microtask if the promise has settled.
AddReactions(p, rs) ==
  IF value[p] = "pending"
  THEN /\ reactions' = [reactions EXCEPT ![p] = @ \o rs]
       /\ UNCHANGED jobs
  ELSE /\ jobs' = jobs \o JobsOf(rs, value[p])
       /\ UNCHANGED reactions

\* add_pending_promise counts the promise whether or not it is pending.
MutantCountPending(p) == IF value[p] = "pending" THEN count + 1 ELSE count
CountPending(p) == count + 1

\* response->send: the outparam is set, then the state.
SendResponse(newState) ==
  /\ sent' = sent + 1
  /\ state' = newState

-----------------------------------------------------------------------------
(* The calls of the program, from a handler, a microtask or a task. *)

Call ==
  /\ InJS
  /\ calls > 0
  /\ calls' = calls - 1

MutantMayRespond == dispatching
MayRespond == dispatching /\ state = "unhandled"

\* FetchEvent::respondWith; it throws, and changes nothing, otherwise.
RespondWith(p) ==
  /\ Call
  /\ MayRespond
  /\ AddReactions(p, <<"dec", "respond">>)
  /\ count' = CountPending(p)
  /\ state' = "waitToRespond"
  /\ UNCHANGED <<dispatching, value, bodyVars, hostVars, work, pc, handlers>>

\* FetchEvent::waitUntil
WaitUntil(p) ==
  /\ Call
  /\ IsActive
  /\ AddReactions(p, <<"dec">>)
  /\ count' = CountPending(p)
  /\ UNCHANGED <<state, dispatching, value, bodyVars, hostVars, work, pc,
                 handlers>>

\* The program, or a task it waits for, resolves or rejects a promise.
Settle(p, v) ==
  /\ Call
  /\ value[p] = "pending"
  /\ value' = [value EXCEPT ![p] = v]
  /\ jobs' = jobs \o JobsOf(reactions[p], v)
  /\ reactions' = [reactions EXCEPT ![p] = <<>>]
  /\ UNCHANGED <<eventVars, bodyVars, hostVars, work, pc, handlers>>

\* A microtask of its own, a timer, a fetch.
QueueJob ==
  /\ Call
  /\ jobs' = Append(jobs, [kind |-> "js", value |-> "none"])
  /\ UNCHANGED <<eventVars, promiseVars, bodyVars, hostVars, work, pc, handlers>>

QueueTask ==
  /\ Call
  /\ work' = work + 1
  /\ UNCHANGED <<eventVars, promiseVars, bodyVars, hostVars, jobs, pc, handlers>>

\* The program enqueues into, closes or errors the stream that the response's
\* body is read from, while a read of it is pending.
FeedStream(r) ==
  /\ Call
  /\ reader = "waiting"
  /\ reader' = "queued"
  /\ jobs' = Append(jobs, [kind |-> "read", value |-> r])
  /\ UNCHANGED <<eventVars, promiseVars, append, body, streaming, hostVars,
                 work, pc, handlers>>

Program ==
  \/ \E p \in Promises : RespondWith(p) \/ WaitUntil(p)
  \/ \E p \in Promises, v \in Outcomes : Settle(p, v)
  \/ QueueJob \/ QueueTask
  \/ \E r \in Reads : FeedStream(r)

-----------------------------------------------------------------------------
(* exports_wasi_http_incoming_handler, up to the event loop. *)

\* init_incoming_request, start_dispatching.
RequestArrives ==
  /\ pc = "instance"
  /\ dispatching' = TRUE
  /\ pc' = "dispatch"
  /\ UNCHANGED <<state, count, promiseVars, bodyVars, hostVars, jobs, work,
                 handlers, calls>>

\* The URL of the request does not parse: the export just returns.
RequestInvalid ==
  /\ pc = "instance"
  /\ pc' = "failed"
  /\ UNCHANGED <<eventVars, promiseVars, bodyVars, hostVars, jobs, work,
                 handlers, calls>>

CallHandler ==
  /\ pc = "dispatch"
  /\ handlers > 0
  /\ state = "unhandled"
  /\ handlers' = handlers - 1
  /\ pc' = "handler"
  /\ UNCHANGED <<eventVars, promiseVars, bodyVars, hostVars, jobs, work, calls>>

HandlerReturns ==
  /\ pc = "handler"
  /\ pc' = "dispatch"
  /\ UNCHANGED <<eventVars, promiseVars, bodyVars, hostVars, jobs, work,
                 handlers, calls>>

\* The exception is dumped, the other handlers are skipped.
HandlerThrows ==
  /\ pc = "handler"
  /\ dispatching' = FALSE
  /\ pc' = "loop"
  /\ UNCHANGED <<state, count, promiseVars, bodyVars, hostVars, jobs, work,
                 handlers, calls>>

StopDispatching ==
  /\ pc = "dispatch"
  /\ handlers = 0 \/ state # "unhandled"
  /\ dispatching' = FALSE
  /\ pc' = "loop"
  /\ UNCHANGED <<state, count, promiseVars, bodyVars, hostVars, jobs, work,
                 handlers, calls>>

-----------------------------------------------------------------------------
(* Microtasks. *)

\* The loop takes the oldest microtask, of kind k.
TakeJob(k) ==
  /\ pc = "loop"
  /\ jobs # <<>>
  /\ Head(jobs).kind = k

\* dec_pending_promise_count
DecPendingPromiseCount ==
  /\ TakeJob("dec")
  /\ count' = count - 1
  /\ jobs' = Tail(jobs)
  /\ UNCHANGED <<state, dispatching, promiseVars, bodyVars, hostVars, work, pc,
                 handlers, calls>>

RunProgram ==
  /\ TakeJob("js")
  /\ jobs' = Tail(jobs)
  /\ pc' = "job"
  /\ UNCHANGED <<eventVars, promiseVars, bodyVars, hostVars, work, handlers,
                 calls>>

\* response_promise_then_handler, response_promise_catch_handler for value v.
Respond(v) ==
  /\ TakeJob("respond")
  /\ Head(jobs).value = v
  /\ UNCHANGED <<dispatching, count, promiseVars, clientGone, work, handlers,
                 calls>>

\* Not a Response, or a rejection: respondWithError, whose response has a body.
RespondWithError(v) ==
  /\ v \in {"other", "rejected"}
  /\ Respond(v)
  /\ SendResponse("respondedWithError")
  /\ body' = "open"
  /\ jobs' = Tail(jobs)
  /\ UNCHANGED <<append, reader, streaming, pc>>

\* maybe_stream_body fails: the handler returns false, nothing is sent.
RespondUnusable ==
  /\ Respond("unusable")
  /\ jobs' = Tail(jobs)
  /\ UNCHANGED <<state, bodyVars, sent, pc>>

\* No streaming: no body, or one that is written already.
RespondStatic(v) ==
  /\ v \in {"empty", "static", "closed"}
  /\ Respond(v)
  /\ SendResponse("responseDone")
  /\ body' = IF v = "empty" THEN "none" ELSE "open"
  /\ jobs' = Tail(jobs)
  /\ UNCHANGED <<append, reader, streaming, pc>>

\* maybe_stream_body gets a reader and reads, which may call the program's pull
\* algorithm; the response is sent after that.
RespondStream ==
  /\ Respond("stream")
  /\ reader' = "waiting"
  /\ jobs' = Tail(jobs)
  /\ pc' = "pull"
  /\ UNCHANGED <<state, append, body, streaming, sent>>

StartStreaming ==
  /\ pc = "pull"
  /\ SendResponse("responseStreaming")
  /\ body' = "open"
  /\ streaming' = TRUE
  /\ pc' = "loop"
  /\ UNCHANGED <<dispatching, count, promiseVars, append, reader, clientGone,
                 jobs, work, handlers, calls>>

\* A host body is appended to the response's by a task of its own.  A response
\* with a null-body status has no body for maybe_stream_body, but start_response
\* appends it all the same, and does not record it in STREAMING_BODY.
RespondAppending(v) ==
  /\ v \in {"host", "incoming", "bare", "consumed"}
  /\ Respond(v)
  /\ append' = "running"
  /\ body' = "open"
  /\ IF v = "bare"
     THEN SendResponse("responseDone") /\ UNCHANGED streaming
     ELSE SendResponse("responseStreaming") /\ streaming' = TRUE
  /\ jobs' = Tail(jobs)
  /\ UNCHANGED <<reader, pc>>

\* mark_body_used on a body that is used: MOZ_ASSERT(!body_used), or the
\* MOZ_RELEASE_ASSERT around it if the stream is locked by the earlier use.
RespondConsumed ==
  /\ Respond("consumed")
  /\ append' = "running"
  /\ pc' = "aborted"
  /\ jobs' = Tail(jobs)
  /\ UNCHANGED <<state, reader, body, streaming, sent>>

\* body_reader_then_handler, body_reader_catch_handler for what was read, r.
BodyRead(r) ==
  /\ TakeJob("read")
  /\ Head(jobs).value = r
  /\ UNCHANGED <<dispatching, count, promiseVars, append, streaming, hostVars,
                 work, handlers, calls>>

\* write_all, and the next read, which may call the pull algorithm.
ReadBytes ==
  /\ BodyRead("bytes")
  /\ ~clientGone
  /\ reader' = "waiting"
  /\ jobs' = Tail(jobs)
  /\ pc' = "job"
  /\ UNCHANGED <<state, body>>

\* write_all fails, a chunk that is not a Uint8Array, an errored stream: the
\* reader stops, the body stays as it is.
ReadStops(r) ==
  /\ r \in {"bytes", "junk", "error"}
  /\ BodyRead(r)
  /\ r = "bytes" => clientGone
  /\ reader' = IF r = "error" THEN "errored" ELSE "stopped"
  /\ jobs' = Tail(jobs)
  /\ UNCHANGED <<state, body, pc>>

\* The end of the stream: set_state, then body->close(), which asserts that
\* the flush succeeds.
MutantReaderDone == "waiting"
ReaderDone == "done"
ReadDone ==
  /\ BodyRead("done")
  /\ state' = "responseDone"
  /\ reader' = ReaderDone
  /\ jobs' = Tail(jobs)
  /\ IF clientGone
     THEN pc' = "aborted" /\ UNCHANGED body
     ELSE body' = "finished" /\ UNCHANGED pc

JobReturns ==
  /\ pc = "job"
  /\ pc' = "loop"
  /\ UNCHANGED <<eventVars, promiseVars, bodyVars, hostVars, jobs, work,
                 handlers, calls>>

-----------------------------------------------------------------------------
(* Tasks, when no microtask is left. *)

MutantRunTask ==
  /\ pc = "loop"
  /\ jobs = <<>>
  /\ work' = work - 1
  /\ pc' = "task"
  /\ UNCHANGED <<eventVars, promiseVars, bodyVars, hostVars, jobs, handlers,
                 calls>>

RunTask ==
  /\ pc = "loop"
  /\ jobs = <<>>
  /\ work > 0
  /\ work' = work - 1
  /\ pc' = "task"
  /\ UNCHANGED <<eventVars, promiseVars, bodyVars, hostVars, jobs, handlers,
                 calls>>

TaskReturns ==
  /\ pc = "task"
  /\ pc' = "loop"
  /\ UNCHANGED <<eventVars, promiseVars, bodyVars, hostVars, jobs, work,
                 handlers, calls>>

\* A timer's callback throws, a body cannot be read: run_event_loop returns
\* false and the export returns at once.
TaskFails ==
  /\ pc = "task"
  /\ pc' = "failed"
  /\ UNCHANGED <<eventVars, promiseVars, bodyVars, hostVars, jobs, work,
                 handlers, calls>>

\* BodyAppendTask::run reads the end of the incoming body.
AppendDone ==
  /\ pc = "loop"
  /\ jobs = <<>>
  /\ append = "running"
  /\ append' = "done"
  /\ UNCHANGED <<eventVars, promiseVars, reader, body, streaming, hostVars,
                 jobs, work, pc, handlers, calls>>

\* It fails to read or, the client gone, to write.
AppendFails ==
  /\ pc = "loop"
  /\ jobs = <<>>
  /\ append = "running"
  /\ pc' = "failed"
  /\ UNCHANGED <<eventVars, promiseVars, bodyVars, hostVars, jobs, work,
                 handlers, calls>>

-----------------------------------------------------------------------------
(* After the loop. *)

MutantNothingLeft == work = 0 /\ append # "running"
NothingLeft == jobs = <<>> /\ work = 0 /\ append # "running"

LoopReturns ==
  /\ pc = "loop"
  /\ NothingLeft
  /\ pc' = "finish"
  /\ UNCHANGED <<eventVars, promiseVars, bodyVars, hostVars, jobs, work,
                 handlers, calls>>

FinishUnanswered ==
  /\ pc = "finish"
  /\ ~ResponseStarted
  /\ SendResponse("respondedWithError")
  /\ body' = "open"
  /\ pc' = "returned"
  /\ UNCHANGED <<dispatching, count, promiseVars, append, reader, streaming,
                 clientGone, jobs, work, handlers, calls>>

\* STREAMING_BODY is closed unless body_reader_then_handler did it.
FinishAnswered ==
  /\ pc = "finish"
  /\ ResponseStarted
  /\ IF streaming /\ body = "open" /\ clientGone
     THEN pc' = "aborted" /\ UNCHANGED body
     ELSE /\ pc' = "returned"
          /\ body' = IF streaming /\ body = "open" THEN "finished" ELSE body
  /\ UNCHANGED <<eventVars, promiseVars, append, reader, streaming, hostVars,
                 jobs, work, handlers, calls>>

\* The client closes the connection: writes and flushes fail from here on.
ClientLeaves ==
  /\ sent > 0
  /\ ~clientGone
  /\ pc \notin Ended
  /\ clientGone' = TRUE
  /\ UNCHANGED <<eventVars, promiseVars, bodyVars, sent, jobs, work, pc,
                 handlers, calls>>

Stopped ==
  /\ pc \in Ended
  /\ UNCHANGED vars

-----------------------------------------------------------------------------
Export ==
  \/ RequestArrives \/ RequestInvalid \/ CallHandler \/ HandlerReturns
  \/ HandlerThrows \/ StopDispatching
  \/ LoopReturns \/ FinishUnanswered \/ FinishAnswered

RunJob ==
  \/ DecPendingPromiseCount \/ RunProgram \/ JobReturns
  \/ \E v \in Outcomes :
       RespondWithError(v) \/ RespondStatic(v) \/ RespondAppending(v)
  \/ RespondUnusable \/ RespondStream \/ StartStreaming \/ RespondConsumed
  \/ \E r \in Reads : ReadStops(r)
  \/ ReadBytes \/ ReadDone

RunTasks == RunTask \/ TaskReturns \/ TaskFails \/ AppendDone \/ AppendFails

Next == Program \/ Export \/ RunJob \/ RunTasks \/ ClientLeaves \/ Stopped

Spec == Init /\ [][Next]_vars

(***************************************************************************)
(* The thread goes on: JavaScript that runs returns, and the loop runs the *)
(* microtasks that there are.  Nothing makes a task of the host ready, so  *)
(* there is no fairness for RunTasks, except that a callback returns.      *)
(***************************************************************************)
Fairness == WF_vars(Export \/ RunJob) /\ WF_vars(TaskReturns \/ TaskFails)

FairSpec == Spec /\ Fairness

-----------------------------------------------------------------------------
(* Properties. *)

\* The native reactions that were attached and have not run: to a promise that
\* is pending, or in the queue of microtasks.
Waiting(k) == \E p \in Promises : k \in Range(reactions[p])
QueuedJob(k) == \E i \in DOMAIN jobs : jobs[i].kind = k

\* The response_outparam is set once, however the answers of respondWith, of
\* the catch handler and of the end of the export are interleaved, and the
\* state of the event tells: response_started is what prevents a second one.
OneResponse == sent = IF ResponseStarted THEN 1 ELSE 0

\* PendingPromiseCount is the number of promises of respondWith and waitUntil
\* whose reaction has not run, so dec_pending_promise_count's assertion holds.
CountMatchesReactions ==
  LET queued == {i \in DOMAIN jobs : jobs[i].kind = "dec"}
      attached(p) == {i \in DOMAIN reactions[p] : reactions[p][i] = "dec"}
      waiting == UNION {{p} \X attached(p) : p \in Promises}
  IN  count = Cardinality(queued) + Cardinality(waiting)

\* Each microtask of the event finds the state that its assertions ask for:
\* a response is still to be sent when respondWith's promise settles, and the
\* response is streaming when its body ends.
MicrotasksFindTheirState ==
  /\ pc # "returned" /\ (Waiting("respond") \/ QueuedJob("respond"))
       => state = "waitToRespond"
  /\ QueuedJob("read") => state = IF pc = "pull" THEN "waitToRespond"
                                               ELSE "responseStreaming"

\* While the promise of respondWith is outstanding the program, whenever it
\* runs, may call waitUntil.
OutstandingMeansActive ==
  InJS /\ (Waiting("respond") \/ QueuedJob("respond")) => IsActive

\* When the export returns normally the response was sent, and a body that was
\* streamed to the end, or given up, is finished.
ReturnMeansAnswered ==
  pc = "returned" => /\ sent > 0
                     /\ streaming => body = "finished"

\* Nothing is written to a body that is finished, or before it exists.
WritersHaveABody ==
  pc \notin Ended \cup {"pull"} =>
    /\ append = "running" => body = "open"
    /\ reader \in {"waiting", "queued"} => body = "open"

\* The state of the event only advances: set_state's assertion.
StateAdvances == [][state' # state => Rank[state'] > Rank[state]]_vars

\* Once the promise of respondWith settles to a usable response, that response
\* is sent, not the error response, whatever other microtasks are queued.
SettledResponseIsSent ==
  (\E i \in DOMAIN jobs : /\ jobs[i].kind = "respond"
                          /\ jobs[i].value \in Responses \ {"unusable", "consumed"})
    ~> (state \in {"responseStreaming", "responseDone"} \/ pc \in {"failed", "aborted"})

=============================================================================
