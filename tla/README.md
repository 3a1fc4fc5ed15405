# A TLA+ model of StarlingMonkey

StarlingMonkey runs one JavaScript program per WebAssembly component: SpiderMonkey, an event
loop, and builtins (fetch, streams, timers, ...) on top of the host calls of WASI 0.2. One
instance has a single thread and handles a single incoming request. Nothing runs in parallel, but
control goes back and forth between native code, JavaScript that native code calls, microtasks,
tasks of the event loop and the host, and most of the state lives across several of these turns.
That interleaving is what the modules here are about.

## 1. Inventory

Paths are relative to `src/`.

| Component | State | Operations | Interacts with | Hard behaviour | What makes it correct |
|---|---|---|---|---|---|
| Event loop, `runtime/event_loop.cpp` | queue of `AsyncTask*`, the locals `index` and `task` | `queue_async_task`, `cancel_async_task`, `run_event_loop` | every task, through `run`, `cancel`, `id`; the host's poll | callbacks change the queue while the loop holds an index into it | no task is lost, run twice or run after its cancellation; the loop ends only when nothing is left |
| Timers, `builtins/web/timers.cpp` | `handle_`, `repeat_`, deadline | `setTimeout`, `setInterval`, `clear...`, `run`, `cancel` | the queue, the table of pollables of the host | ids are pollable numbers, which are dropped and reused; intervals requeue themselves | an id stops its timer and nothing else; every timer gets its turn |
| Fetch event, `builtins/web/fetch/fetch_event.cpp` | state, dispatch flag, promise count, `STREAMING_BODY`, `RESPONSE_OUT` | the exported handler, dispatch, `respondWith`, `waitUntil`, promise reactions | the loop, the response's body, the host | four places that may answer, reactions among the program's microtasks | exactly one response, the state only advances, the body is finished once |
| Response streaming, `builtins/web/fetch/request-response.cpp` | the reader's reactions, `BodyUsed` | `maybe_stream_body`, `body_reader_then_handler`, `body_reader_catch_handler` | SpiderMonkey's streams, the fetch event | the program's pull runs in the middle; errors at any time | every write has a body to go to; the end closes the body |
| Outgoing body, `host-apis/wasi-0.2.0/host_api.cpp` | `BodyAppendTask::state_`, pollables, the chunk in hand | `append`, `write`, `write_all`, `capacity`, `close`, the task's `run` | the queue, the host's input and output streams | a task that waits for two streams in turn, permits that change, several sources | bytes arrive once and in order; the copy ends |
| Requests, responses, bodies, `request-response.cpp` | slots `BodyUsed`, `BodyStream`, `HasBody` | constructors, `extract_body`, `append_body`, `body_source_pull_algorithm`, `bodyAll` | streams, futures, headers | shortcuts around JavaScript streams | a body is consumed once, by one consumer |
| `fetch()`, `builtins/web/fetch/fetch-api.cpp` | pending requests | `fetch` | the loop, request bodies | sending while the body still streams | every call settles its promise |
| Headers, `builtins/web/fetch/headers.cpp` | backing map, lazy flag, host fields | `append`, `set`, `delete`, `get`, iteration | the host's fields | values read lazily | the map and the host agree |
| Transform streams, `builtins/web/streams/*` | back-pressure flag and promise, the two controllers | write, pull, close, abort, error, terminate | SpiderMonkey's streams | errors and closes of two sides in any order | a chunk is transformed once; both sides end alike |
| Script loader, `runtime/script_loader.cpp` | the module registry | `load_top_level_script`, the resolve hook | SpiderMonkey's linker, which calls back for each import | cyclic imports, modules that several import | one module per specifier; it fails for a reason |
| Engine, `runtime/engine.cpp` | unhandled rejections | the rejection tracker, `eval_toplevel`, `abort` | everything | rejections that are handled late | only unhandled rejections are reported |
| Builtins without a protocol: URL, base64, text codec, crypto, console, performance, structured clone, ... | their objects | conversions | - | - | functional; not modelled |

How they call each other: the host calls the export; the export dispatches the event and then calls
`run_event_loop`; the loop runs microtasks (the reactions of the fetch event and of the body's
reader among them) and tasks (timers, futures, `BodyAppendTask`); these call the program, settle
promises, feed streams and queue tasks; `clearTimeout` reaches into the same queue. All of that is
preceded by the script loader, which runs to its end before the first request.

`PROJECT.json` lists every component with its status, and under `hazards` the lines at which this
code can go wrong in a way that a test would hardly reach.

## 2. Modules

| Module | Models |
|---|---|
| `EventLoop` | `event_loop.cpp`, `timers.cpp`, `AsyncTask::select`, and the future tasks as members of the queue |
| `FetchEvent` | the export, the event, the promise reactions, and the streaming of the response's body |
| `OutgoingBody` | `BodyAppendTask`, `HttpOutgoingBody::append`, `write`, `write_all`, `capacity` and `HttpIncomingBody::read`, byte by byte |
| `BytePipe` | what `append` promises: the abstract specification that `OutgoingBody` implements |
| `RequestResponse` | the body of an incoming message: `body`, reads, cancel, `text()` and its like, forwarding; `fetch()` |
| `Headers` | the `Headers` class over the host's fields, with its lazy copy, and the headers of a `Response` |
| `HeaderList` | what `Headers` promises: the abstract specification that it implements |
| `TransformStream` | the two sides of a `TransformStream` and its controller, the native sink and source |
| `ScriptLoader` | the module registry and the resolve hook |
| `MC...` | one per component: the instances that the runs check |
| `QueueLemmas`, `...Proofs` | lemmas on the edits of a queue; one module of theorems per component |

An operator `MutantX` is `X` with a plausible bug in it; no specification uses one. `PROJECT.json`
pairs each with the property that detects it.

### EventLoop

`tasks` is `queue.tasks`; `handle` is `AsyncTask::handle_`; `index` and `cur` are the locals of
`run_event_loop`; `pollables` and `ready` are the host's table. `pc` says where the thread is, and
the calls that a program can make (`SetTimer`, `StartIo`, `Clear`, `NewJob`) are enabled whenever
it is in JavaScript: during the dispatch, in a microtask, in a timer's callback. So a callback may
do any sequence of calls before it returns. `EraseEntry` is `tasks->erase(begin() + index)`, with
the undefined case of an index past the end as a choice between the outcomes of libc++'s vector:
nothing is moved and the last entry is dropped, or a trap. Handles are drawn from `Handles` and
may be reused once dropped, as WASI permits; the handle that an I/O task forgets stays in the
table. `phase`, `origin` and `held` are history variables that only the properties read.

A task of the queue is a slot: a slot can be taken again once its task is neither queued nor
running. One slot and one handle are kept free for the next occurrence of an interval, so that no
bound stops a run of the code.

### FetchEvent

`state`, `dispatching` and `count` are the slots of the event; `reactions` are the native reactions
on promises of the program and `jobs` is the queue of microtasks in its order. The promise that is
passed to `respondWith` settles to one value out of `Outcomes`, one per way in which
`maybe_stream_body` and `start_response` treat a response, plus a value that is no response and a
rejection. `reader` is the loop of `body_reader_then_handler`, `append` the `BodyAppendTask`.
The reaction that counts a promise and the one that responds are two microtasks, in the order in
which the code attaches them, and anything of the program may be queued between them.

### OutgoingBody

A chunk is what `read` returned and `write` has not taken yet. Between any two host calls of
`BodyAppendTask::run` the host may receive bytes, end or break a source, permit more, or lose
the client. The host never permits less than before except for what was written, hands out what
it received before it reports the end or an error, and traps when a write exceeds the permit: this
is what `wit/deps/io/streams.wit` says. `WordSize` stands for 2^32: the capacity is an `uint64_t`,
the parameter of `read` an `uint32_t`, and `write` and `write_all` convert it to a `size_t`, which on
wasm32 is no wider (`ChunkSize`, `Permitted`). So a permit that has grown to 2^32 or more between the
read and the write lets `write` take a part of the chunk, or nothing at all, in which case the loop
around it spins (`Write` then changes nothing) until the permit changes. `write_all` passes all of
the rest to the host and advances by the truncated permit, so it may send bytes again; `MaxSent`
bounds how many it sends. It is the release build; a debug build stops when a second source is
appended.

`BytePipe` has one pipe per source. The refinement maps `target` to the bytes of that source in
the output and `status` to the state of the task; how two sources interleave is not promised.

### RequestResponse

One incoming body, which content can read through its `body` stream, by `text()` and its like,
cancel, or hand on, as the body of its response or of a `fetch()`. `host` is the
incoming body on the side of the host; `rs` is the JavaScript stream, with the operations of the
Streams standard, as the engine has them; `tasks` and `jobs` are what the loop and SpiderMonkey
have queued for it: any number of `BodyFutureTask`s at a time, as the code allows. `text` is the
promise of `text()` and what its reader has collected, `bodyUsed` the slot of the same name, `fwd`
the copy by the host. Byte k is the k-th that the host receives, so an order that is wrong or a byte
that is lost or read twice shows. `loop` becomes `failed` when a task returns false, which ends
`run_event_loop` for everybody, and `crashed` where the code goes on with the slots of another class.

### Headers

An object is a record: `map`, the backing map; `pending`, the names in it whose value is still to
be fetched; `lazy`, the flag; `list`, the host's fields, and their `status` (none for a standalone
object, received and immutable, owned, frozen, or dropped). Operators such as `Ensure`
(`ensure_all_header_values_from_handle`) and `Delazified` take an object and return it, and each
method is one action that applies them in the order of the code. The values are short sequences of
tokens, of which only blanks, commas, "=" and ";" matter: these are what the trimming and the
splitting of `set-cookie` tell apart. Received fields and the content type of a body have no blanks
at their ends, which HTTP does not count to a value (`ReceivedAssumption`, `BodyTypeAssumption`).

`HeaderList` knows nothing of pending values, of the host, or of laziness. The refinement maps an
object to the list that content would be shown if it asked.

### TransformStream

`readable` and `writable` are the two sides (the engine's streams, with the operations of the
Streams standard), `ts` is the slots of the `TransformStream`, `config` says whether there is a
transformer and which high-water mark the readable side has, and whether the `size()` of the
readable strategy throws for one of the chunks. The `size()` of the writable strategy throws, or
returns no number, in `WriteSizeless`: the engine errors the writable side by itself, and the
readable side does not learn of it. A `size()` that calls back into the stream is not modelled. As
one promise stands for every change of back-pressure, a pull that waits is `readable.pulling =
"waiting"` and a write that waits `writable.phase = "blocked"`. Each native algorithm and each
reaction is an operator on a record of both sides, named as in the code, with its assertions as
`MozAssert`, which notes the first that fails and goes on, as a release build does. Jobs run in any
order that the promises permit.

### ScriptLoader

`get_module` calls `ModuleLink`, for which the engine calls the resolve hook, which calls
`get_module`; `stack` is this stack of native calls, and after linking that of the evaluation. A
program is any function from files to the specifiers that they import, with at most one faulty
file. `MaxDepth` is the depth at which the native stack is exhausted, the only thing that ends a
chain of cyclic imports; it has room for every chain that is not cyclic (`DepthAssumption`). What a
program needs is `Reached`, the least set of modules that is closed under imports, so that the
properties do not repeat the walk of the loader.

## 3. Runs

| Run | Question | Bounds | Distinct states |
|---|---|---|---|
| `EventLoop` | may callbacks that clear, set and start anything make the loop lose, repeat or forget a task? | debug build; 1 timeout, 1 interval with room for its successor, 2 I/O tasks, 4 handles, 1 microtask per turn | 1,038,276 |
| `EventLoopLive` | does every timer get its turn? | release build; 1 timeout, 1 interval, 3 handles; no symmetry | 77,250 |
| `FetchEvent` | is there exactly one answer, with the right state, count and body, in every order, and is a settled response sent? | 2 promises, 2 handlers, 5 calls, all outcomes; no symmetry | 293,019 |
| `OutgoingBody` | is each copy a pipe, and does it end? | 2 sources of 2 bytes, permits of up to 4, `WordSize` 3, 6 bytes sent by `write_all` | 368,643 |
| `RequestResponse` | has a body one consumer, who gets all of it in order, and does `text()` answer? | 3 bytes, 3 reads | 48,210 |
| `Headers` | does content notice that values are fetched late, and does a response start with the fields that it shows? | 2 objects, 2 names, values of up to 2 tokens after an append | 88,478 |
| `TransformStream` | do the two sides agree, in whatever order they err, end, fill and drain? | 2 writes, 4 reads, 3 enqueues, 1 chunk without a size, high-water mark 0 and 1 | 603,780 |
| `ScriptLoader` | is a module compiled once, and does a load end, and fail only for a reason? | 3 files, 4 specifiers, every pattern of up to 2 imports per file | 361,450 |

Why this is enough: the stale index needs one task in front of, and one behind, the task that runs;
a reused handle needs one more handle than there are queued tasks; an interval needs its successor.
Two promises are needed for a `waitUntil` that outlives `respondWith`, and five calls for
respondWith, waitUntil, two settlements and one more. Two bytes are the least that can be split
over two chunks or two writes, two sources the least that can interleave, a permit of 3, `WordSize`,
is truncated to nothing and one of 4 to 1; six bytes sent are two of `write_all` and two more turns of them. Two overlapping reads of a body and one that is queued
behind them need three reads. One `Headers` object that is copied from another shows everything
that a copy can get wrong; two tokens after an append are a value that was combined. Two writes are
one in flight and one that waits, four reads are more than the chunks that can be buffered and
written, and three enqueues are one over a full queue. Three files with a second specifier for one
of them have cycles of length one to three, diamonds, chains as long as there are specifiers, and
one file that is loaded as two modules.

What each property says is in the comment above it. These are the ones to know:

- `NoTaskLostSilently` says what is left of "no task is lost" in spite of the first finding below:
  the task that ran stays in the queue with an invalid handle, on which the next poll stops.
- `SettledResponseIsSent`, `ReturnMeansAnswered`: a response that the program has is answered
  with, and the export does not return before that.
- `EveryCopyIsAPipe`, `ShowsAHeaderList`: the two refinements.
- `ShortWritesAreTruncated`: although the permit is asked for again before each write, a chunk is
  written at once, unless the host permits 2^32 bytes or more, which is when the code can spin.
  `Intact`: partial and empty writes lose, repeat and reorder nothing of what is appended;
  `write_all`, which may repeat bytes, leaves none out.
- `OneConsumer`: the bytes that the host gives away are all forwarded or all go through the stream,
  in order and once, whoever reads and however many reads overlap. `TextIsWhole`, `TextSettles`:
  `text()` gives all of the body or nothing, and one of the two. `FailureTakesOverlap`: a body
  can end the loop, but only that of a program which reads or cancels before its last read was answered.
- `ResponseStartsWithItsList`: the host's fields of a new response say what its list says, however
  values were split and joined on the way; all but the content type of the body (see below).
- `AssertionsHold`, `BlockedForAReason`, `SidesEndTogether`, `PassesEverything`,
  `BlockedWriteGoesOn`: the contract between the two sides of a transform stream. `SidesEndTogether`
  makes one exception: the readable side is not told of a failed `size()` of the writable strategy.
- `CompiledOnce`, `FailsForAReason`: late registration does not show, except that cyclic imports
  always fail.

### Findings

Four runs are expected to fail. Each refutes one sentence of the sources:

| Run | What the sources say | What happens |
|---|---|---|
| `EventLoopStaleIndex` | the loop runs until all tasks have completed | a callback clears a timer in front of its own; the loop erases the task behind |
| `EventLoopClearInterval` | `clearInterval` is HTML's | after one occurrence the id names nothing |
| `HeadersSent` | an append goes to the map and to the host | the fields of a `Response` are frozen when it is constructed: later changes, and the content type of its body, are shown and never sent |
| `FetchForwarded` | a request is marked as pending once its body was streamed | after a copy by the host nothing marks it: the promise of `fetch` is never settled |

The models show more that is worth knowing and has no run of its own:

- A callback that clears its own timer is cancelled twice (`CancelTraps`). An id that the program
  kept after its timer ran may name an I/O task, which `Clear` then removes.
- A response stream that errors is not closed before the export ends, in spite of the comment at
  `request-response.cpp:1007` (`ReadStops`), and the body of a response that is not streamed is
  never finished (`FinishAnswered`). A program that answers with a `fetch()` response that it has
  read stops at the assertion of `mark_body_used` (`RespondConsumed`).
- Two bodies that are appended to one are copied by two tasks which take turns, so that their bytes
  interleave, in spite of the comment at `request-response.cpp:870`.
- `write_all` passes all of the rest to the host whatever it permits (`WriteAllStep`), which traps; with
  a permit of 2^32 or more it may advance by less than it sent and send bytes again, with a multiple
  of 2^32 all of them, although `host_api.h:284-286` says that it writes the given number of bytes.
  The loop around `write` spins on such a permit.
- When the `size()` of the writable strategy of a transform stream throws, the writable side errors and
  the readable side stays open: a reader waits for ever (`WriteSizeless`). The Streams standard has it so.
- `text()` after the getter `body` rejects, although nothing was read (`Text`).
- Reading the body of a request that is being sent can make the loop take the request for another
  class (`loop = "crashed"`).
- The assertion of `enqueue` on a transform stream, that it only sets back-pressure, fails when two
  reads come between two enqueues (`Enqueue`): the first cannot call `pull` yet, the second is
  answered at once.
- A program of modules whose body throws at the top level is loaded (`pc = "rejected"`); a classic
  script that throws is not. Two specifiers of one file are two modules.

After a finding the models go on with what the code does, so the other properties hold in its
presence.

### Fairness

The safety properties do not depend on it.

- `EventLoopLive`: the loop goes on, JavaScript that was called returns, and the deadline of each
  timer passes; nothing obliges the host to complete I/O.
- `FetchEvent`: the export and the microtasks go on and a callback returns; tasks need not become
  ready.
- `OutgoingBody`: the loop runs a task that is ready, and a client that stays takes its bytes, so
  that the permit grows to its maximum, 4. A permit of exactly `WordSize` is truncated to a read of
  nothing, after which the task is at once ready again, or to a write of nothing, after which the
  loop around `write` goes round: the code spins as long as the host permits just that. The run
  contains both as phases, and the fairness ends them, as the permit does not stay a multiple of
  2^32; were it to, `CopyEnds` would not hold.
- `RequestResponse`: jobs run, a task that is ready runs, and the host ends the body at some time.
  Content owes nothing.
- `TransformStream`: jobs run; content owes nothing, and `transform()` and `flush()` need not
  settle.
- `ScriptLoader`: it goes on, as one thread in one call does.

`CHECK_DEADLOCK FALSE` is given where content that does nothing more is an end:
`RequestResponse`, `Headers`, `TransformStream`, and after a load `ScriptLoader`.

## 4. Proofs

For every value of the constants, with no assumption but the named ones of the modules
(`TasksAssumption`, `HandlesAssumption`, ...), TLAPS proves:

| Module | Proved |
|---|---|
| `EventLoop` | `TypeOK`, `NoTaskLostSilently`, `PollablesOwned`, `DoneMeansNothingPending`, `OnlyQueuedTasksRun` |
| `FetchEvent` | `TypeOK`, `OneResponse`, `MicrotasksFindTheirState`, `ReturnMeansAnswered`, `WritersHaveABody`, `StateAdvances`, `CountMatchesReactions`, `OutstandingMeansActive` |
| `OutgoingBody` | `TypeOK`, `ShortWritesAreTruncated`, `PolledTasksAreBlocked`, `Intact`, and `EveryCopyIsAPipe`: each copy implements `BytePipe` |
| `RequestResponse` | `TypeOK`, `OneConsumer`, `TextIsWhole`, `FailureTakesOverlap` |
| `Headers` | `TypeOK`, `PendingValuesCanBeFetched`, and `ShowsAHeaderList`: the class implements `HeaderList` |
| `TransformStream` | `TypeOK`, `AssertionsHold`, `BlockedForAReason`, `SidesEndTogether`, `PassesEverything` |
| `ScriptLoader` | `TypeOK`, `EvaluationFindsModules`, `CompiledOnce`, `FailsForAReason` |

So every invariant that a run checks is a theorem, and so are both refinements (their safety).

Where a model has a recursive function (the output of one source, a value split into cookies and
joined again, what one reader is still to be told), its values are found for every length by a least counterexample: the places
at which a claim is false are a set of naturals, and `LeastElement` of `QueueLemmas` gives its
first member. The lemma on a function says what it is at 0 and at each step, and the proof refutes
that first member.

*EventLoop.* None of the properties is inductive. The invariant `Inv` of `EventLoopProofs` adds
that the queue has no task twice, which tasks may have a handle, that handles are unique, and
relates `index` and `cur` to the queue: as long as nothing was removed in front of it, the entry at
`index` is `cur`; once something was, the queue will keep a corrupt entry, and `NoTaskLostSilently`
and `DoneMeansNothingPending` follow from that entry. The steps that edit the queue rest on
`QueueLemmas`, which says what `Append`, `RemoveAt` and `Front` do to its range and its order; the
undefined erase is one more case of the same lemma.

*FetchEvent.* The strengthening `Inv` of `FetchEventProofs` says that the reaction that responds
exists at most once, on one promise or in the queue, exactly while the state is `waitToRespond` (or
the handler has failed); that the reader has at most one read under way; and which `sent`, `body`
and `streaming` go with which state. Since `respondWith` is the only place where the reaction is
attached, and its two checks precede it, `OneResponse` follows.

The count is exact by `CountInv`: it is the number of reactions that will decrement it, on promises
or in the queue, and what a call attaches or a settlement moves changes both alike. It also says
that the reaction which responds comes right after one which counts, on a promise (`FollowsDec`) and
in the queue, unless it is the first there (`JobFollowsDec`), in which case the program does not
run. So, whenever the program runs, a promise of `respondWith` that is outstanding is counted, and the
event is active.

*OutgoingBody.* `ShortWritesAreTruncated` needs to know that the permit does not shrink between the call of
`capacity` and the write (`RoomInv`: only the task that runs writes), and that a read returns no more
than it was asked for although the number is truncated on the way (`ModUpTo`).
`PolledTasksAreBlocked` needs the queue: a task is in it once, and the running task is the
only one in it that is not blocked (`QueueInv`).

For the bytes, the output is split by source: writing a chunk extends the part of its source and
leaves those of the others alone, for any number of sources and however the chunks interleave.
A write takes a first part of the chunk, of any length and perhaps empty, and leaves the rest
(`WriteTakes`). What `Intact` says of the appended bodies is inductive with `HandInv`, that a chunk is
in hand only while its task writes; what it says of `write_all` with `SentInv`, that the rest of the
chunk is consecutive, so that a part that is sent again ends where the next turn goes on. Each
step then is one step of the pipe of one source and a stutter of the others; that a pipe is done
only when its source has ended with nothing left is where the order of the reads and of the
result of `write` comes in.

*RequestResponse.* Until content makes two reads overlap, the state is quiet (`Quiet`, in
`RequestResponseProofs`): at most one request, for it at most one task, nothing buffered, no second
pull; a pull is remembered only while its job waits, and `text()` has either a request or a reaction
due. So a task of the queue, which runs when no job is left, finds the request that it was made
for, and a stream that is open: the close that would fail cannot. There is one lemma per operator
on the stream and one per action.

`ByteInv` holds without that proviso. Either nothing was read yet (`Untouched`), or for some m the
first m bytes have left the stream (`Sound`): what it still buffers are the bytes from m + 1 to the
last one that the host gave away (`Buffered`); content has those m, or `text()` has them, all but
perhaps the last, whose answer is then the only one that it has to react to (`Received`). It reads
again only after that reaction (`Alternates`), and a request never waits while something is buffered
(`Asked`). A body that is forwarded was never read and never will be (`Forwarding`), which with the
former is `OneConsumer`.

*Headers.* Every method is a composition of helpers that do only two things to an object: fetch
values, or remove names from `pending`. `Advances` says so, is transitive, and preserves
`PendingValuesCanBeFetched`; the cases are the methods that make a new object from another.

For the refinement, `Inv` adds that all that an object shows is trimmed (`Clean`): a constructor
trims what it copies, so it would otherwise show another list than its argument, and a value that
is combined from trimmed values is trimmed. A helper that fetches changes nothing that is shown
and is a stutter; each method is the step of `HeaderList` that has its name. `SplittingLosesNothing`
is about the operators alone: `Join` undoes `SplitCookies`, for every value.

*TransformStream.* The inductive invariant has two parts. `Good` holds between any two operators: as
long as the readable side takes chunks, a pull waits exactly while there is no back-pressure
(`PullWaits`, from which the assertion of pull follows), and the algorithms are there as long
as the writable side can call one (`Callable`). `Paired` holds between steps
only: a write that waits for back-pressure is one in flight. There is one lemma per operator, and a
step follows from those of its operators.

`JoinInv` ties the states of the two sides. An error of the writable side comes with an end of the
readable one, or with an abort, which brings it as soon as the error takes effect, or with a
`start()` or a `size()` of the writable strategy that failed; the readable side ends only with an
error of the writable one or in its flush (`Linked`); an error that waits does so for an operation
in flight (`Lingers`); a write is blocked only against back-pressure on an open readable side
(`Phased`); and as long as the readable side wants a chunk, a pull waits or is remembered
(`PullsAgain`).
`SidesEndTogether` and `BlockedForAReason` are what is left of these when no job waits.

`FlowInv` is about a stream without a transformer. Of n written chunks, what readers got, what the
readable side buffers and what the writable side queues are three runs of consecutive chunks; as
long as no side has dropped its own (`Passing`), each run starts where the one before ends, where the
chunk in flight counts for the writable side until it is enqueued. A close that is in flight takes
effect whatever happens to the other side, so `Passing` has to admit it. Most operators leave the
chunks alone or drop them with an error (`Leaves`); the others have a lemma each.

*ScriptLoader.* What is registered is complete: its imports are registered, too. To keep that,
each module on the stack has its imports in front of the next one registered, and waits for the
module above it (`Waits`), so the top of the stack is complete when it is linked.

`LoadInv` adds the history. The stack is a chain of imports that begins at the main script, and no
module on it is registered (`Chain`), so if one is on it twice the program is cyclic, and so it is
if the chain is longer than there are specifiers; a module that is not on it twice was
compiled once (`Counted`); and a registered module can be linked, so that whatever cannot,
fails, and whatever fails could not. What a module leads to is the least closed set, for which
the proof needs the two facts that it is closed and that it is in every closed set.

Only model-checked:

- the liveness properties (`TimersNotStarved`, `SettledResponseIsSent`, `CopyEnds`, `TextSettles`,
  `BlockedWriteGoesOn`, `LoadEnds`), which are out of the prover's reach;
- `ResponseStartsWithItsList`. That a field is one cookie holds of the values that content and
  the network use, and not of every sequence of tokens: the theorem would need an assumption on
  all values that an object can reach, which the code does not make. `SplittingLosesNothing` is the
  part of it that holds for all.

## 5. Not modelled

- Bodies that content constructs, and the hand-over of bodies from one message to another through
  an identity `TransformStream` (`set_owner`, `replace_source`): the bodies of `RequestResponse`
  are those of incoming messages.
- Two models over one queue: `clearTimeout` that meets a `BodyAppendTask`.
- zlib, below the native `transform` and `flush` of the compression streams; these are transformers
  of `TransformStream` that enqueue any number of chunks or throw.
- The pure converters: URL (the url crate), text codec, base64, crypto (OpenSSL), console,
  structured clone. They have no protocol, and the repository's tests compare them with tables.
- The engine: promises, streams and modules are modelled as their standards say; garbage collection
  and allocation failures are left out, and so is the list of unhandled rejections, which is only
  printed.
- The generated bindings under `host-apis/*/bindings`, which are by far the largest part of the C
  code, and the two older host interfaces, earlier forms of the one that is modelled.
- The contents of messages other than the bytes and tokens named above. A program that patches
  `Object.prototype.then` could run JavaScript in the middle of a native promise resolution; this
  is left out.

The status of every component is in `PROJECT.json`.

## 6. What could follow

1. A composition of `EventLoop` and `OutgoingBody` over one queue.
2. In `RequestResponse`: bodies that content constructs, and `set_owner`.
3. Functional models of the converters (base64, the counters of the console) against reference
   definitions.
