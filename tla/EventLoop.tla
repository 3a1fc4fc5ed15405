------------------------------ MODULE EventLoop ------------------------------
(***************************************************************************)
(* The event loop of runtime/event_loop.cpp together with the tasks that   *)
(* live in its queue: the timers of builtins/web/timers.cpp, and the       *)
(* ResponseFutureTask/BodyFutureTask kind of task that waits for host I/O. *)
(*                                                                         *)
(* One queue `tasks` of AsyncTask pointers.  A turn of the loop drains the *)
(* microtasks, polls the pollables of every queued task, runs the first    *)
(* ready task and erases the queue entry at the index the poll returned.   *)
(* Timer callbacks and microtasks are JavaScript: while one runs it may    *)
(* set and clear timers, start I/O and enqueue further microtasks, i.e.    *)
(* change the very queue the loop holds an index into.                     *)
(***************************************************************************)
EXTENDS Integers, Sequences, FiniteSets, SequencesExt

CONSTANTS
  Timeouts,   \* AsyncTask slots that hold a TimerTask with repeat_ = false
  Intervals,  \* AsyncTask slots that hold a TimerTask with repeat_ = true
  Ios,        \* AsyncTask slots that hold a Response/BodyFutureTask
  Handles,    \* the pollable handle numbers of the host's table
  NoHandle,   \* INVALID_POLLABLE_HANDLE
  NoTask,     \* no task is running
  MaxJobs,    \* bound: microtasks that may be enqueued between two polls
  Debug       \* TRUE: MOZ_ASSERT is compiled in

Timers == Timeouts \cup Intervals
Tasks == Timers \cup Ios

ASSUME TasksAssumption ==
  /\ Timeouts \cap Intervals = {}
  /\ Timers \cap Ios = {}
  /\ NoTask \notin Tasks
ASSUME HandlesAssumption == NoHandle \notin Handles
ASSUME JobsAssumption == MaxJobs \in Nat \ {0}
ASSUME DebugAssumption == Debug \in BOOLEAN

VARIABLES
  tasks,      \* queue.tasks, oldest first
  handle,     \* AsyncTask::handle_ of each task
  pollables,  \* the host's table: pollables that exist
  ready,      \* the pollables that are ready
  jobs,       \* microtasks in SpiderMonkey's job queue
  budget,     \* microtasks that may still be enqueued before the next poll
  pc,         \* what the (only) thread is doing
  index,      \* the local `index` of run_event_loop
  cur,        \* the local `task` of run_event_loop
  phase,      \* history: idle, queued or running
  origin,     \* history: the id that JavaScript was given for this timer
  held        \* history: ids returned by setTimeout and setInterval, not yet cleared

queueVars == <<tasks, handle, pollables, ready, phase, origin, held>>
loopVars == <<pc, index, cur>>
vars == <<queueVars, loopVars, jobs, budget>>

(***************************************************************************)
(* pc: "script" is the dispatch that runs before the loop starts, "drain"  *)
(* the top of the loop, "job" a microtask, "select" the poll, "run" the    *)
(* start of task->run, "callback" the JavaScript of a timer.  The others   *)
(* end the loop: it returned true ("done") or false ("failed"), aborted    *)
(* the process, or trapped (an assertion, or a bad handle in a host call). *)
(***************************************************************************)
Stopped == {"done", "failed", "aborted", "trapped"}
InJS == pc \in {"script", "job", "callback"}

TypeOK ==
  /\ tasks \in Seq(Tasks)
  /\ handle \in [Tasks -> Handles \cup {NoHandle}]
  /\ pollables \subseteq Handles
  /\ ready \subseteq pollables
  /\ jobs \in 0..MaxJobs
  /\ budget \in 0..MaxJobs
  /\ pc \in {"script", "drain", "job", "select", "run", "callback"} \cup Stopped
  /\ index \in Nat
  /\ cur \in Tasks \cup {NoTask}
  /\ phase \in [Tasks -> {"idle", "queued", "running"}]
  /\ origin \in [Tasks -> Handles \cup {NoHandle}]
  /\ held \subseteq Handles

Init ==
  /\ tasks = <<>>
  /\ handle = [t \in Tasks |-> NoHandle]
  /\ pollables = {}
  /\ ready = {}
  /\ jobs = 0
  /\ budget = MaxJobs
  /\ pc = "script"
  /\ index = 0
  /\ cur = NoTask
  /\ phase = [t \in Tasks |-> "idle"]
  /\ origin = [t \in Tasks |-> NoHandle]
  /\ held = {}

-----------------------------------------------------------------------------
(* The queue. *)

Queued == Range(tasks)

\* Pollable handle numbers are reused once dropped; a handle that a task
\* abandoned without dropping it stays taken.
FreshHandles == Handles \ pollables

\* The slots no live AsyncTask occupies.
FreeSlots == {t \in Tasks : phase[t] = "idle" /\ t \notin Queued}

\* A task in the queue whose handle_ is -1.
Corrupt == \E t \in Queued : handle[t] = NoHandle

\* Is entry i the first entry of the queue that satisfies P?
IsFirst(i, P(_)) ==
  /\ i \in DOMAIN tasks
  /\ P(i)
  /\ \A j \in 1..(i - 1) : ~P(j)

\* The loop's tasks->erase(tasks->begin() + index), applied to queue q.  Past
\* the end it is undefined: libc++ moves a negative count of entries, which
\* either traps or moves nothing and drops the last one.
EraseEntry(q) ==
  \/ /\ index <= Len(q)
     /\ tasks' = RemoveAt(q, index)
     /\ pc' = "drain"
  \/ /\ index > Len(q)
     /\ tasks' = Front(q)
     /\ pc' = "drain"
  \/ /\ index > Len(q)
     /\ tasks' = q
     /\ pc' = "trapped"

\* handle_ = -1.
MutantHandleReset(t) == handle
HandleReset(t) == [handle EXCEPT ![t] = NoHandle]

-----------------------------------------------------------------------------
(* JavaScript: the calls that the dispatch, a microtask or a timer callback *)
(* can make.  Each is guarded by the bounds that keep one slot and one      *)
(* handle free for the next occurrence of a running interval.               *)

SpareHandle == Cardinality(FreshHandles) > 1
SpareSlot(t) == t \in Intervals => Cardinality(FreeSlots \cap Intervals) > 1

\* new Task(...) subscribes to a pollable h, queue_async_task(task) appends.
Enqueue(t, h) ==
  /\ InJS
  /\ t \in FreeSlots
  /\ h \in FreshHandles
  /\ SpareHandle
  /\ SpareSlot(t)
  /\ tasks' = Append(tasks, t)
  /\ handle' = [handle EXCEPT ![t] = h]
  /\ pollables' = pollables \cup {h}
  /\ phase' = [phase EXCEPT ![t] = "queued"]
  /\ UNCHANGED <<ready, loopVars, jobs, budget>>

\* setTimeout, setInterval: the pollable's number is the timer's id.
SetTimer(t, h) ==
  /\ t \in Timers
  /\ Enqueue(t, h)
  /\ origin' = [origin EXCEPT ![t] = h]
  /\ held' = held \cup {h}

\* fetch() and reads of a host body: their task's id is not shown to the
\* program, but it comes from the same table.
StartIo(t, h) ==
  /\ t \in Ios
  /\ Enqueue(t, h)
  /\ UNCHANGED <<origin, held>>

\* cancel_async_task stops at entry i: the first whose id() is `id`, or whose
\* id() fails its assertion.
StopsAt(i, id) ==
  IsFirst(i, LAMBDA j : \/ handle[tasks[j]] = id
                        \/ Debug /\ handle[tasks[j]] = NoHandle)

\* clearTimeout and clearInterval, with any number.  TimerTask::cancel drops
\* the pollable, the I/O tasks only forget it.  Dropping -1 traps.
Clear(id) ==
  /\ InJS
  /\ \/ \E i \in DOMAIN tasks :
          LET t == tasks[i] IN
          /\ StopsAt(i, id)
          /\ \/ /\ handle[t] = NoHandle
                /\ pc' = "trapped"
                /\ UNCHANGED <<queueVars, index, cur>>
             \/ /\ handle[t] # NoHandle
                /\ tasks' = RemoveAt(tasks, i)
                /\ handle' = HandleReset(t)
                /\ IF t \in Timers
                   THEN /\ pollables' = pollables \ {id}
                        /\ ready' = ready \ {id}
                   ELSE UNCHANGED <<pollables, ready>>
                /\ phase' = IF t = cur THEN phase ELSE [phase EXCEPT ![t] = "idle"]
                /\ held' = held \ {id}
                /\ UNCHANGED <<origin, loopVars>>
     \/ /\ \A i \in DOMAIN tasks : ~StopsAt(i, id)
        /\ held' = held \ {id}
        /\ UNCHANGED <<tasks, handle, pollables, ready, phase, origin, loopVars>>
  /\ UNCHANGED <<jobs, budget>>

\* queueMicrotask, or a promise with reactions that settles.
NewJob ==
  /\ InJS
  /\ budget > 0
  /\ jobs' = jobs + 1
  /\ budget' = budget - 1
  /\ UNCHANGED <<queueVars, loopVars>>

-----------------------------------------------------------------------------
(* The loop. *)

\* The dispatch returns and run_event_loop is called.
ScriptReturns ==
  /\ pc = "script"
  /\ pc' = "drain"
  /\ UNCHANGED <<queueVars, index, cur, jobs, budget>>

MutantRunJob ==
  /\ pc = "drain"
  /\ jobs' = jobs - 1
  /\ pc' = "job"
  /\ UNCHANGED <<queueVars, index, cur, budget>>

RunJob ==
  /\ pc = "drain"
  /\ jobs > 0
  /\ jobs' = jobs - 1
  /\ pc' = "job"
  /\ UNCHANGED <<queueVars, index, cur, budget>>

JobReturns ==
  /\ pc = "job"
  /\ pc' = "drain"
  /\ UNCHANGED <<queueVars, index, cur, jobs, budget>>

\* JS_IsExceptionPending after RunJobs: engine->abort.
JobLeavesException ==
  /\ pc = "job"
  /\ pc' = "aborted"
  /\ UNCHANGED <<queueVars, index, cur, jobs, budget>>

MutantNothingLeft == jobs = 0 /\ ready = {}
NothingLeft == jobs = 0 /\ tasks = <<>>

\* Both halves of the body and the loop condition find nothing.
LoopEnds ==
  /\ pc = "drain"
  /\ NothingLeft
  /\ pc' = "done"
  /\ UNCHANGED <<queueVars, index, cur, jobs, budget>>

Drained ==
  /\ pc = "drain"
  /\ jobs = 0
  /\ tasks # <<>>
  /\ pc' = "select"
  /\ budget' = MaxJobs
  /\ UNCHANGED <<queueVars, index, cur, jobs>>

\* AsyncTask::select polls the id() of every queued task and returns the index
\* of the first that is ready.  A handle_ of -1 fails the assertion in id(),
\* and the host's poll traps on it and on a handle that was dropped.
CanPoll == \A t \in Queued : handle[t] \in pollables

PollTraps ==
  /\ pc = "select"
  /\ ~CanPoll
  /\ pc' = "trapped"
  /\ UNCHANGED <<queueVars, index, cur, jobs, budget>>

MutantIsFirstReady(i) ==
  /\ i \in DOMAIN tasks
  /\ handle[tasks[i]] \in ready
  /\ \A j \in (i + 1)..Len(tasks) : handle[tasks[j]] \notin ready
IsFirstReady(i) == IsFirst(i, LAMBDA j : handle[tasks[j]] \in ready)

Poll ==
  /\ pc = "select"
  /\ CanPoll
  /\ \E i \in DOMAIN tasks :
       /\ IsFirstReady(i)
       /\ index' = i
       /\ cur' = tasks[i]
       /\ phase' = [phase EXCEPT ![tasks[i]] = "running"]
  /\ pc' = "run"
  /\ UNCHANGED <<tasks, handle, pollables, ready, origin, held, jobs, budget>>

\* Leaving task->run and the loop's body: the task is no longer alive.
Retire ==
  /\ cur' = NoTask
  /\ index' = 0

-----------------------------------------------------------------------------
(* TimerTask::run *)

CallbackStarts ==
  /\ pc = "run"
  /\ cur \in Timers
  /\ pc' = "callback"
  /\ UNCHANGED <<queueVars, index, cur, jobs, budget>>

\* The callback throws: run and run_event_loop return false.
CallbackThrows ==
  /\ pc = "callback"
  /\ pc' = "failed"
  /\ UNCHANGED <<queueVars, index, cur, jobs, budget>>

\* run ends in cancel(), which reads id(); the callback cleared its own timer.
CancelTraps ==
  /\ pc = "callback"
  /\ handle[cur] = NoHandle
  /\ pc' = "trapped"
  /\ UNCHANGED <<queueVars, index, cur, jobs, budget>>

TimeoutReturns ==
  /\ pc = "callback"
  /\ cur \in Timeouts
  /\ handle[cur] # NoHandle
  /\ EraseEntry(tasks)
  /\ handle' = HandleReset(cur)
  /\ pollables' = pollables \ {handle[cur]}
  /\ ready' = ready \ {handle[cur]}
  /\ phase' = [phase EXCEPT ![cur] = "idle"]
  /\ Retire
  /\ UNCHANGED <<origin, held, jobs, budget>>

\* repeat_: a new TimerTask, with a pollable of its own, takes over.
IntervalReturns(t, h) ==
  /\ pc = "callback"
  /\ cur \in Intervals
  /\ handle[cur] # NoHandle
  /\ t \in FreeSlots \cap Intervals
  /\ h \in FreshHandles
  /\ EraseEntry(Append(tasks, t))
  /\ handle' = [HandleReset(cur) EXCEPT ![t] = h]
  /\ pollables' = (pollables \cup {h}) \ {handle[cur]}
  /\ ready' = ready \ {handle[cur]}
  /\ phase' = [phase EXCEPT ![cur] = "idle", ![t] = "queued"]
  /\ origin' = [origin EXCEPT ![t] = origin[cur]]
  /\ Retire
  /\ UNCHANGED <<held, jobs, budget>>

-----------------------------------------------------------------------------
(* ResponseFutureTask::run and BodyFutureTask::run, which run no JavaScript: *)
(* they settle a promise or feed a stream, whose reactions are microtasks.   *)

IoCompletes ==
  /\ pc = "run"
  /\ cur \in Ios
  /\ EraseEntry(tasks)
  /\ handle' = HandleReset(cur)
  /\ phase' = [phase EXCEPT ![cur] = "idle"]
  /\ \/ UNCHANGED <<jobs, budget>>
     \/ budget > 0 /\ jobs' = jobs + 1 /\ budget' = budget - 1
  /\ Retire
  /\ UNCHANGED <<pollables, ready, origin, held>>

\* The stream that was fed asks for more, and its pull algorithm queues the next
\* BodyFutureTask before the loop erases this one.
IoContinues(t, h) ==
  /\ pc = "run"
  /\ cur \in Ios
  /\ t \in FreeSlots \cap Ios
  /\ h \in FreshHandles
  /\ SpareHandle
  /\ EraseEntry(Append(tasks, t))
  /\ handle' = [HandleReset(cur) EXCEPT ![t] = h]
  /\ pollables' = pollables \cup {h}
  /\ phase' = [phase EXCEPT ![cur] = "idle", ![t] = "queued"]
  /\ \/ UNCHANGED <<jobs, budget>>
     \/ budget > 0 /\ jobs' = jobs + 1 /\ budget' = budget - 1
  /\ Retire
  /\ UNCHANGED <<ready, origin, held>>

IoFails ==
  /\ pc = "run"
  /\ cur \in Ios
  /\ pc' = "failed"
  /\ UNCHANGED <<queueVars, index, cur, jobs, budget>>

-----------------------------------------------------------------------------
(* The host. *)

\* The deadline of a timer passes, or an answer or some data arrives.
BecomesReady(t) ==
  /\ pc \notin Stopped
  /\ t \in Queued
  /\ handle[t] \in pollables \ ready
  /\ ready' = ready \cup {handle[t]}
  /\ UNCHANGED <<tasks, handle, pollables, phase, origin, held, loopVars,
                 jobs, budget>>

Ended ==
  /\ pc \in Stopped
  /\ UNCHANGED vars

-----------------------------------------------------------------------------
Script ==
  \/ \E t \in Tasks, h \in Handles : SetTimer(t, h) \/ StartIo(t, h)
  \/ \E id \in Handles \cup {NoHandle} : Clear(id)
  \/ NewJob

Loop ==
  \/ ScriptReturns \/ RunJob \/ JobReturns \/ JobLeavesException
  \/ LoopEnds \/ Drained \/ PollTraps \/ Poll
  \/ CallbackStarts \/ CallbackThrows \/ CancelTraps \/ TimeoutReturns
  \/ \E t \in Intervals, h \in Handles : IntervalReturns(t, h)
  \/ \E t \in Ios, h \in Handles : IoContinues(t, h)
  \/ IoCompletes \/ IoFails

Host == \E t \in Tasks : BecomesReady(t)

Next == Script \/ Loop \/ Host \/ Ended

Spec == Init /\ [][Next]_vars

(***************************************************************************)
(* JavaScript that runs returns (the budget ends every chain of microtasks *)
(* and a callback may call the API forever only by not returning), and     *)
(* time passes.  Nothing makes the host answer a request.                  *)
(***************************************************************************)
Fairness ==
  /\ WF_vars(Loop)
  /\ \A t \in Timers : WF_vars(BecomesReady(t))

FairSpec == Spec /\ Fairness

-----------------------------------------------------------------------------
(* Properties. *)

\* A task that was queued and neither ran nor was cancelled is in the queue.
\* erase(begin() + index) with an index that a callback made stale removes the
\* entry of another task; whenever that happens the task that ran stays behind
\* with handle_ = -1, so the next poll traps: no task is lost silently.
NoTaskLostSilently ==
  \/ \A t \in Tasks : phase[t] = "queued" => t \in Queued
  \/ Corrupt

\* Every task of the queue with a handle owns that pollable alone: it is in
\* the host's table, so the poll cannot fail on it, and no other task has it,
\* so clearTimeout(id) and cancel() cannot take it away from another one.
PollablesOwned ==
  \A t, u \in Queued :
    handle[t] # NoHandle =>
      /\ handle[t] \in pollables
      /\ handle[t] = handle[u] => t = u

\* run_event_loop returns true only after every task that was ever queued has
\* run or been cancelled, and every microtask has run, in spite of the index.
DoneMeansNothingPending ==
  pc = "done" => jobs = 0 /\ \A t \in Tasks : phase[t] = "idle"

\* A task is run only if it was queued, has not run and was not cancelled
\* since: no second callback for one setTimeout, none after clearTimeout.
OnlyQueuedTasksRun ==
  [][cur' \in Tasks /\ cur' # cur => phase[cur'] = "queued"]_vars

\* Every timer is run or cancelled unless the loop stops: requeued intervals
\* and later timers do not overtake it for ever, as new tasks go to the back
\* and the poll takes the first that is ready.
TimersNotStarved ==
  \A t \in Timers :
    phase[t] = "queued" ~> (phase[t] # "queued" \/ pc \in Stopped)

-----------------------------------------------------------------------------
(* Claims of the sources that the code does not keep. *)

\* event_loop.h: the loop runs "until all async tasks have completed"; a task
\* that neither ran nor was cancelled stays in the queue.  Violated: a callback
\* that clears an earlier timer shifts the queue under the loop's index, and
\* another task is erased in place of the one that ran.
QueuedTasksStay == \A t \in Tasks : phase[t] = "queued" => t \in Queued

\* clearInterval(id), for an id that setInterval returned, ends that interval:
\* the timers in the queue are those whose ids the program has not cleared.
\* Violated: each occurrence queues a TimerTask with another pollable, so after
\* the first the id names no task (or, reused by the host, some other one).
ClearStopsTimer ==
  \A t \in Timers : phase[t] = "queued" => origin[t] \in held

=============================================================================
