--------------------------- MODULE EventLoopProofs ---------------------------
(***************************************************************************)
(* Proofs about EventLoop, for every set of tasks and handles, with and    *)
(* without assertions compiled in.                                         *)
(***************************************************************************)
EXTENDS EventLoop, QueueLemmas

\* The jobs that wait and the jobs that may still be made fit in the bound.
JobsInv == jobs + budget <= MaxJobs

\* The task the loop is running, and where its entry is: Clear only erases, so
\* the entry is where the poll found it or in front of that, unless the
\* callback has cleared the task itself.
CurInv ==
  /\ pc \in {"script", "drain", "job", "select", "done"} => cur = NoTask
  /\ pc \in {"run", "callback"} =>
       /\ cur \in Tasks
       /\ index \in Nat \ {0}
       /\ \A t \in Tasks : phase[t] = "queued" => t \in Queued
       /\ phase[cur] = "running"
       /\ handle[cur] # NoHandle => IsUpTo(tasks, cur, index)
  /\ pc = "run" => handle[cur] # NoHandle /\ index <= Len(tasks) /\ tasks[index] = cur
  /\ \A t \in Tasks : phase[t] = "running" => t = cur
  /\ \A t \in Queued : handle[t] # NoHandle => phase[t] # "idle"
  /\ pc = "done" => jobs = 0 /\ tasks = <<>>

\* The inductive invariant.
Inv ==
  /\ TypeOK
  /\ JobsInv
  /\ NoDuplicates(tasks)
  /\ PollablesOwned
  /\ NoTaskLostSilently
  /\ CurInv

-----------------------------------------------------------------------------
(* Steps that leave the queue and the tasks alone, and only move pc. *)

\* A step that leaves the queue alone and moves pc as the loop may, or stops it,
\* preserves the invariant.
LEMMA ControlStep ==
  ASSUME Inv, UNCHANGED queueVars, UNCHANGED <<index, cur>>,
         jobs' \in 0..MaxJobs, budget' \in 0..MaxJobs, jobs' + budget' <= MaxJobs,
         \/ pc' = pc /\ pc \notin Stopped
         \/ pc' \in {"failed", "aborted", "trapped"}
         \/ cur = NoTask /\ pc' \in {"script", "drain", "job", "select"}
         \/ cur = NoTask /\ pc' = "done" /\ jobs' = 0 /\ tasks = <<>>
         \/ pc = "run" /\ pc' = "callback"
  PROVE  Inv'
<1>1. TypeOK' /\ JobsInv'
  BY DEF Inv, TypeOK, JobsInv, queueVars, Stopped
<1>2. NoDuplicates(tasks)' /\ PollablesOwned' /\ NoTaskLostSilently'
  BY DEF Inv, NoDuplicates, PollablesOwned, NoTaskLostSilently, Queued, Corrupt,
         queueVars
<1>3. CurInv'
  BY TasksAssumption DEF Inv, CurInv, Queued, queueVars, Stopped
<1> QED BY <1>1, <1>2, <1>3 DEF Inv

\* Every entry of the queue is a task.
LEMMA QueuedAreTasks ==
  ASSUME tasks \in Seq(Tasks)
  PROVE  /\ Queued \subseteq Tasks
         /\ Len(tasks) \in Nat
         /\ DOMAIN tasks = 1..Len(tasks)
         /\ \A i \in DOMAIN tasks : tasks[i] \in Queued
BY LenProperties, ElementOfSeq DEF Queued, Range

-----------------------------------------------------------------------------
(* What a script does to the queue. *)

\* queue_async_task of a new task with a fresh pollable preserves it.
LEMMA EnqueueStep ==
  ASSUME Inv, NEW t \in Tasks, NEW h \in Handles, Enqueue(t, h),
         origin' \in [Tasks -> Handles \cup {NoHandle}], held' \subseteq Handles
  PROVE  Inv'
<1>1. t \notin Queued /\ phase[t] = "idle" /\ h \notin pollables
  BY DEF Enqueue, FreeSlots, FreshHandles
<1>2. /\ tasks' \in Seq(Tasks)
      /\ NoDuplicates(tasks')
      /\ Queued' = Queued \cup {t}
      /\ \A x : \A n \in Nat : IsUpTo(tasks, x, n) => IsUpTo(tasks', x, n)
  BY <1>1, AppendQueue DEF Inv, TypeOK, Queued, Enqueue
<1>3. TypeOK' /\ JobsInv'
  BY <1>2 DEF Inv, TypeOK, JobsInv, Enqueue, loopVars
<1>4. PollablesOwned'
  BY <1>1, <1>2, QueuedAreTasks DEF Inv, TypeOK, PollablesOwned, Enqueue
<1>5. NoTaskLostSilently'
  BY <1>1, <1>2, QueuedAreTasks DEF Inv, TypeOK, NoTaskLostSilently, Corrupt, Enqueue
<1>6. CurInv'
  <2>1. pc' = pc /\ cur' = cur /\ index' = index /\ InJS
    BY DEF Enqueue, loopVars
  <2>2. pc' = "callback" /\ handle'[cur] # NoHandle => IsUpTo(tasks, cur, index)
    BY <1>1, <2>1, HandlesAssumption DEF Inv, TypeOK, CurInv, Enqueue
  <2> QED
    BY <1>1, <1>2, <2>1, <2>2, QueuedAreTasks
    DEF Inv, TypeOK, CurInv, InJS, Enqueue
<1> QED BY <1>2, <1>3, <1>4, <1>5, <1>6 DEF Inv

\* clearTimeout and clearInterval preserve it, whatever entry they erase: the
\* entry of the running task stays at or in front of the loop's index.
LEMMA ClearStep ==
  ASSUME Inv, NEW id \in Handles \cup {NoHandle}, Clear(id)
  PROVE  Inv'
<1>1. CASE /\ \E i \in DOMAIN tasks : handle[tasks[i]] = NoHandle
           /\ pc' = "trapped"
           /\ UNCHANGED <<queueVars, index, cur, jobs, budget>>
  BY <1>1, ControlStep DEF Inv, TypeOK, JobsInv
<1>2. CASE UNCHANGED <<tasks, handle, pollables, ready, phase, origin, loopVars, jobs, budget>>
           /\ held' = held \ {id}
  <2>1. TypeOK' /\ JobsInv'
    BY <1>2 DEF Inv, TypeOK, JobsInv, loopVars
  <2>2. NoDuplicates(tasks)' /\ PollablesOwned' /\ NoTaskLostSilently' /\ CurInv'
    BY <1>2 DEF Inv, NoDuplicates, PollablesOwned, NoTaskLostSilently, CurInv,
                Queued, Corrupt, loopVars
  <2> QED BY <2>1, <2>2 DEF Inv
<1>3. ASSUME NEW i \in DOMAIN tasks,
             StopsAt(i, id),
             handle[tasks[i]] # NoHandle,
             tasks' = RemoveAt(tasks, i),
             handle' = HandleReset(tasks[i]),
             IF tasks[i] \in Timers
             THEN /\ pollables' = pollables \ {id}
                  /\ ready' = ready \ {id}
             ELSE UNCHANGED <<pollables, ready>>,
             phase' = IF tasks[i] = cur THEN phase
                      ELSE [phase EXCEPT ![tasks[i]] = "idle"],
             held' = held \ {id},
             UNCHANGED <<origin, loopVars, jobs, budget>>
      PROVE  Inv'
  <2> DEFINE t == tasks[i]
  <2>1. t \in Queued /\ t \in Tasks /\ i \in 1..Len(tasks)
    BY QueuedAreTasks DEF Inv, TypeOK
  <2>2. handle[t] = id
    BY <1>3 DEF StopsAt, IsFirst
  <2>3. /\ tasks' \in Seq(Tasks)
        /\ NoDuplicates(tasks')
        /\ Queued' = Queued \ {t}
        /\ \A x : \A n \in Nat : x # t /\ IsUpTo(tasks, x, n) => IsUpTo(tasks', x, n)
    BY <1>3, <2>1, RemoveAtQueue DEF Inv, TypeOK, Queued
  <2>4. handle' = [handle EXCEPT ![t] = NoHandle]
    BY <1>3 DEF HandleReset
  <2>5. pc' = pc /\ cur' = cur /\ index' = index /\ InJS
    BY <1>3 DEF Clear, loopVars
  <2>6. \A x \in Tasks : phase'[x] = IF x = t /\ t # cur THEN "idle" ELSE phase[x]
    BY <1>3, <2>1 DEF Inv, TypeOK
  <2>7. phase' \in [Tasks -> {"idle", "queued", "running"}]
    BY <1>3, <2>1 DEF Inv, TypeOK
  <2>8. TypeOK' /\ JobsInv'
    BY <1>3, <2>3, <2>4, <2>5, <2>7 DEF Inv, TypeOK, JobsInv
  <2>9. PollablesOwned'
    BY <1>3, <2>1, <2>2, <2>3, <2>4, QueuedAreTasks DEF Inv, TypeOK, PollablesOwned
  <2>10. t # cur \/ pc = "callback"
    BY <2>1, <2>5, TasksAssumption DEF Inv, CurInv, InJS
  <2>11. NoTaskLostSilently'
    <3>1. CASE Corrupt
      BY <1>3, <2>1, <2>3, <2>4, <3>1, QueuedAreTasks DEF Inv, TypeOK, Corrupt, NoTaskLostSilently
    <3>2. CASE ~Corrupt
      BY <2>1, <2>3, <2>6, <2>10, <3>2 DEF Inv, CurInv, NoTaskLostSilently
    <3> QED BY <3>1, <3>2
  <2>12. CurInv'
    <3>1. \A x \in Queued' : handle'[x] # NoHandle => phase'[x] # "idle"
      BY <2>3, <2>4, <2>6, QueuedAreTasks DEF Inv, TypeOK, CurInv
    <3>2. \A x \in Tasks : phase'[x] = "running" => x = cur'
      BY <2>5, <2>6 DEF Inv, CurInv
    <3>3. ASSUME pc = "callback"
          PROVE  /\ \A x \in Tasks : phase'[x] = "queued" => x \in Queued'
                 /\ phase'[cur] = "running"
                 /\ handle'[cur] # NoHandle => IsUpTo(tasks', cur, index)
      <4>1. \A x \in Tasks : phase'[x] = "queued" => x \in Queued'
        BY <2>3, <2>6, <3>3 DEF Inv, CurInv
      <4>2. phase'[cur] = "running"
        BY <2>6, <3>3 DEF Inv, CurInv
      <4>3. handle'[cur] # NoHandle => IsUpTo(tasks', cur, index)
        BY <2>1, <2>3, <2>4, <3>3 DEF Inv, TypeOK, CurInv
      <4> QED BY <4>1, <4>2, <4>3
    <3> QED BY <2>5, <3>1, <3>2, <3>3 DEF Inv, CurInv, InJS
  <2> QED BY <2>3, <2>8, <2>9, <2>11, <2>12 DEF Inv
<1> QED BY <1>1, <1>2, <1>3 DEF Clear, queueVars

-----------------------------------------------------------------------------
(* What the loop does to the queue. *)

\* Erasing at the index of the poll removes the entry of the task that ran and
\* no other, or leaves that task in the queue.
LEMMA EraseLemma ==
  ASSUME NEW q \in Seq(Tasks), NoDuplicates(q), index \in Nat \ {0},
         IsUpTo(q, cur, index), EraseEntry(q)
  PROVE  /\ tasks' \in Seq(Tasks)
         /\ NoDuplicates(tasks')
         /\ Queued' \subseteq Range(q)
         /\ cur \in Queued' \/ Queued' = Range(q) \ {cur}
         /\ pc' \in {"drain", "trapped"}
<1>1. PICK p \in DOMAIN q : p <= index /\ q[p] = cur
  BY DEF IsUpTo
<1>2. Len(q) \in Nat /\ DOMAIN q = 1..Len(q)
  BY LenProperties
<1>3. CASE /\ index <= Len(q)
           /\ tasks' = RemoveAt(q, index)
           /\ pc' = "drain"
  <2>1. index \in 1..Len(q)
    BY <1>2, <1>3
  <2>2. /\ tasks' \in Seq(Tasks)
        /\ NoDuplicates(tasks')
        /\ Queued' = Range(q) \ {q[index]}
    BY <1>3, <2>1, RemoveAtQueue DEF Queued
  <2>3. cur \in Range(q)
    BY <1>1 DEF Range
  <2> QED BY <1>3, <2>2, <2>3
<1>4. CASE /\ index > Len(q)
           /\ tasks' = Front(q)
           /\ pc' = "drain"
  <2>1. q # <<>>
    BY <1>1, <1>2
  <2>2. /\ tasks' \in Seq(Tasks)
        /\ NoDuplicates(tasks')
        /\ Queued' = Range(q) \ {q[Len(q)]}
    BY <1>4, <2>1, FrontQueue DEF Queued
  <2>3. cur \in Range(q)
    BY <1>1 DEF Range
  <2> QED BY <1>4, <2>2, <2>3
<1>5. CASE tasks' = q /\ pc' = "trapped"
  BY <1>1, <1>5 DEF Queued, Range
<1> QED BY <1>3, <1>4, <1>5 DEF EraseEntry

\* At the end of task->run: the task gave up its handle, and its entry is
\* erased.  q is the queue with the entry t that an interval may have added.
LEMMA RetireStep ==
  ASSUME Inv, pc \in {"run", "callback"}, handle[cur] # NoHandle,
         NEW q \in Seq(Tasks), NoDuplicates(q), IsUpTo(q, cur, index),
         NEW added \in SUBSET (Tasks \ Queued), Range(q) = Queued \cup added,
         NEW h, \A t \in added : h \in Handles \ pollables /\ h \in pollables',
         \A t, u \in added : t = u,
         \A t \in added : phase[t] = "idle",
         EraseEntry(q),
         handle' = [t \in Tasks |-> IF t = cur THEN NoHandle
                                    ELSE IF t \in added THEN h ELSE handle[t]],
         pollables' \subseteq Handles,
         ready' \subseteq pollables',
         pollables \ {handle[cur]} \subseteq pollables',
         phase' = [t \in Tasks |-> IF t = cur THEN "idle"
                                   ELSE IF t \in added THEN "queued" ELSE phase[t]],
         cur' = NoTask, index' = 0,
         origin' \in [Tasks -> Handles \cup {NoHandle}], held' \subseteq Handles,
         jobs' \in 0..MaxJobs, budget' \in 0..MaxJobs, jobs' + budget' <= MaxJobs
  PROVE  Inv'
<1>1. cur \in Tasks /\ index \in Nat \ {0} /\ cur \in Queued
  BY DEF Inv, CurInv, IsUpTo, Queued, Range
<1>2. cur \notin added
  BY <1>1
<1>3. /\ tasks' \in Seq(Tasks)
      /\ NoDuplicates(tasks')
      /\ Queued' \subseteq Queued \cup added
      /\ cur \in Queued' \/ Queued' = (Queued \cup added) \ {cur}
      /\ pc' \in {"drain", "trapped"}
  BY <1>1, EraseLemma
<1>4. TypeOK' /\ JobsInv'
  BY <1>3 DEF Inv, TypeOK, JobsInv, Stopped
<1>5. Queued \subseteq Tasks
  BY QueuedAreTasks DEF Inv, TypeOK
<1>6. PollablesOwned'
  <2> SUFFICES ASSUME NEW t \in Queued', NEW u \in Queued', handle'[t] # NoHandle
               PROVE  /\ handle'[t] \in pollables'
                      /\ handle'[t] = handle'[u] => t = u
    BY DEF PollablesOwned
  <2>1. t \in Tasks /\ u \in Tasks /\ t # cur
    BY <1>3, <1>5
  <2>2. CASE t \in added
    BY <1>1, <1>2, <1>3, <1>5, <2>1, <2>2, HandlesAssumption
    DEF Inv, PollablesOwned
  <2>3. CASE t \in Queued /\ t \notin added
    <3>1. handle'[t] = handle[t] /\ handle[t] # NoHandle
      BY <2>1, <2>3
    <3>2. handle[t] \in pollables /\ handle[t] # handle[cur]
      BY <1>1, <2>1, <2>3, <3>1 DEF Inv, PollablesOwned
    <3>3. CASE u \in Queued
      BY <1>2, <2>1, <2>3, <3>1, <3>2, <3>3 DEF Inv, PollablesOwned
    <3>4. CASE u \in added
      BY <1>2, <2>1, <3>1, <3>2, <3>4
    <3> QED BY <1>3, <3>1, <3>2, <3>3, <3>4
  <2> QED BY <1>3, <2>2, <2>3
<1>7. NoTaskLostSilently'
  <2>1. CASE cur \in Queued'
    BY <1>1, <2>1 DEF NoTaskLostSilently, Corrupt
  <2>2. CASE Queued' = (Queued \cup added) \ {cur}
    BY <2>2 DEF Inv, CurInv, NoTaskLostSilently
  <2> QED BY <1>3, <2>1, <2>2
<1>8. CurInv'
  <2>1. \A t \in Tasks : phase'[t] # "running"
    BY DEF Inv, TypeOK, CurInv
  <2>2. \A t \in Queued' : handle'[t] # NoHandle => phase'[t] # "idle"
    BY <1>1, <1>3, <1>5 DEF Inv, TypeOK, CurInv
  <2> QED BY <1>3, <2>1, <2>2 DEF CurInv
<1> QED BY <1>3, <1>4, <1>6, <1>7, <1>8 DEF Inv

\* The task that runs has its handle in the host's table.
LEMMA CurHandle ==
  ASSUME Inv, pc \in {"run", "callback"}, handle[cur] # NoHandle
  PROVE  /\ cur \in Tasks
         /\ cur \in Queued
         /\ IsUpTo(tasks, cur, index)
         /\ handle[cur] \in pollables
BY DEF Inv, CurInv, IsUpTo, Queued, Range, PollablesOwned

\* The end of TimerTask::run, for setTimeout.
LEMMA TimeoutStep ==
  ASSUME Inv, TimeoutReturns
  PROVE  Inv'
<1>1. tasks \in Seq(Tasks) /\ NoDuplicates(tasks)
  BY DEF Inv, TypeOK
<1>2. /\ cur \in Tasks
      /\ IsUpTo(tasks, cur, index)
  BY CurHandle DEF TimeoutReturns
<1>3. /\ handle' = [t \in Tasks |-> IF t = cur THEN NoHandle
                                     ELSE IF t \in {} THEN NoHandle ELSE handle[t]]
      /\ phase' = [t \in Tasks |-> IF t = cur THEN "idle"
                                    ELSE IF t \in {} THEN "queued" ELSE phase[t]]
  BY <1>2 DEF Inv, TypeOK, TimeoutReturns, HandleReset
<1>4. /\ pollables' \subseteq Handles
      /\ ready' \subseteq pollables'
      /\ pollables \ {handle[cur]} \subseteq pollables'
      /\ cur' = NoTask /\ index' = 0
      /\ EraseEntry(tasks)
      /\ pc \in {"run", "callback"} /\ handle[cur] # NoHandle
  BY DEF Inv, TypeOK, TimeoutReturns, Retire
<1>5. /\ origin' \in [Tasks -> Handles \cup {NoHandle}] /\ held' \subseteq Handles
      /\ jobs' \in 0..MaxJobs /\ budget' \in 0..MaxJobs /\ jobs' + budget' <= MaxJobs
  BY DEF Inv, TypeOK, JobsInv, TimeoutReturns
<1>6. Range(tasks) = Queued \cup {} /\ {} \in SUBSET (Tasks \ Queued)
  BY DEF Queued
<1> QED BY <1>1, <1>2, <1>3, <1>4, <1>5, <1>6, RetireStep

\* The end of TimerTask::run, for setInterval: t takes over from the task.
LEMMA IntervalStep ==
  ASSUME Inv, NEW t \in Intervals, NEW h \in Handles, IntervalReturns(t, h)
  PROVE  Inv'
<1> DEFINE q == Append(tasks, t)
<1>1. tasks \in Seq(Tasks) /\ NoDuplicates(tasks)
  BY DEF Inv, TypeOK
<1>2. /\ cur \in Tasks
      /\ IsUpTo(tasks, cur, index)
      /\ handle[cur] \in pollables
      /\ cur \in Queued
  BY CurHandle DEF IntervalReturns
<1>3. /\ t \in Tasks /\ t \notin Queued /\ phase[t] = "idle" /\ t # cur
      /\ h \in Handles \ pollables
  BY <1>2 DEF IntervalReturns, FreeSlots, FreshHandles, Tasks, Timers
<1>4. /\ q \in Seq(Tasks)
      /\ NoDuplicates(q)
      /\ Range(q) = Queued \cup {t}
      /\ IsUpTo(q, cur, index)
  BY <1>1, <1>2, <1>3, AppendQueue DEF Queued, Inv, CurInv, IntervalReturns
<1>5. /\ handle' = [x \in Tasks |-> IF x = cur THEN NoHandle
                                     ELSE IF x \in {t} THEN h ELSE handle[x]]
      /\ phase' = [x \in Tasks |-> IF x = cur THEN "idle"
                                    ELSE IF x \in {t} THEN "queued" ELSE phase[x]]
  BY <1>2, <1>3 DEF Inv, TypeOK, IntervalReturns, HandleReset
<1>6. /\ pollables' \subseteq Handles
      /\ ready' \subseteq pollables'
      /\ pollables \ {handle[cur]} \subseteq pollables'
      /\ h \in pollables'
      /\ cur' = NoTask /\ index' = 0
      /\ EraseEntry(q)
      /\ pc \in {"run", "callback"} /\ handle[cur] # NoHandle
  BY <1>2, <1>3 DEF Inv, TypeOK, IntervalReturns, Retire
<1>7. /\ origin' \in [Tasks -> Handles \cup {NoHandle}] /\ held' \subseteq Handles
      /\ jobs' \in 0..MaxJobs /\ budget' \in 0..MaxJobs /\ jobs' + budget' <= MaxJobs
  BY <1>2 DEF Inv, TypeOK, JobsInv, IntervalReturns
<1>8. {t} \in SUBSET (Tasks \ Queued)
  BY <1>3
<1> HIDE DEF q
<1> QED BY <1>3, <1>4, <1>5, <1>6, <1>7, <1>8, RetireStep

\* ResponseFutureTask::run and BodyFutureTask::run, when they succeed.
LEMMA IoStep ==
  ASSUME Inv, IoCompletes
  PROVE  Inv'
<1>1. tasks \in Seq(Tasks) /\ NoDuplicates(tasks)
  BY DEF Inv, TypeOK
<1>2. pc \in {"run", "callback"} /\ handle[cur] # NoHandle
  BY DEF Inv, CurInv, IoCompletes
<1>3. /\ cur \in Tasks
      /\ IsUpTo(tasks, cur, index)
  BY <1>2, CurHandle
<1>4. /\ handle' = [t \in Tasks |-> IF t = cur THEN NoHandle
                                     ELSE IF t \in {} THEN NoHandle ELSE handle[t]]
      /\ phase' = [t \in Tasks |-> IF t = cur THEN "idle"
                                    ELSE IF t \in {} THEN "queued" ELSE phase[t]]
  BY <1>3 DEF Inv, TypeOK, IoCompletes, HandleReset
<1>5. /\ pollables' \subseteq Handles
      /\ ready' \subseteq pollables'
      /\ pollables \ {handle[cur]} \subseteq pollables'
      /\ cur' = NoTask /\ index' = 0
      /\ EraseEntry(tasks)
  BY DEF Inv, TypeOK, IoCompletes, Retire
<1>6. /\ origin' \in [Tasks -> Handles \cup {NoHandle}] /\ held' \subseteq Handles
      /\ jobs' \in 0..MaxJobs /\ budget' \in 0..MaxJobs /\ jobs' + budget' <= MaxJobs
  BY JobsAssumption DEF Inv, TypeOK, JobsInv, IoCompletes
<1>7. Range(tasks) = Queued \cup {} /\ {} \in SUBSET (Tasks \ Queued)
  BY DEF Queued
<1> QED BY <1>1, <1>2, <1>3, <1>4, <1>5, <1>6, <1>7, RetireStep

\* BodyFutureTask::run, when the stream pulls again at once.
LEMMA IoContinuesStep ==
  ASSUME Inv, NEW t \in Ios, NEW h \in Handles, IoContinues(t, h)
  PROVE  Inv'
<1> DEFINE q == Append(tasks, t)
<1>1. /\ tasks \in Seq(Tasks) /\ NoDuplicates(tasks)
      /\ pc \in {"run", "callback"} /\ handle[cur] # NoHandle
  BY DEF Inv, TypeOK, CurInv, IoContinues
<1>2. /\ cur \in Tasks
      /\ IsUpTo(tasks, cur, index)
      /\ cur \in Queued
  BY <1>1, CurHandle
<1>3. /\ t \in Tasks /\ t \notin Queued /\ phase[t] = "idle" /\ t # cur
      /\ h \in Handles \ pollables
  BY <1>2 DEF IoContinues, FreeSlots, FreshHandles, Tasks
<1>4. /\ q \in Seq(Tasks)
      /\ NoDuplicates(q)
      /\ Range(q) = Queued \cup {t}
      /\ IsUpTo(q, cur, index)
  BY <1>1, <1>2, <1>3, AppendQueue DEF Queued, Inv, CurInv, IoContinues
<1>5. /\ handle' = [x \in Tasks |-> IF x = cur THEN NoHandle
                                     ELSE IF x \in {t} THEN h ELSE handle[x]]
      /\ phase' = [x \in Tasks |-> IF x = cur THEN "idle"
                                    ELSE IF x \in {t} THEN "queued" ELSE phase[x]]
  BY <1>2, <1>3 DEF Inv, TypeOK, IoContinues, HandleReset
<1>6. /\ pollables' \subseteq Handles
      /\ ready' \subseteq pollables'
      /\ pollables \ {handle[cur]} \subseteq pollables'
      /\ h \in pollables'
      /\ cur' = NoTask /\ index' = 0
      /\ EraseEntry(q)
  BY <1>3 DEF Inv, TypeOK, IoContinues, Retire
<1>7. /\ origin' \in [Tasks -> Handles \cup {NoHandle}] /\ held' \subseteq Handles
      /\ jobs' \in 0..MaxJobs /\ budget' \in 0..MaxJobs /\ jobs' + budget' <= MaxJobs
  BY JobsAssumption DEF Inv, TypeOK, JobsInv, IoContinues
<1>8. {t} \in SUBSET (Tasks \ Queued)
  BY <1>3
<1> HIDE DEF q
<1> QED BY <1>1, <1>3, <1>4, <1>5, <1>6, <1>7, <1>8, RetireStep

\* AsyncTask::select: the task it returns is queued, and is where index says.
LEMMA PollStep ==
  ASSUME Inv, Poll
  PROVE  Inv'
<1>1. PICK i \in DOMAIN tasks :
        /\ handle[tasks[i]] \in ready
        /\ index' = i
        /\ cur' = tasks[i]
        /\ phase' = [phase EXCEPT ![tasks[i]] = "running"]
  BY DEF Poll, IsFirstReady, IsFirst
<1>2. /\ tasks[i] \in Tasks /\ tasks[i] \in Queued
      /\ i \in 1..Len(tasks) /\ Len(tasks) \in Nat /\ DOMAIN tasks = 1..Len(tasks)
  BY QueuedAreTasks DEF Inv, TypeOK
<1>3. handle[tasks[i]] # NoHandle /\ ~Corrupt
  BY <1>2, HandlesAssumption DEF Poll, CanPoll, Corrupt, Inv, TypeOK
<1>4. UNCHANGED <<tasks, handle, pollables, ready, origin, held, jobs, budget>>
      /\ pc = "select" /\ pc' = "run" /\ ~Corrupt /\ Queued' = Queued
  BY <1>3 DEF Poll, Queued
<1>5. TypeOK' /\ JobsInv'
  BY <1>1, <1>2, <1>4 DEF Inv, TypeOK, JobsInv
<1>6. NoDuplicates(tasks)' /\ PollablesOwned'
  BY <1>4 DEF Inv, NoDuplicates, PollablesOwned
<1>7. \A t \in Tasks : phase'[t] = "queued" => t \in Queued'
  BY <1>1, <1>2, <1>4 DEF Inv, TypeOK, NoTaskLostSilently
<1>8. CurInv'
  <2>1. IsUpTo(tasks', cur', index')
    BY <1>1, <1>2, <1>4 DEF IsUpTo
  <2>2. \A t \in Tasks : phase'[t] = "running" => t = cur'
    BY <1>1, <1>2, <1>4, TasksAssumption DEF Inv, TypeOK, CurInv
  <2>3. \A t \in Queued' : handle'[t] # NoHandle => phase'[t] # "idle"
    BY <1>1, <1>2, <1>4, QueuedAreTasks DEF Inv, TypeOK, CurInv
  <2> QED BY <1>1, <1>2, <1>3, <1>4, <1>7, <2>1, <2>2, <2>3 DEF Inv, TypeOK, CurInv
<1> QED BY <1>5, <1>6, <1>7, <1>8 DEF Inv, NoTaskLostSilently

-----------------------------------------------------------------------------
\* The invariant holds when the module starts, before any task is queued.
LEMMA InitInv == Init => Inv
<1> SUFFICES ASSUME Init PROVE Inv
  OBVIOUS
<1>1. TypeOK /\ JobsInv
  BY JobsAssumption, EmptySeq DEF Init, TypeOK, JobsInv
<1>2. NoDuplicates(tasks) /\ Queued = {}
  BY DEF Init, NoDuplicates, Queued, Range
<1>3. PollablesOwned /\ NoTaskLostSilently /\ CurInv
  BY <1>2 DEF Init, PollablesOwned, NoTaskLostSilently, CurInv
<1> QED BY <1>1, <1>2, <1>3 DEF Inv

\* Every step of the program, the loop and the host preserves it.
LEMMA NextInv == Inv /\ [Next]_vars => Inv'
<1> SUFFICES ASSUME Inv, [Next]_vars PROVE Inv'
  OBVIOUS
<1> USE DEF queueVars, loopVars
<1>1. TypeOK /\ JobsInv
  BY DEF Inv
<1>2. ASSUME NEW t \in Tasks, NEW h \in Handles, SetTimer(t, h) PROVE Inv'
  BY <1>1, <1>2, EnqueueStep DEF SetTimer, TypeOK
<1>3. ASSUME NEW t \in Tasks, NEW h \in Handles, StartIo(t, h) PROVE Inv'
  BY <1>1, <1>3, EnqueueStep DEF StartIo, TypeOK
<1>4. ASSUME NEW id \in Handles \cup {NoHandle}, Clear(id) PROVE Inv'
  BY <1>4, ClearStep
<1>5. CASE NewJob
  <2>1. jobs' \in 0..MaxJobs /\ budget' \in 0..MaxJobs /\ jobs' + budget' <= MaxJobs
    BY <1>1, <1>5, JobsAssumption DEF NewJob, TypeOK, JobsInv
  <2> QED BY <1>5, <2>1, ControlStep DEF NewJob, InJS, Stopped
<1>6. CASE \/ ScriptReturns \/ RunJob \/ JobReturns \/ JobLeavesException
           \/ LoopEnds \/ Drained
  <2>1. jobs' \in 0..MaxJobs /\ budget' \in 0..MaxJobs /\ jobs' + budget' <= MaxJobs
    BY <1>1, <1>6, JobsAssumption
    DEF ScriptReturns, RunJob, JobReturns, JobLeavesException, LoopEnds, Drained,
        NothingLeft, TypeOK, JobsInv
  <2>2. pc \in {"script", "drain", "job"}
    BY <1>6 DEF ScriptReturns, RunJob, JobReturns, JobLeavesException, LoopEnds, Drained
  <2>3. cur = NoTask
    BY <2>2 DEF Inv, CurInv
  <2> QED BY <1>6, <2>1, <2>3, ControlStep
          DEF ScriptReturns, RunJob, JobReturns, JobLeavesException, LoopEnds,
              Drained, NothingLeft
<1>7. CASE PollTraps \/ CallbackStarts \/ CallbackThrows \/ CancelTraps \/ IoFails
  BY <1>1, <1>7, ControlStep
  DEF PollTraps, CallbackStarts, CallbackThrows, CancelTraps, IoFails, TypeOK, JobsInv
<1>8. CASE Poll
  BY <1>8, PollStep
<1>9. CASE TimeoutReturns
  BY <1>9, TimeoutStep
<1>10. ASSUME NEW t \in Intervals, NEW h \in Handles, IntervalReturns(t, h) PROVE Inv'
  BY <1>10, IntervalStep
<1>11. CASE IoCompletes
  BY <1>11, IoStep
<1>12. ASSUME NEW t \in Ios, NEW h \in Handles, IoContinues(t, h) PROVE Inv'
  BY <1>12, IoContinuesStep
<1>13. ASSUME NEW t \in Tasks, BecomesReady(t) PROVE Inv'
  <2>1. TypeOK' /\ JobsInv'
    BY <1>1, <1>13 DEF BecomesReady, TypeOK, JobsInv
  <2>2. NoDuplicates(tasks)' /\ PollablesOwned' /\ NoTaskLostSilently' /\ CurInv'
    BY <1>13 DEF BecomesReady, Inv, NoDuplicates, PollablesOwned,
                 NoTaskLostSilently, CurInv, Queued, Corrupt
  <2> QED BY <2>1, <2>2 DEF Inv
<1>14. CASE UNCHANGED vars
  BY <1>14 DEF vars, Inv, TypeOK, JobsInv, NoDuplicates, PollablesOwned,
               NoTaskLostSilently, CurInv, Queued, Corrupt
<1> QED
  BY <1>2, <1>3, <1>4, <1>5, <1>6, <1>7, <1>8, <1>9, <1>10, <1>11, <1>12, <1>13, <1>14
  DEF Next, Script, Loop, Host, Ended

-----------------------------------------------------------------------------
\* The strengthened invariant holds in every state of every behaviour.
THEOREM Invariance == Spec => []Inv
BY InitInv, NextInv, PTL DEF Spec

\* Every variable of the event loop keeps its type, in particular the queue
\* holds tasks only and the microtasks stay within their bound.
THEOREM TypeCorrect == Spec => []TypeOK
<1>1. Inv => TypeOK
  BY DEF Inv
<1> QED BY <1>1, Invariance, PTL

\* A stale index never loses a task without leaving a task with handle_ = -1
\* in the queue, on which the next poll traps.
THEOREM NoSilentLoss == Spec => []NoTaskLostSilently
<1>1. Inv => NoTaskLostSilently
  BY DEF Inv
<1> QED BY <1>1, Invariance, PTL

\* No two queued tasks share a pollable, and the pollable of a queued task
\* exists as long as the task has a handle.
THEOREM PollablesHaveOneOwner == Spec => []PollablesOwned
<1>1. Inv => PollablesOwned
  BY DEF Inv
<1> QED BY <1>1, Invariance, PTL

\* When run_event_loop returns true, no task and no microtask is left.
THEOREM DoneIsDone == Spec => []DoneMeansNothingPending
<1>1. Inv => DoneMeansNothingPending
  <2> SUFFICES ASSUME Inv, pc = "done", NEW t \in Tasks
               PROVE  jobs = 0 /\ phase[t] = "idle"
    BY JobsAssumption DEF DoneMeansNothingPending, Inv, CurInv
  <2>1. cur = NoTask /\ jobs = 0 /\ Queued = {}
    BY DEF Inv, CurInv, Queued, Range
  <2>2. phase[t] # "queued"
    BY <2>1 DEF Inv, NoTaskLostSilently, Corrupt
  <2>3. phase[t] # "running"
    BY <2>1, TasksAssumption DEF Inv, CurInv
  <2> QED BY <2>1, <2>2, <2>3 DEF Inv, TypeOK
<1> QED BY <1>1, Invariance, PTL

\* The poll never picks a task that has run or was cancelled: no callback runs
\* twice for one setTimeout, and none after its clearTimeout.
THEOREM OnlyQueuedRun == Spec => OnlyQueuedTasksRun
<1> DEFINE Step == cur' \in Tasks /\ cur' # cur => phase[cur'] = "queued"
<1>1. Inv /\ [Next]_vars => [Step]_vars
  <2> SUFFICES ASSUME Inv, Next, cur' \in Tasks, cur' # cur
               PROVE  phase[cur'] = "queued"
    BY DEF vars
  <2>1. Poll
    BY TasksAssumption
    DEF Next, Script, Loop, Host, Ended, SetTimer, StartIo, Enqueue, Clear, NewJob,
        ScriptReturns, RunJob, JobReturns, JobLeavesException, LoopEnds, Drained,
        PollTraps, CallbackStarts, CallbackThrows, CancelTraps, TimeoutReturns,
        IntervalReturns, IoContinues, IoCompletes, IoFails, BecomesReady, Retire,
        queueVars, loopVars, vars
  <2>2. PICK i \in DOMAIN tasks : cur' = tasks[i]
    BY <2>1 DEF Poll
  <2>3. /\ cur' \in Queued /\ cur = NoTask
        /\ handle[cur'] # NoHandle
    BY <2>1, <2>2, QueuedAreTasks, HandlesAssumption
    DEF Poll, CanPoll, Inv, TypeOK, CurInv
  <2> QED BY <2>3, TasksAssumption DEF Inv, TypeOK, CurInv
<1> QED BY <1>1, Invariance, PTL DEF Spec, OnlyQueuedTasksRun

=============================================================================
