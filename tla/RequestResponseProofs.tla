------------------------ MODULE RequestResponseProofs ------------------------
(***************************************************************************)
(* Proofs about RequestResponse, for any number of bytes and reads: as     *)
(* long as content waits for the answer to a read before it reads again or *)
(* cancels, no read of a body ends the event loop; and whatever content    *)
(* does, the bytes come out in order and once, and text() gives the body   *)
(* or nothing.                                                             *)
(*                                                                         *)
(* The steps are made of operators on a record of the stream, the tasks    *)
(* and the jobs.  There is one lemma per operator, on Quiet for the first  *)
(* invariant and on Sound for the second, and then one per action.         *)
(***************************************************************************)
EXTENDS RequestResponse, QueueLemmas

Streams ==
  [state : {"readable", "closed", "errored"}, started : BOOLEAN, closing : BOOLEAN,
   disturbed : BOOLEAN, reader : {"none", "user", "internal", "text"}, requests : Nat,
   queue : Seq(Int), pulling : BOOLEAN, pullAgain : BOOLEAN]

Tasks == {"read", "append", "response"}
Jobs == {"started", "pulled", "consume", "text"} \X Int
Worlds == [rs : Streams, tasks : Seq(Tasks), jobs : Seq(Jobs), got : Seq(Int)]
Hosts == [arrived : Nat, taken : Nat, end : {"open", "closed", "broken"}]

HasRead(t) == \E i \in DOMAIN t : t[i] = "read"
OneRead(t) == \A i, j \in DOMAIN t : t[i] = "read" /\ t[j] = "read" => i = j
HasJob(q, k) == \E i \in DOMAIN q : q[i][1] = k
OneJob(q, k) == \A i, j \in DOMAIN q : q[i][1] = k /\ q[j][1] = k => i = j

\* What the stream has when no two reads overlapped: one request at most, one
\* BodyFutureTask at most, which is there to answer it, and nothing buffered.
Requested(r) ==
  /\ r.queue = <<>> /\ ~r.closing /\ ~r.pullAgain
  /\ r.requests \in {0, 1}
  /\ r.requests = 1 => r.state = "readable" /\ r.reader \in {"user", "text"}
  /\ r.pulling => r.requests = 1 /\ r.started

\* The read is for the request, a pull is not forgotten while its job waits,
\* and text() has either asked for a byte or still to react to one.
Expected(r, t, q) ==
  /\ OneRead(t)
  /\ HasRead(t) => r.requests = 1 /\ r.started
  /\ r.pulling => HasJob(q, "pulled")
  /\ OneJob(q, "text")
  /\ HasJob(q, "text") => r.reader = "text" /\ r.requests = 0
  /\ OneJob(q, "started")
  /\ HasJob(q, "started") => ~r.started

Quiet(w) == w \in Worlds /\ Requested(w.rs) /\ Expected(w.rs, w.tasks, w.jobs)

\* There is no stream yet.
Blank ==
  rs = NoStream /\ tasks \in Seq(Tasks) /\ ~HasRead(tasks) /\ jobs = <<>> /\ got = <<>>

\* The inductive invariant.
Inv ==
  /\ overlap \in BOOLEAN
  /\ host \in Hosts
  /\ ~overlap => loop # "failed" /\ (Blank \/ Quiet(World))

-----------------------------------------------------------------------------
(* The queues. *)

LEMMA JobAppended ==
  ASSUME NEW q \in Seq(Jobs), NEW k, NEW n \in Int,
         k \in {"started", "pulled", "consume", "text"}
  PROVE  LET p == Append(q, <<k, n>>)
         IN  /\ p \in Seq(Jobs) /\ p # <<>>
             /\ HasJob(p, k)
             /\ ~HasJob(q, k) => OneJob(p, k)
             /\ \A l : HasJob(q, l) => HasJob(p, l)
             /\ \A l : l # k /\ HasJob(p, l) => HasJob(q, l)
             /\ \A l : l # k /\ OneJob(q, l) => OneJob(p, l)
<1> DEFINE p == Append(q, <<k, n>>)
<1>1. <<k, n>> \in Jobs /\ <<k, n>>[1] = k
  BY DEF Jobs
<1>2. /\ p \in Seq(Jobs) /\ Len(q) \in Nat /\ DOMAIN q = 1..Len(q)
      /\ DOMAIN p = 1..(Len(q) + 1) /\ p # <<>>
      /\ p[Len(q) + 1] = <<k, n>>
      /\ \A i \in 1..Len(q) : p[i] = q[i]
  BY <1>1
<1> HIDE DEF p
<1>3. p[Len(q) + 1][1] = k /\ \A i \in 1..Len(q) : p[i][1] = q[i][1]
  BY <1>1, <1>2
<1>4. HasJob(p, k)
  BY <1>2, <1>3 DEF HasJob
<1>5. ~HasJob(q, k) => OneJob(p, k)
  BY <1>2, <1>3 DEF HasJob, OneJob
<1>6. \A l : HasJob(q, l) => HasJob(p, l)
  BY <1>2, <1>3 DEF HasJob
<1>7. \A l : l # k /\ HasJob(p, l) => HasJob(q, l)
  BY <1>2, <1>3 DEF HasJob
<1>8. \A l : l # k /\ OneJob(q, l) => OneJob(p, l)
  BY <1>2, <1>3 DEF OneJob
<1> QED BY <1>2, <1>4, <1>5, <1>6, <1>7, <1>8 DEF p

LEMMA JobTaken ==
  ASSUME NEW q \in Seq(Jobs), q # <<>>
  PROVE  /\ Tail(q) \in Seq(Jobs)
         /\ Head(q) \in Jobs /\ Head(q)[2] \in Int
         /\ HasJob(q, Head(q)[1])
         /\ \A l : HasJob(Tail(q), l) => HasJob(q, l)
         /\ \A l : l # Head(q)[1] /\ HasJob(q, l) => HasJob(Tail(q), l)
         /\ \A l : OneJob(q, l) => OneJob(Tail(q), l)
         /\ OneJob(q, Head(q)[1]) => ~HasJob(Tail(q), Head(q)[1])
<1> DEFINE p == Tail(q)
<1>1. /\ p \in Seq(Jobs) /\ Len(q) \in Nat /\ Len(q) >= 1 /\ DOMAIN q = 1..Len(q)
      /\ DOMAIN p = 1..(Len(q) - 1) /\ Head(q) = q[1] /\ q[1] \in Jobs
      /\ \A i \in 1..(Len(q) - 1) : p[i] = q[i + 1]
  OBVIOUS
<1> HIDE DEF p
<1>2. \A i \in 1..(Len(q) - 1) : i + 1 \in 1..Len(q) /\ p[i][1] = q[i + 1][1]
  BY <1>1
<1>3. \A i \in 2..Len(q) : i - 1 \in 1..(Len(q) - 1) /\ p[i - 1][1] = q[i][1]
  BY <1>1
<1>4. HasJob(q, q[1][1])
  BY <1>1 DEF HasJob
<1>5. \A l : HasJob(p, l) => HasJob(q, l)
  BY <1>1, <1>2 DEF HasJob
<1>6. \A l : l # q[1][1] /\ HasJob(q, l) => HasJob(p, l)
  <2> SUFFICES ASSUME NEW l, l # q[1][1], NEW i \in 1..Len(q), q[i][1] = l
               PROVE  HasJob(p, l)
    BY <1>1 DEF HasJob
  <2>1. i \in 2..Len(q)
    BY <1>1
  <2> QED BY <1>1, <1>3, <2>1 DEF HasJob
<1>7. \A l : OneJob(q, l) => OneJob(p, l)
  <2> SUFFICES ASSUME NEW l, OneJob(q, l), NEW i \in 1..(Len(q) - 1), NEW j \in 1..(Len(q) - 1),
                      p[i][1] = l, p[j][1] = l
               PROVE  i = j
    BY <1>1 DEF OneJob
  <2>1. i + 1 = j + 1
    BY <1>1, <1>2 DEF OneJob
  <2> QED BY <1>1, <2>1
<1>8. OneJob(q, q[1][1]) => ~HasJob(p, q[1][1])
  <2> SUFFICES ASSUME OneJob(q, q[1][1]), NEW i \in 1..(Len(q) - 1), p[i][1] = q[1][1]
               PROVE  FALSE
    BY <1>1 DEF HasJob
  <2>1. i + 1 = 1
    BY <1>1, <1>2 DEF OneJob
  <2> QED BY <1>1, <2>1
<1>9. q[1][2] \in Int
  BY <1>1 DEF Jobs
<1> QED BY <1>1, <1>4, <1>5, <1>6, <1>7, <1>8, <1>9 DEF p

LEMMA TaskAppended ==
  ASSUME NEW t \in Seq(Tasks), NEW k \in Tasks
  PROVE  /\ Append(t, k) \in Seq(Tasks)
         /\ k = "read" /\ ~HasRead(t) => OneRead(Append(t, k))
         /\ k # "read" => (HasRead(Append(t, k)) => HasRead(t)) /\ (OneRead(t) => OneRead(Append(t, k)))
<1> DEFINE p == Append(t, k)
<1>1. /\ p \in Seq(Tasks) /\ Len(t) \in Nat /\ DOMAIN t = 1..Len(t)
      /\ DOMAIN p = 1..(Len(t) + 1)
      /\ p[Len(t) + 1] = k
      /\ \A i \in 1..Len(t) : p[i] = t[i]
  OBVIOUS
<1> HIDE DEF p
<1>2. k = "read" /\ ~HasRead(t) => OneRead(p)
  BY <1>1 DEF HasRead, OneRead
<1>3. k # "read" => (HasRead(p) => HasRead(t)) /\ (OneRead(t) => OneRead(p))
  BY <1>1 DEF HasRead, OneRead
<1> QED BY <1>1, <1>2, <1>3 DEF p

LEMMA TaskRemoved ==
  ASSUME NEW t \in Seq(Tasks), NEW n \in DOMAIN t
  PROVE  /\ RemoveAt(t, n) \in Seq(Tasks)
         /\ HasRead(RemoveAt(t, n)) => HasRead(t)
         /\ OneRead(t) => OneRead(RemoveAt(t, n))
         /\ OneRead(t) /\ t[n] = "read" => ~HasRead(RemoveAt(t, n))
<1> DEFINE p == RemoveAt(t, n)
<1>1. /\ p \in Seq(Tasks) /\ Len(t) \in Nat /\ Len(t) >= 1 /\ DOMAIN t = 1..Len(t)
      /\ n \in 1..Len(t)
      /\ DOMAIN p = 1..(Len(t) - 1)
      /\ \A i \in 1..(Len(t) - 1) : p[i] = IF i < n THEN t[i] ELSE t[i + 1]
  <2>1. n \in 1..Len(t) /\ DOMAIN t = 1..Len(t) /\ Len(t) \in Nat
    OBVIOUS
  <2>2. /\ p \in Seq(Tasks) /\ Len(p) = Len(t) - 1
        /\ \A i \in 1..(Len(t) - 1) : p[i] = IF i < n THEN t[i] ELSE t[i + 1]
    BY <2>1, RemoveAtElements
  <2> HIDE DEF p
  <2> QED BY <2>1, <2>2
<1> HIDE DEF p
<1> DEFINE at(i) == IF i < n THEN i ELSE i + 1
<1>2. \A i \in DOMAIN p : at(i) \in DOMAIN t /\ at(i) # n /\ p[i] = t[at(i)]
  BY <1>1
<1>3. \A i, j \in DOMAIN p : at(i) = at(j) => i = j
  BY <1>1
<1> HIDE DEF at
<1>4. HasRead(p) => HasRead(t)
  BY <1>2 DEF HasRead
<1>5. OneRead(t) => OneRead(p)
  BY <1>2, <1>3 DEF OneRead
<1>6. OneRead(t) /\ t[n] = "read" => ~HasRead(p)
  BY <1>2 DEF OneRead, HasRead
<1> QED BY <1>1, <1>4, <1>5, <1>6 DEF p

-----------------------------------------------------------------------------
(* The operations of the stream. *)

\* A pull queues one read and one job, for the one request.
LEMMA PullQuiet ==
  ASSUME NEW w, Quiet(w), ShouldPull(w.rs), ~w.rs.pulling, ~HasRead(w.tasks)
  PROVE  Quiet(Pull(w))
<1> PICK n \in Int : n = 0
  OBVIOUS
<1> DEFINE r == [w.rs EXCEPT !.pulling = TRUE]
           t == Append(w.tasks, "read")
           q == Append(w.jobs, <<"pulled", n>>)
<1>1. /\ w \in Worlds /\ w.rs \in Streams /\ w.tasks \in Seq(Tasks) /\ w.jobs \in Seq(Jobs)
      /\ Requested(w.rs) /\ Expected(w.rs, w.tasks, w.jobs)
  BY DEF Quiet, Worlds
<1>2. w.rs.requests = 1 /\ w.rs.started /\ w.rs.state = "readable"
  BY <1>1 DEF ShouldPull, Requested
<1>3. t \in Seq(Tasks) /\ OneRead(t)
  BY <1>1, TaskAppended DEF Tasks
<1>4. /\ q \in Seq(Jobs) /\ HasJob(q, "pulled")
      /\ \A l : l # "pulled" /\ HasJob(q, l) => HasJob(w.jobs, l)
      /\ \A l : l # "pulled" /\ OneJob(w.jobs, l) => OneJob(q, l)
  BY <1>1, JobAppended
<1>5. /\ r.queue = w.rs.queue /\ r.closing = w.rs.closing /\ r.pullAgain = w.rs.pullAgain
      /\ r.requests = w.rs.requests /\ r.state = w.rs.state /\ r.reader = w.rs.reader
      /\ r.started = w.rs.started /\ r.pulling /\ r \in Streams
  BY <1>1 DEF Streams
<1>6. Pull(w) = [w EXCEPT !.rs = r, !.tasks = t, !.jobs = q]
  BY <1>1 DEF Pull, Worlds, Streams
<1> HIDE DEF r, t, q
<1>7. Pull(w) \in Worlds /\ Pull(w).rs = r /\ Pull(w).tasks = t /\ Pull(w).jobs = q
  BY <1>1, <1>3, <1>4, <1>5, <1>6 DEF Worlds
<1>8. Requested(r)
  BY <1>1, <1>2, <1>5 DEF Requested
<1>9. Expected(r, t, q)
  BY <1>1, <1>2, <1>3, <1>4, <1>5 DEF Expected
<1> QED BY <1>7, <1>8, <1>9 DEF Quiet

LEMMA CallPullQuiet ==
  ASSUME NEW w, Quiet(w), ~w.rs.pulling, ~HasRead(w.tasks)
  PROVE  Quiet(CallPullIfNeeded(w))
BY PullQuiet DEF CallPullIfNeeded

\* An answered read leaves text() a job, and content a byte.
LEMMA AnswerWorld ==
  ASSUME NEW w \in Worlds, NEW what \in Int
  PROVE  LET a == Answer(w, what)
         IN  /\ a \in Worlds /\ a.rs = w.rs /\ a.tasks = w.tasks
             /\ a.jobs = IF w.rs.reader = "text" THEN Append(w.jobs, <<"text", what>>) ELSE w.jobs
<1>1. w.rs \in Streams /\ w.tasks \in Seq(Tasks) /\ w.jobs \in Seq(Jobs) /\ w.got \in Seq(Int)
  BY DEF Worlds
<1>2. CASE w.rs.reader = "text"
  <2> DEFINE q == Append(w.jobs, <<"text", what>>)
  <2>1. q \in Seq(Jobs)
    BY <1>1, JobAppended
  <2>2. Answer(w, what) = [w EXCEPT !.jobs = q]
    BY <1>2 DEF Answer, Worlds
  <2> HIDE DEF q
  <2>3. /\ Answer(w, what) \in Worlds /\ Answer(w, what).rs = w.rs
        /\ Answer(w, what).tasks = w.tasks /\ Answer(w, what).jobs = q
    BY <1>1, <2>1, <2>2 DEF Worlds
  <2> QED BY <1>2, <2>3 DEF q
<1>3. CASE w.rs.reader # "text" /\ what > 0
  <2> DEFINE g == Append(w.got, what)
  <2>1. g \in Seq(Int)
    BY <1>1
  <2>2. Answer(w, what) = [w EXCEPT !.got = g]
    BY <1>3 DEF Answer, Worlds
  <2> HIDE DEF g
  <2> QED BY <1>1, <1>3, <2>1, <2>2 DEF Worlds
<1>4. CASE w.rs.reader # "text" /\ ~(what > 0)
  BY <1>4 DEF Answer
<1> QED BY <1>2, <1>3, <1>4

LEMMA AnswerExpected ==
  ASSUME NEW w \in Worlds, NEW what \in Int, NEW r, NEW t,
         Expected(r, t, w.jobs), r.requests = 0, r.reader = w.rs.reader,
         w.rs.reader = "text" => ~HasJob(w.jobs, "text")
  PROVE  Expected(r, t, Answer(w, what).jobs)
<1>1. w.jobs \in Seq(Jobs)
  BY DEF Worlds
<1>2. CASE w.rs.reader = "text"
  <2> DEFINE q == Append(w.jobs, <<"text", what>>)
  <2>1. /\ OneJob(q, "text")
        /\ \A l : HasJob(w.jobs, l) => HasJob(q, l)
        /\ \A l : l # "text" /\ HasJob(q, l) => HasJob(w.jobs, l)
        /\ \A l : l # "text" /\ OneJob(w.jobs, l) => OneJob(q, l)
    BY <1>1, <1>2, JobAppended
  <2>2. Answer(w, what).jobs = q
    BY <1>2, AnswerWorld
  <2> HIDE DEF q
  <2> QED BY <1>2, <2>1, <2>2 DEF Expected
<1>3. CASE w.rs.reader # "text"
  <2>1. Answer(w, what).jobs = w.jobs
    BY <1>3, AnswerWorld
  <2> QED BY <2>1
<1> QED BY <1>2, <1>3

\* The answer to the one request.
LEMMA RequestAnswered ==
  ASSUME NEW w \in Worlds, NEW what \in Int,
         w.rs.queue = <<>>, ~w.rs.closing, ~w.rs.pullAgain, ~w.rs.pulling, w.rs.requests = 1,
         Expected(w.rs, w.tasks, w.jobs), ~HasRead(w.tasks)
  PROVE  LET a == [Answer(w, what) EXCEPT !.rs.requests = 0]
         IN  Quiet(a) /\ a.rs = [w.rs EXCEPT !.requests = 0]
<1> DEFINE b == Answer(w, what)
           r == [w.rs EXCEPT !.requests = 0]
           a == [b EXCEPT !.rs = r]
<1>1. w.rs \in Streams
  BY DEF Worlds
<1>2. b \in Worlds /\ b.rs = w.rs /\ b.tasks = w.tasks
  BY AnswerWorld
<1>3. /\ r \in Streams /\ r.queue = w.rs.queue /\ r.closing = w.rs.closing
      /\ r.pullAgain = w.rs.pullAgain /\ r.pulling = w.rs.pulling /\ r.requests = 0
      /\ r.reader = w.rs.reader /\ r.started = w.rs.started
  BY <1>1 DEF Streams
<1>4. ~HasJob(w.jobs, "text")
  BY DEF Expected
<1> HIDE DEF r
<1>5. Expected(r, w.tasks, w.jobs)
  BY <1>3, <1>4 DEF Expected
<1>6. Expected(r, w.tasks, b.jobs)
  BY <1>3, <1>4, <1>5, AnswerExpected
<1> HIDE DEF b
<1>7. a \in Worlds /\ a.rs = r /\ a.tasks = w.tasks /\ a.jobs = b.jobs
  BY <1>2, <1>3 DEF Worlds
<1>8. Requested(r)
  BY <1>3 DEF Requested
<1>9. [b EXCEPT !.rs.requests = 0] = a
  BY <1>2 DEF r, Worlds
<1> QED BY <1>6, <1>7, <1>8, <1>9 DEF Quiet, b, r

LEMMA AnswerAllQuiet ==
  ASSUME NEW w \in Worlds, NEW what \in Int,
         w.rs.queue = <<>>, ~w.rs.closing, ~w.rs.pullAgain, ~w.rs.pulling,
         w.rs.requests \in {0, 1},
         Expected(w.rs, w.tasks, w.jobs), ~HasRead(w.tasks)
  PROVE  Quiet(AnswerAll(w, what))
<1>1. CASE w.rs.requests = 1
  <2>1. Quiet([Answer(w, what) EXCEPT !.rs.requests = 0])
    BY <1>1, RequestAnswered
  <2> QED BY <1>1, <2>1 DEF AnswerAll
<1>2. CASE w.rs.requests = 0
  BY <1>2 DEF AnswerAll, Quiet, Requested
<1> QED BY <1>1, <1>2

\* A stream that settles keeps everything else.
LEMMA SettledQuiet ==
  ASSUME NEW w, Quiet(w), ~w.rs.pulling, ~HasRead(w.tasks),
         NEW state \in {"closed", "errored"}, NEW what \in Int
  PROVE  Quiet(AnswerAll([w EXCEPT !.rs.state = state, !.rs.queue = <<>>], what))
<1> DEFINE r == [w.rs EXCEPT !.state = state, !.queue = <<>>]
           a == [w EXCEPT !.rs = r]
<1>1. w \in Worlds /\ w.rs \in Streams /\ Requested(w.rs) /\ Expected(w.rs, w.tasks, w.jobs)
  BY DEF Quiet, Worlds
<1>2. /\ r \in Streams /\ r.queue = <<>> /\ r.closing = w.rs.closing
      /\ r.pullAgain = w.rs.pullAgain /\ r.pulling = w.rs.pulling
      /\ r.requests = w.rs.requests /\ r.reader = w.rs.reader /\ r.started = w.rs.started
  <2>1. <<>> \in Seq(Int) /\ state \in {"readable", "closed", "errored"}
    OBVIOUS
  <2> QED BY <1>1, <2>1 DEF Streams
<1>3. [w EXCEPT !.rs.state = state, !.rs.queue = <<>>] = a
  BY <1>1 DEF Worlds, Streams
<1> HIDE DEF r
<1>4. a \in Worlds /\ a.rs = r /\ a.tasks = w.tasks /\ a.jobs = w.jobs
  BY <1>1, <1>2 DEF Worlds
<1> HIDE DEF a
<1>5. Expected(r, w.tasks, w.jobs)
  BY <1>1, <1>2 DEF Expected
<1>6. Quiet(AnswerAll(a, what))
  BY <1>1, <1>2, <1>4, <1>5, AnswerAllQuiet DEF Requested
<1> QED BY <1>3, <1>6

LEMMA CloseQuiet ==
  ASSUME NEW w, Quiet(w), ~w.rs.pulling, ~HasRead(w.tasks)
  PROVE  Quiet(CloseStream(w)) /\ ControllerClose(w) = CloseStream(w)
<1>1. Done \in Int
  BY DEF Done
<1> QED BY <1>1, SettledQuiet DEF CloseStream, ControllerClose, Quiet, Requested

LEMMA ErrorQuiet ==
  ASSUME NEW w, Quiet(w), ~w.rs.pulling, ~HasRead(w.tasks)
  PROVE  Quiet(ControllerError(w))
<1>1. Error \in Int
  BY DEF Error
<1> QED BY <1>1, SettledQuiet DEF ControllerError

\* A byte answers the request, so that nothing is pulled after it.
LEMMA EnqueueQuiet ==
  ASSUME NEW w, Quiet(w), ~w.rs.pulling, ~HasRead(w.tasks), w.rs.requests = 1, NEW byte \in Int
  PROVE  Quiet(Enqueue(w, byte))
<1> DEFINE a == [Answer(w, byte) EXCEPT !.rs.requests = 0]
<1>1. w \in Worlds /\ w.rs \in Streams /\ Requested(w.rs) /\ Expected(w.rs, w.tasks, w.jobs)
  BY DEF Quiet, Worlds
<1>2. Quiet(a) /\ a.rs = [w.rs EXCEPT !.requests = 0]
  BY <1>1, RequestAnswered DEF Requested
<1>3. [Answer(w, byte) EXCEPT !.rs.requests = @ - 1] = a
  <2>1. Answer(w, byte) \in Worlds /\ Answer(w, byte).rs = w.rs
    BY <1>1, AnswerWorld
  <2>2. Answer(w, byte).rs.requests - 1 = 0
    BY <2>1
  <2> QED BY <2>2
<1>4. ~ShouldPull(a.rs)
  BY <1>1, <1>2 DEF ShouldPull, Streams
<1>5. Enqueue(w, byte) = CallPullIfNeeded(a)
  BY <1>3 DEF Enqueue
<1> QED BY <1>2, <1>4, <1>5 DEF CallPullIfNeeded

\* A read when no other one waits: it is answered, or pulls.
LEMMA ReadQuiet ==
  ASSUME NEW w, Quiet(w), w.rs.requests = 0, w.rs.reader \in {"user", "text"},
         ~HasJob(w.jobs, "text")
  PROVE  Quiet(Read(w))
<1> DEFINE r == [w.rs EXCEPT !.disturbed = TRUE]
           d == [w EXCEPT !.rs = r]
<1>1. w \in Worlds /\ w.rs \in Streams /\ Requested(w.rs) /\ Expected(w.rs, w.tasks, w.jobs)
  BY DEF Quiet, Worlds
<1>2. /\ r \in Streams /\ r.queue = w.rs.queue /\ r.closing = w.rs.closing
      /\ r.pullAgain = w.rs.pullAgain /\ r.pulling = w.rs.pulling /\ r.state = w.rs.state
      /\ r.requests = w.rs.requests /\ r.reader = w.rs.reader /\ r.started = w.rs.started
  BY <1>1 DEF Streams
<1>3. d = [w EXCEPT !.rs.disturbed = TRUE]
  BY <1>1 DEF Worlds
<1> HIDE DEF r
<1>4. d \in Worlds /\ d.rs = r /\ d.tasks = w.tasks /\ d.jobs = w.jobs
  BY <1>1, <1>2 DEF Worlds
<1> HIDE DEF d
<1>5. Requested(r) /\ Expected(r, w.tasks, w.jobs)
  BY <1>1, <1>2 DEF Requested, Expected
<1>6. ASSUME NEW what \in Int
      PROVE  Quiet(Answer(d, what))
  <2>1. Expected(r, w.tasks, Answer(d, what).jobs)
    BY <1>2, <1>4, <1>5, AnswerExpected
  <2>2. Answer(d, what) \in Worlds /\ Answer(d, what).rs = r /\ Answer(d, what).tasks = w.tasks
    BY <1>4, AnswerWorld
  <2> QED BY <1>5, <2>1, <2>2 DEF Quiet
<1>7. CASE w.rs.state \in {"closed", "errored"}
  <2>1. Done \in Int /\ Error \in Int
    BY DEF Done, Error
  <2>2. Read(w) = IF w.rs.state = "closed" THEN Answer(d, Done) ELSE Answer(d, Error)
    BY <1>1, <1>3, <1>7 DEF Read, Requested
  <2>3. Quiet(Answer(d, Done)) /\ Quiet(Answer(d, Error))
    BY <1>6, <2>1
  <2> QED BY <2>2, <2>3
<1>8. CASE w.rs.state = "readable"
  <2> DEFINE p == [r EXCEPT !.requests = 1]
             e == [d EXCEPT !.rs = p]
  <2>1. /\ p \in Streams /\ p.queue = w.rs.queue /\ p.closing = w.rs.closing
        /\ p.pullAgain = w.rs.pullAgain /\ p.pulling = w.rs.pulling /\ p.state = w.rs.state
        /\ p.requests = 1 /\ p.reader = w.rs.reader /\ p.started = w.rs.started
    BY <1>2 DEF Streams
  <2>2. [d EXCEPT !.rs.requests = @ + 1] = e
    <3>1. d.rs.requests + 1 = 1
      BY <1>2, <1>4
    <3> QED BY <1>4, <3>1
  <2> HIDE DEF p
  <2>3. e \in Worlds /\ e.rs = p /\ e.tasks = w.tasks /\ e.jobs = w.jobs
    BY <1>4, <2>1 DEF Worlds
  <2> HIDE DEF e
  <2>4. ~w.rs.pulling /\ ~HasRead(w.tasks)
    BY <1>1 DEF Requested, Expected
  <2>5. Requested(p)
    BY <1>1, <1>8, <2>1, <2>4 DEF Requested
  <2>6. Expected(p, w.tasks, w.jobs)
    BY <1>1, <2>1, <2>4 DEF Expected
  <2>7. Quiet(CallPullIfNeeded(e))
    BY <2>1, <2>3, <2>4, <2>5, <2>6, CallPullQuiet DEF Quiet
  <2>8. Read(w) = CallPullIfNeeded(e)
    BY <1>1, <1>3, <1>8, <2>2 DEF Read, ReadLater, Requested
  <2> QED BY <2>7, <2>8
<1> QED BY <1>1, <1>7, <1>8 DEF Streams

-----------------------------------------------------------------------------
(* What the steps do with all of the world. *)

LEMMA ReaderQuiet ==
  ASSUME NEW w, Quiet(w), w.rs.requests = 0, w.rs.reader # "text",
         NEW reader \in {"none", "user", "internal", "text"}
  PROVE  Quiet([w EXCEPT !.rs.reader = reader])
<1> DEFINE r == [w.rs EXCEPT !.reader = reader]
           a == [w EXCEPT !.rs = r]
<1>1. w \in Worlds /\ w.rs \in Streams /\ Requested(w.rs) /\ Expected(w.rs, w.tasks, w.jobs)
  BY DEF Quiet, Worlds
<1>2. /\ r \in Streams /\ r.queue = w.rs.queue /\ r.closing = w.rs.closing
      /\ r.pullAgain = w.rs.pullAgain /\ r.pulling = w.rs.pulling
      /\ r.requests = 0 /\ r.started = w.rs.started /\ r.reader = reader
  BY <1>1 DEF Streams
<1>3. [w EXCEPT !.rs.reader = reader] = a
  BY <1>1 DEF Worlds
<1> HIDE DEF r
<1>4. a \in Worlds /\ a.rs = r /\ a.tasks = w.tasks /\ a.jobs = w.jobs
  BY <1>1, <1>2 DEF Worlds
<1>5. Requested(r)
  BY <1>1, <1>2 DEF Requested
<1>6. Expected(r, w.tasks, w.jobs)
  BY <1>1, <1>2 DEF Expected
<1> QED BY <1>3, <1>4, <1>5, <1>6 DEF Quiet

LEMMA ConsumeQuiet ==
  ASSUME NEW w, Quiet(w)
  PROVE  Quiet([w EXCEPT !.jobs = Append(@, <<"consume", 0>>)])
<1> PICK n \in Int : n = 0
  OBVIOUS
<1> DEFINE q == Append(w.jobs, <<"consume", n>>)
           a == [w EXCEPT !.jobs = q]
<1>1. /\ w \in Worlds /\ w.jobs \in Seq(Jobs)
      /\ Requested(w.rs) /\ Expected(w.rs, w.tasks, w.jobs)
  BY DEF Quiet, Worlds
<1>2. /\ q \in Seq(Jobs)
      /\ \A l : HasJob(w.jobs, l) => HasJob(q, l)
      /\ \A l : l # "consume" /\ HasJob(q, l) => HasJob(w.jobs, l)
      /\ \A l : l # "consume" /\ OneJob(w.jobs, l) => OneJob(q, l)
  BY <1>1, JobAppended
<1>3. [w EXCEPT !.jobs = Append(@, <<"consume", 0>>)] = a
  BY <1>1 DEF Worlds
<1> HIDE DEF q
<1>4. a \in Worlds /\ a.rs = w.rs /\ a.tasks = w.tasks /\ a.jobs = q
  BY <1>1, <1>2 DEF Worlds
<1>5. Expected(w.rs, w.tasks, q)
  BY <1>1, <1>2 DEF Expected
<1> QED BY <1>1, <1>3, <1>4, <1>5 DEF Quiet

LEMMA TasksQuiet ==
  ASSUME NEW w, Quiet(w), NEW t \in Seq(Tasks),
         HasRead(t) => HasRead(w.tasks), OneRead(t)
  PROVE  Quiet([w EXCEPT !.tasks = t])
<1> DEFINE a == [w EXCEPT !.tasks = t]
<1>1. /\ w \in Worlds /\ Requested(w.rs) /\ Expected(w.rs, w.tasks, w.jobs)
  BY DEF Quiet
<1>2. a \in Worlds /\ a.rs = w.rs /\ a.tasks = t /\ a.jobs = w.jobs
  BY <1>1 DEF Worlds
<1>3. Expected(w.rs, t, w.jobs)
  BY <1>1 DEF Expected
<1> QED BY <1>1, <1>2, <1>3 DEF Quiet

\* A job is taken, other than that of a pull.
LEMMA JobQuiet ==
  ASSUME NEW w, Quiet(w), w.jobs # <<>>, Head(w.jobs)[1] # "pulled"
  PROVE  /\ Quiet([w EXCEPT !.jobs = Tail(@)])
         /\ Head(w.jobs)[2] \in Int
         /\ OneJob(w.jobs, Head(w.jobs)[1]) => ~HasJob(Tail(w.jobs), Head(w.jobs)[1])
<1> DEFINE q == Tail(w.jobs)
           a == [w EXCEPT !.jobs = q]
<1>1. /\ w \in Worlds /\ w.jobs \in Seq(Jobs)
      /\ Requested(w.rs) /\ Expected(w.rs, w.tasks, w.jobs)
  BY DEF Quiet, Worlds
<1>2. /\ q \in Seq(Jobs)
      /\ \A l : HasJob(q, l) => HasJob(w.jobs, l)
      /\ \A l : l # Head(w.jobs)[1] /\ HasJob(w.jobs, l) => HasJob(q, l)
      /\ \A l : OneJob(w.jobs, l) => OneJob(q, l)
  BY <1>1, JobTaken
<1>3. /\ Head(w.jobs)[2] \in Int
      /\ OneJob(w.jobs, Head(w.jobs)[1]) => ~HasJob(q, Head(w.jobs)[1])
  BY <1>1, JobTaken
<1> HIDE DEF q
<1>4. a \in Worlds /\ a.rs = w.rs /\ a.tasks = w.tasks /\ a.jobs = q
  BY <1>1, <1>2 DEF Worlds
<1>5. Expected(w.rs, w.tasks, q)
  BY <1>1, <1>2 DEF Expected
<1> QED BY <1>1, <1>3, <1>4, <1>5 DEF Quiet, q

\* The job of a pull is taken.
LEMMA PulledQuiet ==
  ASSUME NEW w, Quiet(w), w.jobs # <<>>, Head(w.jobs)[1] = "pulled"
  PROVE  Quiet([w EXCEPT !.jobs = Tail(@), !.rs.pulling = FALSE, !.rs.pullAgain = FALSE])
<1> DEFINE q == Tail(w.jobs)
           r == [w.rs EXCEPT !.pulling = FALSE, !.pullAgain = FALSE]
           a == [w EXCEPT !.rs = r, !.jobs = q]
<1>1. /\ w \in Worlds /\ w.rs \in Streams /\ w.jobs \in Seq(Jobs)
      /\ Requested(w.rs) /\ Expected(w.rs, w.tasks, w.jobs)
  BY DEF Quiet, Worlds
<1>2. /\ q \in Seq(Jobs)
      /\ \A l : HasJob(q, l) => HasJob(w.jobs, l)
      /\ \A l : OneJob(w.jobs, l) => OneJob(q, l)
  BY <1>1, JobTaken
<1>3. /\ r \in Streams /\ r.queue = w.rs.queue /\ r.closing = w.rs.closing
      /\ ~r.pullAgain /\ ~r.pulling /\ r.state = w.rs.state
      /\ r.requests = w.rs.requests /\ r.reader = w.rs.reader /\ r.started = w.rs.started
  BY <1>1 DEF Streams
<1>4. [w EXCEPT !.jobs = Tail(@), !.rs.pulling = FALSE, !.rs.pullAgain = FALSE] = a
  BY <1>1 DEF Worlds, Streams
<1> HIDE DEF q, r
<1>5. a \in Worlds /\ a.rs = r /\ a.tasks = w.tasks /\ a.jobs = q
  BY <1>1, <1>2, <1>3 DEF Worlds
<1>6. Requested(r)
  BY <1>1, <1>3 DEF Requested
<1>7. Expected(r, w.tasks, q)
  BY <1>1, <1>2, <1>3 DEF Expected
<1> QED BY <1>4, <1>5, <1>6, <1>7 DEF Quiet

\* The controller has started, and nothing was pulled before.
LEMMA StartedQuiet ==
  ASSUME NEW w, Quiet(w), ~HasJob(w.jobs, "started"), ~w.rs.started
  PROVE  Quiet(CallPullIfNeeded([w EXCEPT !.rs.started = TRUE]))
<1> DEFINE r == [w.rs EXCEPT !.started = TRUE]
           a == [w EXCEPT !.rs = r]
<1>1. w \in Worlds /\ w.rs \in Streams /\ Requested(w.rs) /\ Expected(w.rs, w.tasks, w.jobs)
  BY DEF Quiet, Worlds
<1>2. /\ r \in Streams /\ r.queue = w.rs.queue /\ r.closing = w.rs.closing
      /\ r.pullAgain = w.rs.pullAgain /\ r.pulling = w.rs.pulling /\ r.state = w.rs.state
      /\ r.requests = w.rs.requests /\ r.started /\ r.reader = w.rs.reader
  BY <1>1 DEF Streams
<1>3. [w EXCEPT !.rs.started = TRUE] = a
  BY <1>1 DEF Worlds
<1> HIDE DEF r
<1>4. a \in Worlds /\ a.rs = r /\ a.tasks = w.tasks /\ a.jobs = w.jobs
  BY <1>1, <1>2 DEF Worlds
<1>5. ~r.pulling /\ ~HasRead(w.tasks)
  BY <1>1, <1>2 DEF Requested, Expected
<1>6. Requested(r)
  BY <1>1, <1>2, <1>5 DEF Requested
<1>7. Expected(r, w.tasks, w.jobs)
  BY <1>1, <1>2, <1>5 DEF Expected
<1> HIDE DEF a
<1>8. Quiet(CallPullIfNeeded(a))
  BY <1>4, <1>5, <1>6, <1>7, CallPullQuiet DEF Quiet
<1> QED BY <1>3, <1>8

LEMMA CreateQuiet ==
  ASSUME Blank
  PROVE  Quiet(Create(World))
<1> PICK n \in Int : n = 0
  OBVIOUS
<1> DEFINE q == Append(<<>>, <<"started", n>>)
<1>1. tasks \in Seq(Tasks) /\ ~HasRead(tasks) /\ jobs = <<>> /\ got = <<>>
  BY DEF Blank
<1>2. <<>> \in Seq(Int) /\ <<>> \in Seq(Jobs) /\ \A l : ~HasJob(<<>>, l) /\ OneJob(<<>>, l)
  BY DEF HasJob, OneJob
<1>3. /\ q \in Seq(Jobs) /\ OneJob(q, "started")
      /\ \A l : l # "started" /\ HasJob(q, l) => HasJob(<<>>, l)
      /\ \A l : l # "started" /\ OneJob(<<>>, l) => OneJob(q, l)
  BY <1>2, JobAppended
<1>4. NewStream \in Streams /\ Requested(NewStream)
  BY <1>2 DEF NewStream, Streams, Requested
<1>5. Create(World) = [rs |-> NewStream, tasks |-> tasks, jobs |-> q, got |-> got]
  <2>1. Append(World.jobs, <<"started", 0>>) = q
    BY <1>1 DEF World
  <2> HIDE DEF q
  <2>2. Create(World) = [World EXCEPT !.rs = NewStream, !.jobs = q]
    BY <2>1 DEF Create
  <2> QED BY <2>2 DEF World
<1> HIDE DEF q
<1>6. Create(World) \in Worlds
  BY <1>1, <1>2, <1>3, <1>4, <1>5 DEF Worlds
<1>7. OneRead(tasks)
  BY <1>1 DEF HasRead, OneRead
<1>8. Expected(NewStream, tasks, q)
  BY <1>1, <1>2, <1>3, <1>7 DEF Expected, NewStream
<1> QED BY <1>4, <1>5, <1>6, <1>8 DEF Quiet

-----------------------------------------------------------------------------
(* The actions.  A step that does not make reads overlap leaves the loop   *)
(* as it was, and the world without a stream or quiet.                     *)

Kept == loop # "failed" /\ (Blank \/ Quiet(World))

LEMMA WorldFields ==
  World.rs = rs /\ World.tasks = tasks /\ World.jobs = jobs /\ World.got = got
BY DEF World

LEMMA BecomeQuiet ==
  ASSUME NEW w, Quiet(w), Become(w)
  PROVE  Quiet(World')
<1>1. w \in Worlds /\ w = [rs |-> w.rs, tasks |-> w.tasks, jobs |-> w.jobs, got |-> w.got]
  BY DEF Quiet, Worlds
<1>2. World' = w
  BY <1>1 DEF Become, World
<1> QED BY <1>2

LEMMA StreamStates ==
  /\ Blank => ~Reified
  /\ Quiet(World) => Reified /\ rs \in Streams /\ tasks \in Seq(Tasks) /\ jobs \in Seq(Jobs)
<1>1. Blank => ~Reified
  BY DEF Blank, Reified, NoStream
<1>2. ASSUME Quiet(World)
      PROVE  Reified /\ rs \in Streams /\ tasks \in Seq(Tasks) /\ jobs \in Seq(Jobs)
  <2>1. rs \in Streams /\ tasks \in Seq(Tasks) /\ jobs \in Seq(Jobs)
    BY <1>2, WorldFields DEF Quiet, Worlds
  <2> QED BY <2>1 DEF Reified, Streams
<1> QED BY <1>1, <1>2

\* A stream that is not locked has no request.
LEMMA Unlocked ==
  ASSUME Quiet(World), ~Locked(World)
  PROVE  rs.requests = 0 /\ rs.reader = "none"
BY WorldFields DEF Quiet, Requested, Locked

LEMMA KeptBodyGet ==
  ASSUME Kept, BodyGet
  PROVE  Kept'
<1>1. Blank
  BY StreamStates DEF Kept, BodyGet
<1>2. Quiet(Create(World)) /\ Become(Create(World)) /\ loop' = loop
  BY <1>1, CreateQuiet DEF BodyGet, vars1
<1> QED BY <1>2, BecomeQuiet DEF Kept

LEMMA KeptReader ==
  ASSUME Quiet(World), rs.requests = 0, rs.reader # "text",
         NEW reader \in {"none", "user", "internal", "text"},
         rs' = [rs EXCEPT !.reader = reader], UNCHANGED <<tasks, jobs, got>>
  PROVE  Quiet(World')
<1>1. World' = [World EXCEPT !.rs.reader = reader]
  BY DEF World
<1>2. Quiet([World EXCEPT !.rs.reader = reader])
  BY ReaderQuiet, WorldFields
<1> QED BY <1>1, <1>2

LEMMA KeptGetReader ==
  ASSUME Kept, GetReader
  PROVE  Kept'
<1>1. Quiet(World)
  BY StreamStates DEF Kept, GetReader
<1>2. rs.requests = 0 /\ rs.reader # "text"
  BY <1>1, Unlocked DEF GetReader
<1>3. Quiet(World')
  BY <1>1, <1>2, KeptReader DEF GetReader
<1> QED BY <1>3 DEF Kept, GetReader, vars1

LEMMA KeptReleaseLock ==
  ASSUME Kept, ReleaseLock
  PROVE  Kept'
<1>1. Quiet(World)
  BY StreamStates DEF Kept, ReleaseLock
<1>2. Quiet(World')
  BY <1>1, KeptReader DEF ReleaseLock
<1> QED BY <1>2 DEF Kept, ReleaseLock, vars1

LEMMA KeptUserReads ==
  ASSUME Kept, UserReads, ~overlap'
  PROVE  Kept'
<1>1. Quiet(World)
  BY StreamStates DEF Kept, UserReads
<1>2. rs.requests = 0 /\ rs.reader = "user"
  <2>1. rs.requests \in {0, 1}
    BY <1>1, WorldFields DEF Quiet, Requested
  <2>2. ~(rs.requests > 0) /\ rs.reader = "user"
    BY DEF UserReads
  <2> QED BY <2>1, <2>2
<1>3. ~HasJob(jobs, "text")
  BY <1>1, <1>2, WorldFields DEF Quiet, Expected
<1>4. Quiet(Read(World))
  BY <1>1, <1>2, <1>3, WorldFields, ReadQuiet
<1>5. Quiet(World')
  BY <1>4, BecomeQuiet DEF UserReads
<1> QED BY <1>5 DEF Kept, UserReads, vars1

LEMMA KeptCancel ==
  ASSUME Kept, Cancel, ~overlap'
  PROVE  Kept'
<1> DEFINE r == [rs EXCEPT !.disturbed = TRUE]
           d == [World EXCEPT !.rs = r]
<1>1. Quiet(World) /\ rs \in Streams
  BY StreamStates DEF Kept, Cancel
<1>2. rs.requests = 0
  <2>1. rs.requests \in {0, 1}
    BY <1>1, WorldFields DEF Quiet, Requested
  <2>2. ~(rs.requests > 0)
    BY DEF Cancel
  <2> QED BY <2>1, <2>2
<1>3. /\ World \in Worlds /\ Requested(rs) /\ Expected(rs, tasks, jobs)
      /\ ~rs.pulling /\ ~HasRead(tasks)
  BY <1>1, <1>2, WorldFields DEF Quiet, Requested, Expected
<1>4. /\ r \in Streams /\ r.queue = rs.queue /\ r.closing = rs.closing
      /\ r.pullAgain = rs.pullAgain /\ r.pulling = rs.pulling /\ r.state = rs.state
      /\ r.requests = rs.requests /\ r.started = rs.started /\ r.reader = rs.reader
  BY <1>1 DEF Streams
<1>5. d = [World EXCEPT !.rs.disturbed = TRUE]
  BY DEF World
<1> HIDE DEF r
<1>6. d \in Worlds /\ d.rs = r /\ d.tasks = tasks /\ d.jobs = jobs
  BY <1>3, <1>4, WorldFields DEF Worlds
<1> HIDE DEF d
<1>7. Requested(r) /\ Expected(r, tasks, jobs)
  BY <1>3, <1>4 DEF Requested, Expected
<1>8. Quiet(d)
  BY <1>6, <1>7 DEF Quiet
<1>9. Quiet(CloseStream(d))
  BY <1>3, <1>4, <1>6, <1>8, CloseQuiet
<1>10. Become(CloseStream(d)) \/ Become(d)
  BY <1>5 DEF Cancel
<1>11. Quiet(World')
  BY <1>8, <1>9, <1>10, BecomeQuiet
<1> QED BY <1>11 DEF Kept, Cancel, vars1

LEMMA KeptText ==
  ASSUME Kept, Text
  PROVE  Kept'
<1>1. loop' = loop
  BY DEF Text
<1>2. CASE Reified /\ Locked(World)
  <2>1. Quiet(World) /\ World' = World
    BY <1>2, StreamStates DEF Kept, Text, World
  <2> QED BY <1>1, <2>1 DEF Kept
<1>3. CASE ~(Reified /\ Locked(World))
  <2> DEFINE w == IF Reified THEN [World EXCEPT !.rs.reader = "internal"] ELSE Create(World)
  <2>1. ASSUME Reified
        PROVE  Quiet([World EXCEPT !.rs.reader = "internal"])
    <3>1. Quiet(World) /\ rs.requests = 0 /\ rs.reader # "text"
      BY <1>3, <2>1, StreamStates, Unlocked DEF Kept
    <3> QED BY <3>1, ReaderQuiet, WorldFields
  <2>2. ASSUME ~Reified
        PROVE  Quiet(Create(World))
    BY <2>2, StreamStates, CreateQuiet DEF Kept
  <2>3. Quiet(w)
    BY <2>1, <2>2
  <2>4. Become([w EXCEPT !.jobs = Append(@, <<"consume", 0>>)])
    BY <1>3 DEF Text
  <2> HIDE DEF w
  <2>5. Quiet([w EXCEPT !.jobs = Append(@, <<"consume", 0>>)])
    BY <2>3, ConsumeQuiet
  <2> QED BY <1>1, <2>4, <2>5, BecomeQuiet DEF Kept
<1> QED BY <1>2, <1>3

LEMMA KeptAppendBody ==
  ASSUME Quiet(World), MayStream, AppendBody, UNCHANGED <<jobs, got>>
  PROVE  Quiet(World')
<1> DEFINE w == [World EXCEPT !.tasks = tasks']
<1>1. rs.requests = 0 /\ rs.reader = "none"
  BY Unlocked DEF MayStream, Unusable
<1>2. tasks' \in Seq(Tasks) /\ (HasRead(tasks') => HasRead(tasks)) /\ OneRead(tasks')
  <2>1. tasks \in Seq(Tasks) /\ OneRead(tasks)
    BY StreamStates, WorldFields DEF Quiet, Expected
  <2> QED BY <2>1, TaskAppended DEF AppendBody, Tasks
<1>3. Quiet(w)
  BY <1>2, TasksQuiet, WorldFields
<1>4. w.rs = rs
  BY DEF World
<1>5. Quiet([w EXCEPT !.rs.reader = "internal"])
  BY <1>1, <1>3, <1>4, ReaderQuiet
<1>6. World' = [w EXCEPT !.rs.reader = "internal"]
  <2>1. w = [rs |-> rs, tasks |-> tasks', jobs |-> jobs, got |-> got]
    BY DEF World
  <2>2. World' = [rs |-> [rs EXCEPT !.reader = "internal"], tasks |-> tasks', jobs |-> jobs, got |-> got]
    BY DEF World, AppendBody
  <2> HIDE DEF w
  <2> QED BY <2>1, <2>2
<1> QED BY <1>5, <1>6

LEMMA KeptRespond ==
  ASSUME Kept, Respond
  PROVE  Kept'
<1>1. Quiet(World)
  BY StreamStates DEF Kept, Respond, MayStream
<1>2. Quiet(World')
  BY <1>1, KeptAppendBody DEF Respond
<1> QED BY <1>2 DEF Kept, Respond

\* The queue changes, and not in its reads.
LEMMA KeptTasks ==
  ASSUME Blank \/ Quiet(World), UNCHANGED <<rs, jobs, got>>,
         tasks \in Seq(Tasks) =>
           /\ tasks' \in Seq(Tasks)
           /\ HasRead(tasks') => HasRead(tasks)
           /\ OneRead(tasks) => OneRead(tasks')
  PROVE  (Blank \/ Quiet(World))'
<1>1. CASE Blank
  BY <1>1 DEF Blank
<1>2. CASE Quiet(World)
  <2>1. tasks \in Seq(Tasks) /\ OneRead(tasks)
    BY <1>2, StreamStates, WorldFields DEF Quiet, Expected
  <2>2. Quiet([World EXCEPT !.tasks = tasks'])
    BY <1>2, <2>1, TasksQuiet, WorldFields
  <2>3. World' = [World EXCEPT !.tasks = tasks']
    BY DEF World
  <2> QED BY <2>2, <2>3
<1> QED BY <1>1, <1>2

LEMMA KeptFetch ==
  ASSUME Kept, NEW body \in {"written", "incoming", "content"}, Fetch(body)
  PROVE  Kept'
<1>1. loop' = loop /\ UNCHANGED <<jobs, got>>
  BY DEF Fetch
<1>2. CASE body = "written"
  <2>1. tasks' = Append(tasks, "response") /\ rs' = rs
    BY <1>2 DEF Fetch
  <2>2. tasks \in Seq(Tasks) =>
          /\ tasks' \in Seq(Tasks)
          /\ HasRead(tasks') => HasRead(tasks)
          /\ OneRead(tasks) => OneRead(tasks')
    BY <2>1, TaskAppended DEF Tasks
  <2>3. (Blank \/ Quiet(World))'
    BY <1>1, <2>1, <2>2, KeptTasks DEF Kept
  <2> QED BY <1>1, <2>3 DEF Kept
<1>3. CASE body = "incoming"
  <2>1. MayStream /\ AppendBody
    BY <1>3 DEF Fetch
  <2>2. Quiet(World)
    BY <2>1, StreamStates DEF Kept, MayStream
  <2>3. Quiet(World')
    BY <1>1, <2>1, <2>2, KeptAppendBody
  <2> QED BY <1>1, <2>3 DEF Kept
<1>4. CASE body = "content"
  <2>1. UNCHANGED <<rs, tasks>>
    BY <1>4 DEF Fetch
  <2>2. (Blank \/ Quiet(World))'
    BY <1>1, <2>1, KeptTasks DEF Kept
  <2> QED BY <1>1, <2>2 DEF Kept
<1> QED BY <1>2, <1>3, <1>4

LEMMA KeptStarted ==
  ASSUME Kept, Started
  PROVE  Kept'
<1>1. Quiet(World)
  BY DEF Kept, Started, Job, Blank
<1>2. Quiet(Rest) /\ Rest.rs = rs /\ Rest.jobs = Tail(jobs) /\ ~HasJob(Tail(jobs), "started")
  <2>1. Head(jobs)[1] = "started" /\ jobs # <<>>
    BY DEF Started, Job
  <2>2. OneJob(jobs, "started")
    BY <1>1, WorldFields DEF Quiet, Expected
  <2>3. Quiet([World EXCEPT !.jobs = Tail(@)]) /\ ~HasJob(Tail(jobs), "started")
    BY <1>1, <2>1, <2>2, JobQuiet, WorldFields
  <2> QED BY <2>3 DEF Rest, World
<1>3. ~rs.started
  <2>1. HasJob(jobs, "started")
    BY <1>1, StreamStates, JobTaken DEF Started, Job
  <2> QED BY <1>1, <2>1, WorldFields DEF Quiet, Expected
<1>4. Quiet(CallPullIfNeeded([Rest EXCEPT !.rs.started = TRUE]))
  BY <1>2, <1>3, StartedQuiet
<1>5. Quiet(World')
  BY <1>4, BecomeQuiet DEF Started
<1> QED BY <1>5 DEF Kept, Started, vars1

LEMMA KeptPulled ==
  ASSUME Kept, Pulled
  PROVE  Kept'
<1> DEFINE w == [Rest EXCEPT !.rs.pulling = FALSE, !.rs.pullAgain = FALSE]
<1>1. Quiet(World) /\ jobs # <<>> /\ Head(jobs)[1] = "pulled"
  BY DEF Kept, Pulled, Job, Blank
<1>2. ~rs.pullAgain
  BY <1>1, WorldFields DEF Quiet, Requested
<1>3. w = [World EXCEPT !.jobs = Tail(@), !.rs.pulling = FALSE, !.rs.pullAgain = FALSE]
  BY DEF Rest, World
<1>4. Quiet(w)
  BY <1>1, <1>3, PulledQuiet, WorldFields
<1>5. Become(w)
  BY <1>2 DEF Pulled
<1>6. Quiet(World')
  BY <1>4, <1>5, BecomeQuiet
<1> QED BY <1>6 DEF Kept, Pulled, vars1

LEMMA KeptConsume ==
  ASSUME Kept, Consume
  PROVE  Kept'
<1>1. Quiet(World) /\ jobs # <<>> /\ Head(jobs)[1] = "consume"
  BY DEF Kept, Consume, Job, Blank
<1>2. Quiet(Rest) /\ Rest.rs = rs /\ Rest.jobs = Tail(jobs)
  <2>1. Quiet([World EXCEPT !.jobs = Tail(@)])
    BY <1>1, JobQuiet, WorldFields
  <2> QED BY <2>1 DEF Rest, World
<1>3. loop' = loop
  BY DEF Consume
<1>4. CASE Unusable(World)
  <2>1. Become(Rest)
    BY <1>4 DEF Consume
  <2> QED BY <1>2, <1>3, <2>1, BecomeQuiet DEF Kept
<1>5. CASE ~Unusable(World)
  <2> DEFINE w == [Rest EXCEPT !.rs.reader = "text"]
  <2>1. rs.requests = 0 /\ rs.reader = "none"
    BY <1>1, <1>5, Unlocked DEF Unusable
  <2>2. Quiet(w)
    BY <1>2, <2>1, ReaderQuiet
  <2>3. w.rs = [rs EXCEPT !.reader = "text"] /\ w.jobs = Tail(jobs)
    BY <1>2 DEF Rest, World
  <2>4. w.rs.requests = 0 /\ w.rs.reader = "text"
    BY <1>1, <2>1, <2>3, StreamStates DEF Streams
  <2>5. ~HasJob(Tail(jobs), "text")
    BY <1>2, <2>1 DEF Quiet, Expected
  <2>6. Become(Read(w))
    BY <1>5 DEF Consume
  <2> HIDE DEF w
  <2>7. Quiet(Read(w))
    BY <2>2, <2>3, <2>4, <2>5, ReadQuiet
  <2> QED BY <1>3, <2>6, <2>7, BecomeQuiet DEF Kept
<1> QED BY <1>4, <1>5

LEMMA KeptTextReacts ==
  ASSUME Kept, TextReacts
  PROVE  Kept'
<1>1. Quiet(World) /\ jobs # <<>> /\ Head(jobs)[1] = "text"
  BY DEF Kept, TextReacts, Job, Blank
<1>2. rs.reader = "text" /\ rs.requests = 0 /\ OneJob(jobs, "text")
  <2>1. HasJob(jobs, "text")
    BY <1>1, StreamStates, JobTaken
  <2> QED BY <1>1, <2>1, WorldFields DEF Quiet, Expected
<1>3. Quiet(Rest) /\ Rest.rs = rs /\ Rest.jobs = Tail(jobs) /\ ~HasJob(Tail(jobs), "text")
  <2>1. Quiet([World EXCEPT !.jobs = Tail(@)]) /\ ~HasJob(Tail(jobs), "text")
    BY <1>1, <1>2, JobQuiet, WorldFields
  <2> QED BY <2>1 DEF Rest, World
<1>4. Quiet(Read(Rest))
  BY <1>2, <1>3, ReadQuiet
<1>5. loop' = loop /\ (Become(Rest) \/ Become(Read(Rest)))
  BY DEF TextReacts
<1>6. Quiet(World')
  BY <1>3, <1>4, <1>5, BecomeQuiet
<1> QED BY <1>5, <1>6 DEF Kept

\* The task of a read finds the stream open, with the request that it was
\* queued for, and no job or other read between them.
LEMMA KeptRunRead ==
  ASSUME Kept, host \in Hosts, NEW i \in DOMAIN tasks, RunRead(i)
  PROVE  Kept'
<1> DEFINE w == [World EXCEPT !.tasks = RemoveAt(@, i)]
<1>1. tasks[i] = "read" /\ jobs = <<>>
  BY DEF RunRead, Task
<1>2. Quiet(World)
  BY <1>1 DEF Kept, Blank, HasRead
<1>3. /\ tasks \in Seq(Tasks) /\ Requested(rs) /\ Expected(rs, tasks, jobs) /\ HasRead(tasks)
  BY <1>1, <1>2, StreamStates, WorldFields DEF Quiet, HasRead
<1>4. rs.requests = 1 /\ rs.state = "readable" /\ ~rs.closing /\ ~rs.pulling
  BY <1>1, <1>3 DEF Requested, Expected, HasJob
<1>5. /\ RemoveAt(tasks, i) \in Seq(Tasks) /\ ~HasRead(RemoveAt(tasks, i))
      /\ OneRead(RemoveAt(tasks, i))
  BY <1>1, <1>3, TaskRemoved DEF Expected
<1>6. Quiet(w)
  BY <1>2, <1>5, TasksQuiet, WorldFields
<1>7. w.rs = rs /\ w.tasks = RemoveAt(tasks, i)
  BY DEF World
<1>8. CanCloseOrEnqueue(w)
  BY <1>4, <1>7 DEF CanCloseOrEnqueue
<1>9. host.taken + 1 \in Int
  BY DEF Hosts
<1>10. \/ Become(Enqueue(w, host.taken + 1)) /\ loop' = loop
       \/ Become(ControllerError(w)) /\ loop' = loop
       \/ Become(ControllerClose(w)) /\ loop' = loop
  BY <1>8 DEF RunRead
<1> HIDE DEF w
<1>11. Quiet(Enqueue(w, host.taken + 1))
  BY <1>4, <1>5, <1>6, <1>7, <1>9, EnqueueQuiet
<1>12. Quiet(ControllerError(w)) /\ Quiet(ControllerClose(w))
  BY <1>4, <1>5, <1>6, <1>7, ErrorQuiet, CloseQuiet
<1>13. Quiet(World')
  BY <1>10, <1>11, <1>12, BecomeQuiet
<1> QED BY <1>10, <1>13 DEF Kept

LEMMA KeptOtherTasks ==
  ASSUME Kept, NEW i \in DOMAIN tasks, RunAppend(i) \/ RunResponse(i)
  PROVE  Kept'
<1>1. loop' = loop /\ UNCHANGED <<rs, jobs, got>> /\ tasks' \in {tasks, RemoveAt(tasks, i)}
  BY DEF RunAppend, RunResponse
<1>2. ASSUME tasks \in Seq(Tasks)
      PROVE  /\ tasks' \in Seq(Tasks)
             /\ HasRead(tasks') => HasRead(tasks)
             /\ OneRead(tasks) => OneRead(tasks')
  BY <1>1, <1>2, TaskRemoved
<1>3. (Blank \/ Quiet(World))'
  BY <1>1, <1>2, KeptTasks DEF Kept
<1> QED BY <1>1, <1>3 DEF Kept

-----------------------------------------------------------------------------
(* What becomes of the bytes, also when reads overlap. *)

\* What text() has still to react to: at most one answer.
Answers(q) == {q[i][2] : i \in {j \in DOMAIN q : q[j][1] = "text"}}

\* The bytes after the first m, up to the n-th.
Span(m, n) == [i \in 1..(n - m) |-> m + i]

\* The worlds whose queue holds the tasks of K.
WorldsOf(K) == [rs : Streams, tasks : Seq(K), jobs : Seq(Jobs), got : Seq(Int)]
Ranged(q) == \A i \in DOMAIN q : q[i][2] \in Error..MaxBytes

\* Requests wait for a stream that has nothing; k: how often content has read.
Asked(r, k) ==
  /\ r.requests > 0 =>
       r.state = "readable" /\ r.queue = <<>> /\ r.reader \in {"user", "text"} /\ r.disturbed
  /\ r.reader = "text" => r.requests <= 1
  /\ r.reader # "text" => r.requests <= k
  /\ r.state # "readable" => r.queue = <<>> /\ r.disturbed
  /\ r.state = "readable" /\ r.closing => r.queue # <<>>

\* Of the n bytes that went into the stream m have come out.  It closes by itself
\* when it has had all of them, whose number z is known when the body has ended.
Buffered(r, m, n, z) ==
  /\ m \in Nat /\ n \in 0..MaxBytes /\ m <= n
  /\ r.state = "readable" => r.queue = Span(m, n)
  /\ r.state = "readable" /\ r.closing => n = z
  /\ r.reader = "text" /\ r.state = "closed" => m = n /\ n = z
  /\ ~r.disturbed => m = 0 /\ n = 0

\* text() reads again only after it has reacted to the answer.
Alternates(r, q) ==
  /\ OneJob(q, "text")
  /\ HasJob(q, "text") => r.reader = "text" /\ r.requests = 0
  /\ Done \in Answers(q) => r.state = "closed"

\* The m bytes went to content, or to text(), which has c of them.
Received(r, q, g, c, m) ==
  /\ r.reader # "text" => c = <<>> /\ g = Bytes(m)
  /\ r.reader = "text" =>
       /\ g = <<>>
       /\ \/ c = Bytes(m) /\ \A a \in Answers(q) : ~(a > 0)
          \/ m > 0 /\ c = Bytes(m - 1) /\ Answers(q) = {m}

Sound(w, K, c, m, n, z, k) ==
  /\ w \in WorldsOf(K) /\ Ranged(w.jobs)
  /\ Asked(w.rs, k)
  /\ Buffered(w.rs, m, n, z)
  /\ Alternates(w.rs, w.jobs)
  /\ Received(w.rs, w.jobs, w.got, c, m)
  /\ ~w.rs.disturbed => ~HasRead(w.tasks)

\* The tasks that there may be, the bytes that went into the stream, and how many
\* there are in all (more than can be, as long as that is not known).
TasksNow == IF fwd.on THEN Tasks ELSE {"read", "response"}
Streamed == IF fwd.on THEN 0 ELSE host.taken
Total == IF host.end = "closed" THEN host.arrived ELSE MaxBytes + 1

\* There is no stream yet, and nothing was read.
Untouched ==
  /\ Blank /\ tasks \in Seq(TasksNow)
  /\ text.contents = <<>> /\ host.taken = 0 /\ ~fwd.on

\* A body that is forwarded was never read, and never is.
Forwarding ==
  /\ fwd.on => Reified /\ ~rs.disturbed /\ rs.reader = "internal" /\ fwd.bytes = host.taken
  /\ ~fwd.on => fwd.bytes = 0

Resolved ==
  text.status = "resolved" =>
    Reified /\ rs.reader = "text" /\ rs.state = "closed" /\ ~HasJob(jobs, "text")

\* The rest of the state.
Slots ==
  /\ host \in Hosts /\ host.taken <= host.arrived /\ host.arrived <= MaxBytes
  /\ text \in [status : {"none", "pending", "resolved", "rejected"}, contents : Seq(Int)]
  /\ bodyUsed \in BOOLEAN
  /\ fwd \in [on : BOOLEAN, bytes : Nat]
  /\ fetch \in [status : {"none", "pending", "settled"},
                body : {"none", "written", "incoming", "content", "failed"}]
  /\ loop \in {"running", "failed", "crashed"}
  /\ reads \in 0..MaxReads /\ overlap \in BOOLEAN

\* The inductive invariant of the bytes.
SoundWorld(m) == Sound(World, TasksNow, text.contents, m, Streamed, Total, reads)
Course ==
  /\ Forwarding /\ Resolved
  /\ Untouched \/ \E m \in Nat : SoundWorld(m)
ByteInv == Slots /\ Course

-----------------------------------------------------------------------------
(* Bytes and answers in sequences. *)

LEMMA BytesProps ==
  ASSUME NEW m \in Nat
  PROVE  /\ Bytes(m) \in Seq(Int) /\ Len(Bytes(m)) = m
         /\ \A i \in 1..m : Bytes(m)[i] = i
         /\ Bytes(0) = <<>>
         /\ Append(Bytes(m), m + 1) = Bytes(m + 1)
<1>1. \A k \in Nat : Bytes(k) \in Seq(Int) /\ Len(Bytes(k)) = k /\ \A i \in 1..k : Bytes(k)[i] = i
  <2> TAKE k \in Nat
  <2> DEFINE b == [i \in 1..k |-> i]
  <2>1. b \in [1..k -> Int]
    OBVIOUS
  <2>2. b \in Seq(Int) /\ DOMAIN b = 1..k
    BY <2>1, SeqDef
  <2>3. \A i \in 1..k : b[i] = i
    OBVIOUS
  <2> HIDE DEF b
  <2>4. Len(b) = k
    BY <2>2, LenProperties
  <2> QED BY <2>2, <2>3, <2>4 DEF Bytes, b
<1>2. Bytes(0) = <<>>
  BY <1>1, EmptySeq
<1>3. Append(Bytes(m), m + 1) = Bytes(m + 1)
  <2> DEFINE a == Bytes(m)
             b == Bytes(m + 1)
             c == Append(a, m + 1)
  <2>1. m + 1 \in Nat /\ m + 1 \in Int
    OBVIOUS
  <2>2. a \in Seq(Int) /\ Len(a) = m /\ \A i \in 1..m : a[i] = i
    BY <1>1
  <2>3. b \in Seq(Int) /\ Len(b) = m + 1 /\ \A i \in 1..(m + 1) : b[i] = i
    BY <1>1, <2>1
  <2> HIDE DEF a, b
  <2>4. c \in Seq(Int) /\ Len(c) = m + 1 /\ c[m + 1] = m + 1 /\ \A i \in 1..m : c[i] = a[i]
    BY <2>1, <2>2, AppendProperties
  <2> HIDE DEF c
  <2>5. \A i \in 1..(m + 1) : c[i] = b[i]
    <3> TAKE i \in 1..(m + 1)
    <3>1. i \in 1..m \/ i = m + 1
      OBVIOUS
    <3> QED BY <2>2, <2>3, <2>4, <3>1
  <2>6. c = b
    BY <2>3, <2>4, <2>5, SeqEqual
  <2> QED BY <2>6 DEF a, b, c
<1> QED BY <1>1, <1>2, <1>3

LEMMA SpanType ==
  ASSUME NEW m \in Nat, NEW n \in Nat, m <= n
  PROVE  /\ Span(m, n) \in Seq(Int) /\ Len(Span(m, n)) = n - m
         /\ \A i \in 1..(n - m) : Span(m, n)[i] = m + i
<1> DEFINE l == n - m
           b == [i \in 1..l |-> m + i]
<1>1. l \in Nat /\ b \in [1..l -> Int]
  OBVIOUS
<1>2. b \in Seq(Int) /\ DOMAIN b = 1..l
  BY <1>1, SeqDef
<1>3. \A i \in 1..l : b[i] = m + i
  OBVIOUS
<1> HIDE DEF b, l
<1>4. Len(b) = l
  BY <1>1, <1>2, LenProperties
<1> QED BY <1>2, <1>3, <1>4 DEF Span, b, l

LEMMA SpanProps ==
  ASSUME NEW m \in Nat, NEW n \in Nat, m <= n
  PROVE  /\ Span(m, n) = <<>> <=> m = n
         /\ Span(m, n) # <<>> =>
              /\ m < n /\ Head(Span(m, n)) = m + 1 /\ Tail(Span(m, n)) = Span(m + 1, n)
         /\ Append(Span(m, n), n + 1) = Span(m, n + 1)
<1> DEFINE s == Span(m, n)
<1>1. s \in Seq(Int) /\ Len(s) = n - m /\ \A i \in 1..(n - m) : s[i] = m + i
  BY SpanType
<1> HIDE DEF s
<1>2. s = <<>> <=> m = n
  <2>1. s = <<>> <=> Len(s) = 0
    BY <1>1, EmptySeq
  <2> QED BY <1>1, <2>1
<1>3. ASSUME s # <<>>
      PROVE  m < n /\ Head(s) = m + 1 /\ Tail(s) = Span(m + 1, n)
  <2>1. m < n
    BY <1>2, <1>3
  <2> DEFINE t == Tail(s)
             u == Span(m + 1, n)
  <2>2. /\ Head(s) = s[1] /\ t \in Seq(Int) /\ Len(t) = Len(s) - 1
        /\ \A i \in 1..(Len(s) - 1) : t[i] = s[i + 1]
    BY <1>1, <1>3, HeadTailProperties
  <2>3. u \in Seq(Int) /\ Len(u) = n - (m + 1) /\ \A i \in 1..(n - (m + 1)) : u[i] = (m + 1) + i
    <3> DEFINE k == m + 1
    <3>1. k \in Nat /\ k <= n
      BY <2>1
    <3> HIDE DEF k
    <3>2. Span(k, n) \in Seq(Int) /\ Len(Span(k, n)) = n - k /\ \A i \in 1..(n - k) : Span(k, n)[i] = k + i
      BY <3>1, SpanType
    <3> QED BY <3>2 DEF k
  <2> HIDE DEF t, u
  <2>4. \A i \in 1..(n - (m + 1)) : t[i] = u[i]
    <3> TAKE i \in 1..(n - (m + 1))
    <3>1. i + 1 \in 1..(n - m) /\ i \in 1..(Len(s) - 1)
      BY <1>1
    <3> QED BY <1>1, <2>2, <2>3, <3>1
  <2>5. t = u
    BY <1>1, <2>2, <2>3, <2>4, SeqEqual
  <2>6. s[1] = m + 1
    BY <1>1, <2>1
  <2> QED BY <2>1, <2>2, <2>5, <2>6 DEF t, u
<1>4. Append(s, n + 1) = Span(m, n + 1)
  <2> DEFINE t == Append(s, n + 1)
             u == Span(m, n + 1)
  <2>1. /\ t \in Seq(Int) /\ Len(t) = (n - m) + 1 /\ t[(n - m) + 1] = n + 1
        /\ \A i \in 1..(n - m) : t[i] = s[i]
    BY <1>1, AppendProperties
  <2>2. u \in Seq(Int) /\ Len(u) = (n + 1) - m /\ \A i \in 1..((n + 1) - m) : u[i] = m + i
    <3> DEFINE k == n + 1
    <3>1. k \in Nat /\ m <= k
      OBVIOUS
    <3> HIDE DEF k
    <3>2. Span(m, k) \in Seq(Int) /\ Len(Span(m, k)) = k - m /\ \A i \in 1..(k - m) : Span(m, k)[i] = m + i
      BY <3>1, SpanType
    <3> QED BY <3>2 DEF k
  <2> HIDE DEF t, u
  <2>3. \A i \in 1..((n - m) + 1) : t[i] = u[i]
    <3> TAKE i \in 1..((n - m) + 1)
    <3>1. CASE i \in 1..(n - m)
      BY <1>1, <2>1, <2>2, <3>1
    <3>2. CASE i = (n - m) + 1
      BY <2>1, <2>2, <3>2
    <3> QED BY <3>1, <3>2
  <2>4. t = u
    BY <2>1, <2>2, <2>3, SeqEqual
  <2> QED BY <2>4 DEF t, u
<1> QED BY <1>2, <1>3, <1>4 DEF s

LEMMA BytesSpan ==
  ASSUME NEW m \in Nat, NEW n \in Nat, m <= n
  PROVE  /\ IsPrefix(Bytes(m), Bytes(n))
         /\ Bytes(m) \o Span(m, n) = Bytes(n)
<1> DEFINE a == Bytes(m)
           b == Bytes(n)
           s == Span(m, n)
<1>1. /\ a \in Seq(Int) /\ Len(a) = m /\ \A i \in 1..m : a[i] = i
      /\ b \in Seq(Int) /\ Len(b) = n /\ \A i \in 1..n : b[i] = i
  BY BytesProps
<1>2. s \in Seq(Int) /\ Len(s) = n - m /\ \A i \in 1..(n - m) : s[i] = m + i
  BY SpanType
<1> HIDE DEF a, b, s
<1>3. SubSeq(a, 1, m) = SubSeq(b, 1, m)
  <2>1. \A i \in 1..m : a[i] \in Int /\ b[i] \in Int /\ a[i] = b[i]
    BY <1>1
  <2>2. /\ SubSeq(a, 1, m) \in Seq(Int) /\ Len(SubSeq(a, 1, m)) = m
        /\ \A i \in 1..m : SubSeq(a, 1, m)[i] = a[i]
    BY <2>1, SubSeqProperties
  <2>3. /\ SubSeq(b, 1, m) \in Seq(Int) /\ Len(SubSeq(b, 1, m)) = m
        /\ \A i \in 1..m : SubSeq(b, 1, m)[i] = b[i]
    BY <2>1, SubSeqProperties
  <2> QED BY <2>1, <2>2, <2>3, SeqEqual
<1>4. a \o s = b
  <2>1. /\ a \o s \in Seq(Int) /\ Len(a \o s) = Len(a) + Len(s)
        /\ \A i \in 1..(Len(a) + Len(s)) :
             (a \o s)[i] = IF i <= Len(a) THEN a[i] ELSE s[i - Len(a)]
    BY <1>1, <1>2, ConcatProperties
  <2>2. Len(a) + Len(s) = n /\ Len(a) = m
    BY <1>1, <1>2
  <2>3. ASSUME NEW i \in 1..n PROVE (a \o s)[i] = b[i]
    <3>1. CASE i <= m
      BY <1>1, <2>1, <2>2, <3>1
    <3>2. CASE i > m
      <4>1. i - m \in 1..(n - m) /\ m + (i - m) = i
        BY <3>2
      <4>2. (a \o s)[i] = s[i - m]
        BY <2>1, <2>2, <3>2
      <4> QED BY <1>1, <1>2, <4>1, <4>2
    <3>3. i <= m \/ i > m
      OBVIOUS
    <3> QED BY <3>1, <3>2, <3>3
  <2> QED BY <1>1, <2>1, <2>2, <2>3, SeqEqual
<1> QED BY <1>1, <1>3, <1>4 DEF IsPrefix, a, b, s

\* A job is appended to a queue.
LEMMA AnswersAppended ==
  ASSUME NEW q \in Seq(Jobs), NEW k \in {"started", "pulled", "consume", "text"}, NEW a \in Int
  PROVE  LET p == Append(q, <<k, a>>)
         IN  /\ p \in Seq(Jobs)
             /\ Answers(p) = IF k = "text" THEN Answers(q) \cup {a} ELSE Answers(q)
             /\ Ranged(q) /\ a \in Error..MaxBytes => Ranged(p)
<1> DEFINE p == Append(q, <<k, a>>)
<1>1. <<k, a>> \in Jobs /\ <<k, a>>[1] = k /\ <<k, a>>[2] = a
  BY DEF Jobs
<1>2. /\ p \in Seq(Jobs) /\ Len(q) \in Nat /\ DOMAIN q = 1..Len(q)
      /\ DOMAIN p = 1..(Len(q) + 1)
      /\ p[Len(q) + 1] = <<k, a>>
      /\ \A i \in 1..Len(q) : p[i] = q[i]
  BY <1>1
<1> HIDE DEF p
<1>3. /\ p[Len(q) + 1][1] = k /\ p[Len(q) + 1][2] = a
      /\ \A i \in 1..Len(q) : p[i][1] = q[i][1] /\ p[i][2] = q[i][2]
      /\ \A i \in DOMAIN p : i \in 1..Len(q) \/ i = Len(q) + 1
      /\ Len(q) + 1 \in DOMAIN p /\ \A i \in DOMAIN q : i \in DOMAIN p
  BY <1>1, <1>2
<1>4. Answers(p) = IF k = "text" THEN Answers(q) \cup {a} ELSE Answers(q)
  <2>1. ASSUME NEW x PROVE x \in Answers(p) <=> x \in Answers(q) \/ (k = "text" /\ x = a)
    BY <1>2, <1>3 DEF Answers
  <2> QED BY <2>1
<1>5. Ranged(q) /\ a \in Error..MaxBytes => Ranged(p)
  BY <1>2, <1>3 DEF Ranged
<1> QED BY <1>2, <1>4, <1>5 DEF p

\* A job is taken from it.
LEMMA AnswersTaken ==
  ASSUME NEW q \in Seq(Jobs), q # <<>>
  PROVE  /\ Head(q)[1] # "text" => Answers(Tail(q)) = Answers(q)
         /\ Head(q)[1] = "text" /\ OneJob(q, "text") =>
              Answers(Tail(q)) = {} /\ Answers(q) = {Head(q)[2]}
         /\ Ranged(q) => Ranged(Tail(q)) /\ Head(q)[2] \in Error..MaxBytes
<1> DEFINE p == Tail(q)
<1>1. /\ p \in Seq(Jobs) /\ Len(q) \in Nat /\ Len(q) >= 1 /\ DOMAIN q = 1..Len(q)
      /\ DOMAIN p = 1..(Len(q) - 1) /\ Head(q) = q[1] /\ q[1] \in Jobs
      /\ \A i \in 1..(Len(q) - 1) : p[i] = q[i + 1]
  OBVIOUS
<1> HIDE DEF p
<1>2. \A i \in DOMAIN p : i + 1 \in DOMAIN q /\ i + 1 # 1 /\ p[i] = q[i + 1]
  BY <1>1
<1>3. \A i \in DOMAIN q : i = 1 \/ (i - 1 \in DOMAIN p /\ p[i - 1] = q[i])
  BY <1>1
<1>4. 1 \in DOMAIN q
  BY <1>1
<1>5. ASSUME NEW x
      PROVE  /\ x \in Answers(p) => x \in Answers(q)
             /\ x \in Answers(q) => x \in Answers(p) \/ (q[1][1] = "text" /\ x = q[1][2])
  BY <1>2, <1>3 DEF Answers
<1>6. q[1][1] # "text" => Answers(p) = Answers(q)
  BY <1>5
<1>7. ASSUME q[1][1] = "text", OneJob(q, "text")
      PROVE  Answers(p) = {} /\ Answers(q) = {q[1][2]}
  <2>1. \A i \in DOMAIN q : q[i][1] = "text" => i = 1
    BY <1>4, <1>7 DEF OneJob
  <2>2. \A i \in DOMAIN p : p[i][1] # "text"
    BY <1>2, <2>1
  <2>3. Answers(p) = {}
    BY <2>2 DEF Answers
  <2>4. q[1][2] \in Answers(q)
    BY <1>4, <1>7 DEF Answers
  <2> QED BY <1>5, <2>3, <2>4
<1>8. Ranged(q) => Ranged(p) /\ q[1][2] \in Error..MaxBytes
  BY <1>2, <1>4 DEF Ranged
<1> QED BY <1>1, <1>6, <1>7, <1>8 DEF p

LEMMA NoAnswers ==
  ASSUME NEW q
  PROVE  ~HasJob(q, "text") <=> Answers(q) = {}
BY DEF HasJob, Answers

\* The function that InFlightOf defines.
Gathers(f, q, m) ==
  f = [n \in 0..m |->
         IF n = 0 THEN <<>>
         ELSE IF q[n][1] = "text" /\ q[n][2] > 0 THEN Append(f[n - 1], q[n][2]) ELSE f[n - 1]]

LEMMA GathersExists ==
  ASSUME NEW q, NEW m \in Nat
  PROVE  \E f : Gathers(f, q, m)
<1> DEFINE bad == {n \in Nat : ~ \E f : Gathers(f, q, n)}
<1> SUFFICES ASSUME bad # {} PROVE FALSE
  OBVIOUS
<1>1. PICK n \in bad : \A k \in bad : n <= k
  <2>1. bad \in SUBSET Nat
    OBVIOUS
  <2> HIDE DEF bad
  <2> QED BY <2>1, LeastElement
<1>2. n # 0
  <2>1. Gathers([k \in 0..0 |-> <<>>], q, 0)
    BY DEF Gathers
  <2> QED BY <1>1, <2>1
<1>3. n \in Nat /\ n - 1 \in Nat /\ n - 1 \notin bad
  BY <1>1, <1>2
<1>4. PICK f : Gathers(f, q, n - 1)
  BY <1>3
<1> DEFINE last == IF q[n][1] = "text" /\ q[n][2] > 0 THEN Append(f[n - 1], q[n][2]) ELSE f[n - 1]
           g == [k \in 0..n |-> IF k = n THEN last ELSE f[k]]
<1>5. ASSUME NEW k \in 0..n
      PROVE  g[k] = IF k = 0 THEN <<>>
                    ELSE IF q[k][1] = "text" /\ q[k][2] > 0
                    THEN Append(g[k - 1], q[k][2]) ELSE g[k - 1]
  <2>1. CASE k = n
    <3>1. g[n - 1] = f[n - 1] /\ n - 1 \in 0..n
      BY <1>3
    <3> QED BY <1>2, <2>1, <3>1
  <2>2. CASE k # n
    <3>1. k \in 0..(n - 1) /\ (k # 0 => k - 1 \in 0..(n - 1))
      BY <1>3, <2>2
    <3>2. f[k] = IF k = 0 THEN <<>>
                 ELSE IF q[k][1] = "text" /\ q[k][2] > 0
                 THEN Append(f[k - 1], q[k][2]) ELSE f[k - 1]
      BY <1>4, <3>1 DEF Gathers
    <3>3. g[k] = f[k] /\ (k # 0 => g[k - 1] = f[k - 1])
      BY <1>3, <2>2, <3>1
    <3> QED BY <3>2, <3>3
  <2> QED BY <2>1, <2>2
<1>6. Gathers(g, q, n)
  BY <1>5 DEF Gathers
<1> QED BY <1>1, <1>6

\* At most one answer waits for its reaction, so what is in flight is one byte
\* or none.
LEMMA InFlightIs ==
  ASSUME NEW q \in Seq(Jobs), OneJob(q, "text")
  PROVE  /\ (\A a \in Answers(q) : ~(a > 0)) => InFlightOf(q) = <<>>
         /\ \A a : Answers(q) = {a} /\ a > 0 => InFlightOf(q) = <<a>>
<1>1. Len(q) \in Nat /\ DOMAIN q = 1..Len(q) /\ Len(q) \in 0..Len(q)
  BY LenProperties
<1> DEFINE f == CHOOSE h : Gathers(h, q, Len(q))
<1>2. Gathers(f, q, Len(q))
  BY <1>1, GathersExists
<1>3. InFlightOf(q) = f[Len(q)]
  BY DEF InFlightOf, Gathers
<1> HIDE DEF f
<1>4. \A n \in 0..Len(q) :
        f[n] = IF n = 0 THEN <<>>
               ELSE IF q[n][1] = "text" /\ q[n][2] > 0 THEN Append(f[n - 1], q[n][2]) ELSE f[n - 1]
  BY <1>2 DEF Gathers
<1> DEFINE none(n) == (\A i \in 1..n : ~(q[i][1] = "text" /\ q[i][2] > 0)) /\ f[n] = <<>>
           one(n) == \E i \in 1..n : q[i][1] = "text" /\ q[i][2] > 0 /\ f[n] = <<q[i][2]>>
           bad == {n \in 0..Len(q) : ~(none(n) \/ one(n))}
<1>5. bad = {}
  <2> SUFFICES ASSUME bad # {} PROVE FALSE
    OBVIOUS
  <2>1. PICK n \in bad : \A k \in bad : n <= k
    <3>1. bad \in SUBSET Nat
      BY <1>1
    <3> HIDE DEF bad
    <3> QED BY <3>1, LeastElement
  <2>2. n \in 0..Len(q) /\ ~none(n) /\ ~one(n) /\ \A k \in 0..Len(q) : ~none(k) /\ ~one(k) => n <= k
    BY <2>1
  <2>3. n # 0
    BY <1>4, <2>2
  <2>4. n \in 1..Len(q) /\ n - 1 \in 0..Len(q) /\ ~(n <= n - 1)
    BY <1>1, <2>2, <2>3
  <2>5. none(n - 1) \/ one(n - 1)
    <3> HIDE DEF none, one
    <3> QED BY <2>2, <2>4
  <2>6. \A i \in 1..n : i \in 1..(n - 1) \/ i = n
    BY <2>4
  <2>7. \A i \in 1..(n - 1) : i \in 1..n
    BY <2>4
  <2>8. f[n] = IF q[n][1] = "text" /\ q[n][2] > 0 THEN Append(f[n - 1], q[n][2]) ELSE f[n - 1]
    BY <1>4, <2>2, <2>3
  <2>9. CASE ~(q[n][1] = "text" /\ q[n][2] > 0)
    <3>1. f[n] = f[n - 1]
      BY <2>8, <2>9
    <3>2. CASE none(n - 1)
      BY <2>2, <2>6, <2>9, <3>1, <3>2
    <3>3. CASE one(n - 1)
      BY <2>2, <2>7, <3>1, <3>3
    <3> QED BY <2>5, <3>2, <3>3
  <2>10. CASE q[n][1] = "text" /\ q[n][2] > 0
    <3>1. CASE none(n - 1)
      <4>1. f[n] = <<q[n][2]>>
        BY <2>8, <2>10, <3>1
      <4>2. n \in 1..n
        BY <2>4
      <4> QED BY <2>2, <2>10, <4>1, <4>2
    <3>2. CASE one(n - 1)
      <4>1. PICK i \in 1..(n - 1) : q[i][1] = "text"
        BY <3>2
      <4>2. i \in DOMAIN q /\ n \in DOMAIN q /\ i # n
        BY <1>1, <2>4
      <4> QED BY <2>10, <4>1, <4>2 DEF OneJob
    <3> QED BY <2>5, <3>1, <3>2
  <2> QED BY <2>9, <2>10
<1>6. none(Len(q)) \/ one(Len(q))
  BY <1>1, <1>5
<1>7. CASE none(Len(q))
  <2>1. \A a \in Answers(q) : ~(a > 0)
    BY <1>1, <1>7 DEF Answers
  <2> QED BY <1>3, <1>7, <2>1
<1>8. CASE one(Len(q))
  <2>1. PICK i \in DOMAIN q : q[i][1] = "text" /\ q[i][2] > 0 /\ f[Len(q)] = <<q[i][2]>>
    BY <1>1, <1>8
  <2>2. q[i][2] \in Answers(q)
    BY <2>1 DEF Answers
  <2> QED BY <1>3, <2>1, <2>2
<1> QED BY <1>6, <1>7, <1>8

-----------------------------------------------------------------------------
(* The operations of the stream keep Sound.  K: the tasks there may be, c: *)
(* what text() has, m of n bytes came out, z: how many there are, k: how   *)
(* often content has read.                                                 *)

\* A world made of its parts, and the parts of the next one.
WorldOf(r, t, q, g) == [rs |-> r, tasks |-> t, jobs |-> q, got |-> g]
Told(r, q, what) == IF r.reader = "text" THEN Append(q, <<"text", what>>) ELSE q
Handed(r, g, what) == IF r.reader # "text" /\ what > 0 THEN Append(g, what) ELSE g
Settled(r, state) == [r EXCEPT !.state = state, !.queue = <<>>, !.requests = 0]
Settling(w, state) == [w EXCEPT !.rs.state = state, !.rs.queue = <<>>]
Disturbed(r) == [r EXCEPT !.disturbed = TRUE]
Taking(r) == [r EXCEPT !.disturbed = TRUE, !.queue = Tail(@)]
Asking(r) == [r EXCEPT !.disturbed = TRUE, !.requests = @ + 1]

LEMMA SoundParts ==
  ASSUME NEW w, NEW K, NEW c, NEW m, NEW n, NEW z, NEW k, Sound(w, K, c, m, n, z, k)
  PROVE  /\ w = WorldOf(w.rs, w.tasks, w.jobs, w.got)
         /\ w.rs \in Streams /\ w.tasks \in Seq(K) /\ w.jobs \in Seq(Jobs) /\ w.got \in Seq(Int)
         /\ Ranged(w.jobs) /\ Asked(w.rs, k) /\ Buffered(w.rs, m, n, z)
         /\ Alternates(w.rs, w.jobs) /\ Received(w.rs, w.jobs, w.got, c, m)
         /\ ~w.rs.disturbed => ~HasRead(w.tasks)
BY DEF Sound, WorldsOf, WorldOf

LEMMA SoundFrom ==
  ASSUME NEW K, NEW c, NEW m, NEW n, NEW z, NEW k,
         NEW r \in Streams, NEW t \in Seq(K), NEW q \in Seq(Jobs), NEW g \in Seq(Int),
         Ranged(q), Asked(r, k), Buffered(r, m, n, z), Alternates(r, q), Received(r, q, g, c, m),
         ~r.disturbed => ~HasRead(t)
  PROVE  Sound(WorldOf(r, t, q, g), K, c, m, n, z, k)
BY DEF Sound, WorldsOf, WorldOf

LEMMA StreamReplaced ==
  ASSUME NEW r, NEW t, NEW q, NEW g
  PROVE  /\ WorldOf(r, t, q, g).rs = r
         /\ \A x : [WorldOf(r, t, q, g) EXCEPT !.rs = x] = WorldOf(x, t, q, g)
BY DEF WorldOf

LEMMA JobsReplaced ==
  ASSUME NEW r, NEW t, NEW q, NEW g
  PROVE  /\ WorldOf(r, t, q, g).jobs = q
         /\ \A x : [WorldOf(r, t, q, g) EXCEPT !.jobs = x] = WorldOf(r, t, x, g)
BY DEF WorldOf

LEMMA DisturbIs ==
  ASSUME NEW w, NEW r, NEW t, NEW q, NEW g, w = WorldOf(r, t, q, g)
  PROVE  [w EXCEPT !.rs.disturbed = TRUE] = WorldOf(Disturbed(r), t, q, g)
<1> DEFINE e == Disturbed(r)
           d == WorldOf(e, t, q, g)
<1>1. w.rs = r /\ w \in [rs : {r}, tasks : {t}, jobs : {q}, got : {g}]
  BY DEF WorldOf
<1>2. e = [r EXCEPT !.disturbed = TRUE]
  BY DEF Disturbed
<1>3. [w EXCEPT !.rs = e] = d
  BY StreamReplaced
<1> HIDE DEF e, d
<1>4. [w EXCEPT !.rs.disturbed = TRUE] = d
  BY <1>1, <1>2, <1>3
<1> QED BY <1>4 DEF d, e

LEMMA AnswerIs ==
  ASSUME NEW r, NEW t, NEW q, NEW g, NEW what
  PROVE  Answer(WorldOf(r, t, q, g), what) = WorldOf(r, t, Told(r, q, what), Handed(r, g, what))
BY DEF Answer, WorldOf, Told, Handed

LEMMA SettledIs ==
  ASSUME NEW w, NEW r \in Streams, NEW t, NEW q, NEW g, NEW state, NEW what,
         w = WorldOf(r, t, q, g)
  PROVE  AnswerAll(Settling(w, state), what)
           = IF r.requests = 0 THEN WorldOf(Settled(r, state), t, q, g)
             ELSE Answer(WorldOf(Settled(r, state), t, q, g), what)
<1> DEFINE s == [r EXCEPT !.state = state, !.queue = <<>>]
<1>1. /\ s.requests = r.requests /\ s.reader = r.reader
      /\ (r.requests = 0 => s = Settled(r, state))
      /\ [s EXCEPT !.requests = 0] = Settled(r, state)
      /\ Settled(r, state).reader = r.reader
  BY DEF Streams, Settled
<1>2. Settling(w, state) = WorldOf(s, t, q, g)
  <2> DEFINE a == [r EXCEPT !.state = state]
  <2>1. [w EXCEPT !.rs.state = state] = WorldOf(a, t, q, g)
    BY DEF WorldOf
  <2>2. s = [a EXCEPT !.queue = <<>>]
    OBVIOUS
  <2> HIDE DEF a, s
  <2>3. [WorldOf(a, t, q, g) EXCEPT !.rs.queue = <<>>] = WorldOf(s, t, q, g)
    BY <2>2 DEF WorldOf
  <2> QED BY <2>1, <2>3 DEF Settling
<1> HIDE DEF s
<1>3. WorldOf(s, t, q, g).rs = s
  BY DEF WorldOf
<1>4. CASE r.requests = 0
  BY <1>1, <1>2, <1>3, <1>4 DEF AnswerAll
<1>5. CASE r.requests # 0
  <2> DEFINE p == Told(s, q, what)
             h == Handed(s, g, what)
  <2>1. AnswerAll(WorldOf(s, t, q, g), what) = [WorldOf(s, t, p, h) EXCEPT !.rs.requests = 0]
    BY <1>1, <1>3, <1>5, AnswerIs DEF AnswerAll
  <2>2. Answer(WorldOf(Settled(r, state), t, q, g), what) = WorldOf(Settled(r, state), t, p, h)
    BY <1>1, AnswerIs DEF Told, Handed
  <2> HIDE DEF p, h
  <2>3. [WorldOf(s, t, p, h) EXCEPT !.rs.requests = 0] = WorldOf([s EXCEPT !.requests = 0], t, p, h)
    BY DEF WorldOf
  <2> QED BY <1>1, <1>2, <1>5, <2>1, <2>2, <2>3
<1> QED BY <1>4, <1>5

LEMMA SettledQuietly ==
  ASSUME NEW w, NEW r \in Streams, NEW t, NEW q, NEW g, NEW state, NEW what,
         w = WorldOf(r, t, q, g), r.requests = 0
  PROVE  AnswerAll(Settling(w, state), what) = WorldOf(Settled(r, state), t, q, g)
<1>1. AnswerAll(Settling(w, state), what)
        = IF r.requests = 0 THEN WorldOf(Settled(r, state), t, q, g)
          ELSE Answer(WorldOf(Settled(r, state), t, q, g), what)
  BY SettledIs
<1> QED BY <1>1

LEMMA SettledProps ==
  ASSUME NEW r \in Streams, NEW state \in {"closed", "errored"}
  PROVE  LET s == Settled(r, state)
         IN  /\ s \in Streams /\ s.state = state /\ s.queue = <<>> /\ s.requests = 0
             /\ s.reader = r.reader /\ s.disturbed = r.disturbed
<1>1. <<>> \in Seq(Int) /\ state \in {"readable", "closed", "errored"}
  OBVIOUS
<1> QED BY <1>1 DEF Settled, Streams

LEMMA ReadIs ==
  ASSUME NEW r \in Streams, NEW t, NEW q, NEW g
  PROVE  LET w == WorldOf(r, t, q, g)
             d == WorldOf(Disturbed(r), t, q, g)
         IN  /\ r.state = "closed" /\ r.queue = <<>> => Read(w) = Answer(d, Done)
             /\ r.state = "errored" /\ r.queue = <<>> => Read(w) = Answer(d, Error)
             /\ r.state = "readable" /\ r.queue # <<>> => Read(w) = ReadBuffered(d)
             /\ r.state = "readable" /\ r.queue = <<>> => Read(w) = ReadLater(d)
<1> DEFINE w == WorldOf(r, t, q, g)
           d == WorldOf(Disturbed(r), t, q, g)
<1>1. w.rs = r
  BY StreamReplaced
<1>2. [w EXCEPT !.rs.disturbed = TRUE] = d
  <2> HIDE DEF w
  <2>1. w = WorldOf(r, t, q, g)
    BY DEF w
  <2> QED BY <2>1, DisturbIs
<1> HIDE DEF w, d
<1>5. ASSUME w.rs.state = "closed", w.rs.queue = <<>> PROVE Read(w) = Answer(d, Done)
  BY <1>2, <1>5 DEF Read
<1>6. ASSUME w.rs.state = "errored", w.rs.queue = <<>> PROVE Read(w) = Answer(d, Error)
  BY <1>2, <1>6 DEF Read
<1>7. ASSUME w.rs.state = "readable", w.rs.queue # <<>> PROVE Read(w) = ReadBuffered(d)
  BY <1>2, <1>7 DEF Read
<1>8. ASSUME w.rs.state = "readable", w.rs.queue = <<>> PROVE Read(w) = ReadLater(d)
  BY <1>2, <1>8 DEF Read
<1> QED BY <1>1, <1>5, <1>6, <1>7, <1>8 DEF d, w

LEMMA ReadLaterIs ==
  ASSUME NEW r \in Streams, NEW t, NEW q, NEW g
  PROVE  ReadLater(WorldOf(Disturbed(r), t, q, g)) = CallPullIfNeeded(WorldOf(Asking(r), t, q, g))
<1> DEFINE e == Disturbed(r)
           w == WorldOf(e, t, q, g)
<1>1. w.rs = e /\ \A x : [w EXCEPT !.rs = x] = WorldOf(x, t, q, g)
  BY StreamReplaced
<1>2. [e EXCEPT !.requests = @ + 1] = Asking(r)
  BY DEF Disturbed, Asking, Streams
<1>3. WorldOf(Asking(r), t, q, g) = [w EXCEPT !.rs.requests = @ + 1]
  <2> HIDE DEF e, w
  <2> QED BY <1>1, <1>2
<1> HIDE DEF w
<1> QED BY <1>3 DEF ReadLater, w

LEMMA ReadBufferedIs ==
  ASSUME NEW r \in Streams, NEW t, NEW q, NEW g
  PROVE  LET s == Taking(r)
             a == Answer(WorldOf(s, t, q, g), Head(r.queue))
         IN  ReadBuffered(WorldOf(Disturbed(r), t, q, g))
               = IF s.closing /\ s.queue = <<>> THEN CloseStream(a) ELSE CallPullIfNeeded(a)
<1> DEFINE e == Disturbed(r)
           w == WorldOf(e, t, q, g)
           s == Taking(r)
           b == WorldOf(s, t, q, g)
           a == Answer(b, Head(r.queue))
<1>1. w.rs = e /\ \A x : [w EXCEPT !.rs = x] = WorldOf(x, t, q, g)
  BY StreamReplaced
<1>2. [e EXCEPT !.queue = Tail(@)] = s /\ e.queue = r.queue
  BY DEF Disturbed, Taking, Streams
<1>3. b = [w EXCEPT !.rs.queue = Tail(@)]
  <2> HIDE DEF e, w, s
  <2> QED BY <1>1, <1>2
<1>4. a.rs = s
  BY AnswerIs, StreamReplaced
<1> HIDE DEF w, b, s, e
<1>5. a = Answer([w EXCEPT !.rs.queue = Tail(@)], Head(w.rs.queue))
  BY <1>1, <1>2, <1>3
<1> HIDE DEF a
<1>6. ReadBuffered(w) = IF a.rs.closing /\ a.rs.queue = <<>> THEN CloseStream(a)
                        ELSE CallPullIfNeeded(a)
  BY <1>5 DEF ReadBuffered
<1> QED BY <1>4, <1>6 DEF w, a, b, s, e

\* The streams differ in what only the pulls look at, and in the queues the
\* answers are the same.
Alike(r, s) ==
  /\ s.state = r.state /\ s.closing = r.closing /\ s.disturbed = r.disturbed
  /\ s.reader = r.reader /\ s.requests = r.requests /\ s.queue = r.queue

SameAnswers(q, p) ==
  /\ Answers(p) = Answers(q)
  /\ OneJob(q, "text") => OneJob(p, "text")
  /\ Ranged(q) => Ranged(p)

LEMMA AlikeSound ==
  ASSUME NEW w, NEW K, NEW c, NEW m, NEW n, NEW z, NEW k, Sound(w, K, c, m, n, z, k),
         NEW r \in Streams, NEW t \in Seq(K), NEW q \in Seq(Jobs),
         Alike(w.rs, r), SameAnswers(w.jobs, q), ~r.disturbed => ~HasRead(t)
  PROVE  Sound(WorldOf(r, t, q, w.got), K, c, m, n, z, k)
<1>1. /\ w.rs \in Streams /\ w.got \in Seq(Int)
      /\ Ranged(w.jobs) /\ Asked(w.rs, k) /\ Buffered(w.rs, m, n, z)
      /\ Alternates(w.rs, w.jobs) /\ Received(w.rs, w.jobs, w.got, c, m)
  BY SoundParts
<1>2. Ranged(q) /\ Asked(r, k) /\ Buffered(r, m, n, z)
  BY <1>1 DEF Alike, SameAnswers, Asked, Buffered
<1>3. Alternates(r, q)
  BY <1>1, NoAnswers DEF Alike, SameAnswers, Alternates
<1>4. Received(r, q, w.got, c, m)
  BY <1>1 DEF Alike, SameAnswers, Received
<1> QED BY <1>1, <1>2, <1>3, <1>4, SoundFrom

LEMMA OtherJobAppended ==
  ASSUME NEW q \in Seq(Jobs), NEW kind \in {"started", "pulled", "consume"}
  PROVE  /\ Append(q, <<kind, 0>>) \in Seq(Jobs)
         /\ SameAnswers(q, Append(q, <<kind, 0>>))
<1> PICK a \in Int : a = 0
  OBVIOUS
<1> DEFINE p == Append(q, <<kind, a>>)
<1>1. a \in Error..MaxBytes
  BY MaxBytesAssumption DEF Error
<1>2. /\ p \in Seq(Jobs) /\ Answers(p) = Answers(q) /\ (Ranged(q) => Ranged(p))
  BY <1>1, AnswersAppended
<1>3. OneJob(q, "text") => OneJob(p, "text")
  BY JobAppended
<1> QED BY <1>2, <1>3 DEF SameAnswers

LEMMA OtherJobTaken ==
  ASSUME NEW q \in Seq(Jobs), q # <<>>, Head(q)[1] # "text"
  PROVE  Tail(q) \in Seq(Jobs) /\ SameAnswers(q, Tail(q))
BY AnswersTaken, JobTaken DEF SameAnswers

LEMMA PullSound ==
  ASSUME NEW w, NEW K, NEW c, NEW m, NEW n, NEW z, NEW k, Sound(w, K, c, m, n, z, k),
         "read" \in K
  PROVE  Sound(CallPullIfNeeded(w), K, c, m, n, z, k)
<1>1. /\ w = [rs |-> w.rs, tasks |-> w.tasks, jobs |-> w.jobs, got |-> w.got]
      /\ w.rs \in Streams /\ w.tasks \in Seq(K) /\ w.jobs \in Seq(Jobs)
      /\ Asked(w.rs, k) /\ SameAnswers(w.jobs, w.jobs)
  BY SoundParts DEF SameAnswers, WorldOf
<1>2. CASE ~ShouldPull(w.rs)
  BY <1>2 DEF CallPullIfNeeded
<1>3. CASE ShouldPull(w.rs) /\ w.rs.pulling
  <2> DEFINE r == [w.rs EXCEPT !.pullAgain = TRUE]
  <2>1. r \in Streams /\ Alike(w.rs, r) /\ w.rs.disturbed /\ r.disturbed
    BY <1>1, <1>3 DEF Streams, Alike, ShouldPull, Asked
  <2>2. CallPullIfNeeded(w) = [w EXCEPT !.rs = r]
    BY <1>1, <1>3 DEF CallPullIfNeeded
  <2> HIDE DEF r
  <2>3. CallPullIfNeeded(w) = WorldOf(r, w.tasks, w.jobs, w.got)
    BY <1>1, <2>2 DEF WorldOf
  <2> QED BY <1>1, <2>1, <2>3, AlikeSound
<1>4. CASE ShouldPull(w.rs) /\ ~w.rs.pulling
  <2> DEFINE r == [w.rs EXCEPT !.pulling = TRUE]
             t == Append(w.tasks, "read")
             q == Append(w.jobs, <<"pulled", 0>>)
  <2>1. r \in Streams /\ Alike(w.rs, r) /\ r.disturbed
    BY <1>1, <1>4 DEF Streams, Alike, ShouldPull, Asked
  <2>2. t \in Seq(K)
    BY <1>1
  <2>3. q \in Seq(Jobs) /\ SameAnswers(w.jobs, q)
    BY <1>1, OtherJobAppended
  <2>4. CallPullIfNeeded(w) = [w EXCEPT !.rs = r, !.tasks = t, !.jobs = q]
    BY <1>1, <1>4 DEF CallPullIfNeeded, Pull
  <2> HIDE DEF r, t, q
  <2>5. CallPullIfNeeded(w) = WorldOf(r, t, q, w.got)
    BY <1>1, <2>4 DEF WorldOf
  <2> QED BY <2>1, <2>2, <2>3, <2>5, AlikeSound
<1> QED BY <1>2, <1>3, <1>4

\* The byte that comes next, or the news that there is none, is delivered.
LEMMA AnswerSound ==
  ASSUME NEW K, NEW c, NEW m \in Nat, NEW n, NEW z, NEW k, NEW x, NEW what \in Int,
         NEW r \in Streams, NEW t \in Seq(K), NEW q \in Seq(Jobs), NEW g \in Seq(Int),
         what \in Error..MaxBytes,
         x = (IF what > 0 THEN m + 1 ELSE m), what > 0 => what = m + 1,
         what = Done => r.state = "closed",
         Ranged(q), Asked(r, k), Buffered(r, x, n, z), Alternates(r, q), Received(r, q, g, c, m),
         ~HasJob(q, "text"), r.reader = "text" => r.requests = 0,
         ~r.disturbed => ~HasRead(t)
  PROVE  Sound(Answer(WorldOf(r, t, q, g), what), K, c, x, n, z, k)
<1> DEFINE p == Told(r, q, what)
           h == Handed(r, g, what)
<1>1. Answer(WorldOf(r, t, q, g), what) = WorldOf(r, t, p, h)
  BY AnswerIs
<1>2. /\ p \in Seq(Jobs) /\ Answers(q) = {}
      /\ Answers(p) = IF r.reader = "text" THEN {what} ELSE {}
      /\ Ranged(p)
  BY NoAnswers, AnswersAppended DEF Told
<1>3. h \in Seq(Int)
  BY DEF Handed
<1>4. OneJob(p, "text")
  BY JobAppended DEF Alternates, Told
<1>5. Alternates(r, p)
  <2>1. HasJob(p, "text") => r.reader = "text"
    BY <1>2, NoAnswers
  <2> HIDE DEF p
  <2> QED BY <1>2, <1>4, <2>1 DEF Alternates
<1>6. Received(r, p, h, c, x)
  <2>1. CASE r.reader = "text"
    <3>1. h = g /\ g = <<>> /\ c = Bytes(m) /\ Answers(p) = {what}
      BY <1>2, <2>1 DEF Received, Handed
    <3>2. CASE what > 0
      <4>1. x = m + 1 /\ what = x /\ x > 0 /\ x - 1 = m
        BY <3>2
      <4> QED BY <2>1, <3>1, <4>1 DEF Received
    <3>3. CASE ~(what > 0)
      BY <2>1, <3>1, <3>3 DEF Received
    <3> QED BY <3>2, <3>3
  <2>2. CASE r.reader # "text"
    <3>1. p = q /\ c = <<>> /\ g = Bytes(m)
      BY <2>2 DEF Received, Told
    <3>2. CASE what > 0
      <4>1. Append(Bytes(m), m + 1) = Bytes(m + 1)
        BY BytesProps
      <4>2. h = Append(g, m + 1) /\ x = m + 1
        BY <2>2, <3>2 DEF Handed
      <4> QED BY <2>2, <3>1, <4>1, <4>2 DEF Received
    <3>3. CASE ~(what > 0)
      BY <2>2, <3>1, <3>3 DEF Received, Handed
    <3> QED BY <3>2, <3>3
  <2> QED BY <2>1, <2>2
<1> HIDE DEF p, h
<1>7. Sound(WorldOf(r, t, p, h), K, c, x, n, z, k)
  BY <1>2, <1>3, <1>5, <1>6, SoundFrom
<1> QED BY <1>1, <1>7

\* A stream that settles answers all its requests.
LEMMA SettleSound ==
  ASSUME NEW w, NEW K, NEW c, NEW m, NEW n, NEW z, NEW k \in Nat, Sound(w, K, c, m, n, z, k),
         w.rs.disturbed, w.rs.state = "readable",
         NEW state \in {"closed", "errored"}, NEW what \in {Done, Error},
         what = Done => state = "closed",
         state = "closed" /\ w.rs.reader = "text" => m = n /\ n = z
  PROVE  Sound(AnswerAll(Settling(w, state), what), K, c, m, n, z, k)
<1> DEFINE r == w.rs
           t == w.tasks
           q == w.jobs
           g == w.got
           s == Settled(r, state)
<1>1. /\ w = WorldOf(r, t, q, g)
      /\ r \in Streams /\ t \in Seq(K) /\ q \in Seq(Jobs) /\ g \in Seq(Int)
      /\ Ranged(q) /\ Asked(r, k) /\ Buffered(r, m, n, z)
      /\ Alternates(r, q) /\ Received(r, q, g, c, m)
  BY SoundParts
<1>2. /\ s \in Streams /\ s.state = state /\ s.queue = <<>> /\ s.requests = 0
      /\ s.reader = r.reader /\ s.disturbed
  BY <1>1, SettledProps
<1>3. AnswerAll(Settling(w, state), what)
        = IF r.requests = 0 THEN WorldOf(s, t, q, g) ELSE Answer(WorldOf(s, t, q, g), what)
  BY <1>1, SettledIs
<1> HIDE DEF s
<1>4. Asked(s, k)
  <2>1. s.reader # "text" => 0 <= k
    BY <1>1, <1>2 DEF Asked, Streams
  <2> QED BY <1>2, <2>1 DEF Asked
<1>5. Buffered(s, m, n, z) /\ Received(s, q, g, c, m)
  BY <1>1, <1>2 DEF Buffered, Received
<1>6. Alternates(s, q)
  BY <1>1, <1>2 DEF Alternates
<1>7. CASE r.requests = 0
  <2>1. Sound(WorldOf(s, t, q, g), K, c, m, n, z, k)
    BY <1>1, <1>2, <1>4, <1>5, <1>6, SoundFrom
  <2> QED BY <1>1, <1>3, <1>7, <2>1
<1>8. CASE r.requests # 0
  <2>1. ~HasJob(q, "text")
    BY <1>1, <1>8 DEF Alternates
  <2>2. what \in Int /\ ~(what > 0) /\ what \in Error..MaxBytes /\ m \in Nat
    BY <1>1, MaxBytesAssumption DEF Done, Error, Buffered
  <2>3. Sound(Answer(WorldOf(s, t, q, g), what), K, c, m, n, z, k)
    BY <1>1, <1>2, <1>4, <1>5, <1>6, <2>1, <2>2, AnswerSound
  <2> QED BY <1>1, <1>3, <1>8, <2>3
<1> QED BY <1>7, <1>8

LEMMA CloseSound ==
  ASSUME NEW w, NEW K, NEW c, NEW m, NEW n, NEW z, NEW k \in Nat, Sound(w, K, c, m, n, z, k),
         w.rs.disturbed, w.rs.state = "readable", w.rs.reader = "text" => m = n /\ n = z
  PROVE  Sound(CloseStream(w), K, c, m, n, z, k)
<1>1. CloseStream(w) = AnswerAll(Settling(w, "closed"), Done)
  BY Zenon DEF CloseStream, Settling
<1> QED BY <1>1, SettleSound

LEMMA ErrorSound ==
  ASSUME NEW w, NEW K, NEW c, NEW m, NEW n, NEW z, NEW k \in Nat, Sound(w, K, c, m, n, z, k),
         w.rs.disturbed
  PROVE  Sound(ControllerError(w), K, c, m, n, z, k)
<1>1. Error # Done
  BY DEF Error, Done
<1>2. w.rs.state = "readable" => ControllerError(w) = AnswerAll(Settling(w, "errored"), Error)
  BY Zenon DEF ControllerError, Settling
<1>3. w.rs.state # "readable" => ControllerError(w) = w
  BY Zenon DEF ControllerError
<1> QED BY <1>1, <1>2, <1>3, SettleSound

\* The host has said that there is no more.
LEMMA ControllerCloseSound ==
  ASSUME NEW w, NEW K, NEW c, NEW m, NEW n, NEW z, NEW k \in Nat, Sound(w, K, c, m, n, z, k),
         w.rs.disturbed, CanCloseOrEnqueue(w), n = z
  PROVE  Sound(ControllerClose(w), K, c, m, n, z, k)
<1>1. /\ w = WorldOf(w.rs, w.tasks, w.jobs, w.got)
      /\ w.rs \in Streams /\ w.tasks \in Seq(K) /\ w.jobs \in Seq(Jobs) /\ w.got \in Seq(Int)
      /\ Ranged(w.jobs) /\ Asked(w.rs, k) /\ Buffered(w.rs, m, n, z)
      /\ Alternates(w.rs, w.jobs) /\ Received(w.rs, w.jobs, w.got, c, m)
  BY SoundParts
<1>2. w.rs.state = "readable"
  BY DEF CanCloseOrEnqueue
<1>3. CASE w.rs.queue = <<>>
  <2>1. m \in Nat /\ n \in Nat /\ m <= n /\ Span(m, n) = <<>>
    BY <1>1, <1>2, <1>3 DEF Buffered
  <2>2. m = n
    BY <2>1, SpanProps
  <2> QED BY <1>2, <1>3, <2>2, CloseSound DEF ControllerClose
<1>4. CASE w.rs.queue # <<>>
  <2> DEFINE r == [w.rs EXCEPT !.closing = TRUE]
  <2>1. /\ r \in Streams /\ r.state = w.rs.state /\ r.queue = w.rs.queue /\ r.reader = w.rs.reader
        /\ r.requests = w.rs.requests /\ r.disturbed = w.rs.disturbed
    BY <1>1 DEF Streams
  <2>2. ControllerClose(w) = WorldOf(r, w.tasks, w.jobs, w.got)
    BY <1>1, <1>4 DEF ControllerClose, WorldOf
  <2> HIDE DEF r
  <2>3. Asked(r, k)
    BY <1>1, <1>4, <2>1 DEF Asked
  <2>4. Buffered(r, m, n, z)
    BY <1>1, <1>2, <2>1 DEF Buffered
  <2>5. Alternates(r, w.jobs) /\ Received(r, w.jobs, w.got, c, m)
    BY <1>1, <1>2, <2>1 DEF Alternates, Received
  <2> QED BY <1>1, <2>1, <2>2, <2>3, <2>4, <2>5, SoundFrom
<1> QED BY <1>3, <1>4

\* What an enqueue makes of the stream.
Served(r) == [r EXCEPT !.requests = @ - 1]
Buffering(r, byte) == [r EXCEPT !.queue = Append(@, byte)]

LEMMA EnqueueIs ==
  ASSUME NEW r \in Streams, NEW t, NEW q, NEW g, NEW byte
  PROVE  Enqueue(WorldOf(r, t, q, g), byte)
           = CallPullIfNeeded(IF r.requests > 0 THEN Answer(WorldOf(Served(r), t, q, g), byte)
                              ELSE WorldOf(Buffering(r, byte), t, q, g))
<1> DEFINE w == WorldOf(r, t, q, g)
<1>1. w.rs = r /\ \A x : [w EXCEPT !.rs = x] = WorldOf(x, t, q, g)
  BY StreamReplaced
<1>2. CASE r.requests > 0
  <2> DEFINE p == Told(r, q, byte)
             h == Handed(r, g, byte)
             a == WorldOf(r, t, p, h)
  <2>1. Answer(w, byte) = a
    BY AnswerIs
  <2>2. Served(r).reader = r.reader
    BY DEF Served, Streams
  <2>3. Answer(WorldOf(Served(r), t, q, g), byte) = WorldOf(Served(r), t, p, h)
    BY <2>2, AnswerIs DEF Told, Handed
  <2> HIDE DEF p, h
  <2>4. a.rs = r /\ \A x : [a EXCEPT !.rs = x] = WorldOf(x, t, p, h)
    BY StreamReplaced
  <2> HIDE DEF a, w
  <2>5. [a EXCEPT !.rs.requests = @ - 1] = WorldOf(Served(r), t, p, h)
    BY <2>4 DEF Served
  <2>6. Enqueue(w, byte) = CallPullIfNeeded([a EXCEPT !.rs.requests = @ - 1])
    BY <1>1, <1>2, <2>1 DEF Enqueue
  <2> QED BY <1>2, <2>3, <2>5, <2>6 DEF w
<1>3. CASE ~(r.requests > 0)
  <2> HIDE DEF w
  <2>1. [w EXCEPT !.rs.queue = Append(@, byte)] = WorldOf(Buffering(r, byte), t, q, g)
    BY <1>1 DEF Buffering
  <2>2. Enqueue(w, byte) = CallPullIfNeeded([w EXCEPT !.rs.queue = Append(@, byte)])
    BY <1>1, <1>3 DEF Enqueue
  <2> QED BY <1>3, <2>1, <2>2 DEF w
<1> QED BY <1>2, <1>3

\* The next byte of the host: nobody can know of the end before it.
LEMMA EnqueueSound ==
  ASSUME NEW w, NEW K, NEW c, NEW m, NEW n, NEW z, NEW k \in Nat, Sound(w, K, c, m, n, z, k),
         "read" \in K, w.rs.disturbed, CanCloseOrEnqueue(w), NEW j, j = n + 1, n < MaxBytes
  PROVE  \E x \in Nat : Sound(Enqueue(w, j), K, c, x, j, z, k)
<1> DEFINE r == w.rs
           t == w.tasks
           q == w.jobs
           g == w.got
<1>1. /\ w = WorldOf(r, t, q, g)
      /\ r \in Streams /\ t \in Seq(K) /\ q \in Seq(Jobs) /\ g \in Seq(Int)
      /\ Ranged(q) /\ Asked(r, k) /\ Buffered(r, m, n, z)
      /\ Alternates(r, q) /\ Received(r, q, g, c, m)
  BY SoundParts
<1>2. r.state = "readable" /\ ~r.closing /\ r.disturbed
  BY DEF CanCloseOrEnqueue
<1>3. /\ m \in Nat /\ n \in Nat /\ m <= n /\ j \in 0..MaxBytes /\ j \in Error..MaxBytes /\ j > 0
      /\ j \in Int /\ j \in Nat /\ m <= j /\ j # Done
  BY <1>1, MaxBytesAssumption DEF Buffered, Error, Done
<1>4. r.queue = Span(m, n) /\ r.requests \in Nat
  BY <1>1, <1>2 DEF Buffered, Streams
<1>5. Enqueue(w, j) = CallPullIfNeeded(IF r.requests > 0 THEN Answer(WorldOf(Served(r), t, q, g), j)
                                       ELSE WorldOf(Buffering(r, j), t, q, g))
  BY <1>1, EnqueueIs
<1>6. CASE r.requests > 0
  <2> DEFINE s == Served(r)
  <2>1. r.queue = <<>> /\ m = n /\ r.reader \in {"user", "text"}
    <3>1. r.queue = <<>> /\ r.reader \in {"user", "text"}
      BY <1>1, <1>6 DEF Asked
    <3>2. Span(m, n) = <<>> <=> m = n
      BY <1>3, SpanProps
    <3> QED BY <1>4, <3>1, <3>2
  <2>2. /\ s \in Streams /\ s.state = "readable" /\ s.queue = <<>> /\ s.reader = r.reader
        /\ s.requests = r.requests - 1 /\ s.disturbed /\ ~s.closing
    <3>1. r.requests - 1 \in Nat
      BY <1>4, <1>6
    <3> QED BY <1>1, <1>2, <2>1, <3>1 DEF Served, Streams
  <2> HIDE DEF s
  <2>3. ~HasJob(q, "text") /\ (s.reader = "text" => s.requests = 0)
    BY <1>1, <1>4, <1>6, <2>2 DEF Alternates, Asked
  <2>4. Asked(s, k)
    BY <1>1, <1>4, <2>1, <2>2, <2>3 DEF Asked
  <2>5. Buffered(s, j, j, z)
    <3>1. Span(j, j) = <<>>
      BY <1>3, SpanProps
    <3> QED BY <1>3, <2>2, <3>1 DEF Buffered
  <2>6. Alternates(s, q)
    BY <1>1, <2>2, <2>3, NoAnswers DEF Alternates
  <2>7. Received(s, q, g, c, m)
    BY <1>1, <2>2 DEF Received
  <2>8. Sound(Answer(WorldOf(s, t, q, g), j), K, c, j, j, z, k)
    BY <1>1, <1>3, <2>1, <2>2, <2>3, <2>4, <2>5, <2>6, <2>7, AnswerSound
  <2>9. Sound(CallPullIfNeeded(Answer(WorldOf(s, t, q, g), j)), K, c, j, j, z, k)
    BY <2>8, PullSound
  <2> QED BY <1>3, <1>5, <1>6, <2>9 DEF s
<1>7. CASE ~(r.requests > 0)
  <2> DEFINE s == Buffering(r, j)
  <2>1. Append(Span(m, n), j) = Span(m, j) /\ Append(r.queue, j) \in Seq(Int)
    <3>1. Append(Span(m, n), n + 1) = Span(m, n + 1)
      BY <1>3, SpanProps
    <3>2. r.queue \in Seq(Int)
      BY <1>1 DEF Streams
    <3> QED BY <1>3, <3>1, <3>2
  <2>2. /\ s \in Streams /\ s.state = "readable" /\ s.queue = Span(m, j) /\ s.reader = r.reader
        /\ s.requests = r.requests /\ s.disturbed /\ ~s.closing
    BY <1>1, <1>2, <1>4, <2>1 DEF Streams, Buffering
  <2> HIDE DEF s
  <2>3. Asked(s, k)
    BY <1>1, <1>4, <1>7, <2>2 DEF Asked
  <2>4. Buffered(s, m, j, z)
    BY <1>3, <2>2 DEF Buffered
  <2>5. Alternates(s, q)
    BY <1>1, <1>2, <2>2 DEF Alternates
  <2>6. Received(s, q, g, c, m)
    BY <1>1, <2>2 DEF Received
  <2>7. Sound(WorldOf(s, t, q, g), K, c, m, j, z, k)
    BY <1>1, <2>2, <2>3, <2>4, <2>5, <2>6, SoundFrom
  <2>8. Sound(CallPullIfNeeded(WorldOf(s, t, q, g)), K, c, m, j, z, k)
    BY <2>7, PullSound
  <2> QED BY <1>3, <1>5, <1>7, <2>8 DEF s
<1> QED BY <1>6, <1>7

\* The three kinds of read, of a stream that is disturbed by it.
LEMMA ReadSettledSound ==
  ASSUME NEW K, NEW c, NEW m, NEW n, NEW z, NEW k,
         NEW r \in Streams, NEW t \in Seq(K), NEW q \in Seq(Jobs), NEW g \in Seq(Int),
         Ranged(q), Asked(r, k), Buffered(r, m, n, z), Alternates(r, q), Received(r, q, g, c, m),
         ~HasJob(q, "text"), r.disturbed, r.reader = "text" => r.requests = 0,
         r.state = "closed" \/ r.state = "errored"
  PROVE  /\ r.state = "closed" => Sound(Answer(WorldOf(r, t, q, g), Done), K, c, m, n, z, k)
         /\ r.state = "errored" => Sound(Answer(WorldOf(r, t, q, g), Error), K, c, m, n, z, k)
<1>1. m \in Nat
  BY DEF Buffered
<1>2. /\ Done \in Int /\ ~(Done > 0) /\ Done \in Error..MaxBytes
      /\ Error \in Int /\ ~(Error > 0) /\ Error \in Error..MaxBytes /\ Error # Done
  BY MaxBytesAssumption DEF Done, Error
<1>3. r.state = "closed" => Sound(Answer(WorldOf(r, t, q, g), Done), K, c, m, n, z, k)
  BY <1>1, <1>2, AnswerSound
<1>4. r.state = "errored" => Sound(Answer(WorldOf(r, t, q, g), Error), K, c, m, n, z, k)
  BY <1>1, <1>2, AnswerSound
<1> QED BY <1>3, <1>4

LEMMA ReadLaterSound ==
  ASSUME NEW K, NEW c, NEW m, NEW n, NEW z, NEW k \in Nat, NEW l \in Nat,
         NEW r \in Streams, NEW t \in Seq(K), NEW q \in Seq(Jobs), NEW g \in Seq(Int),
         Ranged(q), Asked(r, k), Buffered(r, m, n, z), Alternates(r, q), Received(r, q, g, c, m),
         ~HasJob(q, "text"), "read" \in K,
         r.state = "readable", r.queue = <<>>, r.reader \in {"user", "text"},
         r.reader = "text" => r.requests = 0, r.reader # "text" => l = k + 1
  PROVE  Sound(ReadLater(WorldOf(Disturbed(r), t, q, g)), K, c, m, n, z, l)
<1> DEFINE s == Asking(r)
<1>1. /\ s \in Streams /\ s.state = "readable" /\ s.queue = <<>> /\ s.reader = r.reader
      /\ s.requests = r.requests + 1 /\ s.disturbed /\ s.closing = r.closing
      /\ r.requests \in Nat
  <2>1. r.requests \in Nat /\ r.requests + 1 \in Nat
    BY DEF Streams
  <2> QED BY <2>1 DEF Asking, Streams
<1> HIDE DEF s
<1>2. Asked(s, l)
  BY <1>1 DEF Asked
<1>3. Buffered(s, m, n, z)
  BY <1>1 DEF Buffered
<1>4. Alternates(s, q)
  BY <1>1, NoAnswers DEF Alternates
<1>5. Received(s, q, g, c, m)
  BY <1>1 DEF Received
<1>6. Sound(WorldOf(s, t, q, g), K, c, m, n, z, l)
  BY <1>1, <1>2, <1>3, <1>4, <1>5, SoundFrom
<1>7. Sound(CallPullIfNeeded(WorldOf(s, t, q, g)), K, c, m, n, z, l)
  BY <1>6, PullSound
<1> QED BY <1>7, ReadLaterIs DEF s

LEMMA ReadBufferedSound ==
  ASSUME NEW K, NEW c, NEW m, NEW n, NEW z, NEW k \in Nat,
         NEW r \in Streams, NEW t \in Seq(K), NEW q \in Seq(Jobs), NEW g \in Seq(Int),
         Ranged(q), Asked(r, k), Buffered(r, m, n, z), Alternates(r, q), Received(r, q, g, c, m),
         ~HasJob(q, "text"), "read" \in K,
         r.state = "readable", r.queue # <<>>, r.reader \in {"user", "text"}
  PROVE  \E x \in Nat : Sound(ReadBuffered(WorldOf(Disturbed(r), t, q, g)), K, c, x, n, z, k)
<1> PICK j \in Nat : j = m + 1
  BY DEF Buffered
<1> DEFINE s == Taking(r)
           a == Answer(WorldOf(s, t, q, g), j)
<1>1. m \in Nat /\ n \in Nat /\ n <= MaxBytes /\ m <= n /\ r.queue = Span(m, n)
  BY DEF Buffered
<1>2. m < n /\ Head(r.queue) = j /\ Tail(r.queue) = Span(j, n)
  <2>1. Span(m, n) # <<>> =>
          m < n /\ Head(Span(m, n)) = m + 1 /\ Tail(Span(m, n)) = Span(m + 1, n)
    BY <1>1, SpanProps
  <2> QED BY <1>1, <2>1
<1>3. j <= n /\ j \in Int /\ j > 0 /\ j # Done /\ j \in Error..MaxBytes
  BY <1>1, <1>2, MaxBytesAssumption DEF Done, Error
<1>4. r.requests = 0
  BY DEF Asked, Streams
<1>5. /\ s \in Streams /\ s.state = "readable" /\ s.queue = Span(j, n)
      /\ s.reader = r.reader /\ s.requests = 0 /\ s.disturbed /\ s.closing = r.closing
  <2>1. Tail(r.queue) \in Seq(Int)
    BY <1>1, <1>2, <1>3, SpanType
  <2> QED BY <1>2, <1>4, <2>1 DEF Taking, Streams
<1>6. ReadBuffered(WorldOf(Disturbed(r), t, q, g))
        = IF s.closing /\ s.queue = <<>> THEN CloseStream(a) ELSE CallPullIfNeeded(a)
  BY <1>2, ReadBufferedIs
<1>7. s.queue = <<>> <=> j = n
  <2>1. Span(j, n) = <<>> <=> j = n
    BY <1>1, <1>3, SpanProps
  <2> QED BY <1>5, <2>1
<1>8. r.closing => n = z
  BY DEF Buffered
<1> HIDE DEF s
<1>9. CASE ~(s.closing /\ s.queue = <<>>)
  <2>1. Asked(s, k)
    BY <1>5, <1>9 DEF Asked
  <2>2. Buffered(s, j, n, z)
    BY <1>1, <1>3, <1>5, <1>8 DEF Buffered
  <2>3. Alternates(s, q)
    BY <1>5, NoAnswers DEF Alternates
  <2>4. Received(s, q, g, c, m)
    BY <1>5 DEF Received
  <2>5. Sound(a, K, c, j, n, z, k)
    BY <1>1, <1>3, <1>5, <2>1, <2>2, <2>3, <2>4, AnswerSound
  <2> HIDE DEF a
  <2>6. Sound(CallPullIfNeeded(a), K, c, j, n, z, k)
    BY <2>5, PullSound
  <2> QED BY <1>6, <1>9, <2>6
<1>10. CASE s.closing /\ s.queue = <<>>
  <2> DEFINE v == Settled(s, "closed")
             p == Told(s, q, j)
             h == Handed(s, g, j)
  <2>1. n = z /\ j = n
    BY <1>5, <1>7, <1>8, <1>10
  <2>2. /\ v \in Streams /\ v.state = "closed" /\ v.queue = <<>> /\ v.requests = 0
        /\ v.reader = r.reader /\ v.disturbed
    BY <1>5, SettledProps
  <2> HIDE DEF v
  <2>3. a = WorldOf(s, t, p, h)
    BY AnswerIs
  <2>4. CloseStream(a) = AnswerAll(Settling(a, "closed"), Done)
    BY Zenon DEF CloseStream, Settling
  <2>5. CloseStream(a) = WorldOf(v, t, p, h)
    <3> HIDE DEF a, p, h, s
    <3>1. s \in Streams /\ s.requests = 0
      BY <1>5
    <3>2. AnswerAll(Settling(a, "closed"), Done) = WorldOf(Settled(s, "closed"), t, p, h)
      BY <2>3, <3>1, SettledQuietly
    <3> QED BY <2>4, <3>1, <3>2 DEF v
  <2>6. Answer(WorldOf(v, t, q, g), j) = WorldOf(v, t, p, h)
    BY <1>5, <2>2, AnswerIs DEF Told, Handed
  <2>7. Asked(v, k)
    BY <2>2 DEF Asked
  <2>8. Buffered(v, j, n, z)
    BY <1>1, <1>3, <2>1, <2>2 DEF Buffered
  <2>9. Alternates(v, q)
    BY <2>2, NoAnswers DEF Alternates
  <2>10. Received(v, q, g, c, m)
    BY <2>2 DEF Received
  <2>11. Sound(Answer(WorldOf(v, t, q, g), j), K, c, j, n, z, k)
    BY <1>1, <1>3, <2>2, <2>7, <2>8, <2>9, <2>10, AnswerSound
  <2> HIDE DEF a, p, h
  <2> QED BY <1>6, <1>10, <2>5, <2>6, <2>11
<1> QED BY <1>9, <1>10

\* A read takes the next byte, learns how the stream settled, or waits.
LEMMA ReadSound ==
  ASSUME NEW w, NEW K, NEW c, NEW m, NEW n, NEW z, NEW k \in Nat, NEW l \in Nat,
         Sound(w, K, c, m, n, z, k),
         "read" \in K, w.rs.reader \in {"user", "text"},
         w.rs.reader = "text" => w.rs.requests = 0,
         ~HasJob(w.jobs, "text"),
         l = IF w.rs.reader = "text" THEN k ELSE k + 1
  PROVE  \E x \in Nat : Sound(Read(w), K, c, x, n, z, l)
<1> DEFINE r == w.rs
           t == w.tasks
           q == w.jobs
           g == w.got
           d == Disturbed(r)
<1>1. /\ w = WorldOf(r, t, q, g)
      /\ r \in Streams /\ t \in Seq(K) /\ q \in Seq(Jobs) /\ g \in Seq(Int)
      /\ Ranged(q) /\ Asked(r, k) /\ Buffered(r, m, n, z)
      /\ Alternates(r, q) /\ Received(r, q, g, c, m)
  BY SoundParts
<1>2. k <= l /\ m \in Nat /\ r.requests \in Nat
  BY <1>1 DEF Buffered, Streams
<1>3. Asked(r, l)
  BY <1>1, <1>2 DEF Asked
<1>4. r.state \in {"readable", "closed", "errored"}
  BY <1>1 DEF Streams
<1>5. CASE r.state # "readable"
  <2>1. /\ d \in Streams /\ d.state = r.state /\ d.queue = r.queue /\ d.reader = r.reader
        /\ d.requests = r.requests /\ d.disturbed /\ d.closing = r.closing
    BY <1>1 DEF Disturbed, Streams
  <2>2. r.queue = <<>> /\ r.disturbed
    BY <1>1, <1>5 DEF Asked
  <2> HIDE DEF d
  <2>3. Asked(d, l) /\ Buffered(d, m, n, z) /\ Alternates(d, q) /\ Received(d, q, g, c, m)
    <3>1. Asked(d, l)
      BY <1>3, <2>1 DEF Asked
    <3>2. Buffered(d, m, n, z)
      BY <1>1, <2>1, <2>2 DEF Buffered
    <3>3. Alternates(d, q)
      BY <1>1, <2>1 DEF Alternates
    <3>4. Received(d, q, g, c, m)
      BY <1>1, <2>1 DEF Received
    <3> QED BY <3>1, <3>2, <3>3, <3>4
  <2>4. /\ d.state = "closed" => Sound(Answer(WorldOf(d, t, q, g), Done), K, c, m, n, z, l)
        /\ d.state = "errored" => Sound(Answer(WorldOf(d, t, q, g), Error), K, c, m, n, z, l)
    BY <1>1, <1>4, <1>5, <2>1, <2>3, ReadSettledSound
  <2>5. /\ r.state = "closed" => Read(WorldOf(r, t, q, g)) = Answer(WorldOf(d, t, q, g), Done)
        /\ r.state = "errored" => Read(WorldOf(r, t, q, g)) = Answer(WorldOf(d, t, q, g), Error)
    BY <1>1, <2>2, ReadIs DEF d
  <2> QED BY <1>1, <1>2, <1>4, <1>5, <2>1, <2>4, <2>5
<1>6. CASE r.state = "readable" /\ r.queue # <<>>
  <2>1. Read(w) = ReadBuffered(WorldOf(d, t, q, g))
    BY <1>1, <1>6, ReadIs
  <2>2. \E x \in Nat : Sound(ReadBuffered(WorldOf(d, t, q, g)), K, c, x, n, z, l)
    BY <1>1, <1>3, <1>6, ReadBufferedSound
  <2> QED BY <2>1, <2>2
<1>7. CASE r.state = "readable" /\ r.queue = <<>>
  <2>1. Read(w) = ReadLater(WorldOf(d, t, q, g))
    BY <1>1, <1>7, ReadIs
  <2>2. Sound(ReadLater(WorldOf(d, t, q, g)), K, c, m, n, z, l)
    BY <1>1, <1>7, ReadLaterSound
  <2> QED BY <1>2, <2>1, <2>2
<1> QED BY <1>5, <1>6, <1>7

-----------------------------------------------------------------------------
(* The actions and the bytes. *)

LEMMA WorldNow ==
  ASSUME NEW m, SoundWorld(m)
  PROVE  /\ Reified /\ World = WorldOf(rs, tasks, jobs, got)
         /\ rs \in Streams /\ tasks \in Seq(TasksNow) /\ jobs \in Seq(Jobs) /\ got \in Seq(Int)
         /\ Ranged(jobs) /\ Asked(rs, reads) /\ Buffered(rs, m, Streamed, Total)
         /\ Alternates(rs, jobs) /\ Received(rs, jobs, got, text.contents, m)
         /\ ~rs.disturbed => ~HasRead(tasks)
         /\ "read" \in TasksNow /\ "response" \in TasksNow /\ m \in Nat
<1>1. /\ rs \in Streams /\ tasks \in Seq(TasksNow) /\ jobs \in Seq(Jobs) /\ got \in Seq(Int)
      /\ Ranged(jobs) /\ Asked(rs, reads) /\ Buffered(rs, m, Streamed, Total)
      /\ Alternates(rs, jobs) /\ Received(rs, jobs, got, text.contents, m)
      /\ ~rs.disturbed => ~HasRead(tasks)
  BY SoundParts, WorldFields DEF SoundWorld
<1>2. Reified
  BY <1>1 DEF Streams, Reified
<1>3. World = WorldOf(rs, tasks, jobs, got)
  BY DEF World, WorldOf
<1>4. "read" \in TasksNow /\ "response" \in TasksNow /\ m \in Nat
  BY <1>1 DEF TasksNow, Tasks, Buffered
<1> QED BY <1>1, <1>2, <1>3, <1>4

LEMMA SoundNow ==
  ASSUME Course, Reified \/ jobs # <<>> \/ HasRead(tasks) \/ fwd.on
  PROVE  \E m \in Nat : SoundWorld(m)
BY DEF Course, Untouched, Blank, Reified, NoStream

LEMMA BecomeSound ==
  ASSUME NEW w, NEW m \in Nat, Become(w), UNCHANGED <<host, fwd>>,
         Sound(w, TasksNow, text.contents', m, Streamed, Total, reads')
  PROVE  (\E x \in Nat : SoundWorld(x))'
<1>1. w = WorldOf(w.rs, w.tasks, w.jobs, w.got)
  BY SoundParts
<1>2. World' = w
  BY <1>1 DEF Become, World, WorldOf
<1>3. TasksNow' = TasksNow /\ Streamed' = Streamed /\ Total' = Total
  BY DEF TasksNow, Streamed, Total
<1>4. SoundWorld(m)'
  BY <1>2, <1>3 DEF SoundWorld
<1> QED BY <1>4

\* A stream that is not locked by append_body does not forward.
LEMMA NotForwarding ==
  ASSUME Forwarding, ~Reified \/ rs.disturbed \/ rs.reader # "internal"
  PROVE  ~fwd.on /\ fwd.bytes = 0
BY DEF Forwarding

LEMMA StaysUnforwarded ==
  ASSUME ~fwd.on, fwd.bytes = 0, UNCHANGED fwd
  PROVE  Forwarding'
BY DEF Forwarding

LEMMA NotResolved ==
  ASSUME Resolved,
         ~Reified \/ rs.reader # "text" \/ rs.state # "closed" \/ HasJob(jobs, "text")
  PROVE  text.status # "resolved"
BY DEF Resolved

LEMMA StaysUnresolved ==
  ASSUME text'.status # "resolved"
  PROVE  Resolved'
BY DEF Resolved

\* A new stream, of a body that nobody has read.
LEMMA CreateSound ==
  ASSUME Untouched, reads \in Nat
  PROVE  Sound(Create(World), TasksNow, text.contents, 0, Streamed, Total, reads)
<1> DEFINE q == Append(<<>>, <<"started", 0>>)
<1>1. /\ rs = NoStream /\ jobs = <<>> /\ got = <<>> /\ tasks \in Seq(TasksNow) /\ ~HasRead(tasks)
      /\ text.contents = <<>> /\ Streamed = 0
  BY DEF Untouched, Blank, Streamed
<1>2. <<>> \in Seq(Jobs) /\ <<>> \in Seq(Int) /\ Ranged(<<>>) /\ Answers(<<>>) = {} /\ OneJob(<<>>, "text")
  BY DEF Ranged, Answers, OneJob
<1>3. q \in Seq(Jobs) /\ SameAnswers(<<>>, q)
  BY <1>2, OtherJobAppended
<1>4. Ranged(q) /\ Answers(q) = {} /\ OneJob(q, "text") /\ ~HasJob(q, "text")
  BY <1>2, <1>3, NoAnswers DEF SameAnswers
<1>5. Create(World) = WorldOf(NewStream, tasks, q, got)
  <2> DEFINE a == WorldOf(NewStream, tasks, jobs, got)
  <2>1. [World EXCEPT !.rs = NewStream] = a
    BY DEF World, WorldOf
  <2>2. a.jobs = jobs /\ \A x : [a EXCEPT !.jobs = x] = WorldOf(NewStream, tasks, x, got)
    BY JobsReplaced
  <2> HIDE DEF a
  <2>3. Create(World) = [a EXCEPT !.jobs = Append(a.jobs, <<"started", 0>>)]
    BY <2>1, Zenon DEF Create
  <2>4. Create(World) = WorldOf(NewStream, tasks, Append(jobs, <<"started", 0>>), got)
    BY <2>2, <2>3
  <2> QED BY <1>1, <2>4
<1> HIDE DEF q
<1>6. /\ NewStream \in Streams /\ NewStream.state = "readable" /\ ~NewStream.closing
      /\ ~NewStream.disturbed /\ NewStream.reader = "none" /\ NewStream.requests = 0
      /\ NewStream.queue = <<>>
  BY <1>2 DEF NewStream, Streams
<1> DEFINE r == NewStream
<1> HIDE DEF r
<1> DEFINE z == 0
<1>7. Asked(r, reads)
  BY <1>6 DEF Asked, r
<1>8. Buffered(r, z, z, Total)
  <2>1. z \in Nat /\ z \in 0..MaxBytes /\ z <= z /\ z = 0
    BY MaxBytesAssumption
  <2> HIDE DEF z
  <2>2. Span(z, z) = <<>>
    BY <2>1, SpanProps
  <2> QED BY <1>6, <2>1, <2>2 DEF Buffered, r
<1>9. Alternates(r, q)
  BY <1>4 DEF Alternates
<1>10. Received(r, q, got, text.contents, z)
  BY <1>1, <1>6, BytesProps DEF Received, r
<1>11. Sound(WorldOf(r, tasks, q, got), TasksNow, text.contents, z, z, Total, reads)
  <2>1. r \in Streams
    BY <1>6 DEF r
  <2> HIDE DEF z
  <2> QED BY <1>1, <1>2, <1>3, <1>4, <1>7, <1>8, <1>9, <1>10, <2>1, SoundFrom
<1> QED BY <1>1, <1>5, <1>11 DEF r

LEMMA CourseBodyGet ==
  ASSUME Slots, Course, BodyGet
  PROVE  Course'
<1>1. Untouched /\ reads \in Nat
  BY MaxReadsAssumption, WorldNow DEF Course, BodyGet, Slots
<1>2. Become(Create(World)) /\ UNCHANGED <<host, text, fwd, reads>> /\ ~Reified
  BY DEF BodyGet, vars1
<1>3. Sound(Create(World), TasksNow, text.contents', 0, Streamed, Total, reads')
  BY <1>1, <1>2, CreateSound
<1>4. (\E x \in Nat : SoundWorld(x))'
  BY <1>2, <1>3, BecomeSound
<1>5. Forwarding'
  BY <1>2, NotForwarding, StaysUnforwarded DEF Course
<1>6. Resolved'
  BY <1>2, NotResolved, StaysUnresolved DEF Course
<1> QED BY <1>4, <1>5, <1>6 DEF Course

\* Another reader of a stream that owes no answer.
LEMMA ReaderSound ==
  ASSUME NEW m, SoundWorld(m), rs.requests = 0, rs.reader # "text",
         NEW reader \in {"none", "user", "internal", "text"},
         reader = "text" => ~rs.disturbed
  PROVE  Sound(WorldOf([rs EXCEPT !.reader = reader], tasks, jobs, got), TasksNow,
               text.contents, m, Streamed, Total, reads)
<1> DEFINE r == [rs EXCEPT !.reader = reader]
<1>1. /\ rs \in Streams /\ tasks \in Seq(TasksNow) /\ jobs \in Seq(Jobs) /\ got \in Seq(Int)
      /\ Ranged(jobs) /\ Asked(rs, reads) /\ Buffered(rs, m, Streamed, Total)
      /\ Alternates(rs, jobs) /\ Received(rs, jobs, got, text.contents, m)
      /\ ~rs.disturbed => ~HasRead(tasks)
  BY WorldNow
<1>2. /\ r \in Streams /\ r.state = rs.state /\ r.queue = rs.queue /\ r.closing = rs.closing
      /\ r.requests = 0 /\ r.disturbed = rs.disturbed /\ r.reader = reader
  BY <1>1 DEF Streams
<1> HIDE DEF r
<1>3. ~HasJob(jobs, "text") /\ Answers(jobs) = {}
  BY <1>1, NoAnswers DEF Alternates
<1>4. Asked(r, reads)
  BY <1>1, <1>2 DEF Asked
<1>5. Buffered(r, m, Streamed, Total)
  BY <1>1, <1>2 DEF Buffered, Asked
<1>6. Alternates(r, jobs)
  BY <1>1, <1>2, <1>3 DEF Alternates
<1>7. Received(r, jobs, got, text.contents, m)
  <2>1. text.contents = <<>> /\ got = Bytes(m)
    BY <1>1 DEF Received
  <2>2. reader = "text" => m = 0
    BY <1>1 DEF Buffered
  <2>3. Bytes(0) = <<>>
    BY BytesProps
  <2> QED BY <1>2, <1>3, <2>1, <2>2, <2>3 DEF Received
<1> QED BY <1>1, <1>2, <1>4, <1>5, <1>6, <1>7, SoundFrom DEF r

LEMMA ReaderReplaced ==
  ASSUME NEW m, SoundWorld(m), rs.requests = 0, rs.reader # "text",
         NEW reader \in {"none", "user"},
         rs' = [rs EXCEPT !.reader = reader], UNCHANGED <<vars1, tasks, jobs, got, reads>>
  PROVE  (\E x \in Nat : SoundWorld(x))'
<1> DEFINE w == WorldOf([rs EXCEPT !.reader = reader], tasks, jobs, got)
<1>1. Sound(w, TasksNow, text.contents, m, Streamed, Total, reads)
  BY ReaderSound
<1>2. Become(w)
  BY DEF Become, WorldOf, vars1
<1>3. m \in Nat /\ UNCHANGED <<host, fwd, text, reads>>
  BY WorldNow DEF vars1
<1> HIDE DEF w
<1> QED BY <1>1, <1>2, <1>3, BecomeSound

\* A stream that nobody reads owes no answer.
LEMMA NoReader ==
  ASSUME NEW m, SoundWorld(m), rs.reader = "none"
  PROVE  rs.requests = 0 /\ ~HasJob(jobs, "text")
BY WorldNow DEF Asked, Alternates, Streams

LEMMA CourseGetReader ==
  ASSUME Slots, Course, GetReader
  PROVE  Course'
<1>1. PICK m \in Nat : SoundWorld(m)
  BY SoundNow DEF GetReader
<1>2. /\ rs.reader = "none" /\ rs' = [rs EXCEPT !.reader = "user"]
      /\ UNCHANGED <<vars1, tasks, jobs, got, reads>>
  BY WorldFields DEF GetReader, Locked
<1>3. (\E x \in Nat : SoundWorld(x))'
  BY <1>1, <1>2, NoReader, ReaderReplaced
<1>4. Forwarding'
  BY <1>2, NotForwarding, StaysUnforwarded DEF Course, vars1
<1>5. Resolved'
  BY <1>2, NotResolved, StaysUnresolved DEF Course, vars1
<1> QED BY <1>3, <1>4, <1>5 DEF Course

LEMMA CourseReleaseLock ==
  ASSUME Slots, Course, ReleaseLock
  PROVE  Course'
<1>1. PICK m \in Nat : SoundWorld(m)
  BY SoundNow DEF ReleaseLock
<1>2. /\ rs.reader = "user" /\ rs.requests = 0 /\ rs' = [rs EXCEPT !.reader = "none"]
      /\ UNCHANGED <<vars1, tasks, jobs, got, reads>>
  BY DEF ReleaseLock
<1>3. (\E x \in Nat : SoundWorld(x))'
  BY <1>1, <1>2, ReaderReplaced
<1>4. Forwarding'
  BY <1>2, NotForwarding, StaysUnforwarded DEF Course, vars1
<1>5. Resolved'
  BY <1>2, NotResolved, StaysUnresolved DEF Course, vars1
<1> QED BY <1>3, <1>4, <1>5 DEF Course

LEMMA CourseUserReads ==
  ASSUME Slots, Course, UserReads
  PROVE  Course'
<1>1. PICK m \in Nat : SoundWorld(m)
  BY SoundNow DEF UserReads
<1>2. /\ rs.reader = "user" /\ Become(Read(World)) /\ reads' = reads + 1
      /\ UNCHANGED vars1 /\ reads \in Nat /\ reads + 1 \in Nat
  BY MaxReadsAssumption DEF UserReads, Slots
<1>3. ~HasJob(jobs, "text") /\ "read" \in TasksNow
  BY <1>1, <1>2, WorldNow DEF Alternates
<1>4. PICK x \in Nat : Sound(Read(World), TasksNow, text.contents, x, Streamed, Total, reads')
  <2>1. Sound(World, TasksNow, text.contents, m, Streamed, Total, reads)
    BY <1>1 DEF SoundWorld
  <2>2. World.rs.reader = "user" /\ World.jobs = jobs
    BY <1>2, WorldFields
  <2>3. reads' \in Nat /\ reads' = IF World.rs.reader = "text" THEN reads ELSE reads + 1
    BY <1>2, <2>2
  <2> QED BY <1>2, <1>3, <2>1, <2>2, <2>3, ReadSound
<1>5. (\E y \in Nat : SoundWorld(y))'
  BY <1>2, <1>4, BecomeSound DEF vars1
<1>6. Forwarding'
  BY <1>2, NotForwarding, StaysUnforwarded DEF Course, vars1
<1>7. Resolved'
  BY <1>2, NotResolved, StaysUnresolved DEF Course, vars1
<1> QED BY <1>5, <1>6, <1>7 DEF Course

LEMMA DisturbSound ==
  ASSUME NEW m, SoundWorld(m)
  PROVE  Sound(WorldOf(Disturbed(rs), tasks, jobs, got), TasksNow,
               text.contents, m, Streamed, Total, reads)
<1> DEFINE r == Disturbed(rs)
<1>1. /\ rs \in Streams /\ tasks \in Seq(TasksNow) /\ jobs \in Seq(Jobs) /\ got \in Seq(Int)
      /\ Ranged(jobs) /\ Asked(rs, reads) /\ Buffered(rs, m, Streamed, Total)
      /\ Alternates(rs, jobs) /\ Received(rs, jobs, got, text.contents, m)
  BY WorldNow
<1>2. /\ r \in Streams /\ r.state = rs.state /\ r.queue = rs.queue /\ r.closing = rs.closing
      /\ r.requests = rs.requests /\ r.disturbed /\ r.reader = rs.reader
  BY <1>1 DEF Streams, Disturbed
<1> HIDE DEF r
<1>3. Asked(r, reads)
  BY <1>1, <1>2 DEF Asked
<1>4. Buffered(r, m, Streamed, Total)
  BY <1>1, <1>2 DEF Buffered
<1>5. Alternates(r, jobs)
  BY <1>1, <1>2 DEF Alternates
<1>6. Received(r, jobs, got, text.contents, m)
  BY <1>1, <1>2 DEF Received
<1> QED BY <1>1, <1>2, <1>3, <1>4, <1>5, <1>6, SoundFrom DEF r

LEMMA CourseCancel ==
  ASSUME Slots, Course, Cancel
  PROVE  Course'
<1> DEFINE d == WorldOf(Disturbed(rs), tasks, jobs, got)
<1>1. PICK m \in Nat : SoundWorld(m)
  BY SoundNow DEF Cancel
<1>2. rs.reader \in {"user", "none"} /\ UNCHANGED vars1 /\ reads' = reads /\ reads \in Nat
  BY MaxReadsAssumption DEF Cancel, Slots
<1>3. Sound(d, TasksNow, text.contents', m, Streamed, Total, reads')
  BY <1>1, <1>2, DisturbSound DEF vars1
<1>4. d.rs = Disturbed(rs)
  BY DEF WorldOf
<1>5. /\ Disturbed(rs).disturbed /\ Disturbed(rs).state = rs.state
      /\ Disturbed(rs).reader = rs.reader
  BY <1>1, WorldNow DEF Disturbed, Streams
<1>6. [World EXCEPT !.rs.disturbed = TRUE] = d
  BY <1>1, WorldNow, DisturbIs
<1>7. Become(IF rs.state = "readable" THEN CloseStream(d) ELSE d)
  <2> HIDE DEF d
  <2> QED BY <1>6 DEF Cancel
<1> HIDE DEF d
<1>8. Sound(IF rs.state = "readable" THEN CloseStream(d) ELSE d,
            TasksNow, text.contents', m, Streamed, Total, reads')
  BY <1>2, <1>3, <1>4, <1>5, CloseSound
<1>9. (\E y \in Nat : SoundWorld(y))'
  <2> DEFINE w == IF rs.state = "readable" THEN CloseStream(d) ELSE d
  <2>1. Become(w) /\ Sound(w, TasksNow, text.contents', m, Streamed, Total, reads')
    BY <1>7, <1>8
  <2> HIDE DEF w
  <2> QED BY <1>2, <2>1, BecomeSound DEF vars1
<1>10. Forwarding'
  BY <1>2, NotForwarding, StaysUnforwarded DEF Course, vars1
<1>11. Resolved'
  BY <1>2, NotResolved, StaysUnresolved DEF Course, vars1
<1> QED BY <1>9, <1>10, <1>11 DEF Course

LEMMA ConsumeSound ==
  ASSUME NEW w, NEW K, NEW c, NEW m, NEW n, NEW z, NEW k, Sound(w, K, c, m, n, z, k)
  PROVE  Sound([w EXCEPT !.jobs = Append(@, <<"consume", 0>>)], K, c, m, n, z, k)
<1> DEFINE q == Append(w.jobs, <<"consume", 0>>)
<1>1. /\ w = WorldOf(w.rs, w.tasks, w.jobs, w.got)
      /\ w.rs \in Streams /\ w.tasks \in Seq(K) /\ w.jobs \in Seq(Jobs)
      /\ ~w.rs.disturbed => ~HasRead(w.tasks)
  BY SoundParts
<1>2. q \in Seq(Jobs) /\ SameAnswers(w.jobs, q)
  BY <1>1, OtherJobAppended
<1>3. [w EXCEPT !.jobs = q] = WorldOf(w.rs, w.tasks, q, w.got)
  <2> HIDE DEF q
  <2> QED BY <1>1 DEF WorldOf
<1>4. Alike(w.rs, w.rs)
  BY DEF Alike
<1> HIDE DEF q
<1>5. Sound(WorldOf(w.rs, w.tasks, q, w.got), K, c, m, n, z, k)
  BY <1>1, <1>2, <1>4, AlikeSound
<1> QED BY <1>3, <1>5 DEF q

LEMMA CourseText ==
  ASSUME Slots, Course, Text
  PROVE  Course'
<1>1. UNCHANGED <<host, fwd, reads>> /\ reads \in Nat /\ text'.contents = text.contents
      /\ text'.status \in {"rejected", "pending"}
  BY MaxReadsAssumption DEF Text, Slots
<1>2. Resolved'
  BY <1>1, StaysUnresolved
<1>3. CASE Reified /\ Locked(World)
  <2>1. UNCHANGED <<rs, tasks, jobs, got>>
    BY <1>3 DEF Text
  <2>2. PICK m \in Nat : SoundWorld(m)
    BY <1>3, SoundNow
  <2>3. SoundWorld(m)'
    BY <1>1, <2>1, <2>2 DEF SoundWorld, World, TasksNow, Streamed, Total
  <2>4. Forwarding'
    BY <1>1, <2>1 DEF Course, Forwarding, Reified
  <2> QED BY <1>2, <2>3, <2>4 DEF Course
<1>4. CASE ~Reified
  <2>1. Untouched
    BY <1>4, WorldNow DEF Course
  <2>2. Sound(Create(World), TasksNow, text.contents', 0, Streamed, Total, reads')
    BY <1>1, <2>1, CreateSound
  <2>3. Become([Create(World) EXCEPT !.jobs = Append(@, <<"consume", 0>>)])
    BY <1>4 DEF Text
  <2>4. Sound([Create(World) EXCEPT !.jobs = Append(@, <<"consume", 0>>)],
              TasksNow, text.contents', 0, Streamed, Total, reads')
    BY <2>2, ConsumeSound
  <2>5. (\E x \in Nat : SoundWorld(x))'
    BY <1>1, <2>3, <2>4, BecomeSound
  <2>6. Forwarding'
    BY <1>1, <1>4, NotForwarding, StaysUnforwarded DEF Course
  <2> QED BY <1>2, <2>5, <2>6 DEF Course
<1>5. CASE Reified /\ ~Locked(World)
  <2> DEFINE w == WorldOf([rs EXCEPT !.reader = "internal"], tasks, jobs, got)
             v == [w EXCEPT !.jobs = Append(@, <<"consume", 0>>)]
  <2>1. PICK m \in Nat : SoundWorld(m)
    BY <1>5, SoundNow
  <2>2. rs.reader = "none" /\ rs.requests = 0
    BY <1>5, <2>1, NoReader, WorldFields DEF Locked
  <2>3. Sound(w, TasksNow, text.contents', m, Streamed, Total, reads')
    BY <1>1, <2>1, <2>2, ReaderSound
  <2>4. [World EXCEPT !.rs.reader = "internal"] = w
    BY DEF World, WorldOf
  <2> HIDE DEF w
  <2>5. Become(v)
    BY <1>5, <2>4 DEF Text
  <2>6. Sound(v, TasksNow, text.contents', m, Streamed, Total, reads')
    BY <2>3, ConsumeSound
  <2> HIDE DEF v
  <2>7. (\E x \in Nat : SoundWorld(x))'
    BY <1>1, <2>5, <2>6, BecomeSound
  <2>8. Forwarding'
    BY <1>1, <2>2, NotForwarding, StaysUnforwarded DEF Course
  <2> QED BY <1>2, <2>7, <2>8 DEF Course
<1> QED BY <1>3, <1>4, <1>5

\* A body that is appended was never read, and so nothing of it has come: the
\* stream has no byte and the host has given none away.
LEMMA CourseAppendBody ==
  ASSUME Slots, Course, MayStream, AppendBody, UNCHANGED <<host, jobs, got, text, reads>>
  PROVE  Course'
<1> DEFINE r == [rs EXCEPT !.reader = "internal"]
           t == Append(tasks, "append")
<1>1. PICK m \in Nat : SoundWorld(m)
  BY SoundNow DEF MayStream
<1>2. rs.reader = "none" /\ rs.requests = 0 /\ ~rs.disturbed
  BY <1>1, NoReader, WorldFields DEF MayStream, Unusable, Locked
<1>3. ~fwd.on /\ fwd.bytes = 0
  BY <1>2, NotForwarding DEF Course
<1>4. host.taken = 0 /\ m = 0 /\ Streamed = 0
  BY <1>1, <1>2, <1>3, WorldNow DEF Buffered, Streamed
<1>5. fwd' = [on |-> TRUE, bytes |-> 0] /\ fwd'.on /\ tasks' = t /\ rs' = r
  BY <1>3 DEF AppendBody, Slots
<1>6. TasksNow' = Tasks /\ Streamed' = Streamed /\ Total' = Total
  BY <1>4, <1>5 DEF TasksNow, Streamed, Total
<1>7. Sound(WorldOf(r, tasks, jobs, got), TasksNow, text.contents, m, Streamed, Total, reads)
  BY <1>1, <1>2, ReaderSound
<1>8. /\ rs \in Streams /\ tasks \in Seq(TasksNow) /\ jobs \in Seq(Jobs) /\ got \in Seq(Int)
      /\ ~HasRead(tasks)
  BY <1>1, <1>2, WorldNow
<1>9. t \in Seq(Tasks) /\ ~HasRead(t)
  <2>1. tasks \in Seq(Tasks) /\ "append" \in Tasks
    BY <1>8 DEF TasksNow, Tasks
  <2> QED BY <1>8, <2>1, TaskAppended
<1>10. r \in Streams /\ r.reader = "internal" /\ ~r.disturbed
  BY <1>2, <1>8 DEF Streams
<1> HIDE DEF r, t
<1>11. /\ r \in Streams /\ Asked(r, reads) /\ Buffered(r, m, Streamed, Total) /\ Ranged(jobs)
       /\ Alternates(r, jobs) /\ Received(r, jobs, got, text.contents, m)
  <2> DEFINE w == WorldOf(r, tasks, jobs, got)
  <2>1. w.rs = r /\ w.jobs = jobs /\ w.got = got
    BY DEF WorldOf
  <2> HIDE DEF w
  <2>2. Sound(w, TasksNow, text.contents, m, Streamed, Total, reads)
    BY <1>7 DEF w
  <2>3. /\ w.rs \in Streams /\ Asked(w.rs, reads) /\ Buffered(w.rs, m, Streamed, Total)
        /\ Ranged(w.jobs) /\ Alternates(w.rs, w.jobs)
        /\ Received(w.rs, w.jobs, w.got, text.contents, m)
    BY <2>2, SoundParts
  <2> QED BY <2>1, <2>3
<1>12. Sound(WorldOf(r, t, jobs, got), Tasks, text.contents, m, Streamed, Total, reads)
  BY <1>8, <1>9, <1>11, SoundFrom
<1>13. SoundWorld(m)'
  <2>1. World' = WorldOf(r, t, jobs, got)
    BY <1>5 DEF World, WorldOf
  <2> QED BY <1>6, <1>12, <2>1 DEF SoundWorld
<1>14. Forwarding'
  <2>1. Reified'
    BY <1>5, <1>10 DEF Streams, Reified
  <2> QED BY <1>4, <1>5, <1>10, <2>1 DEF Forwarding
<1>15. Resolved'
  BY <1>2, NotResolved, StaysUnresolved DEF Course
<1> QED BY <1>13, <1>14, <1>15 DEF Course

LEMMA CourseRespond ==
  ASSUME Slots, Course, Respond
  PROVE  Course'
BY CourseAppendBody DEF Respond


\* The tasks other than "read" change, and the promise of fetch.
LEMMA TasksSound ==
  ASSUME Course, UNCHANGED <<host, rs, jobs, got, text, fwd, reads>>,
         tasks \in Seq(TasksNow) =>
           tasks' \in Seq(TasksNow) /\ (HasRead(tasks') => HasRead(tasks))
  PROVE  Course'
<1>1. Forwarding' /\ Resolved'
  BY DEF Course, Forwarding, Resolved, Reified
<1>2. TasksNow' = TasksNow /\ Streamed' = Streamed /\ Total' = Total
  BY DEF TasksNow, Streamed, Total
<1>3. CASE Untouched
  <2>1. tasks' \in Seq(TasksNow) /\ ~HasRead(tasks')
    BY <1>3 DEF Untouched, Blank
  <2>2. tasks' \in Seq(Tasks)
    <3>1. TasksNow \subseteq Tasks
      BY DEF TasksNow, Tasks
    <3> QED BY <2>1, <3>1
  <2>3. Untouched'
    BY <1>2, <1>3, <2>1, <2>2 DEF Untouched, Blank
  <2> QED BY <1>1, <2>3 DEF Course
<1>4. CASE \E m \in Nat : SoundWorld(m)
  <2>1. PICK m \in Nat : SoundWorld(m)
    BY <1>4
  <2>2. /\ rs \in Streams /\ tasks \in Seq(TasksNow) /\ jobs \in Seq(Jobs) /\ got \in Seq(Int)
        /\ Ranged(jobs) /\ Asked(rs, reads) /\ Buffered(rs, m, Streamed, Total)
        /\ Alternates(rs, jobs) /\ Received(rs, jobs, got, text.contents, m)
        /\ ~rs.disturbed => ~HasRead(tasks)
    BY <2>1, WorldNow
  <2>3. ~rs.disturbed => ~HasRead(tasks')
    BY <2>2
  <2>4. Sound(WorldOf(rs, tasks', jobs, got), TasksNow, text.contents, m, Streamed, Total, reads)
    BY <2>2, <2>3, SoundFrom
  <2>5. World' = WorldOf(rs, tasks', jobs, got)
    BY DEF World, WorldOf
  <2>6. SoundWorld(m)'
    BY <1>2, <2>4, <2>5 DEF SoundWorld
  <2> QED BY <1>1, <2>6 DEF Course
<1> QED BY <1>3, <1>4 DEF Course

LEMMA CourseFetch ==
  ASSUME Slots, Course, NEW body \in {"written", "incoming", "content"}, Fetch(body)
  PROVE  Course'
<1>1. UNCHANGED <<host, jobs, got, text, reads>>
  BY DEF Fetch
<1>2. CASE body = "written"
  <2>1. tasks' = Append(tasks, "response") /\ UNCHANGED <<rs, fwd>>
    BY <1>2 DEF Fetch
  <2>2. ASSUME tasks \in Seq(TasksNow)
        PROVE  tasks' \in Seq(TasksNow) /\ (HasRead(tasks') => HasRead(tasks))
    <3>1. "response" \in TasksNow /\ tasks \in Seq(Tasks) /\ "response" \in Tasks
      BY <2>2 DEF TasksNow, Tasks
    <3> QED BY <2>1, <2>2, <3>1, TaskAppended
  <2> QED BY <1>1, <2>1, <2>2, TasksSound
<1>3. CASE body = "incoming"
  BY <1>1, <1>3, CourseAppendBody DEF Fetch
<1>4. CASE body = "content"
  <2>1. UNCHANGED <<rs, tasks, fwd>>
    BY <1>4 DEF Fetch
  <2> QED BY <1>1, <2>1, TasksSound
<1> QED BY <1>2, <1>3, <1>4

LEMMA RestIs == Rest = WorldOf(rs, tasks, Tail(jobs), got)
<1>1. World = WorldOf(rs, tasks, jobs, got)
  BY DEF World, WorldOf
<1>2. /\ World.jobs = jobs
      /\ \A x : [World EXCEPT !.jobs = x] = WorldOf(rs, tasks, x, got)
  BY <1>1, WorldFields, JobsReplaced
<1>3. Rest = [World EXCEPT !.jobs = Tail(jobs)]
  BY <1>2, Zenon DEF Rest
<1> QED BY <1>2, <1>3

\* The job is done: what there was to say about the world still holds.
LEMMA RestSound ==
  ASSUME NEW m, SoundWorld(m), jobs # <<>>, Head(jobs)[1] # "text"
  PROVE  /\ Rest = WorldOf(rs, tasks, Tail(jobs), got)
         /\ Tail(jobs) \in Seq(Jobs) /\ SameAnswers(jobs, Tail(jobs))
         /\ Sound(Rest, TasksNow, text.contents, m, Streamed, Total, reads)
<1>1. /\ World = WorldOf(rs, tasks, jobs, got)
      /\ rs \in Streams /\ tasks \in Seq(TasksNow) /\ jobs \in Seq(Jobs)
      /\ ~rs.disturbed => ~HasRead(tasks)
  BY WorldNow
<1>2. Rest = WorldOf(rs, tasks, Tail(jobs), got)
  BY RestIs
<1>3. Tail(jobs) \in Seq(Jobs) /\ SameAnswers(jobs, Tail(jobs))
  BY <1>1, OtherJobTaken
<1>4. Alike(World.rs, rs) /\ World.jobs = jobs /\ World.got = got
  BY WorldFields DEF Alike
<1>5. Sound(WorldOf(rs, tasks, Tail(jobs), World.got), TasksNow, text.contents, m, Streamed,
            Total, reads)
  BY <1>1, <1>3, <1>4, AlikeSound DEF SoundWorld
<1> QED BY <1>2, <1>3, <1>4, <1>5

\* A pull, or none, leaves the stream as content sees it.
LEMMA PullKeeps ==
  ASSUME NEW w, NEW K, NEW c, NEW m, NEW n, NEW z, NEW k, Sound(w, K, c, m, n, z, k)
  PROVE  /\ Alike(w.rs, CallPullIfNeeded(w).rs)
         /\ CallPullIfNeeded(w).rs.state # "none"
         /\ \A l : l # "pulled" /\ HasJob(CallPullIfNeeded(w).jobs, l) => HasJob(w.jobs, l)
<1>1. /\ w = WorldOf(w.rs, w.tasks, w.jobs, w.got)
      /\ w.rs \in Streams /\ w.jobs \in Seq(Jobs)
  BY SoundParts
<1>2. CASE ~ShouldPull(w.rs)
  BY <1>1, <1>2 DEF CallPullIfNeeded, Alike, Streams
<1>3. CASE ShouldPull(w.rs) /\ w.rs.pulling
  <2> DEFINE r == [w.rs EXCEPT !.pullAgain = TRUE]
  <2>1. Alike(w.rs, r) /\ r.state # "none"
    BY <1>1 DEF Streams, Alike
  <2>2. CallPullIfNeeded(w) = [w EXCEPT !.rs = r]
    BY <1>3 DEF CallPullIfNeeded
  <2> HIDE DEF r
  <2>3. CallPullIfNeeded(w).rs = r /\ CallPullIfNeeded(w).jobs = w.jobs
    BY <1>1, <2>2 DEF WorldOf
  <2> QED BY <2>1, <2>3
<1>4. CASE ShouldPull(w.rs) /\ ~w.rs.pulling
  <2> DEFINE r == [w.rs EXCEPT !.pulling = TRUE]
             t == Append(w.tasks, "read")
             q == Append(w.jobs, <<"pulled", 0>>)
  <2>1. Alike(w.rs, r) /\ r.state # "none"
    BY <1>1 DEF Streams, Alike
  <2>2. CallPullIfNeeded(w) = [w EXCEPT !.rs = r, !.tasks = t, !.jobs = q]
    BY <1>4 DEF CallPullIfNeeded, Pull
  <2>3. \A l : l # "pulled" /\ HasJob(q, l) => HasJob(w.jobs, l)
    BY <1>1, JobAppended
  <2> HIDE DEF r, t, q
  <2>4. CallPullIfNeeded(w).rs = r /\ CallPullIfNeeded(w).jobs = q
    BY <1>1, <2>2 DEF WorldOf
  <2> QED BY <2>1, <2>3, <2>4
<1> QED BY <1>2, <1>3, <1>4

\* What the pulls look at changes, and one may be made.
LEMMA CoursePulls ==
  ASSUME Course, NEW m \in Nat, SoundWorld(m), NEW w, Become(w),
         UNCHANGED <<host, text, fwd, reads>>,
         Sound(w, TasksNow, text.contents, m, Streamed, Total, reads),
         Alike(rs, w.rs), w.rs.state # "none",
         HasJob(w.jobs, "text") => HasJob(jobs, "text")
  PROVE  Course'
<1>1. (\E x \in Nat : SoundWorld(x))'
  BY BecomeSound
<1>2. rs' = w.rs /\ jobs' = w.jobs
  BY DEF Become
<1>3. Forwarding'
  BY <1>2 DEF Course, Forwarding, Alike, Reified
<1>4. Resolved'
  BY <1>2 DEF Course, Resolved, Alike, Reified
<1> QED BY <1>1, <1>3, <1>4 DEF Course

LEMMA CourseStarted ==
  ASSUME Slots, Course, Started
  PROVE  Course'
<1> DEFINE r == [rs EXCEPT !.started = TRUE]
           w == WorldOf(r, tasks, Tail(jobs), got)
<1>1. jobs # <<>> /\ Head(jobs)[1] # "text" /\ UNCHANGED <<host, text, fwd, reads>>
  BY DEF Started, Job, vars1
<1>2. PICK m \in Nat : SoundWorld(m)
  BY <1>1, SoundNow
<1>3. /\ rs \in Streams /\ tasks \in Seq(TasksNow) /\ jobs \in Seq(Jobs)
      /\ ~rs.disturbed => ~HasRead(tasks)
      /\ "read" \in TasksNow
  BY <1>2, WorldNow
<1>4. /\ Rest = WorldOf(rs, tasks, Tail(jobs), got)
      /\ Tail(jobs) \in Seq(Jobs) /\ SameAnswers(jobs, Tail(jobs))
  BY <1>1, <1>2, RestSound
<1>5. r \in Streams /\ Alike(rs, r) /\ (~r.disturbed => ~HasRead(tasks))
  BY <1>3 DEF Streams, Alike
<1>6. Sound(w, TasksNow, text.contents, m, Streamed, Total, reads)
  <2> HIDE DEF r
  <2>1. World.rs = rs /\ World.jobs = jobs /\ World.got = got
    BY WorldFields
  <2>2. Sound(WorldOf(r, tasks, Tail(jobs), World.got), TasksNow, text.contents, m, Streamed,
              Total, reads)
    BY <1>2, <1>3, <1>4, <1>5, <2>1, AlikeSound DEF SoundWorld
  <2> QED BY <2>1, <2>2
<1>7. [Rest EXCEPT !.rs.started = TRUE] = w
  <2>1. /\ Rest.rs = rs
        /\ \A x : [Rest EXCEPT !.rs = x] = WorldOf(x, tasks, Tail(jobs), got)
    BY <1>4, StreamReplaced
  <2>2. [Rest EXCEPT !.rs.started = TRUE] = [Rest EXCEPT !.rs = r]
    BY <2>1, Zenon
  <2> QED BY <2>1, <2>2
<1>8. w.rs = r /\ w.jobs = Tail(jobs)
  BY DEF WorldOf
<1>9. HasJob(Tail(jobs), "text") => HasJob(jobs, "text")
  BY <1>1, <1>3, JobTaken
<1> HIDE DEF w, r
<1>10. Become(CallPullIfNeeded(w))
  BY <1>7 DEF Started
<1>11. Sound(CallPullIfNeeded(w), TasksNow, text.contents, m, Streamed, Total, reads)
  BY <1>3, <1>6, PullSound
<1>12. /\ Alike(w.rs, CallPullIfNeeded(w).rs) /\ CallPullIfNeeded(w).rs.state # "none"
       /\ HasJob(CallPullIfNeeded(w).jobs, "text") => HasJob(w.jobs, "text")
  BY <1>6, PullKeeps
<1>13. Alike(rs, CallPullIfNeeded(w).rs)
  BY <1>5, <1>8, <1>12 DEF Alike
<1> QED BY <1>1, <1>2, <1>8, <1>9, <1>10, <1>11, <1>12, <1>13, CoursePulls

LEMMA CoursePulled ==
  ASSUME Slots, Course, Pulled
  PROVE  Course'
<1> DEFINE r == [rs EXCEPT !.pulling = FALSE, !.pullAgain = FALSE]
           w == WorldOf(r, tasks, Tail(jobs), got)
<1>1. jobs # <<>> /\ Head(jobs)[1] # "text" /\ UNCHANGED <<host, text, fwd, reads>>
  BY DEF Pulled, Job, vars1
<1>2. PICK m \in Nat : SoundWorld(m)
  BY <1>1, SoundNow
<1>3. /\ rs \in Streams /\ tasks \in Seq(TasksNow) /\ jobs \in Seq(Jobs)
      /\ ~rs.disturbed => ~HasRead(tasks)
      /\ "read" \in TasksNow
  BY <1>2, WorldNow
<1>4. /\ Rest = WorldOf(rs, tasks, Tail(jobs), got)
      /\ Tail(jobs) \in Seq(Jobs) /\ SameAnswers(jobs, Tail(jobs))
  BY <1>1, <1>2, RestSound
<1>5. /\ r \in Streams /\ Alike(rs, r) /\ (~r.disturbed => ~HasRead(tasks))
      /\ r.state # "none"
  BY <1>3 DEF Streams, Alike
<1>6. Sound(w, TasksNow, text.contents, m, Streamed, Total, reads)
  <2> HIDE DEF r
  <2>1. World.rs = rs /\ World.jobs = jobs /\ World.got = got
    BY WorldFields
  <2>2. Sound(WorldOf(r, tasks, Tail(jobs), World.got), TasksNow, text.contents, m, Streamed,
              Total, reads)
    BY <1>2, <1>3, <1>4, <1>5, <2>1, AlikeSound DEF SoundWorld
  <2> QED BY <2>1, <2>2
<1>7. [Rest EXCEPT !.rs.pulling = FALSE, !.rs.pullAgain = FALSE] = w
  <2> DEFINE s == [rs EXCEPT !.pulling = FALSE]
             v == WorldOf(s, tasks, Tail(jobs), got)
  <2>1. /\ Rest.rs = rs
        /\ \A x : [Rest EXCEPT !.rs = x] = WorldOf(x, tasks, Tail(jobs), got)
    BY <1>4, StreamReplaced
  <2>2. [Rest EXCEPT !.rs.pulling = FALSE] = v
    <3>1. [Rest EXCEPT !.rs.pulling = FALSE] = [Rest EXCEPT !.rs = s]
      BY <2>1, Zenon
    <3> QED BY <2>1, <3>1
  <2>3. /\ v.rs = s
        /\ \A x : [v EXCEPT !.rs = x] = WorldOf(x, tasks, Tail(jobs), got)
    BY StreamReplaced
  <2> HIDE DEF v
  <2>4. [v EXCEPT !.rs.pullAgain = FALSE] = [v EXCEPT !.rs = [s EXCEPT !.pullAgain = FALSE]]
    BY <2>3, Zenon
  <2>5. [v EXCEPT !.rs.pullAgain = FALSE] = w
    BY <2>3, <2>4
  <2> HIDE DEF w
  <2> QED BY <2>2, <2>5
<1>8. w.rs = r /\ w.jobs = Tail(jobs)
  BY DEF WorldOf
<1>9. HasJob(Tail(jobs), "text") => HasJob(jobs, "text")
  BY <1>1, <1>3, JobTaken
<1> HIDE DEF w, r
<1>10. Become(IF rs.pullAgain THEN CallPullIfNeeded(w) ELSE w)
  BY <1>7 DEF Pulled
<1>11. CASE ~rs.pullAgain
  BY <1>1, <1>2, <1>5, <1>6, <1>8, <1>9, <1>10, <1>11, CoursePulls
<1>12. CASE rs.pullAgain
  <2>1. Sound(CallPullIfNeeded(w), TasksNow, text.contents, m, Streamed, Total, reads)
    BY <1>3, <1>6, PullSound
  <2>2. /\ Alike(w.rs, CallPullIfNeeded(w).rs) /\ CallPullIfNeeded(w).rs.state # "none"
        /\ HasJob(CallPullIfNeeded(w).jobs, "text") => HasJob(w.jobs, "text")
    BY <1>6, PullKeeps
  <2>3. Alike(rs, CallPullIfNeeded(w).rs)
    BY <1>5, <1>8, <2>2 DEF Alike
  <2>4. Become(CallPullIfNeeded(w))
    BY <1>10, <1>12
  <2> QED BY <1>1, <1>2, <1>8, <1>9, <2>1, <2>2, <2>3, <2>4, CoursePulls
<1> QED BY <1>11, <1>12


LEMMA CourseConsume ==
  ASSUME Slots, Course, Consume
  PROVE  Course'
<1>1. jobs # <<>> /\ Head(jobs)[1] # "text" /\ UNCHANGED <<host, fwd, reads>> /\ reads \in Nat
  BY MaxReadsAssumption DEF Consume, Job, Slots
<1>2. PICK m \in Nat : SoundWorld(m)
  BY <1>1, SoundNow
<1>3. CASE Unusable(World)
  <2>1. Become(Rest) /\ text' = [text EXCEPT !.status = "rejected"]
    BY <1>3 DEF Consume
  <2>2. text'.status = "rejected" /\ text'.contents = text.contents
    BY <2>1 DEF Slots
  <2>3. Sound(Rest, TasksNow, text.contents', m, Streamed, Total, reads')
    BY <1>1, <1>2, <2>2, RestSound
  <2>4. (\E x \in Nat : SoundWorld(x))'
    BY <1>1, <2>1, <2>3, BecomeSound
  <2>5. rs' = rs
    BY <2>1, RestIs DEF Become, WorldOf
  <2>6. Forwarding'
    BY <1>1, <2>5 DEF Course, Forwarding, Reified
  <2>7. Resolved'
    BY <2>2, StaysUnresolved
  <2> QED BY <2>4, <2>6, <2>7 DEF Course
<1>4. CASE ~Unusable(World)
  <2> DEFINE r == [rs EXCEPT !.reader = "text"]
             v == WorldOf(r, tasks, jobs, got)
             w == WorldOf(r, tasks, Tail(jobs), got)
  <2>1. rs.reader = "none" /\ ~rs.disturbed /\ rs.requests = 0 /\ ~HasJob(jobs, "text")
    BY <1>2, <1>4, NoReader, WorldFields DEF Unusable, Locked
  <2>2. Sound(v, TasksNow, text.contents, m, Streamed, Total, reads)
    BY <1>2, <2>1, ReaderSound
  <2>3. /\ rs \in Streams /\ tasks \in Seq(TasksNow) /\ jobs \in Seq(Jobs)
        /\ ~HasRead(tasks) /\ "read" \in TasksNow
    BY <1>2, <2>1, WorldNow
  <2>4. Tail(jobs) \in Seq(Jobs) /\ SameAnswers(jobs, Tail(jobs)) /\ ~HasJob(Tail(jobs), "text")
    BY <1>1, <2>1, <2>3, OtherJobTaken, JobTaken
  <2>5. r \in Streams /\ r.reader = "text" /\ r.requests = 0
    BY <2>1, <2>3 DEF Streams
  <2>6. /\ [Rest EXCEPT !.rs.reader = "text"] = w
    <3>1. /\ Rest.rs = rs
          /\ \A x : [Rest EXCEPT !.rs = x] = WorldOf(x, tasks, Tail(jobs), got)
      BY RestIs, StreamReplaced
    <3>2. [Rest EXCEPT !.rs.reader = "text"] = [Rest EXCEPT !.rs = r]
      BY <3>1, Zenon
    <3> QED BY <3>1, <3>2
  <2> HIDE DEF r
  <2>7. v.rs = r /\ v.jobs = jobs /\ v.got = got /\ w.rs = r /\ w.jobs = Tail(jobs)
    BY DEF WorldOf
  <2>8. Sound(w, TasksNow, text.contents, m, Streamed, Total, reads)
    <3> HIDE DEF v
    <3>1. Alike(v.rs, r)
      BY <2>7 DEF Alike
    <3>2. Sound(WorldOf(r, tasks, Tail(jobs), v.got), TasksNow, text.contents, m, Streamed,
                Total, reads)
      BY <2>2, <2>3, <2>4, <2>5, <2>7, <3>1, AlikeSound
    <3> QED BY <2>7, <3>2
  <2> HIDE DEF v, w
  <2>9. Become(Read(w)) /\ text' = text
    BY <1>4, <2>6 DEF Consume
  <2>10. PICK x \in Nat : Sound(Read(w), TasksNow, text.contents, x, Streamed, Total, reads)
    BY <1>1, <2>3, <2>4, <2>5, <2>7, <2>8, ReadSound
  <2>11. (\E y \in Nat : SoundWorld(y))'
    BY <1>1, <2>9, <2>10, BecomeSound
  <2>12. Forwarding'
    BY <1>1, <2>1, NotForwarding, StaysUnforwarded DEF Course
  <2>13. Resolved'
    BY <2>1, <2>9, NotResolved, StaysUnresolved DEF Course
  <2> QED BY <2>11, <2>12, <2>13 DEF Course
<1> QED BY <1>3, <1>4

\* The answer that text() takes: it is the only one, and the byte that comes next.
LEMMA AnswerTaken ==
  ASSUME NEW m, SoundWorld(m), jobs # <<>>, Head(jobs)[1] = "text",
         NEW what, what = Head(jobs)[2]
  PROVE  /\ what \in Int /\ HasJob(jobs, "text") /\ ~HasJob(Tail(jobs), "text")
         /\ rs.reader = "text" /\ rs.requests = 0
         /\ what = Done => rs.state = "closed"
         /\ what \in {Done, Error} =>
              Sound(Rest, TasksNow, text.contents, m, Streamed, Total, reads)
         /\ what \notin {Done, Error} =>
              Sound(Rest, TasksNow, Append(text.contents, what), m, Streamed, Total, reads)
<1> DEFINE q == Tail(jobs)
<1>1. /\ rs \in Streams /\ tasks \in Seq(TasksNow) /\ jobs \in Seq(Jobs) /\ got \in Seq(Int)
      /\ Ranged(jobs) /\ Asked(rs, reads) /\ Buffered(rs, m, Streamed, Total)
      /\ Alternates(rs, jobs) /\ Received(rs, jobs, got, text.contents, m)
      /\ ~rs.disturbed => ~HasRead(tasks)
      /\ m \in Nat
  BY WorldNow
<1>2. HasJob(jobs, "text") /\ q \in Seq(Jobs) /\ what \in Int
  BY <1>1, JobTaken
<1>3. OneJob(jobs, "text") /\ rs.reader = "text" /\ rs.requests = 0
  BY <1>1, <1>2 DEF Alternates
<1>4. /\ Answers(q) = {} /\ Answers(jobs) = {what}
      /\ Ranged(q) /\ what \in Error..MaxBytes
      /\ OneJob(q, "text") /\ ~HasJob(q, "text")
  BY <1>1, <1>3, AnswersTaken, JobTaken
<1>5. what = Done => rs.state = "closed"
  BY <1>1, <1>4 DEF Alternates
<1>6. Alternates(rs, q)
  BY <1>4 DEF Alternates
<1> HIDE DEF q
<1>7. what \in {Done, Error} => Received(rs, q, got, text.contents, m)
  BY <1>1, <1>3, <1>4 DEF Received, Done, Error
<1>8. ASSUME what \notin {Done, Error}
      PROVE  Received(rs, q, got, Append(text.contents, what), m)
  <2>1. what > 0
    BY <1>2, <1>4, <1>8, MaxBytesAssumption DEF Done, Error
  <2>2. m > 0 /\ text.contents = Bytes(m - 1) /\ what = m /\ got = <<>>
    BY <1>1, <1>3, <1>4, <2>1 DEF Received
  <2>3. Append(text.contents, what) = Bytes(m)
    <3>1. PICK j \in Nat : j = m - 1
      BY <1>1, <2>2
    <3>2. Append(Bytes(j), j + 1) = Bytes(j + 1)
      BY BytesProps
    <3>3. m = j + 1
      BY <1>1, <3>1
    <3> QED BY <2>2, <3>1, <3>2, <3>3
  <2> QED BY <1>3, <1>4, <2>2, <2>3 DEF Received
<1>9. Rest = WorldOf(rs, tasks, q, got)
  BY RestIs DEF q
<1>10. what \in {Done, Error} =>
         Sound(Rest, TasksNow, text.contents, m, Streamed, Total, reads)
  BY <1>1, <1>2, <1>4, <1>6, <1>7, <1>9, SoundFrom
<1>11. what \notin {Done, Error} =>
         Sound(Rest, TasksNow, Append(text.contents, what), m, Streamed, Total, reads)
  BY <1>1, <1>2, <1>4, <1>6, <1>8, <1>9, SoundFrom
<1> QED BY <1>2, <1>3, <1>4, <1>5, <1>10, <1>11 DEF q

LEMMA CourseTextReacts ==
  ASSUME Slots, Course, TextReacts
  PROVE  Course'
<1> DEFINE what == Head(jobs)[2]
<1>1. jobs # <<>> /\ Head(jobs)[1] = "text" /\ UNCHANGED <<host, fwd, reads>> /\ reads \in Nat
  BY MaxReadsAssumption DEF TextReacts, Job, Slots
<1>2. PICK m \in Nat : SoundWorld(m)
  BY <1>1, SoundNow
<1>3. /\ what \in Int /\ HasJob(jobs, "text") /\ ~HasJob(Tail(jobs), "text")
      /\ rs.reader = "text" /\ rs.requests = 0
      /\ what = Done => rs.state = "closed"
      /\ what \in {Done, Error} =>
           Sound(Rest, TasksNow, text.contents, m, Streamed, Total, reads)
      /\ what \notin {Done, Error} =>
           Sound(Rest, TasksNow, Append(text.contents, what), m, Streamed, Total, reads)
  BY <1>1, <1>2, AnswerTaken
<1>4. Reified /\ "read" \in TasksNow
  BY <1>2, WorldNow
<1>5. Rest.rs = rs /\ Rest.jobs = Tail(jobs)
  BY RestIs DEF WorldOf
<1>6. Forwarding'
  BY <1>1, <1>3, NotForwarding, StaysUnforwarded DEF Course
<1>7. /\ what = Done => Become(Rest) /\ text' = [text EXCEPT !.status = "resolved"]
      /\ what = Error => Become(Rest) /\ text' = [text EXCEPT !.status = "rejected"]
      /\ what \notin {Done, Error} =>
           Become(Read(Rest)) /\ text' = [text EXCEPT !.contents = Append(@, what)]
  BY DEF TextReacts, Done, Error
<1> HIDE DEF what
<1>8. CASE what \in {Done, Error}
  <2>1. /\ Become(Rest) /\ text'.contents = text.contents
        /\ text'.status = "resolved" => what = Done
    BY <1>7, <1>8 DEF Slots
  <2>2. (\E x \in Nat : SoundWorld(x))'
    BY <1>1, <1>2, <1>3, <1>8, <2>1, BecomeSound
  <2>3. rs' = rs /\ jobs' = Tail(jobs)
    BY <1>5, <2>1 DEF Become
  <2>4. Resolved'
    BY <1>3, <1>4, <2>1, <2>3 DEF Resolved, Reified
  <2> QED BY <1>6, <2>2, <2>4 DEF Course
<1>9. CASE what \notin {Done, Error}
  <2>1. /\ Become(Read(Rest)) /\ text'.contents = Append(text.contents, what)
        /\ text'.status = text.status
    BY <1>7, <1>9 DEF Slots
  <2>2. PICK x \in Nat :
          Sound(Read(Rest), TasksNow, Append(text.contents, what), x, Streamed, Total, reads)
    BY <1>1, <1>3, <1>4, <1>5, <1>9, ReadSound
  <2>3. (\E y \in Nat : SoundWorld(y))'
    BY <1>1, <2>1, <2>2, BecomeSound
  <2>4. Resolved'
    BY <1>3, <2>1, NotResolved, StaysUnresolved DEF Course
  <2> QED BY <1>6, <2>3, <2>4 DEF Course
<1> QED BY <1>8, <1>9


LEMMA CourseUploadReacts ==
  ASSUME Course, UploadReacts
  PROVE  Course'
BY TasksSound DEF UploadReacts

LEMMA TaskRemovedNow ==
  ASSUME tasks \in Seq(TasksNow), NEW i \in DOMAIN tasks
  PROVE  /\ RemoveAt(tasks, i) \in Seq(TasksNow)
         /\ HasRead(RemoveAt(tasks, i)) => HasRead(tasks)
<1>1. i \in 1..Len(tasks)
  OBVIOUS
<1>2. RemoveAt(tasks, i) \in Seq(TasksNow)
  BY <1>1, RemoveAtElements
<1>3. tasks \in Seq(Tasks)
  BY DEF TasksNow, Tasks
<1>4. HasRead(RemoveAt(tasks, i)) => HasRead(tasks)
  BY <1>3, TaskRemoved
<1> QED BY <1>2, <1>4

LEMMA CourseRunResponse ==
  ASSUME Course, NEW i \in DOMAIN tasks, RunResponse(i)
  PROVE  Course'
<1>1. tasks' = RemoveAt(tasks, i) /\ UNCHANGED <<host, rs, jobs, got, text, fwd, reads>>
  BY DEF RunResponse
<1> QED BY <1>1, TaskRemovedNow, TasksSound

\* Only a body that is forwarded has a task that appends it.
LEMMA Appending ==
  ASSUME Course, NEW i \in DOMAIN tasks, tasks[i] = "append"
  PROVE  fwd.on
<1>1. tasks \in Seq(TasksNow)
  BY WorldNow DEF Course, Untouched
<1>2. tasks[i] \in TasksNow
  BY <1>1
<1> QED BY <1>2 DEF TasksNow

LEMMA CourseRunAppend ==
  ASSUME Slots, Course, NEW i \in DOMAIN tasks, RunAppend(i)
  PROVE  Course'
<1>1. fwd.on /\ UNCHANGED <<rs, jobs, got, text, reads>>
  BY Appending DEF RunAppend, Task
<1>2. CASE host.taken < host.arrived
  <2>1. /\ host' = [host EXCEPT !.taken = @ + 1] /\ fwd' = [fwd EXCEPT !.bytes = @ + 1]
        /\ tasks' = tasks
    BY <1>2 DEF RunAppend
  <2>2. /\ host'.end = host.end /\ host'.arrived = host.arrived
        /\ host'.taken = host.taken + 1
        /\ fwd'.on /\ fwd'.bytes = fwd.bytes + 1
    BY <1>1, <2>1 DEF Slots, Hosts
  <2>3. TasksNow' = TasksNow /\ Streamed' = Streamed /\ Total' = Total
    BY <1>1, <2>2 DEF TasksNow, Streamed, Total
  <2>4. PICK m \in Nat : SoundWorld(m)
    BY <1>1, SoundNow
  <2>5. SoundWorld(m)'
    BY <1>1, <2>1, <2>3, <2>4 DEF SoundWorld, World
  <2>6. Forwarding'
    BY <1>1, <2>2 DEF Course, Forwarding, Reified
  <2>7. Resolved'
    BY <1>1 DEF Course, Resolved, Reified
  <2> QED BY <2>5, <2>6, <2>7 DEF Course
<1>3. CASE ~(host.taken < host.arrived)
  <2>1. tasks' = RemoveAt(tasks, i) /\ UNCHANGED <<host, fwd>>
    BY <1>3 DEF RunAppend
  <2> QED BY <1>1, <2>1, TaskRemovedNow, TasksSound
<1> QED BY <1>2, <1>3

LEMMA CourseHostReceives ==
  ASSUME Slots, Course, HostReceives
  PROVE  Course'
<1>1. /\ host'.end = host.end /\ host.end = "open" /\ host'.taken = host.taken
      /\ UNCHANGED <<rs, tasks, jobs, got, text, fwd, reads>>
  BY DEF HostReceives, Slots, Hosts
<1>2. TasksNow' = TasksNow /\ Streamed' = Streamed /\ Total' = Total
  BY <1>1 DEF TasksNow, Streamed, Total
<1>3. Forwarding' /\ Resolved'
  BY <1>1 DEF Course, Forwarding, Resolved, Reified
<1>4. Untouched => Untouched'
  BY <1>1, <1>2 DEF Untouched, Blank
<1>5. ASSUME NEW m \in Nat, SoundWorld(m)
      PROVE  SoundWorld(m)'
  BY <1>1, <1>2, <1>5 DEF SoundWorld, World
<1> QED BY <1>3, <1>4, <1>5 DEF Course

\* How many bytes there are is known at the end; before, no stream has had them all.
LEMMA CourseHostEnds ==
  ASSUME Slots, Course, HostEnds
  PROVE  Course'
<1>1. /\ host.end = "open" /\ host'.taken = host.taken
      /\ UNCHANGED <<rs, tasks, jobs, got, text, fwd, reads>>
  BY DEF HostEnds, Slots, Hosts
<1>2. TasksNow' = TasksNow /\ Streamed' = Streamed /\ Total = MaxBytes + 1
  BY <1>1 DEF TasksNow, Streamed, Total
<1>3. Forwarding' /\ Resolved'
  BY <1>1 DEF Course, Forwarding, Resolved, Reified
<1>4. Untouched => Untouched'
  BY <1>1, <1>2 DEF Untouched, Blank
<1>5. ASSUME NEW m \in Nat, SoundWorld(m)
      PROVE  SoundWorld(m)'
  <2>1. /\ rs \in Streams /\ tasks \in Seq(TasksNow) /\ jobs \in Seq(Jobs) /\ got \in Seq(Int)
        /\ Ranged(jobs) /\ Asked(rs, reads) /\ Buffered(rs, m, Streamed, Total)
        /\ Alternates(rs, jobs) /\ Received(rs, jobs, got, text.contents, m)
        /\ ~rs.disturbed => ~HasRead(tasks)
    BY <1>5, WorldNow
  <2>2. Streamed # Total
    BY <1>2, <2>1, MaxBytesAssumption DEF Buffered
  <2>3. Buffered(rs, m, Streamed, Total')
    BY <2>1, <2>2 DEF Buffered
  <2>4. Sound(WorldOf(rs, tasks, jobs, got), TasksNow, text.contents, m, Streamed, Total', reads)
    BY <2>1, <2>3, SoundFrom
  <2>5. World' = WorldOf(rs, tasks, jobs, got)
    BY <1>1 DEF World, WorldOf
  <2> QED BY <1>1, <1>2, <2>4, <2>5 DEF SoundWorld
<1> QED BY <1>3, <1>4, <1>5 DEF Course


\* A task that reads the host runs for a stream that was read.
LEMMA ReadRuns ==
  ASSUME Slots, Course, NEW i \in DOMAIN tasks, RunRead(i), NEW m \in Nat, SoundWorld(m),
         NEW w, w = [World EXCEPT !.tasks = RemoveAt(@, i)]
  PROVE  /\ Sound(w, TasksNow, text.contents, m, host.taken, Total, reads)
         /\ w.rs = rs /\ w.jobs = jobs /\ jobs = <<>>
         /\ rs.disturbed /\ ~fwd.on /\ fwd.bytes = 0
<1>1. tasks[i] = "read" /\ jobs = <<>> /\ HasRead(tasks)
  BY DEF RunRead, Task, HasRead
<1>2. /\ World = WorldOf(rs, tasks, jobs, got)
      /\ rs \in Streams /\ tasks \in Seq(TasksNow) /\ jobs \in Seq(Jobs) /\ got \in Seq(Int)
      /\ Ranged(jobs) /\ Asked(rs, reads) /\ Buffered(rs, m, Streamed, Total)
      /\ Alternates(rs, jobs) /\ Received(rs, jobs, got, text.contents, m)
      /\ ~rs.disturbed => ~HasRead(tasks)
  BY WorldNow
<1>3. rs.disturbed
  BY <1>1, <1>2
<1>4. ~fwd.on /\ fwd.bytes = 0 /\ Streamed = host.taken
  BY <1>3, NotForwarding DEF Course, Streamed
<1>5. RemoveAt(tasks, i) \in Seq(TasksNow)
  BY <1>2, TaskRemovedNow
<1>6. w = WorldOf(rs, RemoveAt(tasks, i), jobs, got)
  BY DEF World, WorldOf
<1>7. Sound(w, TasksNow, text.contents, m, host.taken, Total, reads)
  <2> DEFINE t == RemoveAt(tasks, i)
  <2>1. t \in Seq(TasksNow)
    BY <1>5
  <2> HIDE DEF t
  <2>2. Sound(WorldOf(rs, t, jobs, got), TasksNow, text.contents, m, Streamed, Total, reads)
    BY <1>2, <1>3, <2>1, SoundFrom
  <2> QED BY <1>4, <1>6, <2>2 DEF t
<1>8. w.rs = rs /\ w.jobs = jobs
  BY <1>6 DEF WorldOf
<1> QED BY <1>1, <1>3, <1>4, <1>7, <1>8

LEMMA BecomeSoundNext ==
  ASSUME NEW w, NEW m \in Nat, Become(w),
         Sound(w, TasksNow', text.contents', m, Streamed', Total', reads')
  PROVE  (\E x \in Nat : SoundWorld(x))'
<1>1. w = WorldOf(w.rs, w.tasks, w.jobs, w.got)
  BY SoundParts
<1>2. World' = w
  BY <1>1 DEF Become, World, WorldOf
<1>3. SoundWorld(m)'
  BY <1>2 DEF SoundWorld
<1> QED BY <1>3

\* A byte comes for a stream that takes none any more: it was cancelled, or errored.
LEMMA ByteLost ==
  ASSUME NEW w, NEW K, NEW c, NEW m \in Nat, NEW n \in Nat, NEW z \in Nat, NEW k,
         Sound(w, K, c, m, n, z, k),
         w.rs.disturbed, ~CanCloseOrEnqueue(w), n < z, n < MaxBytes, NEW j, j = n + 1
  PROVE  ControllerError(w) = w /\ Sound(w, K, c, m, j, z, k)
<1>1. /\ w = WorldOf(w.rs, w.tasks, w.jobs, w.got)
      /\ w.rs \in Streams /\ w.tasks \in Seq(K) /\ w.jobs \in Seq(Jobs) /\ w.got \in Seq(Int)
      /\ Ranged(w.jobs) /\ Asked(w.rs, k) /\ Buffered(w.rs, m, n, z)
      /\ Alternates(w.rs, w.jobs) /\ Received(w.rs, w.jobs, w.got, c, m)
      /\ ~w.rs.disturbed => ~HasRead(w.tasks)
  BY SoundParts
<1>2. w.rs.state # "readable"
  BY <1>1 DEF CanCloseOrEnqueue, Buffered
<1>3. Buffered(w.rs, m, j, z)
  <2>1. m <= n /\ ~(w.rs.reader = "text" /\ w.rs.state = "closed")
    BY <1>1 DEF Buffered
  <2>2. j \in 0..MaxBytes /\ m <= j
    BY <2>1, MaxBytesAssumption
  <2> QED BY <1>2, <2>1, <2>2 DEF Buffered
<1>4. Sound(w, K, c, m, j, z, k)
  BY <1>1, <1>3, SoundFrom
<1>5. ControllerError(w) = w
  BY <1>2 DEF ControllerError
<1> QED BY <1>4, <1>5

LEMMA CourseRunRead ==
  ASSUME Slots, Course, NEW i \in DOMAIN tasks, RunRead(i)
  PROVE  Course'
<1> DEFINE w == [World EXCEPT !.tasks = RemoveAt(@, i)]
           byte == host.taken + 1
<1>1. UNCHANGED <<text, fwd, reads>> /\ reads \in Nat
  BY MaxReadsAssumption DEF RunRead, Slots
<1>2. PICK m \in Nat : SoundWorld(m)
  BY SoundNow DEF RunRead, Task, HasRead
<1>3. /\ Sound(w, TasksNow, text.contents, m, host.taken, Total, reads)
      /\ w.rs = rs /\ w.jobs = jobs /\ jobs = <<>>
      /\ rs.disturbed /\ ~fwd.on /\ fwd.bytes = 0
  BY <1>2, ReadRuns
<1>4. Reified /\ "read" \in TasksNow
  BY <1>2, WorldNow
<1>5. /\ host.taken \in Nat /\ host.arrived \in Nat /\ host.taken <= host.arrived
      /\ host.arrived <= MaxBytes /\ Total \in Nat
      /\ host.taken < host.arrived => host.taken < Total
      /\ host.end = "closed" => Total = host.arrived
  BY MaxBytesAssumption DEF Slots, Hosts, Total
<1>6. Forwarding'
  BY <1>1, <1>3, StaysUnforwarded
<1>7. \/ /\ host.taken < host.arrived /\ host' = [host EXCEPT !.taken = byte]
         /\ Become(IF CanCloseOrEnqueue(w) THEN Enqueue(w, byte) ELSE ControllerError(w))
      \/ Become(ControllerError(w)) /\ UNCHANGED host
      \/ /\ host.taken = host.arrived /\ host.end = "closed" /\ UNCHANGED host
         /\ Become(IF CanCloseOrEnqueue(w) THEN ControllerClose(w) ELSE w)
  BY DEF RunRead
<1> HIDE DEF w, byte
<1>8. (\E x \in Nat : SoundWorld(x))'
  <2>1. CASE /\ host.taken < host.arrived /\ host' = [host EXCEPT !.taken = byte]
             /\ Become(IF CanCloseOrEnqueue(w) THEN Enqueue(w, byte) ELSE ControllerError(w))
    <3>1. TasksNow' = TasksNow /\ Streamed' = byte /\ Total' = Total
      <4>1. host'.taken = byte /\ host'.end = host.end /\ host'.arrived = host.arrived
        BY <2>1 DEF Slots, Hosts
      <4> QED BY <1>1, <1>3, <4>1 DEF TasksNow, Streamed, Total
    <3>2. byte = host.taken + 1 /\ host.taken < MaxBytes
      BY <1>5, <2>1, MaxBytesAssumption DEF byte
    <3>3. CASE CanCloseOrEnqueue(w)
      <4>1. PICK x \in Nat : Sound(Enqueue(w, byte), TasksNow, text.contents, x, byte, Total, reads)
        BY <1>1, <1>3, <1>4, <3>2, <3>3, EnqueueSound
      <4> QED BY <1>1, <2>1, <3>1, <3>3, <4>1, BecomeSoundNext
    <3>4. CASE ~CanCloseOrEnqueue(w)
      <4>1. ControllerError(w) = w /\ Sound(w, TasksNow, text.contents, m, byte, Total, reads)
        BY <1>3, <1>5, <2>1, <3>2, <3>4, ByteLost
      <4> QED BY <1>1, <2>1, <3>1, <3>4, <4>1, BecomeSoundNext
    <3> QED BY <3>3, <3>4
  <2>2. ASSUME UNCHANGED host
        PROVE  Streamed = host.taken /\ UNCHANGED <<host, fwd, text, reads>>
    BY <1>1, <1>3, <2>2 DEF Streamed
  <2>3. CASE Become(ControllerError(w)) /\ UNCHANGED host
    <3>1. Sound(ControllerError(w), TasksNow, text.contents, m, host.taken, Total, reads)
      BY <1>1, <1>3, ErrorSound
    <3> QED BY <2>2, <2>3, <3>1, BecomeSound
  <2>4. CASE /\ host.taken = host.arrived /\ host.end = "closed" /\ UNCHANGED host
             /\ Become(IF CanCloseOrEnqueue(w) THEN ControllerClose(w) ELSE w)
    <3>1. host.taken = Total
      BY <1>5, <2>4
    <3>2. CASE CanCloseOrEnqueue(w)
      <4>1. Sound(ControllerClose(w), TasksNow, text.contents, m, host.taken, Total, reads)
        BY <1>1, <1>3, <3>1, <3>2, ControllerCloseSound
      <4> QED BY <2>2, <2>4, <3>2, <4>1, BecomeSound
    <3>3. CASE ~CanCloseOrEnqueue(w)
      BY <1>3, <2>2, <2>4, <3>3, BecomeSound
    <3> QED BY <3>2, <3>3
  <2> QED BY <1>7, <2>1, <2>3, <2>4
\* Once text() has the body, the stream is closed and takes nothing.
<1>9. Resolved'
  <2>1. CASE text.status = "resolved"
    <3>1. rs.reader = "text" /\ rs.state = "closed" /\ ~HasJob(jobs, "text")
      BY <2>1 DEF Course, Resolved
    <3>2. ~CanCloseOrEnqueue(w) /\ ControllerError(w) = w
      BY <1>3, <3>1 DEF CanCloseOrEnqueue, ControllerError
    <3>3. Become(w)
      BY <1>7, <3>2
    <3>4. rs' = rs /\ jobs' = jobs
      BY <1>3, <3>3 DEF Become
    <3> QED BY <1>4, <3>1, <3>4 DEF Resolved, Reified
  <2>2. CASE text.status # "resolved"
    BY <1>1, <2>2, StaysUnresolved
  <2> QED BY <2>1, <2>2
<1> QED BY <1>6, <1>8, <1>9 DEF Course


-----------------------------------------------------------------------------
(* The invariant. *)

LEMMA HostAndOverlapStep ==
  ASSUME host \in Hosts, overlap \in BOOLEAN, Next
  PROVE  host' \in Hosts /\ overlap' \in BOOLEAN /\ (overlap => overlap')
<1>1. overlap' \in BOOLEAN /\ (overlap => overlap')
  <2>1. overlap' = overlap \/ overlap' = (overlap \/ rs.requests > 0)
    BY DEF Next, Content, RunJob, RunTask, BodyGet, GetReader, UserReads, ReleaseLock, Cancel,
           Text, Respond, Fetch, Started, Pulled, Consume, TextReacts, UploadReacts, RunRead,
           RunAppend, RunResponse, HostReceives, HostEnds
  <2> QED BY <2>1
<1>2. \/ host' = host
      \/ host' = [host EXCEPT !.taken = host.taken + 1]
      \/ host' = [host EXCEPT !.arrived = @ + 1]
      \/ \E end \in {"closed", "broken"} : host' = [host EXCEPT !.end = end]
  BY DEF Next, Content, RunJob, RunTask, BodyGet, GetReader, UserReads, ReleaseLock, Cancel,
         Text, Respond, Fetch, Started, Pulled, Consume, TextReacts, UploadReacts, RunRead,
         RunAppend, RunResponse, HostReceives, HostEnds, vars1
<1>3. host' \in Hosts
  BY <1>2 DEF Hosts
<1> QED BY <1>1, <1>3

LEMMA Initially ==
  ASSUME Init
  PROVE  Inv
<1>1. host \in Hosts
  BY DEF Init, Hosts
<1>2. tasks \in Seq(Tasks) /\ ~HasRead(tasks)
  BY DEF Init, HasRead
<1>3. Blank
  BY <1>2 DEF Init, Blank
<1> QED BY <1>1, <1>3 DEF Init, Inv

LEMMA StepKeeps ==
  ASSUME Kept, host \in Hosts, Next, ~overlap'
  PROVE  Kept'
<1>1. CASE Content
  BY <1>1, KeptBodyGet, KeptGetReader, KeptUserReads, KeptReleaseLock, KeptCancel, KeptText,
     KeptRespond, KeptFetch DEF Content
<1>2. CASE RunJob
  BY <1>2, KeptStarted, KeptPulled, KeptConsume, KeptTextReacts DEF RunJob
<1>3. CASE RunTask
  BY <1>3, KeptRunRead, KeptOtherTasks DEF RunTask
<1>4. CASE UploadReacts
  <2>1. loop' # "failed" /\ UNCHANGED <<rs, tasks, jobs, got>>
    BY <1>4 DEF UploadReacts, Kept
  <2>2. (Blank \/ Quiet(World))'
    BY <2>1, KeptTasks DEF Kept
  <2> QED BY <2>1, <2>2 DEF Kept
<1>5. CASE HostReceives \/ HostEnds
  <2>1. loop' = loop /\ UNCHANGED <<rs, tasks, jobs, got>>
    BY <1>5 DEF HostReceives, HostEnds
  <2>2. (Blank \/ Quiet(World))'
    BY <2>1, KeptTasks DEF Kept
  <2> QED BY <2>1, <2>2 DEF Kept
<1> QED BY <1>1, <1>2, <1>3, <1>4, <1>5 DEF Next

\* Every step keeps the invariant: what a read needs to be answered is there
\* until content makes two reads overlap.
THEOREM BodyReadInvariance == Spec => []Inv
<1>1. Init => Inv
  BY Initially
<1>2. Inv /\ [Next]_vars => Inv'
  <2>1. CASE Inv /\ Next
    <3>1. host' \in Hosts /\ overlap' \in BOOLEAN /\ (overlap => overlap')
      BY <2>1, HostAndOverlapStep DEF Inv
    <3>2. ~overlap' => Kept'
      BY <2>1, <3>1, StepKeeps DEF Inv, Kept
    <3> QED BY <3>1, <3>2 DEF Inv, Kept
  <2>2. CASE Inv /\ UNCHANGED vars
    BY <2>2 DEF Inv, Blank, World, vars
  <2> QED BY <2>1, <2>2
<1> QED BY <1>1, <1>2, PTL DEF Spec

\* The loop ends because of a read of a body (BodyFutureTask::run that returns
\* false) only if content read again, or cancelled, before it had the answer.
THEOREM NoReadEndsTheLoop == Spec => []FailureTakesOverlap
<1>1. Inv => FailureTakesOverlap
  BY DEF Inv, FailureTakesOverlap
<1> QED BY <1>1, BodyReadInvariance, PTL

-----------------------------------------------------------------------------
(* The invariant of the bytes. *)

\* The rest of the state: each part changes in few ways.
LEMMA HostSlot ==
  ASSUME Slots, Next
  PROVE  host' \in Hosts /\ host'.taken <= host'.arrived /\ host'.arrived <= MaxBytes
<1>1. \/ host' = host
      \/ host.taken < host.arrived /\ host' = [host EXCEPT !.taken = host.taken + 1]
      \/ host.arrived < MaxBytes /\ host' = [host EXCEPT !.arrived = host.arrived + 1]
      \/ \E end \in {"closed", "broken"} : host' = [host EXCEPT !.end = end]
  BY DEF Next, Content, RunJob, RunTask, BodyGet, GetReader, UserReads, ReleaseLock, Cancel,
         Text, Respond, Fetch, Started, Pulled, Consume, TextReacts, UploadReacts, RunRead,
         RunAppend, RunResponse, HostReceives, HostEnds, vars1
<1> QED BY <1>1, MaxBytesAssumption DEF Slots, Hosts

LEMMA TextSlot ==
  ASSUME Slots, Course, Next
  PROVE  text' \in [status : {"none", "pending", "resolved", "rejected"}, contents : Seq(Int)]
<1>1. CASE TextReacts
  <2>1. jobs # <<>> /\ jobs \in Seq(Jobs)
    BY <1>1, SoundNow, WorldNow DEF TextReacts, Job
  <2>2. Head(jobs)[2] \in Int
    BY <2>1, JobTaken
  <2>3. \/ \E s \in {"resolved", "rejected"} : text' = [text EXCEPT !.status = s]
        \/ text' = [text EXCEPT !.contents = Append(text.contents, Head(jobs)[2])]
    BY <1>1 DEF TextReacts
  <2>4. Append(text.contents, Head(jobs)[2]) \in Seq(Int)
    BY <2>2 DEF Slots
  <2>5. /\ \A s \in {"resolved", "rejected"} :
             [text EXCEPT !.status = s] \in
               [status : {"none", "pending", "resolved", "rejected"}, contents : Seq(Int)]
        /\ \A c \in Seq(Int) :
             [text EXCEPT !.contents = c] \in
               [status : {"none", "pending", "resolved", "rejected"}, contents : Seq(Int)]
    BY DEF Slots
  <2> QED BY <2>3, <2>4, <2>5
<1>2. CASE ~TextReacts
  <2>1. text' = text \/ \E s \in {"pending", "rejected"} : text' = [text EXCEPT !.status = s]
    BY <1>2 DEF Next, Content, RunJob, RunTask, BodyGet, GetReader, UserReads, ReleaseLock,
         Cancel, Text, Respond, Fetch, Started, Pulled, Consume, UploadReacts, RunRead,
         RunAppend, RunResponse, HostReceives, HostEnds, vars1
  <2> QED BY <2>1 DEF Slots
<1> QED BY <1>1, <1>2

LEMMA FwdSlot ==
  ASSUME Slots, Next
  PROVE  fwd' \in [on : BOOLEAN, bytes : Nat] /\ bodyUsed' \in BOOLEAN
<1>1. \/ fwd' = fwd \/ fwd' = [fwd EXCEPT !.on = TRUE] \/ fwd' = [fwd EXCEPT !.bytes = @ + 1]
  BY DEF Next, Content, RunJob, RunTask, BodyGet, GetReader, UserReads, ReleaseLock, Cancel,
         Text, Respond, Fetch, AppendBody, Started, Pulled, Consume, TextReacts, UploadReacts,
         RunRead, RunAppend, RunResponse, HostReceives, HostEnds, vars1
<1>2. bodyUsed' \in {bodyUsed, TRUE}
  BY DEF Next, Content, RunJob, RunTask, BodyGet, GetReader, UserReads, ReleaseLock, Cancel,
         Text, Respond, Fetch, AppendBody, Started, Pulled, Consume, TextReacts, UploadReacts,
         RunRead, RunAppend, RunResponse, HostReceives, HostEnds, vars1
<1>3. fwd' \in [on : BOOLEAN, bytes : Nat]
  <2>1. fwd \in [on : BOOLEAN, bytes : Nat] /\ fwd.bytes + 1 \in Nat
    BY DEF Slots
  <2>2. [fwd EXCEPT !.on = TRUE] \in [on : BOOLEAN, bytes : Nat]
    BY <2>1
  <2>3. [fwd EXCEPT !.bytes = @ + 1] \in [on : BOOLEAN, bytes : Nat]
    BY <2>1
  <2> QED BY <1>1, <2>1, <2>2, <2>3
<1>4. bodyUsed' \in BOOLEAN
  BY <1>2 DEF Slots
<1> QED BY <1>3, <1>4

LEMMA FetchSlot ==
  ASSUME Slots, Next
  PROVE  /\ fetch' \in [status : {"none", "pending", "settled"},
                        body : {"none", "written", "incoming", "content", "failed"}]
         /\ loop' \in {"running", "failed", "crashed"}
<1>1. \/ fetch' = fetch
      \/ \E body \in {"written", "incoming", "content"} :
           fetch' = [status |-> "pending", body |-> body]
      \/ fetch' = [fetch EXCEPT !.status = "settled"]
      \/ fetch' = [fetch EXCEPT !.body = "failed"]
  BY DEF Next, Content, RunJob, RunTask, BodyGet, GetReader, UserReads, ReleaseLock, Cancel,
         Text, Respond, Fetch, Started, Pulled, Consume, TextReacts, UploadReacts, RunRead,
         RunAppend, RunResponse, HostReceives, HostEnds, vars1
<1>2. loop' \in {loop, "failed", "crashed"}
  BY DEF Next, Content, RunJob, RunTask, BodyGet, GetReader, UserReads, ReleaseLock, Cancel,
         Text, Respond, Fetch, Started, Pulled, Consume, TextReacts, UploadReacts, RunRead,
         RunAppend, RunResponse, HostReceives, HostEnds, vars1
<1> QED BY <1>1, <1>2 DEF Slots

LEMMA ReadsSlot ==
  ASSUME Slots, Next
  PROVE  reads' \in 0..MaxReads
<1>1. reads' = reads \/ (reads < MaxReads /\ reads' = reads + 1)
  BY DEF Next, Content, RunJob, RunTask, BodyGet, GetReader, UserReads, ReleaseLock, Cancel,
         Text, Respond, Fetch, Started, Pulled, Consume, TextReacts, UploadReacts, RunRead,
         RunAppend, RunResponse, HostReceives, HostEnds, vars1
<1> QED BY <1>1, MaxReadsAssumption DEF Slots

LEMMA BytesInitially ==
  ASSUME Init
  PROVE  ByteInv
<1>1. Slots
  <2>1. host \in Hosts /\ host.taken <= host.arrived /\ host.arrived <= MaxBytes
    BY MaxBytesAssumption DEF Init, Hosts
  <2>2. text \in [status : {"none", "pending", "resolved", "rejected"}, contents : Seq(Int)]
    <3>1. <<>> \in Seq(Int)
      OBVIOUS
    <3> QED BY <3>1 DEF Init
  <2>3. bodyUsed \in BOOLEAN /\ overlap \in BOOLEAN
    BY DEF Init
  <2>4. fwd \in [on : BOOLEAN, bytes : Nat]
    BY DEF Init
  <2>5. /\ fetch \in [status : {"none", "pending", "settled"},
                      body : {"none", "written", "incoming", "content", "failed"}]
        /\ loop \in {"running", "failed", "crashed"}
        /\ reads \in 0..MaxReads
    BY MaxReadsAssumption DEF Init
  <2> QED BY <2>1, <2>2, <2>3, <2>4, <2>5 DEF Slots
<1>2. tasks \in Seq(TasksNow) /\ tasks \in Seq(Tasks) /\ ~HasRead(tasks)
  BY DEF Init, HasRead
<1>3. Untouched
  BY <1>2 DEF Init, Untouched, Blank
<1>4. Forwarding /\ Resolved
  BY DEF Init, Forwarding, Resolved
<1> QED BY <1>1, <1>3, <1>4 DEF ByteInv, Course

LEMMA ByteStep ==
  ASSUME Slots, Course, Next
  PROVE  Course'
<1>1. CASE Content
  BY <1>1, CourseBodyGet, CourseGetReader, CourseUserReads, CourseReleaseLock, CourseCancel,
     CourseText, CourseRespond, CourseFetch DEF Content
<1>2. CASE RunJob
  BY <1>2, CourseStarted, CoursePulled, CourseConsume, CourseTextReacts DEF RunJob
<1>3. CASE RunTask
  BY <1>3, CourseRunRead, CourseRunAppend, CourseRunResponse DEF RunTask
<1>4. CASE UploadReacts \/ HostReceives \/ HostEnds
  BY <1>4, CourseUploadReacts, CourseHostReceives, CourseHostEnds
<1> QED BY <1>1, <1>2, <1>3, <1>4 DEF Next

LEMMA ByteStutter ==
  ASSUME ByteInv, UNCHANGED vars
  PROVE  ByteInv'
<1>1. Slots' /\ Forwarding' /\ Resolved'
  BY DEF ByteInv, Course, Slots, Forwarding, Resolved, Reified, vars
<1>2. TasksNow' = TasksNow /\ Streamed' = Streamed /\ Total' = Total
  BY DEF TasksNow, Streamed, Total, vars
<1>3. Untouched => Untouched'
  BY <1>2 DEF Untouched, Blank, vars
<1>4. ASSUME NEW m \in Nat, SoundWorld(m)
      PROVE  SoundWorld(m)'
  BY <1>2, <1>4 DEF SoundWorld, World, vars
<1> QED BY <1>1, <1>3, <1>4 DEF ByteInv, Course

\* Every step keeps what there is to say of the bytes, however reads, tasks and
\* jobs come between each other.
THEOREM ByteInvariance == Spec => []ByteInv
<1>1. Init => ByteInv
  BY BytesInitially
<1>2. ByteInv /\ [Next]_vars => ByteInv'
  <2>1. CASE ByteInv /\ Next
    <3>1. Slots /\ Course
      BY <2>1 DEF ByteInv
    <3>2. overlap' \in BOOLEAN
      BY <2>1, <3>1, HostAndOverlapStep DEF Slots
    <3>3. Slots'
      BY <2>1, <3>1, <3>2, HostSlot, TextSlot, FwdSlot, FetchSlot, ReadsSlot DEF Slots
    <3>4. Course'
      BY <2>1, <3>1, ByteStep
    <3> QED BY <3>3, <3>4 DEF ByteInv
  <2>2. CASE ByteInv /\ UNCHANGED vars
    BY <2>2, ByteStutter
  <2> QED BY <2>1, <2>2
<1> QED BY <1>1, <1>2, PTL DEF Spec

\* What has come out of the stream, in the order of the readers.
LEMMA OutIs ==
  ASSUME NEW m, SoundWorld(m)
  PROVE  got \o text.contents \o InFlight = Bytes(m)
<1>1. jobs \in Seq(Jobs) /\ Alternates(rs, jobs) /\ m \in Nat
      /\ Received(rs, jobs, got, text.contents, m)
  BY WorldNow
<1>2. OneJob(jobs, "text")
  BY <1>1 DEF Alternates
<1>3. Bytes(m) \in Seq(Int)
  BY <1>1, BytesProps
<1>4. CASE rs.reader # "text"
  <2>1. Answers(jobs) = {}
    BY <1>1, <1>4, NoAnswers DEF Alternates
  <2>2. InFlight = <<>>
    BY <1>1, <1>2, <2>1, InFlightIs DEF InFlight
  <2>3. got = Bytes(m) /\ text.contents = <<>>
    BY <1>1, <1>4 DEF Received
  <2> QED BY <1>3, <2>2, <2>3
<1>5. CASE rs.reader = "text" /\ text.contents = Bytes(m) /\ \A a \in Answers(jobs) : ~(a > 0)
  <2>1. InFlight = <<>>
    BY <1>1, <1>2, <1>5, InFlightIs DEF InFlight
  <2>2. got = <<>>
    BY <1>1, <1>5 DEF Received
  <2> QED BY <1>3, <1>5, <2>1, <2>2
<1>6. CASE rs.reader = "text" /\ m > 0 /\ text.contents = Bytes(m - 1) /\ Answers(jobs) = {m}
  <2>1. InFlight = <<m>>
    BY <1>1, <1>2, <1>6, InFlightIs DEF InFlight
  <2>2. got = <<>>
    BY <1>1, <1>6 DEF Received
  <2>3. PICK j \in Nat : j = m - 1
    BY <1>1, <1>6
  <2>4. Bytes(j) \in Seq(Int) /\ Append(Bytes(j), j + 1) = Bytes(j + 1)
    BY BytesProps
  <2>5. m = j + 1
    BY <1>1, <2>3
  <2>6. Bytes(j) \o <<m>> = Bytes(m)
    BY <1>1, <2>4, <2>5
  <2> QED BY <1>6, <2>1, <2>2, <2>3, <2>4, <2>6
<1> QED BY <1>1, <1>4, <1>5, <1>6 DEF Received

\* The bytes that the host gives away are all forwarded, or all go through the
\* stream, and those come out in order and once, however many tasks read the host.
THEOREM BytesHaveOneConsumer == Spec => []OneConsumer
<1>1. ByteInv => OneConsumer
  <2> SUFFICES ASSUME ByteInv
               PROVE  OneConsumer
    OBVIOUS
  <2> DEFINE out == got \o text.contents \o InFlight
             forwarded == fwd.bytes > 0 \/ (fwd.on /\ host.taken > 0)
  <2>1. host.taken \in Nat /\ Forwarding /\ (Untouched \/ \E m \in Nat : SoundWorld(m))
    BY DEF ByteInv, Slots, Hosts, Course
  <2>2. CASE Untouched
    <3>1. got = <<>> /\ text.contents = <<>> /\ jobs = <<>> /\ host.taken = 0 /\ ~fwd.on
      BY <2>2 DEF Untouched, Blank
    <3>2. InFlight = <<>>
      <4>1. <<>> \in Seq(Jobs) /\ OneJob(<<>>, "text") /\ Answers(<<>>) = {}
        BY DEF OneJob, Answers
      <4> QED BY <3>1, <4>1, InFlightIs DEF InFlight
    <3>3. out = <<>> /\ Bytes(0) = <<>> /\ IsPrefix(Bytes(0), Bytes(0))
      BY <3>1, <3>2, BytesProps, BytesSpan
    <3>4. ~forwarded
      BY <2>1, <3>1 DEF Forwarding
    <3>5. ~Reified
      BY <2>2 DEF Untouched, Blank, Reified, NoStream
    <3> QED BY <3>1, <3>3, <3>4, <3>5 DEF OneConsumer
  <2>3. CASE \E m \in Nat : SoundWorld(m)
    <3>1. PICK m \in Nat : SoundWorld(m)
      BY <2>3
    <3>2. out = Bytes(m)
      BY <3>1, OutIs
    <3>3. /\ Buffered(rs, m, Streamed, Total) /\ Streamed \in Nat /\ m <= Streamed
      BY <3>1, WorldNow DEF Buffered
    <3>4. IsPrefix(Bytes(m), Bytes(Streamed)) /\ Bytes(m) \o Span(m, Streamed) = Bytes(Streamed)
      BY <3>3, BytesSpan
    <3>5. rs.state = "readable" => out \o rs.queue = Bytes(Streamed)
      BY <3>2, <3>3, <3>4 DEF Buffered
    <3>6. CASE forwarded
      <4>1. fwd.on /\ fwd.bytes = host.taken /\ ~rs.disturbed
        BY <2>1, <3>6 DEF Forwarding
      <4>2. m = 0 /\ Bytes(0) = <<>>
        BY <3>3, <4>1, BytesProps DEF Buffered
      <4> QED BY <3>2, <3>6, <4>1, <4>2 DEF OneConsumer
    <3>7. CASE ~forwarded
      <4>1. Streamed = host.taken
        BY <2>1, <3>7 DEF Streamed
      <4> QED BY <3>2, <3>4, <3>5, <3>7, <4>1 DEF OneConsumer
    <3> QED BY <3>6, <3>7
  <2> QED BY <2>1, <2>2, <2>3
<1> QED BY <1>1, ByteInvariance, PTL

\* text() gives the body or nothing: when it resolves, every byte was read by it
\* and the host said that the body is at its end.
THEOREM TextGivesTheBody == Spec => []TextIsWhole
<1>1. ByteInv => TextIsWhole
  <2> SUFFICES ASSUME ByteInv, text.status = "resolved"
               PROVE  text.contents = Bytes(host.arrived) /\ host.end = "closed" /\ got = <<>>
    BY DEF TextIsWhole
  <2>1. Reified /\ rs.reader = "text" /\ rs.state = "closed" /\ ~HasJob(jobs, "text")
    BY DEF ByteInv, Course, Resolved
  <2>2. PICK m \in Nat : SoundWorld(m)
    BY <2>1, SoundNow DEF ByteInv
  <2>3. Buffered(rs, m, Streamed, Total) /\ Received(rs, jobs, got, text.contents, m)
    BY <2>2, WorldNow
  <2>4. m = Total /\ m <= MaxBytes
    BY <2>1, <2>3, MaxBytesAssumption DEF Buffered
  <2>5. host.end = "closed" /\ m = host.arrived
    BY <2>4, MaxBytesAssumption DEF Total
  <2>6. Answers(jobs) = {}
    BY <2>1, NoAnswers
  <2>7. text.contents = Bytes(m) /\ got = <<>>
    BY <2>1, <2>3, <2>6 DEF Received
  <2> QED BY <2>5, <2>7
<1> QED BY <1>1, ByteInvariance, PTL

LEMMA BytesInRange ==
  ASSUME NEW m \in Nat, m <= MaxBytes
  PROVE  Bytes(m) \in Seq(1..MaxBytes)
<1>1. \A i \in 1..m : i \in 1..MaxBytes
  BY MaxBytesAssumption
<1> QED BY <1>1 DEF Bytes

LEMMA SpanInRange ==
  ASSUME NEW m \in Nat, NEW n \in Nat, m <= n, n <= MaxBytes
  PROVE  Span(m, n) \in Seq(1..MaxBytes)
<1>1. n - m \in Nat /\ \A i \in 1..(n - m) : m + i \in 1..MaxBytes
  BY MaxBytesAssumption
<1> QED BY <1>1 DEF Span

\* The shape of the state, for any number of bytes and reads.
THEOREM StateHasItsShape == Spec => []TypeOK
<1>1. ByteInv => TypeOK
  <2> SUFFICES ASSUME ByteInv
               PROVE  TypeOK
    OBVIOUS
  <2>1. Slots /\ Forwarding /\ (Untouched \/ \E m \in Nat : SoundWorld(m))
    BY DEF ByteInv, Course
  <2>2. /\ host.arrived \in 0..MaxBytes /\ host.taken \in 0..host.arrived
        /\ host.end \in {"open", "closed", "broken"}
        /\ fetch.status \in {"none", "pending", "settled"}
        /\ loop \in {"running", "failed", "crashed"}
    BY <2>1, MaxBytesAssumption DEF Slots, Hosts
  <2>3. bodyUsed \in BOOLEAN /\ reads \in 0..MaxReads /\ overlap \in BOOLEAN
    BY <2>1 DEF Slots
  <2>4. fwd \in [on : BOOLEAN, bytes : 0..MaxBytes]
    <3>1. fwd.bytes \in 0..MaxBytes
      BY <2>1, <2>2, MaxBytesAssumption DEF Forwarding, Slots
    <3> QED BY <2>1, <3>1 DEF Slots
  <2>5. /\ rs = NoStream \/ IsStream(rs)
        /\ tasks \in Seq(Tasks)
        /\ jobs \in Seq({"started", "pulled", "consume", "text"} \X (Error..MaxBytes))
        /\ got \in Seq(1..MaxBytes) /\ text.contents \in Seq(1..MaxBytes)
    <3>1. CASE Untouched
      BY <3>1 DEF Untouched, Blank
    <3>2. CASE \E m \in Nat : SoundWorld(m)
      <4>1. PICK m \in Nat : SoundWorld(m)
        BY <3>2
      <4>2. /\ rs \in Streams /\ tasks \in Seq(TasksNow) /\ jobs \in Seq(Jobs)
            /\ Ranged(jobs) /\ Asked(rs, reads) /\ Buffered(rs, m, Streamed, Total)
            /\ Received(rs, jobs, got, text.contents, m)
        BY <4>1, WorldNow
      <4>3. Streamed \in Nat /\ m <= Streamed /\ Streamed <= MaxBytes /\ m <= MaxBytes
        BY <4>2, MaxBytesAssumption DEF Buffered
      <4>4. tasks \in Seq(Tasks)
        BY <4>2 DEF TasksNow, Tasks
      <4>5. jobs \in Seq({"started", "pulled", "consume", "text"} \X (Error..MaxBytes))
        <5> DEFINE S == {"started", "pulled", "consume", "text"} \X (Error..MaxBytes)
        <5>1. \A i \in 1..Len(jobs) : jobs[i] \in Jobs
          BY <4>2
        <5>2. \A i \in 1..Len(jobs) : jobs[i][2] \in Error..MaxBytes
          BY <4>2 DEF Ranged
        <5>3. \A i \in 1..Len(jobs) : jobs[i] \in S
          BY <5>1, <5>2 DEF Jobs
        <5> HIDE DEF S
        <5>4. jobs \in Seq(S)
          BY <4>2, <5>3
        <5> QED BY <5>4 DEF S
      <4>6. rs.queue \in Seq(1..MaxBytes)
        <5>1. CASE rs.state = "readable"
          <6>1. rs.queue = Span(m, Streamed)
            BY <4>2, <5>1 DEF Buffered
          <6> QED BY <4>3, <6>1, SpanInRange
        <5>2. CASE rs.state # "readable"
          <6>1. rs.queue = <<>>
            BY <4>2, <5>2 DEF Asked
          <6> QED BY <6>1
        <5> QED BY <5>1, <5>2
      <4>7. rs.requests \in 0..MaxReads \cup {1}
        BY <2>3, <4>2, MaxReadsAssumption DEF Asked, Streams
      <4>8. IsStream(rs)
        BY <4>2, <4>6, <4>7 DEF IsStream, Streams, Asked
      <4>9. got \in Seq(1..MaxBytes) /\ text.contents \in Seq(1..MaxBytes)
        <5>1. Bytes(m) \in Seq(1..MaxBytes) /\ <<>> \in Seq(1..MaxBytes)
          BY <4>3, BytesInRange
        <5>2. ASSUME m > 0
              PROVE  Bytes(m - 1) \in Seq(1..MaxBytes)
          <6>1. m - 1 \in Nat /\ m - 1 <= MaxBytes
            BY <4>3, <5>2, MaxBytesAssumption
          <6> QED BY <6>1, BytesInRange
        <5> QED BY <4>2, <5>1, <5>2 DEF Received
      <4> QED BY <4>4, <4>5, <4>8, <4>9
    <3> QED BY <2>1, <3>1, <3>2
  <2>6. text \in [status : {"none", "pending", "resolved", "rejected"}, contents : Seq(1..MaxBytes)]
    BY <2>1, <2>5 DEF Slots
  <2> QED BY <2>2, <2>3, <2>4, <2>5, <2>6 DEF TypeOK, Tasks
<1> QED BY <1>1, ByteInvariance, PTL

=============================================================================
