-------------------------- MODULE FetchEventProofs --------------------------
(***************************************************************************)
(* Proofs about FetchEvent, for every set of promises, every kind of       *)
(* response and any number of handlers and calls.                          *)
(***************************************************************************)
EXTENDS FetchEvent, SequenceTheorems, FiniteSetTheorems, TLAPS

\* Is a microtask of kind k in queue s?  At most one?
Has(s, k) == \E i \in DOMAIN s : s[i].kind = k
Once(s, k) == \A i, j \in DOMAIN s : s[i].kind = k /\ s[j].kind = k => i = j

\* Is respondWith's handler among the reactions rs?  At most once?
HasRespond(rs) == "respond" \in Range(rs)
RespondOnce(rs) ==
  \A i, j \in DOMAIN rs : rs[i] = "respond" /\ rs[j] = "respond" => i = j

Outstanding == Has(jobs, "respond") \/ \E p \in Promises : HasRespond(reactions[p])

\* The handler of respondWith is attached to one promise, or is one microtask.
RespondUnique ==
  /\ Once(jobs, "respond")
  /\ \A p \in Promises : RespondOnce(reactions[p])
  /\ \A p \in Promises : HasRespond(reactions[p]) => ~Has(jobs, "respond")
  /\ \A p, q \in Promises : HasRespond(reactions[p]) /\ HasRespond(reactions[q]) => p = q

\* Until it runs, nothing has been sent and no body is being copied.
RespondInv ==
  Outstanding =>
    /\ pc = "returned" \/ state = "waitToRespond"
    /\ reader = "none" /\ append = "none" /\ pc # "pull"

\* The body of the response is read, or appended, or neither.
BodyInv ==
  /\ Once(jobs, "read")
  /\ Has(jobs, "read") <=> reader = "queued"
  /\ reader \in {"waiting", "queued"} =>
       /\ state = IF pc = "pull" THEN "waitToRespond" ELSE "responseStreaming"
       /\ pc \notin Ended \cup {"pull"} => body = "open"
  /\ pc = "pull" => reader \in {"waiting", "queued"} /\ ~streaming
  /\ append = "running" /\ pc \notin Ended => body = "open"
  /\ reader # "none" => append = "none"
  /\ state = "unhandled" => reader = "none" /\ append = "none"

\* What the host was told agrees with the state of the event.
AnswerInv ==
  /\ OneResponse
  /\ streaming => ResponseStarted /\ body # "none"
  /\ ReturnMeansAnswered

\* The tasks that were queued and the calls that are left fit in the bound.
CallsInv == work + calls <= MaxCalls

\* The inductive invariant.
Inv ==
  /\ TypeOK /\ CallsInv
  /\ RespondUnique /\ RespondInv
  /\ BodyInv /\ AnswerInv

-----------------------------------------------------------------------------
(* Microtasks and reactions as sequences. *)

\* The loop takes the head of the queue.
LEMMA TailLemma ==
  ASSUME NEW s \in Seq(Jobs), s # <<>>, NEW k
  PROVE  /\ Tail(s) \in Seq(Jobs)
         /\ Head(s) \in Jobs
         /\ Once(s, k) => Once(Tail(s), k)
         /\ Has(Tail(s), k) => Has(s, k)
         /\ Head(s).kind = k => Has(s, k)
         /\ Head(s).kind = k /\ Once(s, k) => ~Has(Tail(s), k)
         /\ Head(s).kind # k /\ Has(s, k) => Has(Tail(s), k)
<1>1. /\ Len(s) \in Nat \ {0}
      /\ DOMAIN s = 1..Len(s)
      /\ Head(s) = s[1] /\ Head(s) \in Jobs
      /\ Tail(s) \in Seq(Jobs)
      /\ DOMAIN Tail(s) = 1..(Len(s) - 1)
      /\ \A i \in DOMAIN Tail(s) : Tail(s)[i] = s[i + 1]
  BY HeadTailProperties, EmptySeq, LenProperties
<1>2. \A i \in DOMAIN Tail(s) : i + 1 \in DOMAIN s /\ i + 1 # 1
  BY <1>1
<1>3. \A i \in DOMAIN s \ {1} : i - 1 \in DOMAIN Tail(s) /\ Tail(s)[i - 1] = s[i]
  BY <1>1
<1>4. 1 \in DOMAIN s
  BY <1>1
<1>5. Once(s, k) => Once(Tail(s), k)
  BY <1>1, <1>2 DEF Once
<1>6. Has(Tail(s), k) => Has(s, k)
  BY <1>1, <1>2 DEF Has
<1>7. Head(s).kind = k => Has(s, k)
  BY <1>1, <1>4 DEF Has
<1>8. Head(s).kind = k /\ Once(s, k) => ~Has(Tail(s), k)
  BY <1>1, <1>2, <1>4 DEF Once, Has
<1>9. Head(s).kind # k /\ Has(s, k) => Has(Tail(s), k)
  BY <1>1, <1>3 DEF Has
<1> QED BY <1>1, <1>5, <1>6, <1>7, <1>8, <1>9

\* A microtask is enqueued.
LEMMA AppendLemma ==
  ASSUME NEW s \in Seq(Jobs), NEW j \in Jobs, NEW k
  PROVE  /\ Append(s, j) \in Seq(Jobs)
         /\ Has(Append(s, j), k) <=> Has(s, k) \/ j.kind = k
         /\ Once(s, k) /\ ~(Has(s, k) /\ j.kind = k) => Once(Append(s, j), k)
<1>1. /\ Append(s, j) \in Seq(Jobs)
      /\ Len(s) \in Nat
      /\ DOMAIN s = 1..Len(s)
      /\ DOMAIN Append(s, j) = 1..(Len(s) + 1)
      /\ \A i \in DOMAIN s : Append(s, j)[i] = s[i]
      /\ Append(s, j)[Len(s) + 1] = j
  BY AppendProperties, LenProperties
<1> QED BY <1>1 DEF Once, Has

\* The reactions of a promise that has settled become microtasks.
LEMMA JobsLemma ==
  ASSUME NEW s \in Seq(Jobs), NEW rs \in Seq({"dec", "respond"}), NEW v \in Values
  PROVE  /\ s \o JobsOf(rs, v) \in Seq(Jobs)
         /\ Has(s \o JobsOf(rs, v), "respond") <=> Has(s, "respond") \/ HasRespond(rs)
         /\ Has(s \o JobsOf(rs, v), "read") <=> Has(s, "read")
         /\ Once(s, "read") => Once(s \o JobsOf(rs, v), "read")
         /\ /\ Once(s, "respond") /\ RespondOnce(rs)
            /\ HasRespond(rs) => ~Has(s, "respond")
            => Once(s \o JobsOf(rs, v), "respond")
<1> DEFINE t == JobsOf(rs, v)
<1>1. /\ Len(rs) \in Nat /\ DOMAIN rs = 1..Len(rs)
      /\ \A i \in DOMAIN rs : rs[i] \in {"dec", "respond"}
  BY LenProperties, ElementOfSeq
<1>2. t \in Seq(Jobs) /\ Len(t) = Len(rs)
  <2>1. \A i \in 1..Len(rs) : [kind |-> rs[i], value |-> v] \in Jobs
    BY <1>1 DEF Jobs
  <2>2. t \in [1..Len(rs) -> Jobs]
    BY <1>1, <2>1 DEF JobsOf
  <2> QED BY <1>1, <2>2 DEF JobsOf
<1>3. DOMAIN t = DOMAIN rs /\ \A i \in DOMAIN t : t[i].kind = rs[i]
  BY DEF JobsOf
<1> HIDE DEF t
<1>4. /\ s \o t \in Seq(Jobs)
      /\ Len(s) \in Nat /\ DOMAIN s = 1..Len(s)
      /\ DOMAIN (s \o t) = 1..(Len(s) + Len(t))
      /\ \A i \in 1..(Len(s) + Len(t)) :
           (s \o t)[i] = IF i <= Len(s) THEN s[i] ELSE t[i - Len(s)]
  <2>1. /\ s \o t \in Seq(Jobs)
        /\ Len(s \o t) = Len(s) + Len(t)
        /\ \A i \in 1..(Len(s) + Len(t)) :
             (s \o t)[i] = IF i <= Len(s) THEN s[i] ELSE t[i - Len(s)]
    BY <1>2, ConcatProperties
  <2>2. Len(s) \in Nat /\ DOMAIN s = 1..Len(s)
    BY LenProperties
  <2>3. DOMAIN (s \o t) = 1..Len(s \o t)
    BY <2>1, LenProperties
  <2> QED BY <2>1, <2>2, <2>3
<1>5. /\ \A i \in DOMAIN s : i \in DOMAIN (s \o t) /\ (s \o t)[i] = s[i]
      /\ \A i \in DOMAIN t : i + Len(s) \in DOMAIN (s \o t) /\ (s \o t)[i + Len(s)] = t[i]
      /\ \A i \in DOMAIN (s \o t) :
           \/ i \in DOMAIN s
           \/ i - Len(s) \in DOMAIN t /\ (s \o t)[i] = t[i - Len(s)]
  BY <1>1, <1>2, <1>3, <1>4
<1> DEFINE u == s \o t
<1>6. u \in Seq(Jobs)
  BY <1>4
<1>7. /\ \A i \in DOMAIN s : i \in DOMAIN u /\ u[i] = s[i]
      /\ \A i \in DOMAIN t : i + Len(s) \in DOMAIN u /\ u[i + Len(s)] = t[i]
      /\ \A i \in DOMAIN u :
           \/ i \in DOMAIN s
           \/ i - Len(s) \in DOMAIN t /\ u[i] = t[i - Len(s)]
  BY <1>5
<1>8. /\ \A i \in DOMAIN u : i \in Int
      /\ Len(s) \in Int
  BY <1>4
<1> HIDE DEF u
<1>9. Has(u, "respond") <=> Has(s, "respond") \/ HasRespond(rs)
  <2>1. Has(u, "respond") => Has(s, "respond") \/ HasRespond(rs)
    BY <1>3, <1>7 DEF Has, HasRespond, Range
  <2>2. Has(s, "respond") => Has(u, "respond")
    BY <1>7 DEF Has
  <2>3. HasRespond(rs) => Has(u, "respond")
    BY <1>3, <1>7 DEF Has, HasRespond, Range
  <2> QED BY <2>1, <2>2, <2>3
<1>10. Has(u, "read") <=> Has(s, "read")
  <2>1. \A i \in DOMAIN u : u[i].kind = "read" => i \in DOMAIN s
    BY <1>1, <1>3, <1>7
  <2> QED BY <1>7, <2>1 DEF Has
<1>11. Once(s, "read") => Once(u, "read")
  BY <1>1, <1>3, <1>7 DEF Once
<1>12. Once(s, "respond") /\ RespondOnce(rs) /\ (HasRespond(rs) => ~Has(s, "respond"))
         => Once(u, "respond")
  <2> SUFFICES ASSUME Once(s, "respond"), RespondOnce(rs),
                      HasRespond(rs) => ~Has(s, "respond"),
                      NEW i \in DOMAIN u, NEW j \in DOMAIN u,
                      u[i].kind = "respond", u[j].kind = "respond"
               PROVE  i = j
    BY DEF Once
  <2>1. i \in DOMAIN s => HasRespond(rs) = FALSE
    BY <1>7 DEF Has
  <2>2. j \in DOMAIN s => HasRespond(rs) = FALSE
    BY <1>7 DEF Has
  <2>3. i \notin DOMAIN s => i - Len(s) \in DOMAIN rs /\ rs[i - Len(s)] = "respond"
    BY <1>3, <1>7
  <2>4. j \notin DOMAIN s => j - Len(s) \in DOMAIN rs /\ rs[j - Len(s)] = "respond"
    BY <1>3, <1>7
  <2>5. CASE i \in DOMAIN s
    <3>1. j \in DOMAIN s
      BY <2>1, <2>4, <2>5 DEF HasRespond, Range
    <3> QED BY <1>7, <2>5, <3>1 DEF Once
  <2>6. CASE i \notin DOMAIN s
    <3>1. j \notin DOMAIN s
      BY <2>2, <2>3, <2>6 DEF HasRespond, Range
    <3>2. i - Len(s) = j - Len(s)
      BY <2>3, <2>4, <2>6, <3>1 DEF RespondOnce
    <3> QED BY <1>8, <3>2
  <2> QED BY <2>5, <2>6
<1> QED BY <1>6, <1>9, <1>10, <1>11, <1>12 DEF u, t

\* add_pending_promise and AddPromiseReactions attach their reactions.
LEMMA ReactionsLemma ==
  ASSUME NEW rs \in Seq({"dec", "respond"})
  PROVE  /\ rs \o <<"dec">> \in Seq({"dec", "respond"})
         /\ HasRespond(rs \o <<"dec">>) <=> HasRespond(rs)
         /\ RespondOnce(rs) => RespondOnce(rs \o <<"dec">>)
         /\ rs \o <<"dec", "respond">> \in Seq({"dec", "respond"})
         /\ HasRespond(rs \o <<"dec", "respond">>)
         /\ ~HasRespond(rs) => RespondOnce(rs \o <<"dec", "respond">>)
<1> DEFINE a == rs \o <<"dec">>
           b == rs \o <<"dec", "respond">>
<1>1. /\ a \in Seq({"dec", "respond"}) /\ b \in Seq({"dec", "respond"})
      /\ Len(rs) \in Nat /\ DOMAIN rs = 1..Len(rs)
      /\ DOMAIN a = 1..(Len(rs) + 1)
      /\ DOMAIN b = 1..(Len(rs) + 2)
      /\ \A i \in DOMAIN rs : a[i] = rs[i] /\ b[i] = rs[i]
      /\ a[Len(rs) + 1] = "dec"
      /\ b[Len(rs) + 1] = "dec"
      /\ b[Len(rs) + 2] = "respond"
  BY ConcatProperties, LenProperties
<1> HIDE DEF a, b
<1>2. HasRespond(a) <=> HasRespond(rs)
  BY <1>1 DEF HasRespond, Range
<1>3. RespondOnce(rs) => RespondOnce(a)
  BY <1>1 DEF RespondOnce
<1>4. HasRespond(b)
  BY <1>1 DEF HasRespond, Range
<1>5. ~HasRespond(rs) => RespondOnce(b)
  BY <1>1 DEF RespondOnce, HasRespond, Range
<1> QED BY <1>1, <1>2, <1>3, <1>4, <1>5 DEF a, b

-----------------------------------------------------------------------------
(* Steps that neither send a response nor touch its body. *)

\* A step that only moves pc, and only adds or takes microtasks and reactions
\* that are not the response's, preserves the invariant.
LEMMA QuietStep ==
  ASSUME Inv, TypeOK', CallsInv', RespondUnique', UNCHANGED <<state, bodyVars, sent>>,
         \/ pc' = pc
         \/ pc \notin Ended \cup {"pull"} /\ pc' \notin {"pull", "returned"},
         Once(jobs', "read"), Has(jobs', "read") <=> Has(jobs, "read"),
         Outstanding' => Outstanding
  PROVE  Inv'
<1>1. RespondInv'
  BY DEF Inv, RespondInv, bodyVars, Ended
<1>2. BodyInv'
  BY DEF Inv, BodyInv, bodyVars, Ended
<1>3. AnswerInv'
  BY DEF Inv, AnswerInv, OneResponse, ResponseStarted, ReturnMeansAnswered, bodyVars, Ended
<1> QED BY <1>1, <1>2, <1>3 DEF Inv

\* In particular if it leaves microtasks and reactions alone.
LEMMA ControlStep ==
  ASSUME Inv, TypeOK', CallsInv', UNCHANGED <<state, bodyVars, sent, jobs, reactions>>,
         \/ pc' = pc
         \/ pc \notin Ended \cup {"pull"} /\ pc' \notin {"pull", "returned"}
  PROVE  Inv'
<1>1. RespondUnique' /\ Once(jobs', "read") /\ (Outstanding' => Outstanding)
  BY DEF Inv, RespondUnique, BodyInv, Outstanding
<1> QED BY <1>1, QuietStep

\* waitUntil attaches a reaction that is not the response's.
LEMMA WaitUntilStep ==
  ASSUME Inv, NEW p \in Promises, WaitUntil(p)
  PROVE  Inv'
<1>1. /\ reactions \in [Promises -> Seq({"dec", "respond"})]
      /\ jobs \in Seq(Jobs) /\ value[p] \in Outcomes \cup {"pending"}
      /\ <<"dec">> \in Seq({"dec", "respond"})
      /\ ~HasRespond(<<"dec">>) /\ RespondOnce(<<"dec">>)
  BY DEF Inv, TypeOK, HasRespond, RespondOnce, Range
<1>2. CASE value[p] = "pending"
  <2>1. /\ jobs' = jobs
        /\ reactions' = [reactions EXCEPT ![p] = @ \o <<"dec">>]
    BY <1>2 DEF WaitUntil, AddReactions
  <2>2. /\ reactions[p] \in Seq({"dec", "respond"})
        /\ reactions' \in [Promises -> Seq({"dec", "respond"})]
        /\ \A q \in Promises :
             /\ HasRespond(reactions'[q]) <=> HasRespond(reactions[q])
             /\ RespondOnce(reactions[q]) => RespondOnce(reactions'[q])
    BY <1>1, <2>1, ReactionsLemma
  <2>3. RespondUnique' /\ (Outstanding' => Outstanding)
    BY <2>1, <2>2 DEF Inv, RespondUnique, Outstanding
  <2>4. TypeOK' /\ CallsInv' /\ UNCHANGED <<state, bodyVars, sent, pc>>
    BY <2>1, <2>2, CallsAssumption DEF Inv, TypeOK, CallsInv, WaitUntil, Call, CountPending, bodyVars, hostVars
  <2> QED BY <2>1, <2>3, <2>4, QuietStep DEF Inv, BodyInv
<1>3. CASE value[p] # "pending"
  <2>1. /\ jobs' = jobs \o JobsOf(<<"dec">>, value[p])
        /\ reactions' = reactions
    BY <1>3 DEF WaitUntil, AddReactions
  <2>2. value[p] \in Values
    BY <1>1, <1>3, OutcomesAssumption
  <2>3. /\ jobs' \in Seq(Jobs)
        /\ Has(jobs', "respond") <=> Has(jobs, "respond")
        /\ Has(jobs', "read") <=> Has(jobs, "read")
        /\ Once(jobs', "read") /\ Once(jobs', "respond")
    BY <1>1, <2>1, <2>2, JobsLemma DEF Inv, RespondUnique, BodyInv
  <2>4. RespondUnique' /\ (Outstanding' => Outstanding)
    BY <2>1, <2>3 DEF Inv, RespondUnique, Outstanding
  <2>5. TypeOK' /\ CallsInv' /\ UNCHANGED <<state, bodyVars, sent, pc>>
    BY <2>1, <2>3, CallsAssumption DEF Inv, TypeOK, CallsInv, WaitUntil, Call, CountPending, bodyVars, hostVars
  <2> QED BY <2>3, <2>4, <2>5, QuietStep
<1> QED BY <1>2, <1>3

\* A promise settles: its reactions move to the queue, the response's with them.
LEMMA SettleStep ==
  ASSUME Inv, NEW p \in Promises, NEW v \in Outcomes, Settle(p, v)
  PROVE  Inv'
<1>1. /\ reactions \in [Promises -> Seq({"dec", "respond"})]
      /\ reactions[p] \in Seq({"dec", "respond"})
      /\ jobs \in Seq(Jobs) /\ v \in Values
      /\ jobs' = jobs \o JobsOf(reactions[p], v)
      /\ reactions' = [reactions EXCEPT ![p] = <<>>]
  BY OutcomesAssumption DEF Inv, TypeOK, Settle
<1>2. ~HasRespond(<<>>) /\ RespondOnce(<<>>) /\ <<>> \in Seq({"dec", "respond"})
  BY DEF HasRespond, RespondOnce, Range
<1>3. /\ jobs' \in Seq(Jobs)
      /\ Has(jobs', "respond") <=> Has(jobs, "respond") \/ HasRespond(reactions[p])
      /\ Has(jobs', "read") <=> Has(jobs, "read")
      /\ Once(jobs', "read") /\ Once(jobs', "respond")
  BY <1>1, JobsLemma DEF Inv, RespondUnique, BodyInv
<1>4. /\ reactions' \in [Promises -> Seq({"dec", "respond"})]
      /\ \A q \in Promises : HasRespond(reactions'[q]) <=> q # p /\ HasRespond(reactions[q])
      /\ \A q \in Promises : RespondOnce(reactions'[q])
  BY <1>1, <1>2 DEF Inv, RespondUnique
<1>5. RespondUnique' /\ (Outstanding' => Outstanding)
  BY <1>3, <1>4 DEF Inv, RespondUnique, Outstanding
<1>6. TypeOK' /\ CallsInv' /\ UNCHANGED <<state, bodyVars, sent, pc>>
  BY <1>3, <1>4, CallsAssumption DEF Inv, TypeOK, CallsInv, Settle, Call, bodyVars, hostVars, eventVars
<1> QED BY <1>3, <1>5, <1>6, QuietStep

\* A microtask of the program.
LEMMA QueueJobStep ==
  ASSUME Inv, QueueJob
  PROVE  Inv'
<1> DEFINE j == [kind |-> "js", value |-> "none"]
<1>1. jobs \in Seq(Jobs) /\ j \in Jobs /\ jobs' = Append(jobs, j) /\ j.kind = "js"
  BY DEF Inv, TypeOK, Jobs, QueueJob
<1> HIDE DEF j
<1>2. /\ jobs' \in Seq(Jobs)
      /\ Has(jobs', "respond") <=> Has(jobs, "respond")
      /\ Has(jobs', "read") <=> Has(jobs, "read")
      /\ Once(jobs', "read") /\ Once(jobs', "respond")
  BY <1>1, AppendLemma DEF Inv, RespondUnique, BodyInv
<1>3. TypeOK' /\ CallsInv' /\ UNCHANGED <<state, bodyVars, sent, pc, reactions>>
  BY <1>2, CallsAssumption DEF Inv, TypeOK, CallsInv, QueueJob, Call, bodyVars, hostVars, eventVars,
              promiseVars
<1>4. RespondUnique' /\ (Outstanding' => Outstanding)
  BY <1>2, <1>3 DEF Inv, RespondUnique, Outstanding
<1> QED BY <1>2, <1>3, <1>4, QuietStep

\* dec_pending_promise_count and microtasks of the program leave the queue.
LEMMA TakeOtherStep ==
  ASSUME Inv, DecPendingPromiseCount \/ RunProgram
  PROVE  Inv'
<1>1. /\ jobs \in Seq(Jobs) /\ jobs # <<>> /\ jobs' = Tail(jobs)
      /\ Head(jobs).kind \notin {"respond", "read"}
  BY DEF Inv, TypeOK, DecPendingPromiseCount, RunProgram, TakeJob
<1>2. /\ jobs' \in Seq(Jobs)
      /\ Has(jobs', "respond") <=> Has(jobs, "respond")
      /\ Has(jobs', "read") <=> Has(jobs, "read")
      /\ Once(jobs', "read") /\ Once(jobs', "respond")
  BY <1>1, TailLemma DEF Inv, RespondUnique, BodyInv
<1>3. /\ TypeOK' /\ CallsInv' /\ UNCHANGED <<state, bodyVars, sent, reactions>>
      /\ pc = "loop" /\ pc' \in {"loop", "job"}
  BY <1>2, CallsAssumption DEF Inv, TypeOK, CallsInv, DecPendingPromiseCount, RunProgram, TakeJob,
              bodyVars, hostVars, eventVars, promiseVars
<1>4. RespondUnique' /\ (Outstanding' => Outstanding)
  BY <1>2, <1>3 DEF Inv, RespondUnique, Outstanding
<1> QED BY <1>2, <1>3, <1>4, QuietStep DEF Ended

-----------------------------------------------------------------------------
(* The response. *)

\* respondWith is accepted once, so its handler is attached to no other promise.
LEMMA RespondWithStep ==
  ASSUME Inv, NEW p \in Promises, RespondWith(p)
  PROVE  Inv'
<1> DEFINE rs == <<"dec", "respond">>
<1>1. /\ reactions \in [Promises -> Seq({"dec", "respond"})]
      /\ jobs \in Seq(Jobs) /\ value[p] \in Outcomes \cup {"pending"}
      /\ rs \in Seq({"dec", "respond"})
      /\ HasRespond(rs) /\ RespondOnce(rs)
  <2>1. DOMAIN rs = {1, 2} /\ rs[1] = "dec" /\ rs[2] = "respond"
    OBVIOUS
  <2>2. rs \in Seq({"dec", "respond"})
    OBVIOUS
  <2> HIDE DEF rs
  <2> QED BY <2>1, <2>2 DEF Inv, TypeOK, HasRespond, RespondOnce, Range
<1>2. /\ state = "unhandled" /\ state' = "waitToRespond"
      /\ pc \in {"handler", "job", "pull", "task"} /\ pc' = pc
  BY DEF RespondWith, MayRespond, Call, InJS
<1>3. /\ ~Outstanding /\ reader = "none" /\ append = "none" /\ pc # "pull"
      /\ sent = 0 /\ ~streaming
  BY <1>2 DEF Inv, RespondInv, BodyInv, AnswerInv, OneResponse, ResponseStarted
<1>4. /\ jobs' \in Seq(Jobs) /\ Once(jobs', "read")
      /\ Has(jobs', "read") <=> Has(jobs, "read")
      /\ reactions' \in [Promises -> Seq({"dec", "respond"})]
      /\ RespondUnique'
  <2>1. CASE value[p] = "pending"
    <3>1. jobs' = jobs /\ reactions' = [reactions EXCEPT ![p] = @ \o <<"dec", "respond">>]
      BY <2>1 DEF RespondWith, AddReactions
    <3>2. /\ reactions[p] \in Seq({"dec", "respond"})
          /\ reactions'[p] = reactions[p] \o <<"dec", "respond">>
          /\ reactions' \in [Promises -> Seq({"dec", "respond"})]
          /\ \A q \in Promises : HasRespond(reactions'[q]) <=> q = p
          /\ \A q \in Promises : RespondOnce(reactions'[q])
      BY <1>1, <1>3, <3>1, ReactionsLemma DEF Inv, RespondUnique, Outstanding
    <3> QED BY <1>1, <1>3, <3>1, <3>2 DEF Inv, RespondUnique, BodyInv, Outstanding
  <2>2. CASE value[p] # "pending"
    <3>1. jobs' = jobs \o JobsOf(rs, value[p]) /\ reactions' = reactions
      BY <2>2 DEF RespondWith, AddReactions
    <3>2. value[p] \in Values /\ ~Has(jobs, "respond")
      BY <1>1, <1>3, <2>2, OutcomesAssumption DEF Outstanding
    <3> HIDE DEF rs
    <3>3. /\ jobs' \in Seq(Jobs)
          /\ Has(jobs', "read") <=> Has(jobs, "read")
          /\ Once(jobs', "read") /\ Once(jobs', "respond")
      BY <1>1, <3>1, <3>2, JobsLemma DEF Inv, RespondUnique, BodyInv
    <3> QED BY <1>1, <1>3, <3>1, <3>3 DEF Inv, RespondUnique, Outstanding
  <2> QED BY <2>1, <2>2
<1> HIDE DEF rs
<1>5. /\ UNCHANGED <<bodyVars, sent>>
      /\ TypeOK' /\ CallsInv'
  BY <1>2, <1>4, CallsAssumption
  DEF Inv, TypeOK, CallsInv, RespondWith, Call, CountPending, Rank, bodyVars, hostVars
<1>6. RespondInv' /\ BodyInv' /\ AnswerInv'
  BY <1>2, <1>3, <1>4, <1>5
  DEF Inv, RespondInv, BodyInv, AnswerInv, OneResponse, ResponseStarted,
      ReturnMeansAnswered, bodyVars, Ended
<1> QED BY <1>4, <1>5, <1>6 DEF Inv

\* respondWith's handler takes its microtask: there is no other, nothing has
\* been sent, and no body is being copied.
LEMMA RespondTaken ==
  ASSUME Inv, NEW v, Respond(v), jobs' = Tail(jobs)
  PROVE  /\ pc = "loop" /\ state = "waitToRespond" /\ sent = 0 /\ ~streaming
         /\ reader = "none" /\ append = "none"
         /\ jobs' \in Seq(Jobs) /\ ~Has(jobs', "read") /\ Once(jobs', "read")
         /\ RespondUnique' /\ ~Outstanding'
<1>1. /\ jobs \in Seq(Jobs) /\ jobs # <<>> /\ Head(jobs).kind = "respond"
      /\ pc = "loop" /\ reactions' = reactions
  BY DEF Inv, TypeOK, Respond, TakeJob, promiseVars
<1>2. /\ jobs' \in Seq(Jobs) /\ Has(jobs, "respond") /\ ~Has(jobs', "respond")
      /\ Has(jobs', "read") => Has(jobs, "read")
      /\ Once(jobs', "read") /\ Once(jobs', "respond")
  BY <1>1, TailLemma DEF Inv, RespondUnique, BodyInv
<1>3. /\ state = "waitToRespond" /\ reader = "none" /\ append = "none"
  BY <1>1, <1>2 DEF Inv, RespondInv, Outstanding
<1>4. sent = 0 /\ ~streaming /\ ~Has(jobs', "read")
  BY <1>2, <1>3 DEF Inv, BodyInv, AnswerInv, OneResponse, ResponseStarted
<1>5. RespondUnique' /\ ~Outstanding'
  BY <1>1, <1>2 DEF Inv, RespondUnique, Outstanding
<1> QED BY <1>1, <1>2, <1>3, <1>4, <1>5

\* Every outcome of the handler preserves the invariant.
LEMMA RespondStep ==
  ASSUME Inv, NEW v, Respond(v),
         \/ RespondWithError(v) \/ RespondStatic(v) \/ RespondAppending(v)
         \/ RespondUnusable \/ RespondStream \/ RespondConsumed
  PROVE  Inv'
<1>1. jobs' = Tail(jobs)
  BY DEF RespondWithError, RespondStatic, RespondAppending, RespondUnusable,
         RespondStream, RespondConsumed
<1>2. /\ pc = "loop" /\ state = "waitToRespond" /\ sent = 0 /\ ~streaming
      /\ reader = "none" /\ append = "none"
      /\ jobs' \in Seq(Jobs) /\ ~Has(jobs', "read") /\ Once(jobs', "read")
      /\ RespondUnique' /\ ~Outstanding'
  BY <1>1, RespondTaken
<1>3. UNCHANGED <<dispatching, count, value, reactions, clientGone, work, handlers, calls>>
  BY DEF Respond, promiseVars
<1>4. CASE RespondWithError(v) \/ RespondStatic(v)
  <2>1. /\ UNCHANGED <<append, reader, streaming, pc>>
        /\ sent' = sent + 1 /\ state' \in {"respondedWithError", "responseDone"}
        /\ body' \in {"none", "open"}
    BY <1>4 DEF RespondWithError, RespondStatic, SendResponse
  <2>2. TypeOK' /\ CallsInv'
    BY <1>2, <1>3, <2>1 DEF Inv, TypeOK, CallsInv, Rank
  <2>3. RespondInv' /\ BodyInv' /\ AnswerInv'
    BY <1>2, <2>1 DEF Inv, RespondInv, BodyInv, AnswerInv, OneResponse, ResponseStarted,
                      ReturnMeansAnswered, Ended
  <2> QED BY <1>2, <2>2, <2>3 DEF Inv
<1>5. CASE RespondUnusable
  <2>1. UNCHANGED <<state, append, reader, body, streaming, sent, pc>>
    BY <1>5 DEF RespondUnusable, bodyVars
  <2>2. TypeOK' /\ CallsInv'
    BY <1>2, <1>3, <2>1 DEF Inv, TypeOK, CallsInv
  <2>3. RespondInv' /\ BodyInv' /\ AnswerInv'
    BY <1>2, <2>1 DEF Inv, RespondInv, BodyInv, AnswerInv, OneResponse, ResponseStarted,
                      ReturnMeansAnswered, Ended
  <2> QED BY <1>2, <2>2, <2>3 DEF Inv
<1>6. CASE RespondStream
  <2>1. /\ UNCHANGED <<state, append, body, streaming, sent>>
        /\ reader' = "waiting" /\ pc' = "pull"
    BY <1>6 DEF RespondStream
  <2>2. TypeOK' /\ CallsInv'
    BY <1>2, <1>3, <2>1 DEF Inv, TypeOK, CallsInv
  <2>3. RespondInv' /\ BodyInv' /\ AnswerInv'
    BY <1>2, <2>1 DEF Inv, RespondInv, BodyInv, AnswerInv, OneResponse, ResponseStarted,
                      ReturnMeansAnswered, Ended
  <2> QED BY <1>2, <2>2, <2>3 DEF Inv
<1>7. CASE RespondAppending(v)
  <2>1. /\ UNCHANGED <<reader, pc>>
        /\ append' = "running" /\ body' = "open" /\ sent' = sent + 1
        /\ streaming' \in BOOLEAN
        /\ state' \in {"responseDone", "responseStreaming"}
    BY <1>2, <1>7 DEF RespondAppending, SendResponse, Inv, TypeOK
  <2>2. TypeOK' /\ CallsInv'
    BY <1>2, <1>3, <2>1 DEF Inv, TypeOK, CallsInv, Rank
  <2>3. RespondInv' /\ BodyInv' /\ AnswerInv'
    BY <1>2, <2>1 DEF Inv, RespondInv, BodyInv, AnswerInv, OneResponse, ResponseStarted,
                      ReturnMeansAnswered, Ended
  <2> QED BY <1>2, <2>2, <2>3 DEF Inv
<1>8. CASE RespondConsumed
  <2>1. /\ UNCHANGED <<state, reader, body, streaming, sent>>
        /\ append' = "running" /\ pc' = "aborted"
    BY <1>8 DEF RespondConsumed
  <2>2. TypeOK' /\ CallsInv'
    BY <1>2, <1>3, <2>1 DEF Inv, TypeOK, CallsInv, Ended
  <2>3. RespondInv' /\ BodyInv' /\ AnswerInv'
    BY <1>2, <2>1 DEF Inv, RespondInv, BodyInv, AnswerInv, OneResponse, ResponseStarted,
                      ReturnMeansAnswered, Ended
  <2> QED BY <1>2, <2>2, <2>3 DEF Inv
<1> QED BY <1>4, <1>5, <1>6, <1>7, <1>8

-----------------------------------------------------------------------------
(* The body of the response. *)

\* The stream is fed while a read is pending, so no other read is queued.
LEMMA FeedStreamStep ==
  ASSUME Inv, NEW r \in Reads, FeedStream(r)
  PROVE  Inv'
<1> DEFINE j == [kind |-> "read", value |-> r]
<1>1. /\ jobs \in Seq(Jobs) /\ j \in Jobs /\ jobs' = Append(jobs, j) /\ j.kind = "read"
      /\ reader = "waiting" /\ reader' = "queued"
      /\ UNCHANGED <<state, sent, append, body, streaming, pc, reactions>>
  BY DEF Inv, TypeOK, Jobs, FeedStream, eventVars, promiseVars, hostVars
<1> HIDE DEF j
<1>2. ~Outstanding /\ ~Has(jobs, "read")
  BY <1>1 DEF Inv, RespondInv, BodyInv
<1>3. /\ jobs' \in Seq(Jobs)
      /\ ~Has(jobs', "respond") /\ Has(jobs', "read")
      /\ Once(jobs', "read") /\ Once(jobs', "respond")
  BY <1>1, <1>2, AppendLemma DEF Inv, RespondUnique, BodyInv, Outstanding
<1>4. TypeOK' /\ CallsInv'
  BY <1>1, <1>3, CallsAssumption
  DEF Inv, TypeOK, CallsInv, FeedStream, Call, eventVars, promiseVars, hostVars
<1>5. RespondUnique' /\ RespondInv'
  BY <1>1, <1>2, <1>3 DEF Inv, RespondUnique, RespondInv, Outstanding
<1>6. BodyInv' /\ AnswerInv'
  BY <1>1, <1>3 DEF Inv, BodyInv, AnswerInv, OneResponse, ResponseStarted, ReturnMeansAnswered
<1> QED BY <1>4, <1>5, <1>6 DEF Inv

\* The first read has returned to maybe_stream_body: the response is sent.
LEMMA StartStreamingStep ==
  ASSUME Inv, StartStreaming
  PROVE  Inv'
<1>1. /\ pc = "pull" /\ pc' = "loop" /\ state' = "responseStreaming"
      /\ body' = "open" /\ streaming' = TRUE /\ sent' = sent + 1
      /\ UNCHANGED <<append, reader, jobs, reactions>>
  BY DEF StartStreaming, SendResponse, promiseVars
<1>2. ~Outstanding /\ state = "waitToRespond" /\ sent = 0
  BY <1>1 DEF Inv, RespondInv, BodyInv, AnswerInv, OneResponse, ResponseStarted
<1>3. TypeOK' /\ CallsInv'
  BY <1>1, <1>2 DEF Inv, TypeOK, CallsInv, StartStreaming, Rank, promiseVars
<1>4. RespondUnique' /\ RespondInv'
  BY <1>1, <1>2 DEF Inv, RespondUnique, RespondInv, Outstanding
<1>5. BodyInv' /\ AnswerInv'
  BY <1>1, <1>2
  DEF Inv, BodyInv, AnswerInv, OneResponse, ResponseStarted, ReturnMeansAnswered, Ended
<1> QED BY <1>3, <1>4, <1>5 DEF Inv

\* body_reader_then_handler takes its microtask: no other read is queued, and
\* the response is streaming.
LEMMA ReadTaken ==
  ASSUME Inv, NEW r, BodyRead(r), jobs' = Tail(jobs)
  PROVE  /\ pc = "loop" /\ state = "responseStreaming" /\ body = "open"
         /\ append = "none"
         /\ jobs' \in Seq(Jobs) /\ ~Has(jobs', "read") /\ Once(jobs', "read")
         /\ RespondUnique' /\ ~Outstanding'
<1>1. /\ jobs \in Seq(Jobs) /\ jobs # <<>> /\ Head(jobs).kind = "read"
      /\ pc = "loop" /\ reactions' = reactions
  BY DEF Inv, TypeOK, BodyRead, TakeJob, promiseVars
<1>2. /\ jobs' \in Seq(Jobs) /\ Has(jobs, "read") /\ ~Has(jobs', "read")
      /\ Has(jobs', "respond") => Has(jobs, "respond")
      /\ Once(jobs', "read") /\ Once(jobs', "respond")
  BY <1>1, TailLemma DEF Inv, RespondUnique, BodyInv
<1>3. /\ state = "responseStreaming" /\ body = "open" /\ append = "none"
      /\ ~Outstanding
  BY <1>1, <1>2 DEF Inv, RespondInv, BodyInv, Ended
<1>4. RespondUnique' /\ ~Outstanding'
  BY <1>1, <1>2, <1>3 DEF Inv, RespondUnique, Outstanding
<1> QED BY <1>1, <1>2, <1>3, <1>4

\* Every outcome of the read preserves the invariant.
LEMMA ReadStep ==
  ASSUME Inv, NEW r, BodyRead(r), ReadBytes \/ ReadStops(r) \/ ReadDone
  PROVE  Inv'
<1>1. /\ jobs' = Tail(jobs)
      /\ pc' \in {"loop", "job", "aborted"}
      /\ reader' \in {"waiting", "stopped", "errored", "done"}
      /\ \/ state' = state /\ body' = body
         \/ /\ reader' = "done" /\ state' = "responseDone"
            /\ body' \in {body, "finished"}
      /\ UNCHANGED <<dispatching, count, value, reactions, append, streaming, sent, clientGone,
                     work, handlers, calls>>
  BY DEF ReadBytes, ReadStops, ReadDone, ReaderDone, BodyRead, TakeJob, promiseVars, hostVars
<1>2. /\ pc = "loop" /\ state = "responseStreaming" /\ body = "open"
      /\ append = "none"
      /\ jobs' \in Seq(Jobs) /\ ~Has(jobs', "read") /\ Once(jobs', "read")
      /\ RespondUnique' /\ ~Outstanding'
  BY <1>1, ReadTaken
<1>3. TypeOK' /\ CallsInv'
  BY <1>1, <1>2 DEF Inv, TypeOK, CallsInv, Rank, Ended
<1>4. RespondInv' /\ BodyInv' /\ AnswerInv'
  BY <1>1, <1>2
  DEF Inv, RespondInv, BodyInv, AnswerInv, OneResponse, ResponseStarted, ReturnMeansAnswered,
      Ended
<1> QED BY <1>2, <1>3, <1>4 DEF Inv

\* BodyAppendTask is done: the body stays open until the export finishes it.
LEMMA AppendDoneStep ==
  ASSUME Inv, AppendDone
  PROVE  Inv'
<1>1. /\ append = "running" /\ append' = "done"
      /\ UNCHANGED <<eventVars, promiseVars, reader, body, streaming, hostVars, jobs, work, pc,
                     handlers, calls>>
  BY DEF AppendDone
<1>2. ~Outstanding
  BY <1>1 DEF Inv, RespondInv
<1>3. TypeOK' /\ CallsInv' /\ RespondUnique' /\ RespondInv'
  BY <1>1, <1>2
  DEF Inv, TypeOK, CallsInv, RespondUnique, RespondInv, Outstanding, eventVars, promiseVars,
      hostVars
<1>4. BodyInv' /\ AnswerInv'
  BY <1>1
  DEF Inv, BodyInv, AnswerInv, OneResponse, ResponseStarted, ReturnMeansAnswered, eventVars,
      hostVars
<1> QED BY <1>3, <1>4 DEF Inv

-----------------------------------------------------------------------------
(* The end of the export. *)

\* No answer: the error response is the first one.
LEMMA FinishUnansweredStep ==
  ASSUME Inv, FinishUnanswered
  PROVE  Inv'
<1>1. /\ pc = "finish" /\ pc' = "returned" /\ ~ResponseStarted
      /\ sent' = sent + 1 /\ state' = "respondedWithError" /\ body' = "open"
      /\ UNCHANGED <<append, reader, streaming, jobs, reactions>>
  BY DEF FinishUnanswered, SendResponse, promiseVars
<1>2. /\ sent = 0 /\ ~streaming
      /\ reader \notin {"waiting", "queued"}
  BY <1>1 DEF Inv, BodyInv, AnswerInv, OneResponse, ResponseStarted
<1>3. TypeOK' /\ CallsInv'
  BY <1>1, <1>2 DEF Inv, TypeOK, CallsInv, FinishUnanswered, promiseVars, Rank, Ended
<1>4. RespondUnique' /\ RespondInv'
  BY <1>1 DEF Inv, RespondUnique, RespondInv, Outstanding
<1>5. BodyInv' /\ AnswerInv'
  BY <1>1, <1>2
  DEF Inv, BodyInv, AnswerInv, OneResponse, ResponseStarted, ReturnMeansAnswered, Ended
<1> QED BY <1>3, <1>4, <1>5 DEF Inv

\* Answered: the body that is still open is finished.
LEMMA FinishAnsweredStep ==
  ASSUME Inv, FinishAnswered
  PROVE  Inv'
<1>1. /\ pc = "finish" /\ ResponseStarted
      /\ \/ pc' = "aborted" /\ body' = body
         \/ pc' = "returned" /\ body' = IF streaming /\ body = "open" THEN "finished" ELSE body
      /\ UNCHANGED <<eventVars, promiseVars, append, reader, streaming, hostVars, jobs, work,
                     handlers, calls>>
  BY DEF FinishAnswered
<1>2. ~Outstanding /\ sent = 1
  BY <1>1 DEF Inv, RespondInv, AnswerInv, OneResponse, ResponseStarted
<1>3. TypeOK' /\ CallsInv'
  BY <1>1 DEF Inv, TypeOK, CallsInv, eventVars, promiseVars, hostVars, Ended
<1>4. RespondUnique' /\ RespondInv'
  BY <1>1, <1>2 DEF Inv, RespondUnique, RespondInv, Outstanding, promiseVars
<1>5. BodyInv'
  BY <1>1 DEF Inv, BodyInv, eventVars, Ended
<1>6. AnswerInv'
  BY <1>1, <1>2
  DEF Inv, TypeOK, AnswerInv, OneResponse, ResponseStarted, ReturnMeansAnswered, eventVars,
      hostVars
<1> QED BY <1>3, <1>4, <1>5, <1>6 DEF Inv

-----------------------------------------------------------------------------
(* All steps. *)

\* The initial state.
LEMMA InitInv == Init => Inv
<1> SUFFICES ASSUME Init PROVE Inv
  OBVIOUS
<1>1. DOMAIN <<>> = {}
  OBVIOUS
<1>2. ~Has(jobs, "respond") /\ ~Has(jobs, "read") /\ Once(jobs, "respond") /\ Once(jobs, "read")
  BY <1>1 DEF Init, Has, Once
<1>3. \A p \in Promises : ~HasRespond(reactions[p]) /\ RespondOnce(reactions[p])
  BY <1>1 DEF Init, HasRespond, RespondOnce, Range
<1>4. TypeOK /\ CallsInv
  <2>1. <<>> \in Seq(Jobs) /\ <<>> \in Seq({"dec", "respond"})
    BY EmptySeq
  <2>2. /\ jobs \in Seq(Jobs)
        /\ reactions \in [Promises -> Seq({"dec", "respond"})]
        /\ value \in [Promises -> Outcomes \cup {"pending"}]
    BY <2>1 DEF Init
  <2>3. DOMAIN Rank = {"unhandled", "waitToRespond", "responseStreaming", "responseDone",
                       "respondedWithError"}
    BY DEF Rank
  <2>4. work = 0 /\ calls = MaxCalls /\ work \in 0..MaxCalls /\ calls \in 0..MaxCalls
    BY CallsAssumption DEF Init
  <2>5. CallsInv
    BY <2>4, CallsAssumption DEF CallsInv
  <2>6. state \in DOMAIN Rank /\ count \in Int /\ sent \in Nat /\ handlers \in 0..MaxHandlers
    BY <2>3 DEF Init
  <2>7. dispatching \in BOOLEAN /\ streaming \in BOOLEAN /\ clientGone \in BOOLEAN
    BY Zenon DEF Init
  <2>8. /\ append \in {"none", "running", "done"}
        /\ reader \in {"none", "waiting", "queued", "stopped", "errored", "done"}
        /\ body \in {"none", "open", "finished"}
        /\ pc \in {"instance", "dispatch", "handler", "loop", "job", "pull", "task",
                    "finish"} \cup Ended
    BY Zenon DEF Init
  <2>9. TypeOK
    BY <2>2, <2>4, <2>6, <2>7, <2>8, Zenon DEF TypeOK
  <2> QED BY <2>5, <2>9
<1>5. RespondUnique /\ RespondInv
  BY <1>2, <1>3 DEF RespondUnique, RespondInv, Outstanding
<1>6. BodyInv /\ AnswerInv
  BY <1>2 DEF Init, BodyInv, AnswerInv, OneResponse, ResponseStarted, ReturnMeansAnswered
<1> QED BY <1>4, <1>5, <1>6 DEF Inv

\* Steps that move pc and nothing that the invariant relates to it.
LEMMA MoveStep ==
  ASSUME Inv,
         \/ QueueTask
         \/ RequestArrives \/ RequestInvalid \/ CallHandler \/ HandlerReturns
         \/ HandlerThrows \/ StopDispatching \/ LoopReturns
         \/ JobReturns \/ RunTask \/ TaskReturns \/ TaskFails \/ AppendFails
         \/ ClientLeaves \/ Stopped
  PROVE  Inv'
<1> USE DEF eventVars, promiseVars, bodyVars, hostVars
<1>1. CASE QueueTask
  <2>1. TypeOK' /\ CallsInv'
    BY <1>1, CallsAssumption DEF Inv, TypeOK, CallsInv, QueueTask, Call
  <2> QED BY <1>1, <2>1, ControlStep DEF QueueTask
<1>2. CASE RequestArrives \/ RequestInvalid
  <2>1. TypeOK' /\ CallsInv'
    <3>1. CASE RequestArrives
      BY <3>1 DEF Inv, TypeOK, CallsInv, RequestArrives, Ended
    <3>2. CASE RequestInvalid
      BY <3>2 DEF Inv, TypeOK, CallsInv, RequestInvalid, Ended
    <3> QED BY <1>2, <3>1, <3>2
  <2> QED BY <1>2, <2>1, ControlStep DEF RequestArrives, RequestInvalid, Ended
<1>3. CASE CallHandler \/ HandlerReturns
  <2>1. TypeOK' /\ CallsInv'
    <3>1. CASE CallHandler
      BY <3>1, HandlersAssumption DEF Inv, TypeOK, CallsInv, CallHandler, Ended
    <3>2. CASE HandlerReturns
      BY <3>2, HandlersAssumption DEF Inv, TypeOK, CallsInv, HandlerReturns, Ended
    <3> QED BY <1>3, <3>1, <3>2
  <2> QED BY <1>3, <2>1, ControlStep DEF CallHandler, HandlerReturns, Ended
<1>4. CASE HandlerThrows \/ StopDispatching \/ LoopReturns
  <2>1. TypeOK' /\ CallsInv'
    <3>1. CASE HandlerThrows
      BY <3>1 DEF Inv, TypeOK, CallsInv, HandlerThrows, Ended
    <3>2. CASE StopDispatching
      BY <3>2 DEF Inv, TypeOK, CallsInv, StopDispatching, Ended
    <3>3. CASE LoopReturns
      BY <3>3 DEF Inv, TypeOK, CallsInv, LoopReturns, Ended
    <3> QED BY <1>4, <3>1, <3>2, <3>3
  <2> QED BY <1>4, <2>1, ControlStep DEF HandlerThrows, StopDispatching, LoopReturns, Ended
<1>5. CASE JobReturns \/ TaskReturns \/ TaskFails \/ AppendFails
  <2>1. TypeOK' /\ CallsInv'
    <3>1. CASE JobReturns
      BY <3>1 DEF Inv, TypeOK, CallsInv, JobReturns, Ended
    <3>2. CASE TaskReturns
      BY <3>2 DEF Inv, TypeOK, CallsInv, TaskReturns, Ended
    <3>3. CASE TaskFails
      BY <3>3 DEF Inv, TypeOK, CallsInv, TaskFails, Ended
    <3>4. CASE AppendFails
      BY <3>4 DEF Inv, TypeOK, CallsInv, AppendFails, Ended
    <3> QED BY <1>5, <3>1, <3>2, <3>3, <3>4
  <2> QED BY <1>5, <2>1, ControlStep DEF JobReturns, TaskReturns, TaskFails, AppendFails, Ended
<1>6. CASE RunTask
  <2>1. TypeOK'
    BY <1>6, CallsAssumption DEF Inv, TypeOK, CallsInv, RunTask, Ended
  <2>2. CallsInv'
    BY <1>6, CallsAssumption DEF Inv, TypeOK, CallsInv, RunTask, Ended
  <2> QED BY <1>6, <2>1, <2>2, ControlStep DEF RunTask, Ended
<1>7. CASE ClientLeaves
  <2>1. TypeOK' /\ CallsInv'
    BY <1>7 DEF Inv, TypeOK, CallsInv, ClientLeaves
  <2> QED BY <1>7, <2>1, ControlStep DEF ClientLeaves
<1>8. CASE Stopped
  <2>1. TypeOK' /\ CallsInv'
    BY <1>8 DEF Inv, TypeOK, CallsInv, Stopped, vars
  <2> QED BY <1>8, <2>1, ControlStep DEF Stopped, vars
<1> QED BY <1>1, <1>2, <1>3, <1>4, <1>5, <1>6, <1>7, <1>8

\* The invariant is inductive.
LEMMA NextInv == Inv /\ [Next]_vars => Inv'
<1> SUFFICES ASSUME Inv, [Next]_vars PROVE Inv'
  OBVIOUS
<1>1. CASE Program
  BY <1>1, RespondWithStep, WaitUntilStep, SettleStep, QueueJobStep, MoveStep, FeedStreamStep
  DEF Program
<1>2. CASE Export
  BY <1>2, MoveStep, FinishUnansweredStep, FinishAnsweredStep DEF Export
<1>3. CASE RunJob
  <2>1. CASE DecPendingPromiseCount \/ RunProgram \/ JobReturns \/ StartStreaming
    BY <2>1, TakeOtherStep, MoveStep, StartStreamingStep
  <2>2. ASSUME NEW v \in Outcomes,
               RespondWithError(v) \/ RespondStatic(v) \/ RespondAppending(v)
        PROVE  Inv'
    <3>1. Respond(v)
      BY <2>2 DEF RespondWithError, RespondStatic, RespondAppending
    <3> QED BY <2>2, <3>1, RespondStep
  <2>3. CASE RespondUnusable \/ RespondStream \/ RespondConsumed
    BY <2>3, RespondStep DEF RespondUnusable, RespondStream, RespondConsumed
  <2>4. ASSUME NEW r \in Reads, ReadStops(r)
        PROVE  Inv'
    BY <2>4, ReadStep DEF ReadStops
  <2>5. CASE ReadBytes \/ ReadDone
    BY <2>5, ReadStep DEF ReadBytes, ReadDone
  <2> QED BY <1>3, <2>1, <2>2, <2>3, <2>4, <2>5 DEF RunJob
<1>4. CASE RunTasks
  BY <1>4, MoveStep, AppendDoneStep DEF RunTasks
<1>5. CASE ClientLeaves \/ Stopped
  BY <1>5, MoveStep
<1>6. CASE UNCHANGED vars
  BY <1>6, ControlStep
  DEF vars, eventVars, promiseVars, bodyVars, hostVars, Inv, TypeOK, CallsInv
<1> QED BY <1>1, <1>2, <1>3, <1>4, <1>5, <1>6 DEF Next

-----------------------------------------------------------------------------
(* PendingPromiseCount, by the reactions that it counts. *)

\* The reactions of add_pending_promise that are microtasks, or are attached to
\* a promise, or to any promise.
Decs(s) == {i \in DOMAIN s : s[i].kind = "dec"}
Attached(rs) == {i \in DOMAIN rs : rs[i] = "dec"}
AllAttached(reacts) == UNION {{p} \X Attached(reacts[p]) : p \in Promises}

\* respondWith attaches its handler right after the reaction that counts the
\* promise: among the reactions, and among the microtasks unless the first of
\* the two has just been taken.
FollowsDec(rs) == \A i \in DOMAIN rs : rs[i] = "respond" => i > 1 /\ rs[i - 1] = "dec"
JobFollowsDec(s) ==
  \A i \in DOMAIN s : s[i].kind = "respond" /\ i > 1 => s[i - 1].kind = "dec"
RespondIsNext(s) == s # <<>> /\ s[1].kind = "respond"

\* The invariant of the counter, inductive together with Inv.
CountInv ==
  /\ IsFiniteSet(AllAttached(reactions))
  /\ CountMatchesReactions
  /\ \A p \in Promises : FollowsDec(reactions[p])
  /\ JobFollowsDec(jobs)
  /\ InJS => ~RespondIsNext(jobs)

\* The property, by these names.
LEMMA CountDef ==
  CountMatchesReactions
    <=> count = Cardinality(Decs(jobs)) + Cardinality(AllAttached(reactions))
BY DEF CountMatchesReactions, Decs, AllAttached, Attached

\* A finite set of indices is as large after it is moved by n.
LEMMA ShiftLemma ==
  ASSUME NEW S \in SUBSET Int, IsFiniteSet(S), NEW n \in Int
  PROVE  /\ IsFiniteSet({i + n : i \in S})
         /\ Cardinality({i + n : i \in S}) = Cardinality(S)
<1> DEFINE T == {i + n : i \in S}
           f == [i \in S |-> i + n]
<1>1. f \in Bijection(S, T)
  BY DEF Bijection, Injection, Surjection, IsInjective
<1>2. ExistsBijection(S, T)
  BY <1>1 DEF ExistsBijection
<1> QED BY <1>2, FS_Bijection

\* There are finitely many microtasks.
LEMMA DecsFinite ==
  ASSUME NEW s \in Seq(Jobs)
  PROVE  /\ IsFiniteSet(Decs(s)) /\ Decs(s) \in SUBSET (1..Len(s))
         /\ Cardinality(Decs(s)) \in Nat
         /\ Has(s, "dec") => Cardinality(Decs(s)) > 0
<1>1. Len(s) \in Nat /\ DOMAIN s = 1..Len(s)
  BY LenProperties
<1>2. IsFiniteSet(1..Len(s))
  BY <1>1, FS_Interval
<1>3. Decs(s) \in SUBSET (1..Len(s))
  BY <1>1 DEF Decs
<1>4. IsFiniteSet(Decs(s))
  BY <1>2, <1>3, FS_Subset
<1>5. Cardinality(Decs(s)) \in Nat
  BY <1>4, FS_CardinalityType
<1>6. Has(s, "dec") => Decs(s) # {}
  BY DEF Has, Decs
<1> QED BY <1>3, <1>4, <1>5, <1>6, FS_EmptySet

\* Taking the head takes one reaction of the counter, or none.
LEMMA DecsTail ==
  ASSUME NEW s \in Seq(Jobs), s # <<>>
  PROVE  /\ Cardinality(Decs(Tail(s)))
              = IF Head(s).kind = "dec" THEN Cardinality(Decs(s)) - 1 ELSE Cardinality(Decs(s))
         /\ JobFollowsDec(s) => JobFollowsDec(Tail(s))
         /\ JobFollowsDec(s) /\ RespondIsNext(Tail(s)) => Head(s).kind = "dec"
<1>1. /\ Len(s) \in Nat \ {0}
      /\ DOMAIN s = 1..Len(s)
      /\ Head(s) = s[1]
      /\ Tail(s) \in Seq(Jobs)
      /\ DOMAIN Tail(s) = 1..(Len(s) - 1)
      /\ \A i \in DOMAIN Tail(s) : Tail(s)[i] = s[i + 1]
  BY HeadTailProperties, EmptySeq, LenProperties
<1> DEFINE t == Tail(s)
<1> HIDE DEF t
<1>2. /\ t \in Seq(Jobs) /\ DOMAIN t = 1..(Len(s) - 1)
      /\ \A i \in DOMAIN t : t[i] = s[i + 1]
  BY <1>1 DEF t
<1>3. Decs(s) \ {1} = {i + 1 : i \in Decs(t)}
  <2>1. ASSUME NEW i \in Decs(s) \ {1} PROVE i \in {k + 1 : k \in Decs(t)}
    <3>1. i - 1 \in Decs(t) /\ (i - 1) + 1 = i
      BY <1>1, <1>2, <2>1 DEF Decs
    <3> QED BY <3>1
  <2>2. ASSUME NEW i \in Decs(t) PROVE i + 1 \in Decs(s) \ {1}
    BY <1>1, <1>2, <2>2 DEF Decs
  <2> QED BY <2>1, <2>2
<1>4. /\ IsFiniteSet(Decs(t)) /\ Decs(t) \in SUBSET Int
      /\ IsFiniteSet(Decs(s)) /\ Cardinality(Decs(s)) \in Nat
  BY <1>2, DecsFinite
<1>5. Cardinality(Decs(s) \ {1}) = Cardinality(Decs(t))
  <2> DEFINE n == 1
  <2>1. n \in Int /\ Decs(s) \ {1} = {i + n : i \in Decs(t)}
    BY <1>3
  <2> HIDE DEF n
  <2>2. Cardinality({i + n : i \in Decs(t)}) = Cardinality(Decs(t))
    BY <1>4, <2>1, ShiftLemma
  <2> QED BY <2>1, <2>2
<1>6. 1 \in Decs(s) <=> Head(s).kind = "dec"
  BY <1>1 DEF Decs
<1>7. Cardinality(Decs(t))
        = IF Head(s).kind = "dec" THEN Cardinality(Decs(s)) - 1 ELSE Cardinality(Decs(s))
  BY <1>4, <1>5, <1>6, FS_RemoveElement
<1>8. JobFollowsDec(s) => JobFollowsDec(t)
  <2> SUFFICES ASSUME JobFollowsDec(s), NEW i \in DOMAIN t, t[i].kind = "respond", i > 1
               PROVE  t[i - 1].kind = "dec"
    BY DEF JobFollowsDec
  <2>1. i + 1 \in DOMAIN s /\ i + 1 > 1 /\ s[i + 1].kind = "respond"
    BY <1>1, <1>2
  <2>2. s[(i + 1) - 1].kind = "dec"
    BY <2>1 DEF JobFollowsDec
  <2>3. i - 1 \in DOMAIN t /\ t[i - 1] = s[(i - 1) + 1] /\ (i - 1) + 1 = (i + 1) - 1
    BY <1>2
  <2> QED BY <2>2, <2>3
<1>9. JobFollowsDec(s) /\ RespondIsNext(t) => Head(s).kind = "dec"
  <2> SUFFICES ASSUME JobFollowsDec(s), t # <<>>, t[1].kind = "respond"
               PROVE  Head(s).kind = "dec"
    BY DEF RespondIsNext
  <2>1. 1 \in DOMAIN t
    BY <1>2, EmptySeq, LenProperties
  <2>2. 2 \in DOMAIN s /\ s[2].kind = "respond" /\ 2 - 1 = 1
    BY <1>1, <1>2, <2>1
  <2> QED BY <1>1, <2>2 DEF JobFollowsDec
<1> QED BY <1>7, <1>8, <1>9 DEF t

\* Nothing else that is enqueued counts or answers.
LEMMA DecsAppend ==
  ASSUME NEW s \in Seq(Jobs), NEW j \in Jobs, j.kind \notin {"dec", "respond"}
  PROVE  /\ Decs(Append(s, j)) = Decs(s)
         /\ JobFollowsDec(s) => JobFollowsDec(Append(s, j))
         /\ RespondIsNext(Append(s, j)) => RespondIsNext(s)
<1> DEFINE t == Append(s, j)
<1>1. /\ Len(s) \in Nat /\ DOMAIN s = 1..Len(s)
      /\ DOMAIN t = 1..(Len(s) + 1)
      /\ \A i \in DOMAIN s : t[i] = s[i]
      /\ t[Len(s) + 1] = j
      /\ s = <<>> <=> Len(s) = 0
  BY AppendProperties, LenProperties, EmptySeq
<1> HIDE DEF t
<1>2. Decs(t) = Decs(s)
  BY <1>1 DEF Decs
<1>3. JobFollowsDec(s) => JobFollowsDec(t)
  BY <1>1 DEF JobFollowsDec
<1>4. RespondIsNext(t) => RespondIsNext(s)
  BY <1>1 DEF RespondIsNext
<1> QED BY <1>2, <1>3, <1>4 DEF t

\* The reactions of a settled promise: those that count stay that many.
LEMMA DecsJobs ==
  ASSUME NEW s \in Seq(Jobs), NEW rs \in Seq({"dec", "respond"}), NEW v \in Values
  PROVE  /\ IsFiniteSet(Attached(rs))
         /\ Cardinality(Decs(s \o JobsOf(rs, v)))
              = Cardinality(Decs(s)) + Cardinality(Attached(rs))
         /\ JobFollowsDec(s) /\ FollowsDec(rs) => JobFollowsDec(s \o JobsOf(rs, v))
         /\ FollowsDec(rs) /\ RespondIsNext(s \o JobsOf(rs, v)) => RespondIsNext(s)
<1> DEFINE t == JobsOf(rs, v)
           u == s \o t
<1>1. /\ Len(rs) \in Nat /\ DOMAIN rs = 1..Len(rs)
      /\ \A i \in DOMAIN rs : rs[i] \in {"dec", "respond"}
  BY LenProperties, ElementOfSeq
<1>2. t \in Seq(Jobs) /\ Len(t) = Len(rs)
  <2>1. \A i \in 1..Len(rs) : [kind |-> rs[i], value |-> v] \in Jobs
    BY <1>1 DEF Jobs
  <2>2. t \in [1..Len(rs) -> Jobs]
    BY <1>1, <2>1 DEF JobsOf
  <2> QED BY <1>1, <2>2 DEF JobsOf
<1>3. DOMAIN t = DOMAIN rs /\ \A i \in DOMAIN t : t[i].kind = rs[i]
  BY DEF JobsOf
<1>4. Decs(t) = Attached(rs)
  BY <1>3 DEF Decs, Attached
<1> HIDE DEF t
<1>5. /\ u \in Seq(Jobs)
      /\ Len(s) \in Nat /\ DOMAIN s = 1..Len(s)
      /\ DOMAIN u = 1..(Len(s) + Len(rs))
      /\ \A i \in DOMAIN s : i \in DOMAIN u /\ u[i] = s[i]
      /\ \A i \in DOMAIN t : i + Len(s) \in DOMAIN u /\ u[i + Len(s)] = t[i]
      /\ \A i \in DOMAIN u :
           \/ i \in DOMAIN s
           \/ i > Len(s) /\ i - Len(s) \in DOMAIN t /\ u[i] = t[i - Len(s)]
  <2>1. /\ u \in Seq(Jobs)
        /\ Len(u) = Len(s) + Len(t)
        /\ \A i \in 1..(Len(s) + Len(t)) :
             u[i] = IF i <= Len(s) THEN s[i] ELSE t[i - Len(s)]
    BY <1>2, ConcatProperties
  <2>2. Len(s) \in Nat /\ DOMAIN s = 1..Len(s)
    BY LenProperties
  <2>3. DOMAIN u = 1..Len(u)
    BY <2>1, LenProperties
  <2> HIDE DEF u
  <2> QED BY <1>1, <1>2, <1>3, <2>1, <2>2, <2>3
<1> HIDE DEF u
<1>6. Cardinality(Decs(u)) = Cardinality(Decs(s)) + Cardinality(Attached(rs))
  <2> DEFINE moved == {i + Len(s) : i \in Decs(t)}
  <2>1. /\ IsFiniteSet(Decs(t)) /\ Decs(t) \in SUBSET (1..Len(t))
        /\ IsFiniteSet(Decs(s)) /\ Decs(s) \in SUBSET (1..Len(s))
    BY <1>2, DecsFinite
  <2>2. IsFiniteSet(moved) /\ Cardinality(moved) = Cardinality(Attached(rs))
    <3>1. Decs(t) \in SUBSET Int /\ Len(s) \in Int
      BY <1>5, <2>1
    <3> QED BY <1>4, <2>1, <3>1, ShiftLemma
  <2>3. Decs(s) \cap moved = {}
    BY <1>2, <1>5, <2>1
  <2>4. Decs(u) = Decs(s) \cup moved
    <3>1. ASSUME NEW i \in Decs(u) PROVE i \in Decs(s) \cup moved
      <4>1. CASE i \in DOMAIN s
        BY <1>5, <3>1, <4>1 DEF Decs
      <4>2. CASE i \notin DOMAIN s
        <5>1. i - Len(s) \in Decs(t) /\ (i - Len(s)) + Len(s) = i
          BY <1>5, <3>1, <4>2 DEF Decs
        <5> QED BY <5>1
      <4> QED BY <4>1, <4>2
    <3>2. ASSUME NEW i \in Decs(s) PROVE i \in Decs(u)
      BY <1>5, <3>2 DEF Decs
    <3>3. ASSUME NEW i \in Decs(t) PROVE i + Len(s) \in Decs(u)
      BY <1>5, <3>3 DEF Decs
    <3> QED BY <3>1, <3>2, <3>3
  <2> HIDE DEF moved
  <2>5. Cardinality(Decs(u)) = Cardinality(Decs(s)) + Cardinality(moved) - Cardinality({})
    <3> DEFINE a == Decs(s)
    <3>1. IsFiniteSet(a) /\ IsFiniteSet(moved)
      BY <2>1, <2>2
    <3> HIDE DEF a
    <3>2. Cardinality(a \cup moved) = Cardinality(a) + Cardinality(moved) - Cardinality(a \cap moved)
      BY <3>1, FS_Union
    <3> QED BY <2>3, <2>4, <3>2 DEF a
  <2>6. Cardinality(Decs(s)) \in Nat /\ Cardinality(moved) \in Nat /\ Cardinality({}) = 0
    BY <2>1, <2>2, FS_CardinalityType, FS_EmptySet
  <2>7. Cardinality(Decs(u)) = Cardinality(Decs(s)) + Cardinality(moved)
    <3> DEFINE c == Cardinality(Decs(s)) + Cardinality(moved)
               none == Cardinality({})
    <3>1. c \in Nat /\ none = 0 /\ Cardinality(Decs(u)) = c - none
      BY <2>5, <2>6
    <3> HIDE DEF c, none
    <3>2. Cardinality(Decs(u)) = c
      BY <3>1
    <3> QED BY <3>2 DEF c
  <2> QED BY <2>2, <2>7
<1>7. JobFollowsDec(s) /\ FollowsDec(rs) => JobFollowsDec(u)
  <2> SUFFICES ASSUME JobFollowsDec(s), FollowsDec(rs),
                      NEW i \in DOMAIN u, u[i].kind = "respond", i > 1
               PROVE  u[i - 1].kind = "dec"
    BY DEF JobFollowsDec
  <2>1. CASE i \in DOMAIN s
    <3>1. i - 1 \in DOMAIN s
      BY <1>5, <2>1
    <3> QED BY <1>5, <2>1, <3>1 DEF JobFollowsDec
  <2>2. CASE i \notin DOMAIN s
    <3> DEFINE k == i - Len(s)
    <3>1. k \in DOMAIN rs /\ rs[k] = "respond"
      BY <1>3, <1>5, <2>2
    <3>2. k > 1 /\ rs[k - 1] = "dec"
      BY <3>1 DEF FollowsDec
    <3>3. k - 1 \in DOMAIN t /\ (k - 1) + Len(s) = i - 1
      BY <1>1, <1>3, <1>5, <3>1, <3>2
    <3> QED BY <1>3, <1>5, <3>2, <3>3
  <2> QED BY <2>1, <2>2
<1>8. FollowsDec(rs) /\ RespondIsNext(u) => RespondIsNext(s)
  <2> SUFFICES ASSUME FollowsDec(rs), u # <<>>, u[1].kind = "respond"
               PROVE  s # <<>> /\ s[1].kind = "respond"
    BY DEF RespondIsNext
  <2>1. 1 \in DOMAIN u
    BY <1>5, EmptySeq, LenProperties
  <2>2. CASE 1 \in DOMAIN s
    <3>1. s # <<>>
      BY <2>2
    <3> QED BY <1>5, <2>2, <3>1
  <2>3. CASE 1 \notin DOMAIN s
    <3>1. Len(s) = 0
      BY <1>5, <2>3
    <3>2. 1 \in DOMAIN rs /\ rs[1] = "respond"
      BY <1>3, <1>5, <2>1, <2>3, <3>1
    <3> QED BY <3>2 DEF FollowsDec
  <2> QED BY <2>2, <2>3
<1>9. IsFiniteSet(Attached(rs))
  BY <1>2, <1>4, DecsFinite
<1> QED BY <1>6, <1>7, <1>8, <1>9 DEF t, u

\* The two lists of reactions that the event attaches.
LEMMA AddedReactions ==
  ASSUME NEW rs, rs \in {<<"dec">>, <<"dec", "respond">>}
  PROVE  /\ rs \in Seq({"dec", "respond"})
         /\ Len(rs) \in {1, 2} /\ rs[1] = "dec"
         /\ Len(rs) = 2 => rs[2] = "respond"
         /\ FollowsDec(rs) /\ Attached(rs) = {1} /\ Cardinality(Attached(rs)) = 1
<1>1. CASE rs = <<"dec">>
  BY <1>1, FS_Singleton DEF FollowsDec, Attached
<1>2. CASE rs = <<"dec", "respond">>
  <2>1. rs \in Seq({"dec", "respond"}) /\ DOMAIN rs = {1, 2} /\ Len(rs) = 2
    BY <1>2
  <2>2. rs[1] = "dec" /\ rs[2] = "respond"
    BY <1>2
  <2>3. FollowsDec(rs) /\ Attached(rs) = {1}
    BY <2>1, <2>2 DEF FollowsDec, Attached
  <2> QED BY <2>1, <2>2, <2>3, FS_Singleton
<1> QED BY <1>1, <1>2

\* They count their promise once, wherever they are attached.
LEMMA AttachLemma ==
  ASSUME NEW reacts \in [Promises -> Seq({"dec", "respond"})],
         IsFiniteSet(AllAttached(reacts)), \A p \in Promises : FollowsDec(reacts[p]),
         NEW q \in Promises, NEW rs, rs \in {<<"dec">>, <<"dec", "respond">>},
         NEW new, new = [reacts EXCEPT ![q] = @ \o rs]
  PROVE  /\ IsFiniteSet(AllAttached(new))
         /\ Cardinality(AllAttached(new)) = Cardinality(AllAttached(reacts)) + 1
         /\ \A p \in Promises : FollowsDec(new[p])
<1> DEFINE l == Len(reacts[q])
           k == Len(rs)
           n == l + 1
           r == reacts[q] \o rs
<1>1. /\ reacts[q] \in Seq({"dec", "respond"})
      /\ new[q] = r /\ \A p \in Promises \ {q} : new[p] = reacts[p]
  OBVIOUS
<1>2. /\ l \in Nat /\ DOMAIN reacts[q] = 1..l
      /\ DOMAIN r = 1..(l + k)
      /\ \A i \in DOMAIN reacts[q] : r[i] = reacts[q][i]
      /\ r[n] = "dec"
      /\ k = 2 => r[n + 1] = "respond"
      /\ k \in {1, 2}
  <2>1. /\ rs \in Seq({"dec", "respond"})
        /\ k \in {1, 2} /\ rs[1] = "dec"
        /\ k = 2 => rs[2] = "respond"
    BY AddedReactions
  <2>2. l \in Nat /\ DOMAIN reacts[q] = 1..l
    BY <1>1, LenProperties
  <2>3. /\ r \in Seq({"dec", "respond"}) /\ Len(r) = l + k
        /\ \A i \in 1..(l + k) :
             r[i] = IF i <= l THEN reacts[q][i] ELSE rs[i - l]
    BY <1>1, <2>1, ConcatProperties
  <2>4. DOMAIN r = 1..Len(r)
    BY <2>3, LenProperties
  <2> HIDE DEF r, l, k
  <2> QED BY <2>1, <2>2, <2>3, <2>4
<1> HIDE DEF r, l, k
<1>3. AllAttached(new) = AllAttached(reacts) \cup {<<q, n>>}
  <2>1. ASSUME NEW i PROVE i \in Attached(r) <=> i \in Attached(reacts[q]) \/ i = n
    <3>1. i \in DOMAIN r => i \in DOMAIN reacts[q] \/ i = n \/ (i = n + 1 /\ k = 2)
      BY <1>2
    <3>2. i \in DOMAIN reacts[q] \/ i = n => i \in DOMAIN r
      <4>1. CASE k = 1
        BY <1>2, <4>1
      <4>2. CASE k = 2
        BY <1>2, <4>2
      <4> QED BY <1>2, <4>1, <4>2
    <3> HIDE DEF n
    <3> QED BY <1>2, <3>1, <3>2 DEF Attached
  <2> HIDE DEF n
  <2>2. ASSUME NEW x PROVE x \in AllAttached(new) <=> x \in AllAttached(reacts) \/ x = <<q, n>>
    <3>1. ASSUME NEW p \in Promises, NEW i
          PROVE  i \in Attached(new[p])
                   <=> i \in Attached(reacts[p]) \/ (p = q /\ i = n)
      BY <1>1, <2>1
    <3>2. x \in AllAttached(new)
            <=> \E p \in Promises : \E i \in Attached(new[p]) : x = <<p, i>>
      BY DEF AllAttached
    <3>3. x \in AllAttached(reacts)
            <=> \E p \in Promises : \E i \in Attached(reacts[p]) : x = <<p, i>>
      BY DEF AllAttached
    <3> QED BY <3>1, <3>2, <3>3, Zenon
  <2> QED BY <2>2
<1>4. <<q, n>> \notin AllAttached(reacts)
  <2>1. n \notin Attached(reacts[q])
    BY <1>2 DEF Attached
  <2> HIDE DEF n
  <2> QED BY <2>1 DEF AllAttached
<1>5. \A p \in Promises : FollowsDec(new[p])
  <2>1. FollowsDec(r)
    <3> SUFFICES ASSUME NEW i \in DOMAIN r, r[i] = "respond"
                 PROVE  i > 1 /\ r[i - 1] = "dec"
      BY DEF FollowsDec
    <3>1. CASE i \in DOMAIN reacts[q]
      <4>1. i > 1 /\ reacts[q][i - 1] = "dec"
        BY <1>2, <3>1 DEF FollowsDec
      <4>2. i - 1 \in DOMAIN reacts[q]
        BY <1>2, <3>1, <4>1
      <4> QED BY <1>2, <4>1, <4>2
    <3>2. CASE i \notin DOMAIN reacts[q]
      <4>1. i = n \/ i = n + 1
        BY <1>2, <3>2
      <4>2. i = n + 1 /\ i - 1 = n /\ i > 1
        BY <1>2, <4>1
      <4> QED BY <1>2, <4>2
    <3> QED BY <3>1, <3>2
  <2> QED BY <1>1, <2>1
<1> DEFINE old == AllAttached(reacts)
           x == <<q, n>>
<1>6. IsFiniteSet(old) /\ x \notin old /\ AllAttached(new) = old \cup {x}
  BY <1>3, <1>4
<1> HIDE DEF n, old, x
<1>7. IsFiniteSet(old \cup {x}) /\ Cardinality(old \cup {x}) = Cardinality(old) + 1
  BY <1>6, FS_AddElement
<1> QED BY <1>5, <1>6, <1>7 DEF old

\* A promise that settles gives up its reactions.
LEMMA DetachLemma ==
  ASSUME NEW reacts \in [Promises -> Seq({"dec", "respond"})],
         IsFiniteSet(AllAttached(reacts)), \A p \in Promises : FollowsDec(reacts[p]),
         NEW q \in Promises, NEW new, new = [reacts EXCEPT ![q] = <<>>]
  PROVE  /\ IsFiniteSet(AllAttached(new))
         /\ Cardinality(AllAttached(new))
              = Cardinality(AllAttached(reacts)) - Cardinality(Attached(reacts[q]))
         /\ \A p \in Promises : FollowsDec(new[p])
<1> DEFINE own == {q} \X Attached(reacts[q])
<1>1. new[q] = <<>> /\ \A p \in Promises \ {q} : new[p] = reacts[p]
  OBVIOUS
<1>2. Attached(<<>>) = {} /\ FollowsDec(<<>>)
  BY DEF Attached, FollowsDec
<1>3. /\ AllAttached(new) = AllAttached(reacts) \ own
      /\ own \in SUBSET AllAttached(reacts)
  <2>1. ASSUME NEW x PROVE x \in AllAttached(new) <=> x \in AllAttached(reacts) /\ x \notin own
    <3>1. x \in AllAttached(new)
            <=> \E p \in Promises : \E i \in Attached(new[p]) : x = <<p, i>>
      BY DEF AllAttached
    <3>2. x \in AllAttached(reacts)
            <=> \E p \in Promises : \E i \in Attached(reacts[p]) : x = <<p, i>>
      BY DEF AllAttached
    <3>3. x \in own <=> \E i \in Attached(reacts[q]) : x = <<q, i>>
      OBVIOUS
    <3>4. \A p \in Promises : \A i :
            i \in Attached(new[p]) <=> p # q /\ i \in Attached(reacts[p])
      BY <1>1, <1>2
    <3>5. \A p, r, i, k : <<p, i>> = <<r, k>> => p = r /\ i = k
      OBVIOUS
    <3> HIDE DEF own
    <3>6. ASSUME x \in AllAttached(new) PROVE x \in AllAttached(reacts) /\ x \notin own
      <4>1. PICK p \in Promises : \E i \in Attached(new[p]) : x = <<p, i>>
        BY <3>1, <3>6
      <4>2. PICK i \in Attached(new[p]) : x = <<p, i>>
        BY <4>1
      <4>3. p # q /\ i \in Attached(reacts[p])
        BY <3>4, <4>2
      <4> QED BY <3>2, <3>3, <3>5, <4>2, <4>3
    <3>7. ASSUME x \in AllAttached(reacts), x \notin own PROVE x \in AllAttached(new)
      <4>1. PICK p \in Promises : \E i \in Attached(reacts[p]) : x = <<p, i>>
        BY <3>2, <3>7
      <4>2. PICK i \in Attached(reacts[p]) : x = <<p, i>>
        BY <4>1
      <4>3. p # q
        BY <3>3, <3>7, <4>2
      <4> QED BY <3>1, <3>4, <4>2, <4>3
    <3> QED BY <3>6, <3>7
  <2>2. ASSUME NEW x \in own PROVE x \in AllAttached(reacts)
    BY DEF AllAttached
  <2> QED BY <2>1, <2>2
<1>4. IsFiniteSet(own) /\ AllAttached(reacts) \cap own = own
  BY <1>3, FS_Subset
<1>5. Cardinality(own) = Cardinality(Attached(reacts[q]))
  <2> DEFINE f == [i \in Attached(reacts[q]) |-> <<q, i>>]
  <2>1. f \in Bijection(Attached(reacts[q]), own)
    <3>1. f \in [Attached(reacts[q]) -> own]
      OBVIOUS
    <3>2. \A x \in own : \E i \in Attached(reacts[q]) : f[i] = x
      OBVIOUS
    <3>3. \A i, k \in Attached(reacts[q]) : f[i] = f[k] => i = k
      OBVIOUS
    <3> HIDE DEF f, own
    <3> QED BY <3>1, <3>2, <3>3 DEF Bijection, Injection, Surjection, IsInjective
  <2>2. ExistsBijection(Attached(reacts[q]), own)
    BY <2>1 DEF ExistsBijection
  <2>3. IsFiniteSet(Attached(reacts[q]))
    <3>1. DOMAIN reacts[q] = 1..Len(reacts[q]) /\ Len(reacts[q]) \in Nat
      BY LenProperties
    <3>2. Attached(reacts[q]) \in SUBSET (1..Len(reacts[q]))
      BY <3>1 DEF Attached
    <3>3. IsFiniteSet(1..Len(reacts[q]))
      BY <3>1, FS_Interval
    <3> QED BY <3>2, <3>3, FS_Subset
  <2> QED BY <2>2, <2>3, FS_Bijection
<1> HIDE DEF own
<1>6. \A p \in Promises : FollowsDec(new[p])
  BY <1>1, <1>2
<1>7. /\ IsFiniteSet(AllAttached(reacts) \ own)
      /\ Cardinality(AllAttached(reacts) \ own)
           = Cardinality(AllAttached(reacts)) - Cardinality(AllAttached(reacts) \cap own)
  BY FS_Difference
<1> QED BY <1>3, <1>4, <1>5, <1>6, <1>7

\* No reaction waits at first.
LEMMA InitCount == Init => CountInv
<1> SUFFICES ASSUME Init PROVE CountInv
  OBVIOUS
<1>1. DOMAIN <<>> = {}
  OBVIOUS
<1>2. Decs(jobs) = {} /\ JobFollowsDec(jobs) /\ ~RespondIsNext(jobs)
  BY <1>1 DEF Init, Decs, JobFollowsDec, RespondIsNext
<1>3. \A p \in Promises : Attached(reactions[p]) = {} /\ FollowsDec(reactions[p])
  BY <1>1 DEF Init, Attached, FollowsDec
<1>4. AllAttached(reactions) = {}
  BY <1>3 DEF AllAttached
<1>5. CountMatchesReactions
  <2>1. count = 0 /\ Cardinality({}) = 0
    BY FS_EmptySet DEF Init
  <2>2. count = Cardinality(Decs(jobs)) + Cardinality(AllAttached(reactions))
    BY <1>2, <1>4, <2>1
  <2> QED BY <2>2, CountDef
<1> QED BY <1>2, <1>3, <1>4, <1>5, FS_EmptySet DEF CountInv

\* Steps that leave the counter and what it counts alone.
LEMMA CountKept ==
  ASSUME CountInv, UNCHANGED <<count, reactions, jobs>>,
         InJS' => InJS \/ ~RespondIsNext(jobs)
  PROVE  CountInv'
<1>1. CountMatchesReactions'
  BY DEF CountInv, CountMatchesReactions
<1> QED BY <1>1 DEF CountInv, AllAttached

\* add_pending_promise: the promise is counted, and its reaction attached.
LEMMA AttachCounted ==
  ASSUME Inv, CountInv, NEW p \in Promises,
         NEW rs, rs \in {<<"dec">>, <<"dec", "respond">>},
         AddReactions(p, rs), count' = count + 1, InJS
  PROVE  CountInv'
<1>1. /\ reactions \in [Promises -> Seq({"dec", "respond"})]
      /\ jobs \in Seq(Jobs) /\ value[p] \in Outcomes \cup {"pending"}
      /\ count = Cardinality(Decs(jobs)) + Cardinality(AllAttached(reactions))
      /\ Cardinality(Decs(jobs)) \in Nat /\ Cardinality(AllAttached(reactions)) \in Nat
  BY CountDef, DecsFinite, FS_CardinalityType DEF Inv, TypeOK, CountInv
<1>2. CASE value[p] = "pending"
  <2>1. jobs' = jobs /\ reactions' = [reactions EXCEPT ![p] = @ \o rs]
    BY <1>2 DEF AddReactions
  <2>2. /\ IsFiniteSet(AllAttached(reactions'))
        /\ Cardinality(AllAttached(reactions')) = Cardinality(AllAttached(reactions)) + 1
        /\ \A q \in Promises : FollowsDec(reactions'[q])
    BY <1>1, <2>1, AttachLemma DEF CountInv
  <2>3. count' = Cardinality(Decs(jobs')) + Cardinality(AllAttached(reactions'))
    BY <1>1, <2>1, <2>2
  <2>4. CountMatchesReactions'
    BY <2>3 DEF CountMatchesReactions, Decs, AllAttached, Attached
  <2> QED BY <2>1, <2>2, <2>4 DEF CountInv, AllAttached
<1>3. CASE value[p] # "pending"
  <2>1. jobs' = jobs \o JobsOf(rs, value[p]) /\ reactions' = reactions
    BY <1>3 DEF AddReactions
  <2>2. value[p] \in Values
    BY <1>1, <1>3, OutcomesAssumption
  <2>3. /\ rs \in Seq({"dec", "respond"}) /\ FollowsDec(rs)
        /\ Cardinality(Attached(rs)) = 1
    BY AddedReactions
  <2>4. /\ Cardinality(Decs(jobs')) = Cardinality(Decs(jobs)) + 1
        /\ JobFollowsDec(jobs') /\ ~RespondIsNext(jobs')
    BY <1>1, <2>1, <2>2, <2>3, DecsJobs DEF CountInv
  <2>5. count' = Cardinality(Decs(jobs')) + Cardinality(AllAttached(reactions'))
    BY <1>1, <2>1, <2>4
  <2>6. CountMatchesReactions'
    BY <2>5 DEF CountMatchesReactions, Decs, AllAttached, Attached
  <2> QED BY <2>1, <2>4, <2>6 DEF CountInv, AllAttached
<1> QED BY <1>2, <1>3

\* A promise settles: its reactions move to the queue and still count.
LEMMA SettleCounted ==
  ASSUME Inv, CountInv, NEW p \in Promises, NEW v \in Outcomes, Settle(p, v)
  PROVE  CountInv'
<1>1. /\ reactions \in [Promises -> Seq({"dec", "respond"})]
      /\ reactions[p] \in Seq({"dec", "respond"}) /\ FollowsDec(reactions[p])
      /\ jobs \in Seq(Jobs) /\ v \in Values
      /\ jobs' = jobs \o JobsOf(reactions[p], v)
      /\ reactions' = [reactions EXCEPT ![p] = <<>>]
      /\ count' = count /\ InJS
  BY OutcomesAssumption DEF Inv, TypeOK, CountInv, Settle, Call, eventVars
<1>2. /\ count = Cardinality(Decs(jobs)) + Cardinality(AllAttached(reactions))
      /\ Cardinality(Decs(jobs)) \in Nat /\ Cardinality(AllAttached(reactions)) \in Nat
  BY <1>1, CountDef, DecsFinite, FS_CardinalityType DEF CountInv
<1>3. /\ IsFiniteSet(Attached(reactions[p]))
      /\ Cardinality(Decs(jobs')) = Cardinality(Decs(jobs)) + Cardinality(Attached(reactions[p]))
      /\ JobFollowsDec(jobs') /\ ~RespondIsNext(jobs')
  BY <1>1, DecsJobs DEF CountInv
<1>4. Cardinality(Attached(reactions[p])) \in Nat
  BY <1>3, FS_CardinalityType
<1>5. /\ IsFiniteSet(AllAttached(reactions'))
      /\ Cardinality(AllAttached(reactions'))
           = Cardinality(AllAttached(reactions)) - Cardinality(Attached(reactions[p]))
      /\ \A q \in Promises : FollowsDec(reactions'[q])
  BY <1>1, DetachLemma DEF CountInv
<1>6. count' = Cardinality(Decs(jobs')) + Cardinality(AllAttached(reactions'))
  BY <1>1, <1>2, <1>3, <1>4, <1>5
<1>7. CountMatchesReactions'
  BY <1>6 DEF CountMatchesReactions, Decs, AllAttached, Attached
<1> QED BY <1>3, <1>5, <1>7 DEF CountInv, AllAttached

\* A microtask that does not count is enqueued.
LEMMA AppendCounted ==
  ASSUME Inv, CountInv, NEW j \in Jobs, j.kind \notin {"dec", "respond"},
         jobs' = Append(jobs, j), UNCHANGED <<count, reactions>>, InJS
  PROVE  CountInv'
<1>1. jobs \in Seq(Jobs)
  BY DEF Inv, TypeOK
<1>2. Decs(jobs') = Decs(jobs) /\ JobFollowsDec(jobs') /\ ~RespondIsNext(jobs')
  BY <1>1, DecsAppend DEF CountInv
<1>3. count' = Cardinality(Decs(jobs')) + Cardinality(AllAttached(reactions'))
  BY <1>2, CountDef DEF CountInv
<1>4. CountMatchesReactions'
  BY <1>3 DEF CountMatchesReactions, Decs, AllAttached, Attached
<1> QED BY <1>2, <1>4 DEF CountInv, AllAttached

\* A microtask is taken: dec_pending_promise_count, or one that does not count,
\* whose code runs before respondWith's handler does.
LEMMA TakeCounted ==
  ASSUME Inv, CountInv, jobs # <<>>, jobs' = Tail(jobs), reactions' = reactions,
         count' = IF Head(jobs).kind = "dec" THEN count - 1 ELSE count,
         InJS' => Head(jobs).kind # "dec"
  PROVE  CountInv'
<1>1. jobs \in Seq(Jobs)
  BY DEF Inv, TypeOK
<1>2. /\ Cardinality(Decs(jobs'))
           = IF Head(jobs).kind = "dec" THEN Cardinality(Decs(jobs)) - 1
                                       ELSE Cardinality(Decs(jobs))
      /\ JobFollowsDec(jobs')
      /\ RespondIsNext(jobs') => Head(jobs).kind = "dec"
  BY <1>1, DecsTail DEF CountInv
<1>3. /\ count = Cardinality(Decs(jobs)) + Cardinality(AllAttached(reactions))
      /\ Cardinality(Decs(jobs)) \in Nat /\ Cardinality(AllAttached(reactions)) \in Nat
  BY <1>1, CountDef, DecsFinite, FS_CardinalityType DEF CountInv
<1>4. count' = Cardinality(Decs(jobs')) + Cardinality(AllAttached(reactions'))
  BY <1>2, <1>3
<1>5. CountMatchesReactions'
  BY <1>4 DEF CountMatchesReactions, Decs, AllAttached, Attached
<1> QED BY <1>2, <1>5 DEF CountInv, AllAttached

\* The invariant of the counter is inductive, given that of the event.
LEMMA NextCount == Inv /\ CountInv /\ [Next]_vars => CountInv'
<1> SUFFICES ASSUME Inv, CountInv, [Next]_vars PROVE CountInv'
  OBVIOUS
<1> USE DEF eventVars, promiseVars
<1>1. CASE Program
  <2>1. ASSUME NEW p \in Promises, RespondWith(p) PROVE CountInv'
    <3>1. AddReactions(p, <<"dec", "respond">>) /\ count' = count + 1 /\ InJS
      BY <2>1 DEF RespondWith, CountPending, Call
    <3> QED BY <3>1, AttachCounted
  <2>2. ASSUME NEW p \in Promises, WaitUntil(p) PROVE CountInv'
    <3>1. AddReactions(p, <<"dec">>) /\ count' = count + 1 /\ InJS
      BY <2>2 DEF WaitUntil, CountPending, Call
    <3> QED BY <3>1, AttachCounted
  <2>3. CASE QueueJob
    <3> DEFINE j == [kind |-> "js", value |-> "none"]
    <3>1. /\ j \in Jobs /\ j.kind \notin {"dec", "respond"} /\ jobs' = Append(jobs, j)
          /\ UNCHANGED <<count, reactions>> /\ InJS
      BY <2>3 DEF QueueJob, Call, Jobs
    <3> HIDE DEF j
    <3> QED BY <3>1, AppendCounted
  <2>4. ASSUME NEW r \in Reads, FeedStream(r) PROVE CountInv'
    <3> DEFINE j == [kind |-> "read", value |-> r]
    <3>1. /\ j \in Jobs /\ j.kind \notin {"dec", "respond"} /\ jobs' = Append(jobs, j)
          /\ UNCHANGED <<count, reactions>> /\ InJS
      BY <2>4 DEF FeedStream, Call, Jobs
    <3> HIDE DEF j
    <3> QED BY <3>1, AppendCounted
  <2>5. CASE QueueTask
    BY <2>5, CountKept DEF QueueTask, InJS
  <2> QED BY <1>1, <2>1, <2>2, <2>3, <2>4, <2>5, SettleCounted DEF Program
<1>2. CASE Export
  <2>1. CASE CallHandler
    <3>1. state = "unhandled" /\ pc = "dispatch" /\ UNCHANGED <<count, reactions, jobs>>
      BY <2>1 DEF CallHandler
    <3>2. ~Has(jobs, "respond")
      BY <3>1 DEF Inv, RespondInv, Outstanding
    <3>3. ~RespondIsNext(jobs)
      <4>1. jobs \in Seq(Jobs)
        BY DEF Inv, TypeOK
      <4>2. jobs # <<>> => 1 \in DOMAIN jobs
        BY <4>1, EmptySeq, LenProperties
      <4> QED BY <3>2, <4>2 DEF RespondIsNext, Has
    <3> QED BY <3>1, <3>3, CountKept
  <2>2. CASE ~CallHandler
    <3>1. UNCHANGED <<count, reactions, jobs>> /\ ~InJS'
      BY <1>2, <2>2
      DEF Export, RequestArrives, RequestInvalid, HandlerReturns, HandlerThrows,
          StopDispatching, LoopReturns, FinishUnanswered, FinishAnswered, InJS
    <3> QED BY <3>1, CountKept
  <2> QED BY <2>1, <2>2
<1>3. CASE RunJob
  <2>1. CASE DecPendingPromiseCount
    <3>1. /\ jobs # <<>> /\ jobs' = Tail(jobs) /\ Head(jobs).kind = "dec"
          /\ reactions' = reactions /\ count' = count - 1 /\ ~InJS'
      BY <2>1 DEF DecPendingPromiseCount, TakeJob, InJS
    <3> QED BY <3>1, TakeCounted
  <2>2. CASE JobReturns \/ StartStreaming
    <3>1. UNCHANGED <<count, reactions, jobs>> /\ ~InJS'
      BY <2>2 DEF JobReturns, StartStreaming, InJS
    <3> QED BY <3>1, CountKept
  <2>3. CASE RunProgram
    <3>1. /\ jobs # <<>> /\ jobs' = Tail(jobs) /\ Head(jobs).kind # "dec"
          /\ UNCHANGED <<count, reactions>>
      BY <2>3 DEF RunProgram, TakeJob
    <3> QED BY <3>1, TakeCounted
  <2>4. ASSUME NEW v, Respond(v), jobs' = Tail(jobs) PROVE CountInv'
    <3>1. /\ jobs # <<>> /\ Head(jobs).kind # "dec" /\ UNCHANGED <<count, reactions>>
      BY <2>4 DEF Respond, TakeJob
    <3> QED BY <2>4, <3>1, TakeCounted
  <2>5. ASSUME NEW r, BodyRead(r), jobs' = Tail(jobs) PROVE CountInv'
    <3>1. /\ jobs # <<>> /\ Head(jobs).kind # "dec" /\ UNCHANGED <<count, reactions>>
      BY <2>5 DEF BodyRead, TakeJob
    <3> QED BY <2>5, <3>1, TakeCounted
  <2>6. ASSUME NEW v \in Outcomes,
               RespondWithError(v) \/ RespondStatic(v) \/ RespondAppending(v)
        PROVE  CountInv'
    <3>1. Respond(v) /\ jobs' = Tail(jobs)
      BY <2>6 DEF RespondWithError, RespondStatic, RespondAppending
    <3> QED BY <2>4, <3>1
  <2>7. CASE RespondUnusable \/ RespondStream \/ RespondConsumed
    BY <2>4, <2>7 DEF RespondUnusable, RespondStream, RespondConsumed
  <2>8. ASSUME NEW r \in Reads, ReadStops(r) PROVE CountInv'
    BY <2>5, <2>8 DEF ReadStops
  <2>9. CASE ReadBytes \/ ReadDone
    BY <2>5, <2>9 DEF ReadBytes, ReadDone
  <2> QED BY <1>3, <2>1, <2>2, <2>3, <2>6, <2>7, <2>8, <2>9 DEF RunJob
<1>4. CASE RunTasks
  <2>1. UNCHANGED <<count, reactions, jobs>> /\ (InJS' => jobs = <<>>)
    BY <1>4 DEF RunTasks, RunTask, TaskReturns, TaskFails, AppendDone, AppendFails, InJS
  <2> QED BY <2>1, CountKept DEF RespondIsNext
<1>5. CASE ClientLeaves \/ Stopped \/ UNCHANGED vars
  <2>1. UNCHANGED <<count, reactions, jobs, pc>>
    BY <1>5 DEF ClientLeaves, Stopped, vars
  <2> QED BY <2>1, CountKept DEF InJS
<1> QED BY <1>1, <1>2, <1>3, <1>4, <1>5 DEF Next

-----------------------------------------------------------------------------
(* The theorems. *)

\* The inductive invariant holds in every reachable state.
THEOREM EventInvariance == Spec => []Inv
BY InitInv, NextInv, PTL DEF Spec

\* The state of the event is well typed: in particular, the state of the event
\* is one of FetchEvent::State and the bounds of the model are kept.
THEOREM EventTypeCorrect == Spec => []TypeOK
<1>1. Inv => TypeOK
  BY DEF Inv
<1> QED BY EventInvariance, <1>1, PTL

\* The host's response_outparam is set exactly when response_started says so,
\* so at most once, whatever the interleaving of handlers, microtasks, tasks and
\* the end of the export.
THEOREM RespondsOnce == Spec => []OneResponse
<1>1. Inv => OneResponse
  BY DEF Inv, AnswerInv
<1> QED BY EventInvariance, <1>1, PTL

\* The assertions at the start of the microtasks of respondWith and of the body's
\* reader hold: the event is in the state that they were attached for.
THEOREM MicrotasksInOrder == Spec => []MicrotasksFindTheirState
<1>1. Inv => MicrotasksFindTheirState
  <2> SUFFICES ASSUME Inv PROVE MicrotasksFindTheirState
    OBVIOUS
  <2>1. Waiting("respond") \/ QueuedJob("respond") => Outstanding
    BY DEF Waiting, QueuedJob, Outstanding, HasRespond, Has
  <2>2. QueuedJob("read") => reader = "queued"
    BY DEF Inv, BodyInv, QueuedJob, Has
  <2> QED BY <2>1, <2>2 DEF Inv, RespondInv, BodyInv, MicrotasksFindTheirState
<1> QED BY EventInvariance, <1>1, PTL

\* When the export returns normally the host has a response, and a body that was
\* streamed is finished.
THEOREM EveryReturnAnswers == Spec => []ReturnMeansAnswered
<1>1. Inv => ReturnMeansAnswered
  BY DEF Inv, AnswerInv
<1> QED BY EventInvariance, <1>1, PTL

\* The task that appends a body and the reader of a stream find it open.
THEOREM NoWriteAfterFinish == Spec => []WritersHaveABody
<1>1. Inv => WritersHaveABody
  BY DEF Inv, BodyInv, WritersHaveABody
<1> QED BY EventInvariance, <1>1, PTL

\* set_state's assertion: the state of the event only advances.
THEOREM StateOnlyAdvances == Spec => StateAdvances
<1>1. Inv /\ [Next]_vars => [state' # state => Rank[state'] > Rank[state]]_vars
  <2> SUFFICES ASSUME Inv, Next, state' # state
               PROVE  Rank[state'] > Rank[state]
    BY DEF vars
  <2>1. CASE Program
    <3>1. PICK p \in Promises : RespondWith(p)
      BY <2>1
      DEF Program, WaitUntil, Settle, QueueJob, QueueTask, FeedStream, eventVars
    <3> QED BY <3>1 DEF RespondWith, MayRespond, Rank
  <2>2. CASE Export
    <3>1. FinishUnanswered
      BY <2>2
      DEF Export, RequestArrives, RequestInvalid, CallHandler, HandlerReturns, HandlerThrows,
          StopDispatching, LoopReturns, FinishAnswered, eventVars
    <3> QED BY <3>1 DEF FinishUnanswered, SendResponse, ResponseStarted, Rank, Inv, TypeOK
  <2>3. CASE RunJob
    <3>1. ASSUME NEW v \in Outcomes,
                 RespondWithError(v) \/ RespondStatic(v) \/ RespondAppending(v)
          PROVE  Rank[state'] > Rank[state]
      <4>1. /\ Respond(v) /\ jobs' = Tail(jobs)
            /\ state' \in {"respondedWithError", "responseDone", "responseStreaming"}
        BY <3>1 DEF RespondWithError, RespondStatic, RespondAppending, SendResponse
      <4>2. state = "waitToRespond"
        BY <4>1, RespondTaken
      <4> QED BY <4>1, <4>2 DEF Rank
    <3>2. CASE StartStreaming
      BY <3>2 DEF StartStreaming, SendResponse, Rank, Inv, BodyInv
    <3>3. CASE ReadDone
      <4>1. state = "responseStreaming"
        BY <3>3, ReadTaken DEF ReadDone
      <4> QED BY <3>3, <4>1 DEF ReadDone, Rank
    <3> QED BY <2>3, <3>1, <3>2, <3>3
            DEF RunJob, DecPendingPromiseCount, RunProgram, JobReturns, RespondUnusable,
                RespondStream, RespondConsumed, ReadStops, ReadBytes, eventVars
  <2>4. CASE RunTasks \/ ClientLeaves \/ Stopped
    BY <2>4
    DEF RunTasks, RunTask, TaskReturns, TaskFails, AppendDone, AppendFails, ClientLeaves,
        Stopped, eventVars, vars
  <2> QED BY <2>1, <2>2, <2>3, <2>4 DEF Next
<1> QED BY EventInvariance, <1>1, PTL DEF Spec, StateAdvances

\* The invariant of the counter holds in every reachable state.
THEOREM CountInvariance == Spec => []CountInv
BY EventInvariance, InitCount, NextCount, PTL DEF Spec

\* PendingPromiseCount is exactly the number of promises of respondWith and
\* waitUntil whose reaction has not run: it never goes below zero, and is zero
\* when nothing is waited for.
THEOREM CountIsExact == Spec => []CountMatchesReactions
<1>1. CountInv => CountMatchesReactions
  BY DEF CountInv
<1> QED BY CountInvariance, <1>1, PTL

\* While the promise given to respondWith is outstanding, code of the program
\* that runs finds the event active: waitUntil does not throw.  The handler is
\* attached after the reaction that counts the promise, and no code runs between
\* the two microtasks.
THEOREM OutstandingKeepsActive == Spec => []OutstandingMeansActive
<1>1. Inv /\ CountInv => OutstandingMeansActive
  <2> SUFFICES ASSUME Inv, CountInv, InJS, Outstanding PROVE count > 0
    BY DEF OutstandingMeansActive, Waiting, QueuedJob, Outstanding, HasRespond, Has, IsActive
  <2>1. /\ jobs \in Seq(Jobs) /\ reactions \in [Promises -> Seq({"dec", "respond"})]
        /\ count = Cardinality(Decs(jobs)) + Cardinality(AllAttached(reactions))
        /\ Cardinality(Decs(jobs)) \in Nat /\ Cardinality(AllAttached(reactions)) \in Nat
    BY CountDef, DecsFinite, FS_CardinalityType DEF Inv, TypeOK, CountInv
  <2>2. CASE Has(jobs, "respond")
    <3>1. PICK i \in DOMAIN jobs : jobs[i].kind = "respond"
      BY <2>2 DEF Has
    <3>2. DOMAIN jobs = 1..Len(jobs) /\ Len(jobs) \in Nat
      BY <2>1, LenProperties
    <3>3. i > 1
      BY <3>1, <3>2 DEF CountInv, RespondIsNext
    <3>4. i - 1 \in DOMAIN jobs /\ jobs[i - 1].kind = "dec"
      BY <3>1, <3>2, <3>3 DEF CountInv, JobFollowsDec
    <3>5. Has(jobs, "dec")
      BY <3>4 DEF Has
    <3> QED BY <2>1, <3>5, DecsFinite
  <2>3. ASSUME NEW p \in Promises, HasRespond(reactions[p]) PROVE count > 0
    <3>1. PICK i \in DOMAIN reactions[p] : reactions[p][i] = "respond"
      BY <2>3 DEF HasRespond, Range
    <3>2. DOMAIN reactions[p] = 1..Len(reactions[p]) /\ Len(reactions[p]) \in Nat
      BY <2>1, LenProperties
    <3>3. i > 1 /\ reactions[p][i - 1] = "dec"
      BY <3>1 DEF CountInv, FollowsDec
    <3>4. i - 1 \in Attached(reactions[p])
      BY <3>1, <3>2, <3>3 DEF Attached
    <3>5. <<p, i - 1>> \in AllAttached(reactions)
      BY <3>4 DEF AllAttached
    <3>6. Cardinality(AllAttached(reactions)) # 0
      BY <3>5, FS_EmptySet DEF CountInv
    <3> QED BY <2>1, <3>6
  <2> QED BY <2>2, <2>3 DEF Outstanding
<1> QED BY EventInvariance, CountInvariance, <1>1, PTL

=============================================================================
