--------------------------- MODULE EmailJobsProofs ---------------------------
(***************************************************************************)
(* Proofs about EmailJobs for any workers, sends, batches, receipts,       *)
(* crashes and stops.                                                      *)
(***************************************************************************)
EXTENDS EmailJobs, TLAPS

-----------------------------------------------------------------------------
(* Types.                                                                  *)

\* What keeps the receipts within their bound: a message is published once, and one
\* that can be received has a receipt left.
ReceiptsLeft ==
  \A j \in Jobs :
    /\ api[j].pc \in {"idle", "logged"} =>
         receives[j] = 0 /\ queue[j] \notin {"visible", "inflight"}
    /\ queue[j] = "visible" => receives[j] < MaxReceives

TInv == TypeOK /\ ReceiptsLeft

\* The rows of a notification that was not sent yet are well typed.
LEMMA InitTInv == Init => TInv
BY EmailJobsAssumption
   DEF Init, TInv, TypeOK, ReceiptsLeft, Fresh, ApiSteps, LogStatus, Decided, Places,
       WorkerState, WorkerSteps

\* Steps of the API keep the types.
LEMMA ApiTInv ==
  ASSUME TInv, NEW j \in Jobs, Api(j)
  PROVE  TInv'
<1>. USE EmailJobsAssumption DEF TInv, TypeOK, ReceiptsLeft, queueRows, counters
<1>1. CASE Queue(j)
  BY <1>1 DEF Queue, ApiSteps, LogStatus
<1>2. CASE Publish(j)
  <2>1. api' \in [Jobs -> [pc : ApiSteps, seen : LogStatus]]
        /\ \A i \in Jobs : api'[i].pc = IF i = j THEN "dispatched" ELSE api[i].pc
    BY <1>2 DEF Publish, ApiSteps
  <2>2. queue' \in [Jobs -> Places]
        /\ \A i \in Jobs : queue'[i] = queue[i] \/ (i = j /\ queue'[i] = "visible")
    BY <1>2 DEF Publish, Places
  <2>3. receives[j] = 0 /\ receives' = receives
    BY <1>2 DEF Publish
  <2>4. MaxReceives > 0
    OBVIOUS
  <2>5. ReceiptsLeft'
    BY <2>1, <2>2, <2>3, <2>4
  <2>. QED
    BY <1>2, <2>1, <2>2, <2>5 DEF Publish
<1>3. CASE RunInline(j)
  <2>1. PICK outcome \in Outcomes, committed \in BOOLEAN :
          /\ accepted' = IF outcome = "sent" THEN [accepted EXCEPT ![j] = @ + 1]
                         ELSE accepted
          /\ log' = IF committed THEN [log EXCEPT ![j] = outcome] ELSE log
          /\ failures' = IF committed THEN failures ELSE [failures EXCEPT ![j] = @ + 1]
    BY <1>3 DEF RunInline
  <2>2. log' \in [Jobs -> LogStatus] /\ accepted' \in [Jobs -> Nat]
        /\ failures' \in [Jobs -> Nat]
    BY <2>1 DEF Outcomes, Decided, LogStatus
  <2>. QED
    BY <1>3, <2>2 DEF RunInline, ApiSteps
<1>4. CASE ReadLog(j)
  BY <1>4 DEF ReadLog, ApiSteps
<1>5. CASE Record(j)
  BY <1>5 DEF Record, ApiSteps
<1>. QED
  BY <1>1, <1>2, <1>3, <1>4, <1>5 DEF Api

\* Redelivery keeps the types.
LEMMA ReappearTInv ==
  ASSUME TInv, NEW j \in Jobs, Reappear(j)
  PROVE  TInv'
BY EmailJobsAssumption DEF TInv, TypeOK, ReceiptsLeft, Reappear, apiRows, counters, Places

\* Counting in a function on jobs, or setting it at one of them, keeps its type.
LEMMA CountTyped ==
  ASSUME NEW f \in [Jobs -> Nat], NEW j
  PROVE  [f EXCEPT ![j] = @ + 1] \in [Jobs -> Nat]
<1>1. \A i \in Jobs : f[i] \in Nat /\ f[i] + 1 \in Nat
  OBVIOUS
<1>2. \A i \in Jobs : [f EXCEPT ![j] = @ + 1][i] = IF i = j THEN f[i] + 1 ELSE f[i]
  OBVIOUS
<1>. QED
  BY <1>1, <1>2

LEMMA SetTyped ==
  ASSUME NEW S, NEW f \in [Jobs -> S], NEW j, NEW e \in S
  PROVE  [f EXCEPT ![j] = e] \in [Jobs -> S]
OBVIOUS

\* A worker with another batch is well typed.
LEMMA BatchTyped ==
  ASSUME worker \in [Workers -> WorkerState], NEW w \in Workers, NEW b \in SUBSET Jobs
  PROVE  [worker EXCEPT ![w].batch = b] \in [Workers -> WorkerState]
BY DEF WorkerState

\* A worker that moves on, with another outcome at hand or the same, stays well typed.
LEMMA MoveTyped ==
  ASSUME worker \in [Workers -> WorkerState], NEW w \in Workers,
         NEW pc \in WorkerSteps, NEW outcome \in Decided \cup {"none"},
         \/ worker' = [worker EXCEPT ![w].pc = pc]
         \/ worker' = [worker EXCEPT ![w].pc = pc, ![w].outcome = outcome]
  PROVE  worker' \in [Workers -> WorkerState]
BY DEF WorkerState

\* Steps of a worker keep the types.
LEMMA WorkerTInv ==
  ASSUME TInv, NEW w \in Workers,
         Process(w) \/ HandlerRaises(w) \/ Sigterm(w) \/ Crash(w)
  PROVE  TInv'
<1>. USE EmailJobsAssumption DEF TInv, TypeOK, ReceiptsLeft, apiRows, queueRows, counters
<1>1. CASE Receive(w)
  <2>1. PICK batch \in SUBSET Visible :
          /\ worker' = [worker EXCEPT ![w].batch = batch]
          /\ queue' = [j \in Jobs |-> IF j \in batch THEN "inflight" ELSE queue[j]]
          /\ receives' = [j \in Jobs |-> receives[j] + (IF j \in batch THEN 1 ELSE 0)]
    BY <1>1 DEF Receive
  <2>2. batch \subseteq Jobs /\ \A j \in batch : receives[j] < MaxReceives
    BY DEF Visible
  <2>3. receives' \in [Jobs -> 0..MaxReceives]
    <3>1. ASSUME NEW j \in Jobs
          PROVE  receives[j] + (IF j \in batch THEN 1 ELSE 0) \in 0..MaxReceives
      <4>1. receives[j] \in 0..MaxReceives /\ MaxReceives \in Nat
        OBVIOUS
      <4>2. CASE j \in batch
        BY <2>2, <4>1, <4>2
      <4>3. CASE j \notin batch
        BY <4>1, <4>3
      <4>. QED
        BY <4>2, <4>3
    <3>. QED
      BY <2>1, <3>1
  <2>4. queue' \in [Jobs -> Places]
    BY <2>1 DEF Places
  <2>5. worker' \in [Workers -> WorkerState]
    BY <2>1, <2>2, BatchTyped
  <2>6. ReceiptsLeft'
    BY <1>1, <2>1 DEF Receive, Visible
  <2>. QED
    BY <1>1, <2>3, <2>4, <2>5, <2>6 DEF Receive
<1>2. ASSUME NEW j \in Jobs, Claim(w, j) PROVE TInv'
  BY <1>2 DEF Claim, WorkerState, WorkerSteps
<1>3. CASE Handle(w)
  <2>1. PICK outcome \in Decided \cup {"none"} :
          /\ worker' = [worker EXCEPT ![w].pc = "handled", ![w].outcome = outcome]
          /\ accepted' = IF outcome = "sent"
                         THEN [accepted EXCEPT ![worker[w].job] = @ + 1] ELSE accepted
    BY <1>3 DEF Handle, Outcomes, Decided
  <2>2. worker' \in [Workers -> WorkerState]
    BY <2>1, MoveTyped DEF WorkerSteps
  <2>3. accepted' \in [Jobs -> Nat]
    BY <2>1, CountTyped
  <2>. QED
    BY <1>3, <2>2, <2>3 DEF Handle
<1>4. CASE Commit(w)
  <2>1. worker' \in [Workers -> WorkerState]
    BY <1>4, MoveTyped DEF Commit, WorkerSteps
  <2>2. worker[w].outcome \in Decided \cup {"none"}
    BY DEF WorkerState
  <2>3. log' \in [Jobs -> LogStatus] /\ delivery' \in [Jobs -> LogStatus]
        /\ note' \in LogStatus
    BY <1>4, <2>2 DEF Commit, LogStatus
  <2>. QED
    BY <1>4, <2>1, <2>3 DEF Commit
<1>5. CASE HandlerRaises(w)
  <2>1. worker' \in [Workers -> WorkerState]
    BY <1>5, MoveTyped DEF HandlerRaises, WorkerSteps
  <2>2. key' \in [Jobs -> BOOLEAN] /\ failures' \in [Jobs -> Nat]
    BY <1>5, CountTyped, SetTyped DEF HandlerRaises, ReleaseKey
  <2>. QED
    BY <1>5, <2>1, <2>2 DEF HandlerRaises
<1>6. CASE Delete(w)
  <2>1. worker' \in [Workers -> WorkerState]
    BY <1>6, MoveTyped DEF Delete, WorkerSteps
  <2>2. queue' \in [Jobs -> Places] /\ \A j \in Jobs : queue'[j] \in {queue[j], "deleted"}
    BY <1>6 DEF Delete, Places
  <2>3. api' = api /\ receives' = receives
    BY <1>6 DEF Delete
  <2>4. ReceiptsLeft'
    <3>1. SUFFICES ASSUME NEW j \in Jobs
                   PROVE  /\ api[j].pc \in {"idle", "logged"} =>
                               /\ receives[j] = 0
                               /\ queue'[j] \notin {"visible", "inflight"}
                          /\ queue'[j] = "visible" => receives[j] < MaxReceives
      BY <2>3
    <3>. QED
      BY <2>2
  <2>. QED
    BY <1>6, <2>1, <2>2, <2>4 DEF Delete
<1>7. CASE Sigterm(w)
  BY <1>7 DEF Sigterm
<1>8. CASE Stop(w)
  <2>1. worker' \in [Workers -> WorkerState]
    BY <1>8, MoveTyped DEF Stop, WorkerSteps
  <2>. QED
    BY <1>8, <2>1 DEF Stop
<1>9. CASE Crash(w)
  <2>1. worker' \in [Workers -> WorkerState]
    BY <1>9, MoveTyped DEF Crash, WorkerSteps
  <2>. QED
    BY <1>9, <2>1 DEF Crash
<1>10. CASE Restart(w)
  BY <1>10 DEF Restart, Fresh, WorkerState, WorkerSteps
<1>. QED
  BY <1>1, <1>2, <1>3, <1>4, <1>5, <1>6, <1>7, <1>8, <1>9, <1>10 DEF Process

LEMMA StepTInv == TInv /\ [Next]_vars => TInv'
<1>. SUFFICES ASSUME TInv, [Next]_vars PROVE TInv'
  OBVIOUS
<1>1. CASE UNCHANGED vars
  BY <1>1 DEF TInv, TypeOK, ReceiptsLeft, vars
<1>2. CASE Next
  BY <1>2, ApiTInv, ReappearTInv, WorkerTInv DEF Next
<1>. QED
  BY <1>1, <1>2

\* Every reachable state is well typed: above all, no message is received more often
\* than the redrive policy allows.
THEOREM TypeCorrect == Spec => []TypeOK
<1>1. TInv => TypeOK
  BY DEF TInv
<1>. QED
  BY InitTInv, StepTInv, <1>1, PTL DEF Spec
-----------------------------------------------------------------------------
(* What is sent.                                                           *)

Running(w, j) == worker[w].pc \in {"claimed", "handled"} /\ worker[w].job = j

\* Only one worker runs a job, and the job's key is set while it does.
OneRun ==
  \A j \in Jobs, w \in Workers : Running(w, j) =>
    key[j] /\ \A v \in Workers : Running(v, j) => v = w

\* With the inline backend nothing is published and no worker is at work.
NothingQueued ==
  backend = "inline" =>
    /\ \A j \in Jobs : queue[j] \notin {"visible", "inflight"}
    /\ \A w \in Workers : worker[w].batch = {} /\ worker[w].pc \in {"ready", "down"}

\* Where a handler may still run - the key is free, a worker has only claimed the job,
\* or the API has yet to run it in place - every e-mail that went out is a failed run's.
Accounted ==
  \A j \in Jobs :
    /\ accepted[j] <= 1 + failures[j]
    /\ backend = "sqs" /\ ~key[j] => accepted[j] <= failures[j]
    /\ backend = "inline" /\ api[j].pc \in {"idle", "logged"} => accepted[j] <= failures[j]
    /\ \A w \in Workers : worker[w].pc = "claimed" /\ worker[w].job = j =>
         accepted[j] <= failures[j]

SInv == TInv /\ NothingQueued /\ OneRun /\ Accounted

\* Before the first send.
LEMMA InitSInv == Init => SInv
<1>. SUFFICES ASSUME Init PROVE NothingQueued /\ OneRun /\ Accounted
  BY InitTInv DEF SInv
<1>. QED
  BY DEF Init, Fresh, NothingQueued, OneRun, Accounted, Running

\* A worker that moves on has the same batch and job; the others do not move.
LEMMA Moved ==
  ASSUME worker \in [Workers -> WorkerState], NEW w \in Workers, NEW pc,
         worker' = [worker EXCEPT ![w].pc = pc]
  PROVE  \A v \in Workers : /\ worker'[v].batch = worker[v].batch
                            /\ worker'[v].job = worker[v].job
                            /\ worker'[v].pc = IF v = w THEN pc ELSE worker[v].pc
BY DEF WorkerState

\* With the inline backend the queue stays empty and the workers idle.
LEMMA StepNothingQueued ==
  ASSUME TInv, NothingQueued, Next
  PROVE  NothingQueued'
<1>1. backend' = backend
  BY DEF Next, Api, Process, Queue, Publish, RunInline, ReadLog, Record, Reappear, Receive,
         Claim, Handle, Commit, HandlerRaises, Delete, Sigterm, Stop, Crash, Restart
<1>. SUFFICES ASSUME backend = "inline" PROVE NothingQueued'
  BY <1>1 DEF NothingQueued
<1>2. worker \in [Workers -> WorkerState]
  BY DEF TInv, TypeOK
<1>3. /\ \A j \in Jobs : queue[j] \notin {"visible", "inflight"}
      /\ \A w \in Workers : worker[w].batch = {} /\ worker[w].pc \in {"ready", "down"}
  BY DEF NothingQueued
<1>4. ASSUME NEW j \in Jobs, Api(j) \/ Reappear(j) PROVE NothingQueued'
  BY <1>1, <1>3, <1>4 DEF Api, Queue, Publish, RunInline, ReadLog, Record, Reappear,
                          NothingQueued, queueRows
<1>5. ASSUME NEW w \in Workers, Process(w) \/ HandlerRaises(w) \/ Sigterm(w) \/ Crash(w)
      PROVE  NothingQueued'
  <2>1. Stop(w) \/ Restart(w) \/ Sigterm(w) \/ Crash(w)
    BY <1>3, <1>5 DEF Process, Receive, Visible, Claim, Handle, Commit, HandlerRaises, Delete
  <2>2. queue' = queue
    BY <2>1 DEF Stop, Restart, Sigterm, Crash, queueRows
  <2>3. \A v \in Workers : worker'[v].batch = {} /\ worker'[v].pc \in {"ready", "down"}
    <3>1. CASE worker' = [worker EXCEPT ![w].pc = "down"]
      BY <1>2, <1>3, <3>1, Moved
    <3>2. CASE worker' = [worker EXCEPT ![w] = Fresh]
      <4>1. Fresh.batch = {} /\ Fresh.pc = "ready"
        BY DEF Fresh
      <4>2. \A v \in Workers : worker'[v] = IF v = w THEN Fresh ELSE worker[v]
        BY <1>2, <3>2
      <4>. QED
        BY <1>3, <4>1, <4>2
    <3>3. CASE worker' = worker
      BY <1>3, <3>3
    <3>. QED
      BY <2>1, <3>1, <3>2, <3>3 DEF Stop, Restart, Sigterm, Crash
  <2>. QED
    BY <1>3, <2>2, <2>3 DEF NothingQueued
<1>. QED
  BY <1>4, <1>5 DEF Next

\* A step that starts no run and counts nothing keeps the argument.
LEMMA NoNewRun ==
  ASSUME OneRun, Accounted, UNCHANGED <<backend, key, accepted, failures>>,
         \A j \in Jobs : api'[j].pc \in {"idle", "logged"} => api[j].pc \in {"idle", "logged"},
         \A v \in Workers :
           \/ worker'[v].pc = worker[v].pc /\ worker'[v].job = worker[v].job
           \/ worker'[v].pc \notin {"claimed", "handled"}
  PROVE  OneRun' /\ Accounted'
<1>1. OneRun'
  BY DEF OneRun, Running
<1>2. Accounted'
  BY DEF Accounted
<1>. QED
  BY <1>1, <1>2

\* Every step keeps the argument.
LEMMA StepSInv == SInv /\ [Next]_vars => SInv'
<1>. SUFFICES ASSUME SInv, [Next]_vars PROVE NothingQueued' /\ OneRun' /\ Accounted'
  BY StepTInv DEF SInv
<1>. USE DEF SInv, TInv
<1>1. CASE UNCHANGED vars
  BY <1>1 DEF vars, NothingQueued, OneRun, Running, Accounted
<1>. SUFFICES ASSUME Next PROVE OneRun' /\ Accounted'
  BY <1>1, StepNothingQueued
<1>2. worker \in [Workers -> WorkerState] /\ key \in [Jobs -> BOOLEAN]
      /\ accepted \in [Jobs -> Nat] /\ failures \in [Jobs -> Nat]
      /\ backend \in {"sqs", "inline"}
  BY DEF TypeOK
<1>3. ASSUME NEW j \in Jobs, Api(j) \/ Reappear(j) PROVE OneRun' /\ Accounted'
  <2>1. CASE RunInline(j)
    <3>1. /\ backend = "inline" /\ UNCHANGED <<backend, key, worker>>
          /\ api[j].pc = "logged" /\ api' = [api EXCEPT ![j].pc = "dispatched"]
      BY <2>1 DEF RunInline, queueRows
    <3>2. \A i \in Jobs : /\ accepted'[i] \in {accepted[i], accepted[i] + 1}
                          /\ i # j => accepted'[i] = accepted[i]
                          /\ failures'[i] >= failures[i]
      BY <1>2, <2>1 DEF RunInline
    <3>3. \A i \in Jobs : failures'[i] \in Nat /\ accepted'[i] \in Nat
      BY <1>2, <2>1, StepTInv DEF TypeOK
    <3>4. \A i \in Jobs : i # j => api'[i].pc = api[i].pc
      BY <3>1 DEF TypeOK
    <3>5. api'[j].pc = "dispatched"
      BY <3>1 DEF TypeOK
    <3>6. Accounted'
      BY <1>2, <3>1, <3>2, <3>3, <3>4, <3>5 DEF Accounted, NothingQueued
    <3>. QED
      BY <3>1, <3>6 DEF OneRun, Running
  <2>2. CASE Queue(j) \/ Publish(j) \/ ReadLog(j) \/ Record(j) \/ Reappear(j)
    <3>1. UNCHANGED <<backend, key, worker, accepted, failures>>
      BY <2>2 DEF Queue, Publish, ReadLog, Record, Reappear, queueRows
    <3>2. \A i \in Jobs : api'[i].pc \in {"idle", "logged"} => api[i].pc \in {"idle", "logged"}
      BY <2>2 DEF Queue, Publish, ReadLog, Record, Reappear, apiRows, TypeOK
    <3>. QED
      BY <3>1, <3>2, NoNewRun
  <2>. QED
    BY <1>3, <2>1, <2>2 DEF Api
<1>4. ASSUME NEW w \in Workers, NEW j \in Jobs, Claim(w, j) PROVE OneRun' /\ Accounted'
  <2>1. /\ UNCHANGED <<backend, api, accepted, failures>>
        /\ key' = [key EXCEPT ![j] = TRUE] /\ j \in worker[w].batch
    BY <1>4 DEF Claim, apiRows
  <2>2. \A v \in Workers :
          /\ v # w => worker'[v] = worker[v]
          /\ v = w => worker'[v].job = j /\
                      worker'[v].pc = IF ~key[j] THEN "claimed" ELSE "delete"
    BY <1>2, <1>4 DEF Claim, First
  <2>3. CASE key[j]
    <3>1. key' = key
      BY <1>2, <2>1, <2>3
    <3>. QED
      BY <2>1, <2>2, <2>3, <3>1, NoNewRun
  <2>4. CASE ~key[j]
    <3>1. backend = "sqs" /\ accepted[j] <= failures[j]
      BY <1>2, <2>1, <2>4 DEF NothingQueued, Accounted
    <3>2. \A v \in Workers : ~Running(v, j)
      BY <2>4 DEF OneRun
    <3>3. key'[j] /\ \A i \in Jobs : i # j => key'[i] = key[i]
      BY <1>2, <2>1
    <3>4. OneRun'
      BY <2>2, <2>4, <3>2, <3>3 DEF OneRun, Running
    <3>5. Accounted'
      BY <1>2, <2>1, <2>2, <2>4, <3>1, <3>3 DEF Accounted
    <3>. QED
      BY <3>4, <3>5
  <2>. QED
    BY <2>3, <2>4
<1>5. ASSUME NEW w \in Workers, Handle(w) PROVE OneRun' /\ Accounted'
  <2>. DEFINE job == worker[w].job
  <2>1. PICK outcome \in Decided \cup {"none"} :
          /\ worker' = [worker EXCEPT ![w].pc = "handled", ![w].outcome = outcome]
          /\ accepted' = IF outcome = "sent" THEN [accepted EXCEPT ![job] = @ + 1]
                         ELSE accepted
    BY <1>5 DEF Handle, Outcomes, Decided
  <2>2. UNCHANGED <<backend, api, key, failures>> /\ worker[w].pc = "claimed"
    BY <1>5 DEF Handle, apiRows, queueRows
  <2>3. \A v \in Workers : /\ worker'[v].job = worker[v].job
                           /\ worker'[v].pc = IF v = w THEN "handled" ELSE worker[v].pc
    BY <1>2, <2>1 DEF WorkerState
  <2>4. OneRun'
    BY <2>2, <2>3 DEF OneRun, Running
  <2>5. \A i \in Jobs : /\ i # job => accepted'[i] = accepted[i]
                        /\ accepted'[i] \in {accepted[i], accepted[i] + 1}
    BY <1>2, <2>1
  <2>6. backend = "sqs"
    BY <1>2, <2>2 DEF NothingQueued
  <2>7. job \in Jobs => key[job] /\ accepted[job] <= failures[job]
                        /\ \A v \in Workers : Running(v, job) => v = w
    BY <2>2 DEF OneRun, Running, Accounted
  <2>8. Accounted'
    <3>1. SUFFICES ASSUME NEW i \in Jobs
          PROVE  /\ accepted'[i] <= 1 + failures[i]
                 /\ ~key[i] => accepted'[i] <= failures[i]
                 /\ \A v \in Workers : worker'[v].pc = "claimed" /\ worker'[v].job = i =>
                      accepted'[i] <= failures[i]
      BY <2>2, <2>6 DEF Accounted
    <3>2. CASE i # job
      BY <2>3, <2>5, <2>6, <3>2 DEF Accounted
    <3>3. CASE i = job
      <4>1. accepted'[i] <= 1 + failures[i] /\ key[i]
        BY <1>2, <2>5, <2>7, <3>3
      <4>2. \A v \in Workers : ~(worker'[v].pc = "claimed" /\ worker'[v].job = i)
        BY <2>3, <2>7, <3>3 DEF Running
      <4>. QED
        BY <4>1, <4>2
    <3>. QED
      BY <3>2, <3>3
  <2>. QED
    BY <2>4, <2>8
<1>6. ASSUME NEW w \in Workers, HandlerRaises(w) PROVE OneRun' /\ Accounted'
  <2>. DEFINE job == worker[w].job
  <2>1. /\ key' = [key EXCEPT ![job] = FALSE]
        /\ failures' = [failures EXCEPT ![job] = @ + 1]
        /\ worker' = [worker EXCEPT ![w].pc = "ready"]
        /\ worker[w].pc \in {"claimed", "handled"}
        /\ UNCHANGED <<backend, api, accepted>>
    BY <1>6 DEF HandlerRaises, ReleaseKey, apiRows
  <2>2. \A v \in Workers : /\ worker'[v].job = worker[v].job
                           /\ worker'[v].pc = IF v = w THEN "ready" ELSE worker[v].pc
    BY <1>2, <2>1, Moved
  <2>3. \A i \in Jobs : /\ i # job => key'[i] = key[i]
                        /\ failures'[i] = IF i = job THEN failures[i] + 1 ELSE failures[i]
    BY <1>2, <2>1
  <2>4. job \in Jobs => \A v \in Workers : Running(v, job) => v = w
    BY <2>1 DEF OneRun, Running
  <2>5. OneRun'
    BY <2>2, <2>3, <2>4 DEF OneRun, Running
  <2>6. Accounted'
    BY <1>2, <2>1, <2>2, <2>3 DEF Accounted
  <2>. QED
    BY <2>5, <2>6
<1>7. ASSUME NEW w \in Workers,
             Receive(w) \/ Commit(w) \/ Delete(w) \/ Stop(w) \/ Restart(w) \/ Sigterm(w)
               \/ Crash(w)
      PROVE  OneRun' /\ Accounted'
  <2>1. UNCHANGED <<backend, api, key, accepted, failures>>
    BY <1>7 DEF Receive, Commit, Delete, Stop, Restart, Sigterm, Crash, apiRows, queueRows
  <2>2. \A v \in Workers :
          \/ worker'[v].pc = worker[v].pc /\ worker'[v].job = worker[v].job
          \/ worker'[v].pc \notin {"claimed", "handled"}
    <3>1. CASE \E b : worker' = [worker EXCEPT ![w].batch = b]
      BY <1>2, <3>1 DEF WorkerState
    <3>2. CASE \E pc \in {"ready", "delete", "down"} : worker' = [worker EXCEPT ![w].pc = pc]
      BY <1>2, <3>2, Moved
    <3>3. CASE worker' = [worker EXCEPT ![w] = Fresh]
      <4>1. Fresh.pc = "ready"
        BY DEF Fresh
      <4>. QED
        BY <1>2, <3>3, <4>1
    <3>4. CASE worker' = worker
      BY <3>4
    <3>. QED
      BY <1>7, <3>1, <3>2, <3>3, <3>4 DEF Receive, Commit, Delete, Stop, Restart, Sigterm, Crash
  <2>. QED
    BY <2>1, <2>2, NoNewRun
<1>. QED
  BY <1>3, <1>4, <1>5, <1>6, <1>7 DEF Next, Process

\* Whatever is redelivered, crashes or outruns its timeout, with any number of workers,
\* the Redis key keeps an e-mail from being sent again unless a run that sent it raised.
THEOREM NoSecondEmail == Spec => []SentAgainOnlyAfterFailure
<1>1. SInv => SentAgainOnlyAfterFailure
  BY DEF SInv, Accounted, SentAgainOnlyAfterFailure
<1>. QED
  BY InitSInv, StepSInv, <1>1, PTL DEF Spec

-----------------------------------------------------------------------------
(* What is recorded.  A delivery is recorded with the status its session    *)
(* read some time before, and a worker may decide the log in between.       *)

\* Where the send's session is says how far its log and its delivery are, and what it
\* read of the log was then still open or is what the log says.
Logged ==
  \A j \in Jobs :
    /\ api[j].pc = "idle" => log[j] = "none"
    /\ api[j].pc = "logged" => log[j] = "queued"
    /\ api[j].pc \notin {"idle", "logged"} => log[j] # "none"
    /\ api[j].pc # "done" => delivery[j] = "none"
    /\ api[j].pc \in {"read", "done"} => api[j].seen \in {"queued", log[j]}
    /\ delivery[j] \in {"none", "queued", log[j]}

\* A log that a worker runs for is open, and a decided one's key is taken for good.
Undecided ==
  \A j \in Jobs :
    /\ backend = "sqs" /\ log[j] \in Decided => key[j]
    /\ \A w \in Workers :
         /\ Running(w, j) => log[j] = "queued" /\ api[j].pc \notin {"idle", "logged"}
         /\ worker[w].pc = "handled" /\ worker[w].job = j => worker[w].outcome \in Outcomes
         /\ j \in worker[w].batch => api[j].pc \notin {"idle", "logged"}

DInv == SInv /\ Logged /\ Undecided

\* A decided log keeps its status.
StaysDecided == \A j \in Jobs : log[j] \in Decided => log'[j] = log[j]

LEMMA InitDInv == Init => DInv
<1>. SUFFICES ASSUME Init PROVE Logged /\ Undecided
  BY InitSInv DEF DInv
<1>. QED
  BY DEF Init, Fresh, Logged, Undecided, Running, Decided

\* A send's session that moves on leaves the others, and what it read, as they were.
LEMMA ApiMoved ==
  ASSUME TypeOK, NEW j \in Jobs, NEW pc, api' = [api EXCEPT ![j].pc = pc]
  PROVE  \A i \in Jobs : /\ api'[i].seen = api[i].seen
                         /\ api'[i].pc = IF i = j THEN pc ELSE api[i].pc
BY DEF TypeOK

\* The API writes the log and the delivery of its send in the order it should.
LEMMA ApiDInv ==
  ASSUME DInv, NEW j \in Jobs, Api(j) \/ Reappear(j)
  PROVE  Logged' /\ Undecided' /\ StaysDecided
<1>. USE DEF StaysDecided
<1>1. /\ TypeOK /\ Logged /\ Undecided /\ NothingQueued
      /\ log \in [Jobs -> LogStatus] /\ delivery \in [Jobs -> LogStatus]
      /\ api \in [Jobs -> [pc : ApiSteps, seen : LogStatus]]
  BY DEF DInv, SInv, TInv, TypeOK
<1>2. ASSUME UNCHANGED <<backend, key, worker>>,
             \A i \in Jobs : i # j => log'[i] = log[i] /\ api'[i] = api[i],
             log'[j] = log[j] \/ (log[j] \notin Decided /\ log'[j] \notin Decided),
             \A w \in Workers : Running(w, j) => log'[j] = log[j],
             api[j].pc \notin {"idle", "logged"} => api'[j].pc \notin {"idle", "logged"}
      PROVE  Undecided' /\ StaysDecided
  BY <1>1, <1>2 DEF Undecided, Running
<1>open. ASSUME UNCHANGED <<backend, key, worker, log>>,
                \A i \in Jobs : api[i].pc \notin {"idle", "logged"} =>
                                 api'[i].pc \notin {"idle", "logged"}
         PROVE  Undecided' /\ StaysDecided
  BY <1>1, <1>open DEF Undecided, Running
<1>3. CASE Queue(j)
  <2>1. /\ api' = [api EXCEPT ![j].pc = "logged"] /\ api[j].pc = "idle"
        /\ log' = [log EXCEPT ![j] = "queued"] /\ UNCHANGED <<backend, key, worker, delivery>>
    BY <1>3 DEF Queue, queueRows
  <2>2. \A i \in Jobs : /\ api'[i].seen = api[i].seen
                        /\ api'[i].pc = IF i = j THEN "logged" ELSE api[i].pc
                        /\ i # j => api'[i] = api[i]
                        /\ log'[i] = IF i = j THEN "queued" ELSE log[i]
    BY <1>1, <2>1, ApiMoved
  <2>3. log[j] = "none" /\ \A w \in Workers : ~Running(w, j)
    BY <1>1, <2>1 DEF Logged, Undecided
  <2>4. Logged'
    BY <1>1, <2>1, <2>2, <2>3 DEF Logged
  <2>. QED
    BY <1>2, <2>1, <2>2, <2>3, <2>4 DEF Decided
<1>4. CASE Publish(j)
  <2>1. /\ api' = [api EXCEPT ![j].pc = "dispatched"] /\ api[j].pc = "logged"
        /\ UNCHANGED <<backend, key, worker, delivery, log>>
    BY <1>4 DEF Publish
  <2>2. \A i \in Jobs : /\ api'[i].seen = api[i].seen
                        /\ api'[i].pc = IF i = j THEN "dispatched" ELSE api[i].pc
                        /\ i # j => api'[i] = api[i]
    BY <1>1, <2>1, ApiMoved
  <2>3. Logged'
    BY <1>1, <2>1, <2>2 DEF Logged
  <2>4. Undecided' /\ StaysDecided
    BY <1>open, <2>1, <2>2
  <2>. QED
    BY <2>3, <2>4
<1>5. CASE RunInline(j)
  <2>1. /\ api' = [api EXCEPT ![j].pc = "dispatched"] /\ api[j].pc = "logged"
        /\ backend = "inline" /\ UNCHANGED <<backend, key, worker, delivery>>
        /\ \E outcome \in Outcomes : log' \in {log, [log EXCEPT ![j] = outcome]}
    BY <1>5 DEF RunInline, queueRows
  <2>2. \A i \in Jobs : /\ api'[i].seen = api[i].seen
                        /\ api'[i].pc = IF i = j THEN "dispatched" ELSE api[i].pc
                        /\ i # j => api'[i] = api[i] /\ log'[i] = log[i]
    BY <1>1, <2>1, ApiMoved
  <2>3. log[j] = "queued" /\ log'[j] \in {"queued"} \cup Outcomes
    BY <1>1, <2>1 DEF Logged
  <2>4. /\ \A w \in Workers, i \in Jobs : ~Running(w, i) /\ worker[w].batch = {}
        /\ \A w \in Workers : worker[w].pc # "handled"
    BY <1>1, <2>1 DEF NothingQueued, Running
  <2>5. Logged'
    BY <1>1, <2>1, <2>2, <2>3 DEF Logged, Outcomes
  <2>6. Undecided'
    BY <2>1, <2>4 DEF Undecided, Running
  <2>. QED
    BY <2>2, <2>3, <2>5, <2>6 DEF Decided
<1>6. CASE ReadLog(j)
  <2>1. /\ api' = [api EXCEPT ![j] = [pc |-> "read", seen |-> log[j]]]
        /\ api[j].pc = "dispatched" /\ UNCHANGED <<backend, key, worker, delivery, log>>
    BY <1>6 DEF ReadLog, queueRows
  <2>2. \A i \in Jobs : api'[i] = IF i = j THEN [pc |-> "read", seen |-> log[j]] ELSE api[i]
    BY <1>1, <2>1
  <2>3. Logged'
    BY <1>1, <2>1, <2>2 DEF Logged
  <2>4. Undecided' /\ StaysDecided
    BY <1>open, <2>1, <2>2
  <2>. QED
    BY <2>3, <2>4
<1>7. CASE Record(j)
  <2>1. /\ api' = [api EXCEPT ![j].pc = "done"] /\ api[j].pc = "read"
        /\ delivery' = [delivery EXCEPT ![j] = api[j].seen]
        /\ UNCHANGED <<backend, key, worker, log>>
    BY <1>7 DEF Record, queueRows
  <2>2. \A i \in Jobs : /\ api'[i].seen = api[i].seen
                        /\ api'[i].pc = IF i = j THEN "done" ELSE api[i].pc
                        /\ i # j => api'[i] = api[i]
                        /\ delivery'[i] = IF i = j THEN api[j].seen ELSE delivery[i]
    BY <1>1, <2>1, ApiMoved
  <2>3. Logged'
    BY <1>1, <2>1, <2>2 DEF Logged
  <2>4. Undecided' /\ StaysDecided
    BY <1>open, <2>1, <2>2
  <2>. QED
    BY <2>3, <2>4
<1>8. CASE Reappear(j)
  <2>1. UNCHANGED <<backend, key, worker, log, delivery, api>>
    BY <1>8 DEF Reappear, apiRows
  <2>. QED
    BY <1>1, <2>1 DEF Logged, Undecided, Running
<1>. QED
  BY <1>3, <1>4, <1>5, <1>6, <1>7, <1>8 DEF Api

\* A worker decides a log only while it alone runs for it, and it was open.
LEMMA WorkerDInv ==
  ASSUME DInv, NEW w \in Workers, Process(w) \/ HandlerRaises(w) \/ Sigterm(w) \/ Crash(w)
  PROVE  Logged' /\ Undecided' /\ StaysDecided
<1>. USE DEF StaysDecided
<1>1. /\ TypeOK /\ Logged /\ Undecided /\ NothingQueued /\ OneRun /\ ReceiptsLeft
      /\ log \in [Jobs -> LogStatus] /\ delivery \in [Jobs -> LogStatus]
      /\ worker \in [Workers -> WorkerState] /\ key \in [Jobs -> BOOLEAN]
      /\ backend \in {"sqs", "inline"}
  BY DEF DInv, SInv, TInv, TypeOK
<1>2. UNCHANGED <<backend, api>>
  BY DEF Process, Receive, Claim, Handle, Commit, HandlerRaises, Delete, Sigterm, Stop,
         Crash, Restart, apiRows
<1>3. ASSUME UNCHANGED <<log, delivery>>,
             \A i \in Jobs : log[i] \in Decided /\ key[i] => key'[i],
             \A v \in Workers :
               /\ worker'[v].batch \subseteq worker[v].batch
                    \cup {i \in Jobs : api[i].pc \notin {"idle", "logged"}}
               /\ \/ /\ worker'[v].pc = worker[v].pc /\ worker'[v].job = worker[v].job
                     /\ worker'[v].outcome = worker[v].outcome
                  \/ worker'[v].pc \notin {"claimed", "handled"}
                  \/ /\ worker'[v].job \in Jobs => log[worker'[v].job] = "queued"
                          /\ api[worker'[v].job].pc \notin {"idle", "logged"}
                     /\ worker'[v].pc = "handled" /\ worker'[v].job \in Jobs
                          => worker'[v].outcome \in Outcomes
      PROVE  Logged' /\ Undecided' /\ StaysDecided
  <2>1. Logged' /\ StaysDecided
    BY <1>1, <1>2, <1>3 DEF Logged
  <2>2. ASSUME NEW i \in Jobs, NEW v \in Workers
        PROVE  /\ (worker'[v].pc \in {"claimed", "handled"} /\ worker'[v].job = i) =>
                    log[i] = "queued" /\ api[i].pc \notin {"idle", "logged"}
               /\ worker'[v].pc = "handled" /\ worker'[v].job = i =>
                    worker'[v].outcome \in Outcomes
               /\ i \in worker'[v].batch => api[i].pc \notin {"idle", "logged"}
    BY <1>1, <1>3 DEF Undecided, Running
  <2>3. Undecided'
    BY <1>1, <1>2, <1>3, <2>2 DEF Undecided, Running
  <2>. QED
    BY <2>1, <2>3
<1>4. CASE Receive(w)
  <2>1. PICK batch \in SUBSET Visible : worker' = [worker EXCEPT ![w].batch = batch]
    BY <1>4 DEF Receive
  <2>2. \A i \in batch : i \in Jobs /\ api[i].pc \notin {"idle", "logged"}
    BY <1>1 DEF Visible, ReceiptsLeft
  <2>3. \A v \in Workers : /\ worker'[v].pc = worker[v].pc /\ worker'[v].job = worker[v].job
                           /\ worker'[v].outcome = worker[v].outcome
                           /\ worker'[v].batch = IF v = w THEN batch ELSE worker[v].batch
    BY <1>1, <2>1 DEF WorkerState
  <2>4. UNCHANGED <<log, delivery, key>>
    BY <1>4 DEF Receive, apiRows
  <2>. QED
    BY <1>3, <2>2, <2>3, <2>4
<1>5. ASSUME NEW j \in Jobs, Claim(w, j) PROVE Logged' /\ Undecided' /\ StaysDecided
  <2>1. /\ UNCHANGED <<log, delivery>> /\ key' = [key EXCEPT ![j] = TRUE]
        /\ j \in worker[w].batch
    BY <1>5 DEF Claim, apiRows
  <2>2. \A v \in Workers :
          /\ v # w => worker'[v] = worker[v]
          /\ v = w => /\ worker'[v].job = j
                      /\ worker'[v].pc = IF ~key[j] THEN "claimed" ELSE "delete"
                      /\ worker'[v].batch = worker[v].batch \ {j}
    BY <1>1, <1>5 DEF Claim, First
  <2>3. api[j].pc \notin {"idle", "logged"} /\ (~key[j] => log[j] = "queued")
    <3>1. backend = "sqs" /\ api[j].pc \notin {"idle", "logged"}
      BY <1>1, <2>1 DEF NothingQueued, Undecided
    <3>2. log[j] \in LogStatus \ {"none"} /\ (~key[j] => log[j] \notin Decided)
      BY <1>1, <3>1 DEF Logged, Undecided
    <3>. QED
      BY <3>1, <3>2 DEF LogStatus
  <2>4. \A i \in Jobs : key[i] => key'[i]
    BY <1>1, <2>1
  <2>. QED
    BY <1>3, <2>1, <2>2, <2>3, <2>4
<1>6. CASE Handle(w)
  <2>. DEFINE job == worker[w].job
  <2>1. PICK outcome \in IF log[job] \in {"sent", "skipped"} THEN {"none"} ELSE Outcomes :
          worker' = [worker EXCEPT ![w].pc = "handled", ![w].outcome = outcome]
    BY <1>6 DEF Handle
  <2>2. UNCHANGED <<log, delivery, key>> /\ worker[w].pc = "claimed"
    BY <1>6 DEF Handle, apiRows, queueRows
  <2>3. \A v \in Workers :
          /\ v # w => worker'[v] = worker[v]
          /\ v = w => worker'[v].job = job /\ worker'[v].batch = worker[v].batch
                      /\ worker'[v].pc = "handled" /\ worker'[v].outcome = outcome
    BY <1>1, <2>1 DEF WorkerState
  <2>4. job \in Jobs => /\ log[job] = "queued" /\ api[job].pc \notin {"idle", "logged"}
                        /\ outcome \in Outcomes
    BY <1>1, <2>1, <2>2 DEF Undecided, Running
  <2>. QED
    BY <1>3, <2>2, <2>3, <2>4
<1>7. CASE Commit(w)
  <2>. DEFINE job == worker[w].job
              outcome == worker[w].outcome
  <2>1. worker' = [worker EXCEPT ![w].pc = "delete"] /\ key' = key /\ worker[w].pc = "handled"
    BY <1>7 DEF Commit, queueRows
  <2>2. \A v \in Workers : /\ worker'[v].batch = worker[v].batch
                           /\ worker'[v].job = worker[v].job
                           /\ worker'[v].outcome = worker[v].outcome
                           /\ worker'[v].pc = IF v = w THEN "delete" ELSE worker[v].pc
    BY <1>1, <2>1 DEF WorkerState
  <2>3. CASE job \notin Jobs
    <3>1. UNCHANGED <<log, delivery>>
      BY <1>1, <1>7, <2>3 DEF Commit
    <3>. QED
      BY <1>3, <2>1, <2>2, <3>1
  <2>4. CASE job \in Jobs
    <3>1. /\ log[job] = "queued" /\ api[job].pc \notin {"idle", "logged"}
          /\ outcome \in Outcomes /\ key[job]
          /\ \A v \in Workers : Running(v, job) => v = w
      BY <1>1, <2>1, <2>4 DEF Undecided, Running, OneRun
    <3>2. /\ log' = [log EXCEPT ![job] = outcome]
          /\ delivery' = IF delivery[job] = "none" THEN delivery
                         ELSE [delivery EXCEPT ![job] = outcome]
      BY <1>7, <3>1 DEF Commit, Outcomes
    <3>3. \A i \in Jobs : /\ log'[i] = IF i = job THEN outcome ELSE log[i]
                          /\ i # job => delivery'[i] = delivery[i]
                          /\ delivery'[job] \in {"none", outcome}
                          /\ delivery[job] = "none" => delivery'[job] = "none"
      BY <1>1, <2>4, <3>2
    <3>4. Logged'
      <4>1. SUFFICES ASSUME NEW i \in Jobs
            PROVE  /\ api[i].pc = "idle" => log'[i] = "none"
                   /\ api[i].pc = "logged" => log'[i] = "queued"
                   /\ api[i].pc \notin {"idle", "logged"} => log'[i] # "none"
                   /\ api[i].pc # "done" => delivery'[i] = "none"
                   /\ api[i].pc \in {"read", "done"} => api[i].seen \in {"queued", log'[i]}
                   /\ delivery'[i] \in {"none", "queued", log'[i]}
        BY <1>2 DEF Logged
      <4>2. CASE i # job
        BY <1>1, <3>3, <4>2 DEF Logged
      <4>3. CASE i = job
        BY <1>1, <3>1, <3>3, <4>3 DEF Logged, Outcomes
      <4>. QED
        BY <4>2, <4>3
    <3>5. Undecided'
      <4>1. SUFFICES ASSUME NEW i \in Jobs
            PROVE  /\ backend = "sqs" /\ log'[i] \in Decided => key[i]
                   /\ \A v \in Workers :
                        /\ worker'[v].pc \in {"claimed", "handled"} /\ worker'[v].job = i =>
                             log'[i] = "queued" /\ api[i].pc \notin {"idle", "logged"}
                        /\ worker'[v].pc = "handled" /\ worker'[v].job = i =>
                             worker'[v].outcome \in Outcomes
                        /\ i \in worker'[v].batch => api[i].pc \notin {"idle", "logged"}
        BY <1>2, <2>1 DEF Undecided, Running
      <4>2. CASE i # job
        BY <1>1, <2>2, <3>3, <4>2 DEF Undecided, Running
      <4>3. CASE i = job
        BY <1>1, <2>2, <3>1, <3>3, <4>3 DEF Undecided, Running
      <4>. QED
        BY <4>2, <4>3
    <3>. QED
      BY <3>1, <3>3, <3>4, <3>5 DEF Decided
  <2>. QED
    BY <2>3, <2>4
<1>8. CASE HandlerRaises(w)
  <2>. DEFINE job == worker[w].job
  <2>1. /\ key' = [key EXCEPT ![job] = FALSE] /\ worker' = [worker EXCEPT ![w].pc = "ready"]
        /\ worker[w].pc \in {"claimed", "handled"} /\ UNCHANGED <<log, delivery>>
    BY <1>8 DEF HandlerRaises, ReleaseKey, apiRows
  <2>2. \A v \in Workers : /\ worker'[v].batch = worker[v].batch
                           /\ worker'[v].job = worker[v].job
                           /\ worker'[v].outcome = worker[v].outcome
                           /\ worker'[v].pc = IF v = w THEN "ready" ELSE worker[v].pc
    BY <1>1, <2>1 DEF WorkerState
  <2>3. job \in Jobs => log[job] = "queued"
    BY <1>1, <2>1 DEF Undecided, Running
  <2>4. \A i \in Jobs : log[i] \in Decided /\ key[i] => key'[i]
    BY <1>1, <2>1, <2>3 DEF Decided
  <2>. QED
    BY <1>3, <2>1, <2>2, <2>4
<1>9. CASE Delete(w) \/ Stop(w) \/ Restart(w) \/ Sigterm(w) \/ Crash(w)
  <2>1. UNCHANGED <<log, delivery, key>>
    BY <1>9 DEF Delete, Stop, Restart, Sigterm, Crash, apiRows, queueRows
  <2>2. \A v \in Workers :
          /\ worker'[v].batch \subseteq worker[v].batch
          /\ \/ /\ worker'[v].pc = worker[v].pc /\ worker'[v].job = worker[v].job
                /\ worker'[v].outcome = worker[v].outcome
             \/ worker'[v].pc \notin {"claimed", "handled"}
    <3>1. CASE \E pc \in {"ready", "down"} : worker' = [worker EXCEPT ![w].pc = pc]
      <4>1. PICK pc \in {"ready", "down"} : worker' = [worker EXCEPT ![w].pc = pc]
        BY <3>1
      <4>. QED
        BY <1>1, <4>1 DEF WorkerState
    <3>2. CASE worker' = [worker EXCEPT ![w] = Fresh]
      BY <1>1, <3>2 DEF Fresh
    <3>3. CASE worker' = worker
      BY <3>3
    <3>. QED
      BY <1>9, <3>1, <3>2, <3>3 DEF Delete, Stop, Restart, Sigterm, Crash
  <2>. QED
    BY <1>3, <2>1, <2>2
<1>. QED
  BY <1>4, <1>5, <1>6, <1>7, <1>8, <1>9 DEF Process

LEMMA StepDInv == DInv /\ [Next]_vars => DInv' /\ (StaysDecided \/ UNCHANGED vars)
<1>. SUFFICES ASSUME DInv, [Next]_vars PROVE DInv' /\ (StaysDecided \/ UNCHANGED vars)
  OBVIOUS
<1>1. SInv'
  BY StepSInv DEF DInv
<1>2. CASE UNCHANGED vars
  BY <1>1, <1>2 DEF vars, DInv, Logged, Undecided, Running
<1>3. CASE Next
  BY <1>1, <1>3, ApiDInv, WorkerDInv DEF Next, DInv
<1>. QED
  BY <1>2, <1>3

LEMMA DInvAlways == Spec => []DInv
<1>1. DInv /\ [Next]_vars => DInv'
  BY StepDInv
<1>. QED
  BY <1>1, InitDInv, PTL DEF Spec

\* A recorded delivery is as its log is, or still queued, whenever it was recorded and
\* whichever worker decided the log.
THEOREM DeliveryAgrees == Spec => []DeliveryMatchesLog
<1>1. DInv => DeliveryMatchesLog
  BY DEF DInv, Logged, DeliveryMatchesLog
<1>. QED
  BY <1>1, DInvAlways, PTL

\* A decided log keeps its status through redeliveries, resends, crashes and restarts,
\* with any number of workers.
THEOREM DecisionsOnce == Spec => DecidedOnce
<1>1. DInv /\ [Next]_vars =>
        [\A j \in Jobs : log[j] \in Decided => log'[j] = log[j]]_vars
  BY StepDInv DEF StaysDecided
<1>. QED
  BY <1>1, DInvAlways, PTL DEF Spec, DecidedOnce
=============================================================================
