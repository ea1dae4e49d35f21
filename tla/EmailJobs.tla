------------------------------ MODULE EmailJobs ------------------------------
(***************************************************************************)
(* The e-mails of one notification.  Each send (the first, and every       *)
(* resend) commits a delivery log, publishes an email.send job for it to   *)
(* SQS (or runs the handler in place), reads the log again and records a   *)
(* delivery with the status it saw.  Workers poll the queue, claim each    *)
(* message in Redis, run the handler in a database session of its own and  *)
(* delete the message.  The worker and the API share no transaction: the   *)
(* log, the delivery, the Redis key and the queue are four places.         *)
(*                                                                         *)
(* The queue is external: a message that was received and not deleted      *)
(* becomes visible again after its visibility timeout, and moves to the    *)
(* dead-letter queue after MaxReceives receipts.                           *)
(***************************************************************************)
EXTENDS Integers, FiniteSets

CONSTANTS MaxSends,     \* sends of the notification a behaviour may make
          Workers,      \* worker processes
          Backends,     \* values of the setting job_backend to consider
          MaxBatch,     \* SQS_MAX_MESSAGES_PER_POLL
          MaxReceives,  \* maxReceiveCount of the queue's redrive policy
          MaxCrashes,   \* process crashes a behaviour may have
          MaxStops,     \* SIGTERMs a behaviour may have
          Outruns       \* whether handlers may outlast the visibility timeout: TRUE, FALSE

ASSUME EmailJobsAssumption ==
  /\ Backends \subseteq {"sqs", "inline"} /\ Outruns \subseteq BOOLEAN
  /\ {MaxBatch, MaxReceives} \subseteq Nat \ {0}
  /\ {MaxSends, MaxCrashes, MaxStops} \subseteq Nat

VARIABLES
  backend,   \* job_backend
  log,       \* email_delivery_logs.status of each send, as committed
  delivery,  \* notification_deliveries.status of each send, as committed
  note,      \* notifications.status, as committed
  api,       \* where each send's API session is, and the log status it read
  queue,     \* each send's message: not sent, visible, in flight, deleted, dead
  receives,  \* how often it was received
  key,       \* Redis: sqs:processed:<message id>
  worker,    \* each worker: where it is, its batch, the job and the outcome at hand
  stopping,  \* workers that got SIGTERM
  accepted,  \* e-mails the provider took for each send
  failures,  \* handler runs that ended in an exception
  crashes, stops,
  outruns    \* how the timeout is set: handlers may outlast it

vars == <<backend, log, delivery, note, api, queue, receives, key, worker, stopping,
          accepted, failures, crashes, stops, outruns>>
apiRows == <<delivery, note, api>>
queueRows == <<queue, receives, key>>
counters == <<crashes, stops, outruns>>
-----------------------------------------------------------------------------
Jobs == 1..MaxSends
Decided == {"sent", "failed", "skipped"}
LogStatus == {"none", "queued"} \cup Decided
\* What a handler run makes of the provider's answer; "failed" is a provider that raised.
ProviderWords == {"sent", "failed", "skipped", "accepted"}
Outcomes == {"sent", "failed", "skipped"}
ApiSteps == {"idle", "logged", "dispatched", "read", "done"}
WorkerSteps == {"ready", "claimed", "handled", "delete", "down"}
Places == {"none", "visible", "inflight", "deleted", "dead"}

WorkerState == [pc : WorkerSteps, batch : SUBSET Jobs, job : Jobs \cup {0},
                outcome : Decided \cup {"none"}]
Fresh == [pc |-> "ready", batch |-> {}, job |-> 0, outcome |-> "none"]

Init ==
  /\ backend \in Backends
  /\ log = [j \in Jobs |-> "none"]
  /\ delivery = [j \in Jobs |-> "none"]
  /\ note = "none"
  /\ api = [j \in Jobs |-> [pc |-> "idle", seen |-> "none"]]
  /\ queue = [j \in Jobs |-> "none"]
  /\ receives = [j \in Jobs |-> 0]
  /\ key = [j \in Jobs |-> FALSE]
  /\ worker = [w \in Workers |-> Fresh]
  /\ stopping = {}
  /\ accepted = [j \in Jobs |-> 0]
  /\ failures = [j \in Jobs |-> 0]
  /\ crashes = 0 /\ stops = 0 /\ outruns \in Outruns
-----------------------------------------------------------------------------
(* The API: create_and_dispatch, resend.                                   *)

\* queue_template_email commits the log, and with it the caller's session, in which
\* the notification was just set to queued.
Queue(j) ==
  /\ api[j].pc = "idle"
  /\ j > 1 => api[j - 1].pc # "idle" /\ note # "none"
  /\ log' = [log EXCEPT ![j] = "queued"]
  /\ note' = "queued"
  /\ api' = [api EXCEPT ![j].pc = "logged"]
  /\ UNCHANGED <<backend, delivery, queueRows, worker, stopping, accepted, failures,
                 counters>>

\* dispatch_email publishes; what it raises is logged and dropped.
Publish(j) ==
  /\ backend = "sqs" /\ api[j].pc = "logged"
  /\ api' = [api EXCEPT ![j].pc = "dispatched"]
  /\ \/ queue' = [queue EXCEPT ![j] = "visible"]
     \/ UNCHANGED queue
  /\ UNCHANGED <<backend, log, delivery, note, receives, key, worker, stopping,
                 accepted, failures, counters>>

\* dispatch_email runs the handler in a session of its own, or that session fails.
RunInline(j) ==
  /\ backend = "inline" /\ api[j].pc = "logged"
  /\ api' = [api EXCEPT ![j].pc = "dispatched"]
  /\ \E outcome \in Outcomes, committed \in BOOLEAN :
       /\ accepted' = IF outcome = "sent" THEN [accepted EXCEPT ![j] = @ + 1]
                      ELSE accepted
       /\ log' = IF committed THEN [log EXCEPT ![j] = outcome] ELSE log
       /\ failures' = IF committed THEN failures ELSE [failures EXCEPT ![j] = @ + 1]
  /\ UNCHANGED <<backend, delivery, note, queueRows, worker, stopping, counters>>

\* session.refresh(log), whose status becomes the outcome of the dispatch.
ReadLog(j) ==
  /\ api[j].pc = "dispatched"
  /\ api' = [api EXCEPT ![j] = [pc |-> "read", seen |-> log[j]]]
  /\ UNCHANGED <<backend, log, delivery, note, queueRows, worker, stopping, accepted,
                 failures, counters>>

\* _record_delivery, _apply_outcome and the commit.  The notification is queued in
\* this session already, so only another status is written.
Record(j) ==
  /\ api[j].pc = "read"
  /\ delivery' = [delivery EXCEPT ![j] = api[j].seen]
  /\ note' = IF api[j].seen # "queued" THEN api[j].seen ELSE note
  /\ api' = [api EXCEPT ![j].pc = "done"]
  /\ UNCHANGED <<backend, log, queueRows, worker, stopping, accepted, failures, counters>>
-----------------------------------------------------------------------------
(* The queue.                                                              *)

Held(j) == \E w \in Workers : worker[w].pc # "down" /\
             (j \in worker[w].batch \/ (worker[w].pc # "ready" /\ worker[w].job = j))

\* The visibility timeout of a message that was received and not deleted.
Reappear(j) ==
  /\ queue[j] = "inflight"
  /\ outruns \/ ~Held(j)
  /\ queue' = [queue EXCEPT ![j] = IF receives[j] < MaxReceives THEN "visible" ELSE "dead"]
  /\ UNCHANGED <<backend, log, apiRows, receives, key, worker, stopping, accepted,
                 failures, counters>>
-----------------------------------------------------------------------------
(* A worker: run_worker, _process_message, EmailSendJobHandler.handle.     *)

Visible == {j \in Jobs : queue[j] = "visible"}

Receive(w) ==
  /\ worker[w].pc = "ready" /\ worker[w].batch = {} /\ w \notin stopping
  /\ \E batch \in SUBSET Visible :
       /\ batch # {} /\ Cardinality(batch) <= MaxBatch
       /\ worker' = [worker EXCEPT ![w].batch = batch]
       /\ queue' = [j \in Jobs |-> IF j \in batch THEN "inflight" ELSE queue[j]]
       /\ receives' = [j \in Jobs |-> receives[j] + (IF j \in batch THEN 1 ELSE 0)]
  /\ UNCHANGED <<backend, log, apiRows, key, stopping, accepted, failures, counters>>

\* Whether SET NX took the key: this process is the first to claim the message.
FirstAlways(j) == TRUE
First(j) == ~key[j]

\* _mark_processed on the next message of the batch; a duplicate goes to deletion.
Claim(w, j) ==
  /\ worker[w].pc = "ready" /\ j \in worker[w].batch /\ w \notin stopping
  /\ key' = [key EXCEPT ![j] = TRUE]
  /\ worker' = [worker EXCEPT ![w] = [pc |-> IF First(j) THEN "claimed" ELSE "delete",
                                      batch |-> @.batch \ {j}, job |-> j,
                                      outcome |-> "none"]]
  /\ UNCHANGED <<backend, log, apiRows, queue, receives, stopping, accepted, failures,
                 counters>>

\* The handler up to its commit.  It leaves a log that is sent or skipped alone; a
\* provider that raises is an outcome too.
Handle(w) ==
  LET j == worker[w].job IN
  /\ worker[w].pc = "claimed"
  /\ \E outcome \in IF log[j] \in {"sent", "skipped"} THEN {"none"} ELSE Outcomes :
       /\ worker' = [worker EXCEPT ![w].pc = "handled", ![w].outcome = outcome]
       /\ accepted' = IF outcome = "sent" THEN [accepted EXCEPT ![j] = @ + 1] ELSE accepted
  /\ UNCHANGED <<backend, log, apiRows, queueRows, stopping, failures, counters>>

\* _reconcile_delivery_state, on the delivery if the API has committed it, and commit.
Commit(w) ==
  LET j == worker[w].job
      outcome == worker[w].outcome IN
  /\ worker[w].pc = "handled"
  /\ IF outcome = "none"
     THEN UNCHANGED <<log, delivery, note>>
     ELSE /\ log' = [log EXCEPT ![j] = outcome]
          /\ delivery' = IF delivery[j] = "none" THEN delivery
                         ELSE [delivery EXCEPT ![j] = outcome]
          /\ note' = IF delivery[j] = "none" THEN note ELSE outcome
  /\ worker' = [worker EXCEPT ![w].pc = "delete"]
  /\ UNCHANGED <<backend, api, queueRows, stopping, accepted, failures, counters>>

KeepKey(j) == key
ReleaseKey(j) == [key EXCEPT ![j] = FALSE]

\* The handler, or its commit, raises: rolled back, the key is released and the
\* message left to its visibility timeout.
HandlerRaises(w) ==
  LET j == worker[w].job IN
  /\ worker[w].pc \in {"claimed", "handled"}
  /\ key' = ReleaseKey(j)
  /\ failures' = [failures EXCEPT ![j] = @ + 1]
  /\ worker' = [worker EXCEPT ![w].pc = "ready"]
  /\ UNCHANGED <<backend, log, apiRows, queue, receives, stopping, accepted, counters>>

\* DeleteMessage; when it fails the message is left to its visibility timeout.
Delete(w) ==
  LET j == worker[w].job IN
  /\ worker[w].pc = "delete"
  /\ \/ queue' = [queue EXCEPT ![j] = IF @ = "dead" THEN @ ELSE "deleted"]
     \/ UNCHANGED queue
  /\ worker' = [worker EXCEPT ![w].pc = "ready"]
  /\ UNCHANGED <<backend, log, apiRows, receives, key, stopping, accepted, failures,
                 counters>>

Sigterm(w) ==
  /\ worker[w].pc # "down" /\ w \notin stopping
  /\ stops < MaxStops
  /\ stops' = stops + 1
  /\ stopping' = stopping \cup {w}
  /\ UNCHANGED <<backend, log, apiRows, queueRows, worker, accepted, failures, crashes,
                 outruns>>

\* The loop over the batch breaks, and so does the polling loop.
Stop(w) ==
  /\ worker[w].pc = "ready" /\ w \in stopping
  /\ worker' = [worker EXCEPT ![w].pc = "down"]
  /\ UNCHANGED <<backend, log, apiRows, queueRows, stopping, accepted, failures, counters>>

\* The process dies; its open transaction is rolled back by the database.
Crash(w) ==
  /\ worker[w].pc # "down"
  /\ crashes < MaxCrashes
  /\ crashes' = crashes + 1
  /\ worker' = [worker EXCEPT ![w].pc = "down"]
  /\ UNCHANGED <<backend, log, apiRows, queueRows, stopping, accepted, failures, stops,
                 outruns>>

Restart(w) ==
  /\ worker[w].pc = "down"
  /\ worker' = [worker EXCEPT ![w] = Fresh]
  /\ stopping' = stopping \ {w}
  /\ UNCHANGED <<backend, log, apiRows, queueRows, accepted, failures, counters>>
-----------------------------------------------------------------------------
Api(j) == Queue(j) \/ Publish(j) \/ RunInline(j) \/ ReadLog(j) \/ Record(j)

Process(w) ==
  \/ Receive(w) \/ (\E j \in Jobs : Claim(w, j)) \/ Handle(w) \/ Commit(w)
  \/ Delete(w) \/ Stop(w) \/ Restart(w)

Next ==
  \/ \E j \in Jobs : Api(j) \/ Reappear(j)
  \/ \E w \in Workers : Process(w) \/ HandlerRaises(w) \/ Sigterm(w) \/ Crash(w)

\* run_worker loops until it is stopped, and the deployment restarts it; SQS makes an
\* undeleted message visible again.  Nothing is assumed of the API's callers.
Fairness ==
  /\ \A w \in Workers : WF_vars(Process(w))
  /\ \A j \in Jobs : WF_vars(Reappear(j))

Spec == Init /\ [][Next]_vars /\ Fairness
-----------------------------------------------------------------------------
(* Properties.                                                             *)

\* Rows, keys and processes hold the values the code gives them.
TypeOK ==
  /\ backend \in {"sqs", "inline"}
  /\ log \in [Jobs -> LogStatus] /\ delivery \in [Jobs -> LogStatus]
  /\ note \in LogStatus
  /\ api \in [Jobs -> [pc : ApiSteps, seen : LogStatus]]
  /\ queue \in [Jobs -> Places]
  /\ receives \in [Jobs -> 0..MaxReceives]
  /\ key \in [Jobs -> BOOLEAN]
  /\ worker \in [Workers -> WorkerState]
  /\ stopping \subseteq Workers
  /\ accepted \in [Jobs -> Nat] /\ failures \in [Jobs -> Nat]
  /\ crashes \in 0..MaxCrashes /\ stops \in 0..MaxStops /\ outruns \in BOOLEAN

\* The Redis claim keeps two workers from sending the same e-mail, whatever is
\* redelivered, crashes or outruns its timeout: one is sent again only after a handler
\* that had sent it raised.
SentAgainOnlyAfterFailure == \A j \in Jobs : accepted[j] <= 1 + failures[j]

\* A recorded delivery never contradicts its log: it is as the log is, or still queued.
DeliveryMatchesLog ==
  \A j \in Jobs : delivery[j] \in {"none", "queued", log[j]}

\* A handler run decides a log that was queued; a decided one keeps its status through
\* redeliveries, resends and restarts.
DecidedOnce == [][\A j \in Jobs : log[j] \in Decided => log'[j] = log[j]]_vars

\* A published job is handled in the end, or dead-lettered after MaxReceives receipts,
\* through handler exceptions, failed deletions and worker restarts.  Not where a
\* process crashed, or where a handler outlasts the timeout: a message is then taken for
\* a duplicate and deleted while the run that claimed it may still fail.
EveryJobDecided ==
  \A j \in Jobs : queue[j] = "visible" /\ ~outruns
                   ~> (log[j] \in Decided \/ queue[j] = "dead" \/ crashes > 0)
=============================================================================
