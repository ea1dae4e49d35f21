------------------------------- MODULE Connectors -------------------------------
(* The verification connectors an organization has a request verified by: the     *)
(* catalog an administrator keeps, the choice of a connector, its execution with  *)
(* the row kept of it, and what its verdict does to the request. The execution is *)
(* a call to another system, made while the request's transaction is open.        *)
EXTENDS TrustPassport

CONSTANTS Catalog,      \* connector keys, numbered in their order
          Implemented,  \* those this deployment has an implementation of
          Mock,         \* the one that is shipped
          Runs,         \* rows, numbered in the order they are made
          RegistryOf,   \* of a request: the type of its organization in the trust registry, or None
          ModeKept      \* of a request: the mode in its trust context, or None
ASSUME CatalogAssumption == Catalog \subseteq Nat /\ Runs \subseteq Nat /\ Mock \in Implemented

VARIABLES catalog,       \* verification_connectors
          runs,          \* verification_connector_runs
          verdict        \* what the last response to a request says of it
connectorVars == <<catalog, runs, verdict>>

Capabilities == {"employment", "education"}
Connector == [enabled: BOOLEAN, priority: Nat, kinds: SUBSET Capabilities, registries: SUBSET {"*", "employer", "university"}]
RunStatus == {"started", "succeeded", "failed", "unavailable"}
ResultStatus == {"verified", "failed", "unavailable", "other"}
Run == [of: Requests \cup {None}, by: Catalog \cup {None}, status: RunStatus, result: ResultStatus \cup {None}]
NoRun == [of |-> None, by |-> None, status |-> "started", result |-> None]
Verdict == [said: {"confirmed", "discrepancy", None}, by: Catalog \cup {None}]
NoVerdict == [said |-> None, by |-> None]
Attempt(k, mode) == [by |-> k, mode |-> mode]

(* ---- the choice: ConnectorSelectionService ---- *)
KindOf(v) == IF dossiers[v].of \in Cases THEN "employment" ELSE "education"
SupportsRegistry(k, registry) ==
  \/ "*" \in catalog[k].registries
  \/ IF registry = None THEN catalog[k].registries = {} ELSE registry \in catalog[k].registries
Exact(k, registry) == registry # None /\ registry \in catalog[k].registries
Candidates(v) ==
  {k \in Catalog : catalog[k].enabled /\ KindOf(v) \in catalog[k].kinds /\ SupportsRegistry(k, RegistryOf[v])}
\* By priority; of one priority, those named for the registry type first; then by key.
Ahead(v, k, l) ==
  LET p == catalog[k].priority  q == catalog[l].priority
      e == Exact(k, RegistryOf[v])  f == Exact(l, RegistryOf[v]) IN
  \/ p < q
  \/ p = q /\ e /\ ~f
  \/ p = q /\ e = f /\ k < l
SelectForRequest(v) == {k \in Candidates(v) : \A l \in Candidates(v) \ {k} : Ahead(v, k, l)}

(* ---- the execution: ConnectorExecutionService ---- *)
\* What an attempt comes to: a result, or "down" (the connector says so by an exception) or "broken" (any other one).
Attempted == ResultStatus \cup {"down", "broken"}
MockMode(v, asked) == IF asked # None THEN asked ELSE IF ModeKept[v] # None THEN ModeKept[v] ELSE "success"
MockOutcome(mode) == CASE mode = "failed" -> "failed" [] mode = "unavailable" -> "down" [] OTHER -> "verified"
AttemptedOf(v, a) == IF a.by = Mock THEN {MockOutcome(MockMode(v, a.mode))} ELSE Attempted
StatusAfter(o) == CASE o = "verified" -> "succeeded" [] o \in {"unavailable", "down"} -> "unavailable" [] OTHER -> "failed"
RunOf(v, k, o) == [of |-> v, by |-> k, status |-> StatusAfter(o), result |-> IF o \in ResultStatus THEN o ELSE None]
Decisive(o) == o \in {"verified", "failed"}
Verdicts == {n \in Runs : runs[n].result \in {"verified", "failed"}}
\* The move to IN_PROGRESS is flushed before the connector is called: the row is locked until the call ends.
RowHeld(v) == \E d \in Flying : call[d].pc = "connecting" /\ call[d].on = v /\ call[d].view # "IN_PROGRESS"

(* ---- VerificationRequestService.verify ---- *)
Verify(c) ==
  \E v \in Requests, mode \in {None, "success", "failed", "unavailable"} :
    /\ Within(v)
    /\ \E k \in SelectForRequest(v) :
         /\ mode # None => k = Mock
         /\ OnFile(c, "verify", v, dossiers[v].status, Attempt(k, mode))
  /\ UNCHANGED connectorVars
Connect(c) ==
  LET k == call[c] IN
  /\ k.pc = "verify"
  /\ k.view # "IN_PROGRESS" => ~RowHeld(k.on)
  /\ call' = [call EXCEPT ![c].pc = "connecting"]
  /\ UNCHANGED <<fileVars, connectorVars>>
AfterStart(k, row) == IF k.view = "IN_PROGRESS" THEN row ELSE [row EXCEPT !.status = "IN_PROGRESS"]
\* Without an implementation no row is made; without a verdict the request stays where it was moved to.
ConnectorAnswers(c) ==
  LET k == call[c]  v == k.on  free == {n \in Runs : runs[n] = NoRun} IN
  /\ k.pc = "connecting"
  /\ \E o \in IF k.arg.by \in Implemented THEN AttemptedOf(v, k.arg) ELSE {"missing"} :
       /\ Decisive(o) /\ k.view = "IN_PROGRESS" => ~RowHeld(v)
       /\ IF o = "missing" THEN UNCHANGED runs
          ELSE \E n \in free :
                 /\ \A m \in free : n <= m
                 /\ runs' = [runs EXCEPT ![n] = RunOf(v, k.arg.by, o)]
       /\ dossiers' = [Log(v, "moved") EXCEPT ![v].status =
            IF Decisive(o) THEN "PENDING_ADMIN_QUALITY_REVIEW" ELSE AfterStart(k, dossiers[v]).status]
       /\ verdict' = IF ~Decisive(o) THEN verdict
                     ELSE [verdict EXCEPT ![v] = [said |-> IF o = "verified" THEN "confirmed" ELSE "discrepancy",
                                                  by |-> k.arg.by]]
  /\ Finish(c)
  /\ UNCHANGED <<catalog, items, given, doubled>>

(* ---- the request moves by other hands meanwhile ---- *)
MoveBegins(c) ==
  /\ \E v \in Opened : \E t \in Passed(v) : OnFile(c, "moving", v, dossiers[v].status, t)
  /\ UNCHANGED connectorVars
CommitMove(c) ==
  LET k == call[c] IN
  /\ k.pc = "moving"
  /\ ~RowHeld(k.on)
  /\ dossiers' = [Log(k.on, "moved") EXCEPT ![k.on].status = k.arg]
  /\ verdict' = IF k.arg = "PENDING_ADMIN_QUALITY_REVIEW" THEN [verdict EXCEPT ![k.on] = NoVerdict] ELSE verdict
  /\ Finish(c)
  /\ UNCHANGED <<catalog, runs, items, given, doubled>>

(* ---- the catalog: ConnectorRegistryService ---- *)
\* Only what the payload names is written; the health an administrator writes is read by no one here.
UpdateConnector(c) ==
  /\ \E k \in Catalog :
       \/ \E b \in BOOLEAN : catalog' = [catalog EXCEPT ![k].enabled = b]
       \/ \E p \in {catalog[l].priority : l \in Catalog} : catalog' = [catalog EXCEPT ![k].priority = p]
  /\ catalog' # catalog
  /\ Finish(c)
  /\ UNCHANGED <<runs, verdict, fileVars>>
\* The history of a connector, by which the newest run about a request is found.
RunHistory(k) == {n \in Runs : runs[n].by = k}
NewestOf(S) == {n \in S : \A m \in S : m <= n}

(* ---- the console: AdminSystemService, over what is committed and recent ---- *)
JobsIn(S) == {j \in Jobs : jobs[j].resume # None /\ jobs[j].status \in S}
\* A retry is another job: each is run once.
AttemptCount(j) == IF jobs[j].status = "queued" THEN 0 ELSE 1
ResumeWorkload ==
  [pending |-> Cardinality(JobsIn({"queued"})), processing |-> Cardinality(JobsIn({"extracting", "parsing"})),
   failed |-> Cardinality(JobsIn({"failed"})), succeeded_recent |-> Cardinality(JobsIn({"needs_review"})),
   retryable |-> Cardinality({j \in JobsIn({"failed"}) : AttemptCount(j) <= MaxRetries})]
ResumeFailures == [j \in JobsIn({"failed"}) |-> [subject |-> jobs[j].resume, retry_supported |-> FALSE]]
ResumeActivity == {<<jobs[j].resume, jobs[j].status>> : j \in JobsIn({"failed", "needs_review"})}
RunsIn(S) == {n \in Runs : runs[n].of # None /\ runs[n].status \in S}
\* The statuses of its queue are none a run is ever given.
ConnectorWorkload ==
  [pending |-> Cardinality(RunsIn({"queued"})), processing |-> Cardinality(RunsIn({"running", "processing"})),
   failed |-> Cardinality(RunsIn({"failed"})), succeeded_recent |-> Cardinality(RunsIn({"succeeded"})), retryable |-> 0]
ConnectorFailures == {<<runs[n].of, runs[n].by>> : n \in RunsIn({"failed"})}
ConnectorActivity == {<<runs[n].of, runs[n].by, runs[n].status>> : n \in RunsIn({"failed", "succeeded"})}

ConnectorsNext ==
  \/ \E c \in Calls :
       /\ Turn(c) /\ Cardinality(Flying) < AtATime
       /\ Verify(c) \/ MoveBegins(c) \/ UpdateConnector(c)
  \/ \E c \in Calls : Connect(c) \/ ConnectorAnswers(c) \/ CommitMove(c)

\* No run is left as started, whatever stops (connector_execution_service.py:53-108), and what a response says a connector found is what the last deciding run of that connector about the request found (verification_request_service.py:1044-1142).
RunsTell ==
  /\ \A n \in Runs : runs[n].of # None => runs[n].status # "started"
  /\ \A v \in Opened : verdict[v].said # None =>
       \E n \in NewestOf({m \in Verdicts : runs[m].of = v}) :
         /\ n \in RunHistory(verdict[v].by)
         /\ (verdict[v].said = "confirmed") <=> (runs[n].status = "succeeded")

\* A verdict counts while the request is with the organization, and ends that: it moves the request to its quality review, so that there is no second one before it is sent back, and none once the request is closed (verification_request_service.py:1051-1142), unless two calls on the request overlapped.
VerdictEndsTurn ==
  [][\A n \in Runs : runs'[n] # runs[n] /\ runs'[n].result \in {"verified", "failed"} =>
       LET v == runs'[n].of IN
       v \in doubled \/ (dossiers[v].status \in Workflow!OrganizationVisible
                         /\ dossiers'[v].status = "PENDING_ADMIN_QUALITY_REVIEW")]_<<runs, dossiers>>

\* What is to be done about the resumes shows in the console (admin_system_service.py:521-576, 670-695 and 785-811): a resume that failed and can be processed again is among the failures and counted as retryable, and how a resume ended is in the activity, unless its status was set out of turn.
JobsShown ==
  LET again == {d \in Resumes : JobsOf(d) # {} /\ jobs[Latest(d)].status = "failed" /\ Retriable(d)} IN
  /\ again \subseteq {ResumeFailures[j].subject : j \in DOMAIN ResumeFailures}
  /\ Cardinality(again) <= ResumeWorkload.retryable
  /\ \A d \in Resumes \ torn :
       Owned(d) /\ resumes[d].processing \in {"failed", "needs_review"} => <<d, resumes[d].processing>> \in ResumeActivity

\* What a connector decided shows in the console (admin_system_service.py:578-628, 697-728 and 813-834), and nothing waits there that nobody would run.
RunsShown ==
  /\ ConnectorWorkload.pending + ConnectorWorkload.processing = 0
  /\ \A v \in Opened : verdict[v].said # None =>
       \E t \in ConnectorActivity : t[1] = v /\ t[2] = verdict[v].by /\ t[3] = (IF verdict[v].said = "confirmed" THEN "succeeded" ELSE "failed")
  /\ \A v \in Opened : verdict[v].said = "discrepancy" => <<v, verdict[v].by>> \in ConnectorFailures
================================================================================
