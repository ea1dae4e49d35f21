-------------------------------- MODULE MCCareer --------------------------------
(* One family of starts for each part, with the calls that part is explored with.*)
EXTENDS Career

CONSTANTS x1, x2, f1, f2, d1, e1, e2, s1, p1, p2, h1, u1, r1, r2, t1

\* The shipped connector for any registry type; one for employers of the same priority; one that comes first, for requests whose registry type is not known, without an implementation.
MCCatalog == (1 :> [enabled |-> TRUE, priority |-> 1, kinds |-> {"employment", "education"}, registries |-> {"*"}])
          @@ (2 :> [enabled |-> TRUE, priority |-> 1, kinds |-> {"employment"}, registries |-> {"employer"}])
          @@ (3 :> [enabled |-> FALSE, priority |-> 0, kinds |-> {"employment"}, registries |-> {}])
MCRegistryOf == [v \in Requests |-> IF v = 1 THEN "employer" ELSE None]
MCModeKept == [v \in Requests |-> IF v = 1 THEN "failed" ELSE None]
Unless(S, none, one) == [x \in S |-> IF x \in DOMAIN one THEN one[x] ELSE none]
Empty == [cases |-> [x \in Cases |-> NoCase], files |-> [f \in Files |-> NoFile],
          resumes |-> [d \in Resumes |-> NoResume], jobs |-> [j \in Jobs |-> NoJob],
          skills |-> [s \in Skills |-> "none"], papers |-> [p \in Papers |-> NoPaper],
          studies |-> [s \in Studies |-> NoStudy], asks |-> [v \in Requests |-> NoAsk],
          links |-> [v \in Requests |-> NoLink],
          dossiers |-> [v \in Requests |-> NoDossier], items |-> [i \in Items |-> NoExhibit],
          entries |-> [e \in Entries |-> NoEntry], sheets |-> [t \in Sheets |-> NoSheet],
          confirmations |-> [e \in Entries |-> NoConfirmation], consent |-> 0, catalog |-> MCCatalog,
          calls |-> {}, parts |-> {}]
Draft(dates) == NewCase(e1, dates, "document")
Done(x, status) == [NoFile EXCEPT !.case = x, !.digest = h1, !.status = status,
                                  !.there = TRUE, !.object = TRUE]
Pending(x) == [NoFile EXCEPT !.case = x, !.name = "cv", !.there = TRUE]
Uploaded == [NoResume EXCEPT !.there = TRUE, !.upload = "uploaded", !.processing = "uploaded", !.object = TRUE]
Read == [Uploaded EXCEPT !.processing = "needs_review"]

MCParsed == (1 :> [NoClaim EXCEPT !.kind = "employment", !.employer = e1, !.dates = 1])
         @@ (2 :> [NoClaim EXCEPT !.skill = s1])
MCChanges == {[claim |-> None, selected |-> TRUE, action |-> "update_existing", target |-> x1],
              [claim |-> None, selected |-> TRUE, action |-> "create_new", target |-> None],
              [claim |-> None, selected |-> FALSE, action |-> "skip", target |-> None],
              [claim |-> [NoClaim EXCEPT !.kind = "employment", !.employer = e2, !.dates = 2],
               selected |-> TRUE, action |-> "create_new", target |-> None]}
Deciding == [Empty EXCEPT !.parts = {"pipeline"}, !.calls = 1..3,
  !.cases = Unless(Cases, NoCase, x1 :> [Draft(1) EXCEPT !.status = "under_review"] @@ x2 :> Draft(2)),
  !.files = Unless(Files, NoFile, f1 :> Done(x1, "pending_review") @@ f2 :> Done(x2, "pending_review"))]
Proving == [Empty EXCEPT !.parts = {"pipeline"}, !.calls = 1..3,
  !.cases = Unless(Cases, NoCase, x1 :> Draft(1)),
  !.files = Unless(Files, NoFile, f1 :> Done(x1, "pending_review") @@ f2 :> Pending(x1))]
Restarting == [Empty EXCEPT !.parts = {"pipeline"}, !.calls = 1..4,
  !.cases = Unless(Cases, NoCase, x1 :> [Draft(1) EXCEPT !.status = "submitted", !.request = "rejected"]
                                @@ x2 :> [Draft(2) EXCEPT !.status = "additional_info_requested"])]
Reading == [Empty EXCEPT !.parts = {"resumes"}, !.calls = 1..4,
  !.resumes = Unless(Resumes, NoResume, d1 :> Uploaded)]
Sending == [Empty EXCEPT !.parts = {"resumes"}, !.calls = 1..4]
Reviewing == [Empty EXCEPT !.parts = {"reviews"}, !.calls = 1..5,
  !.cases = Unless(Cases, NoCase, x1 :> Draft(2)),
  !.resumes = Unless(Resumes, NoResume, d1 :> Read),
  !.jobs = Unless(Jobs, NoJob, 1 :> [NoJob EXCEPT !.resume = d1, !.status = "needs_review", !.result = TRUE])]
Submitting == [Reviewing EXCEPT !.calls = 1..3, !.parts = {"reviews", "pipeline"},
  !.files = Unless(Files, NoFile, f1 :> Done(x1, "pending_review"))]
Replacing == [Empty EXCEPT !.parts = {"papers"}, !.calls = 1..5]
\* One education record, and what is asked about it: nothing, a request with the
\* administrators, or one an institution was asked.
Studied(status) == (u1 :> [NoStudy EXCEPT !.there = TRUE, !.transcript = "complete", !.status = status])
Requested(status, over) ==
  [v \in Requests |-> IF v > 1 THEN NoAsk
     ELSE [over EXCEPT !.study = u1, !.status = status, !.evidence = TRUE, !.contact = "approved"]]
Applying == [Empty EXCEPT !.parts = {"studies"}, !.calls = 1..4, !.studies = Studied("draft")]
Reviewed == [Empty EXCEPT !.parts = {"studies"}, !.calls = 1..4, !.studies = Studied("pending"),
  !.asks = Requested("PENDING_ADMIN_REVIEW", [NoAsk EXCEPT !.snapshot = 1, !.org = TRUE])]
Unplaced == [Reviewed EXCEPT !.calls = 1..3,
  !.asks = Requested("PENDING_ADMIN_REVIEW", [NoAsk EXCEPT !.snapshot = 1])]
Dispatched == [NoAsk EXCEPT !.snapshot = 1, !.org = TRUE, !.approved = TRUE, !.outreach = TRUE]
Linked(answer) == [v \in Requests |-> IF v > 1 THEN NoLink ELSE [NoLink EXCEPT !.token = 1, !.answer = answer]]
Returned == [Empty EXCEPT !.parts = {"studies"}, !.calls = 1..3, !.studies = Studied("pending"),
  !.asks = Requested("PENDING_ADMIN_RE_REVIEW", Dispatched), !.links = Linked("confirm")]
Answering == [Empty EXCEPT !.parts = {"studies"}, !.calls = 1..3, !.studies = Studied("pending"),
  !.asks = Requested("PENDING_ORGANIZATION_ACCEPTANCE", Dispatched),
  !.links = Linked("none")]
\* The file of a request about a case, before it is sent and with the organization;
\* and of one about an education record.
FileOn(x, over) == [v \in Requests |-> IF v = 1 THEN [over EXCEPT !.of = x] ELSE NoDossier]
Evidenced == [i \in Items |-> IF i = 1 THEN [of |-> 1, scope |-> "letters", file |-> f1, paper |-> None] ELSE NoExhibit]
Documented == Unless(Cases, NoCase, x1 :> [Draft(1) EXCEPT !.request = "open"])
Collecting == [Empty EXCEPT !.parts = {"file"}, !.calls = 1..3, !.cases = Documented,
  !.files = Unless(Files, NoFile, f1 :> Done(x1, "pending_review")),
  !.papers = Unless(Papers, NoPaper, p1 :> [NoPaper EXCEPT !.there = TRUE, !.done = TRUE]),
  !.dossiers = FileOn(x1, [NoDossier EXCEPT !.status = "PENDING_SUBJECT_SUBMISSION"])]
Submitted == [NoDossier EXCEPT !.consented = TRUE, !.fields = TRUE, !.scopes = {"letters"}, !.snapshot = 1]
Filed == [Collecting EXCEPT !.items = Evidenced,
  !.dossiers = FileOn(x1, [NoDossier EXCEPT !.status = "PENDING_SUBJECT_SUBMISSION"])]
Correcting == [Filed EXCEPT !.calls = 1..4,
  !.dossiers = FileOn(x1, [Submitted EXCEPT !.status = "AWAITING_SUBJECT_CORRECTIONS"])]
Working == [Empty EXCEPT !.parts = {"file"}, !.calls = 1..3, !.studies = Studied("pending"),
  !.asks = Requested("IN_PROGRESS", Dispatched), !.links = Linked("none"),
  !.dossiers = FileOn(u1, [Submitted EXCEPT !.status = "IN_PROGRESS"])]
\* A profile that is made, with an internship somebody was asked to confirm, on its own
\* or after an earlier answer; the passport with the claims on their way;
\* and the visits of the profile.
Making == [Empty EXCEPT !.parts = {"records"}, !.calls = 1..3]
Confirmed(status) == [Empty EXCEPT !.parts = {"records"}, !.calls = 1..(IF status = "pending" THEN 3 ELSE 2),
  !.entries = Unless(Entries, NoEntry, r1 :> [NoEntry EXCEPT !.kind = "internship", !.status = status]
                                    @@ r2 :> [NoEntry EXCEPT !.kind = "portfolio"]),
  !.sheets = Unless(Sheets, NoSheet, t1 :> [NoSheet EXCEPT !.of = r1]),
  !.confirmations = Unless(Entries, NoConfirmation, r1 :> [NoConfirmation EXCEPT !.there = TRUE])]
Scoring(n) == [Empty EXCEPT !.parts = {"passport"}, !.calls = 1..(3 + n), !.studies = Studied("submitted"), !.consent = n,
  !.cases = Unless(Cases, NoCase, x1 :> [Draft(1) EXCEPT !.status = "under_review"]),
  !.files = Unless(Files, NoFile, f1 :> Done(x1, "approved"))]
Visited == [Empty EXCEPT !.parts = {"visits"}, !.calls = 1..4]
\* A request with the organization: not begun, begun, or of no registry type.
Verifying(v, status) == [Empty EXCEPT !.parts = {"connectors"}, !.calls = 1..3, !.cases = Documented,
  !.dossiers = [w \in Requests |-> IF w = v THEN [Submitted EXCEPT !.of = x1, !.status = status] ELSE NoDossier]]
MCStarts == {Verifying(1, "PENDING_ORGANIZATION_ACCEPTANCE"), Verifying(1, "IN_PROGRESS"), Verifying(2, "AWAITING_INFORMATION"), Making, Confirmed("pending"), Confirmed("rejected"), Scoring(0), Scoring(1), Visited, Collecting, Filed, Correcting, Working, Applying, Reviewed, Unplaced, Answering, Returned, Deciding, Proving, Restarting, Reading, Sending, Reviewing, Submitting, Replacing}
================================================================================
