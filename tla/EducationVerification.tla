------------------------- MODULE EducationVerification --------------------------
(* Education records and the requests to verify them: the candidate applies, an  *)
(* administrator approves, the institution answers by a link or in its workspace, *)
(* and the administrator settles. A call reads and checks in one step and commits *)
(* what it changes in another; those that lock the row they decide on are one.   *)
EXTENDS ResumeReview

Workflow == INSTANCE VerificationWorkflow

CONSTANTS Studies,
          Requests,   \* numbered in the order they are created
          MaxTokens, MaxEdits,
          AtATime     \* how many calls may overlap: a bound of the exploration
ASSUME RequestsAssumption == Requests \subseteq Nat /\ MaxTokens \in Nat /\ MaxEdits \in Nat

VARIABLES studies,   \* education records, with their transcript
          asks,      \* verification requests
          links,     \* institution_verification_requests, by request
          heard,     \* ghost: requests the institution has answered
          muddled    \* ghost: records two calls were about at once
studyVars == <<studies, asks, links, heard, muddled>>

StudyStatus == {"draft", "pending", "submitted", "verified", "rejected", "unable_to_verify"}
Study == [there: BOOLEAN, version: 1..MaxEdits, status: StudyStatus,
          transcript: {"none", "intended", "complete"}]
NoStudy == [there |-> FALSE, version |-> 1, status |-> "draft", transcript |-> "none"]
\* snapshot: the version consent was given for; 0: none yet. open: a correction is.
AskRow == [study: Studies \cup {None}, status: Workflow!Status, snapshot: 0..MaxEdits,
           evidence: BOOLEAN, contact: {"pending", "approved", "changes"}, org: BOOLEAN,
           approved: BOOLEAN, outreach: BOOLEAN, replied: BOOLEAN, open: BOOLEAN]
NoAsk == [study |-> None, status |-> "DRAFT", snapshot |-> 0, evidence |-> FALSE,
          contact |-> "pending", org |-> FALSE, approved |-> FALSE, outreach |-> FALSE,
          replied |-> FALSE, open |-> FALSE]
Answers == {"confirm", "discrepancy", "clarification"}
Link == [token: 0..MaxTokens, viewed: BOOLEAN, lapsed: BOOLEAN, answer: Answers \cup {"none"}]
NoLink == [token |-> 0, viewed |-> FALSE, lapsed |-> FALSE, answer |-> "none"]

Asked == {v \in Requests : asks[v].study # None}
RequestsOf(s) == {v \in Asked : asks[v].study = s}
Newest(s) == CHOOSE v \in RequestsOf(s) : \A w \in RequestsOf(s) : w <= v
Unsettled(s) == {v \in RequestsOf(s) : asks[v].status \notin Workflow!Terminal}
Records == {s \in Studies : studies[s].there}

Meeting(s) == {t \in {s} : \E d \in Flying : call[d].case = s}
Engage(c, h, v, arg) ==
  /\ call' = [call EXCEPT ![c] = Call(h, asks[v].study, v, asks[v], arg)]
  /\ muddled' = muddled \cup Meeting(asks[v].study)
  /\ UNCHANGED <<studies, asks, links, heard>>
AtOnce(c, s) == Finish(c) /\ muddled' = muddled \cup Meeting(s)
Commit(c) == Finish(c) /\ UNCHANGED muddled

(* ---- the candidate's records: EducationService ---- *)
AddStudy(c) ==
  \E s \in Studies :
    /\ studies[s] = NoStudy
    /\ studies' = [studies EXCEPT ![s].there = TRUE]
    /\ Finish(c)
    /\ UNCHANGED <<asks, links, heard, muddled>>

Recovering(s) ==
  \/ studies[s].status = "rejected"
  \/ RequestsOf(s) # {} /\ asks[Newest(s)].status = "REJECTED"
OnStudy(c, s, h, arg) ==
  /\ call' = [call EXCEPT ![c] = Call(h, s, None, studies[s], arg)]
  /\ muddled' = muddled \cup Meeting(s)
  /\ UNCHANGED <<studies, asks, links, heard>>
EditStudy(c) ==
  \E s \in Records : studies[s].version < MaxEdits /\ OnStudy(c, s, "edit", Recovering(s))
CommitEdit(c) ==
  LET k == call[c] IN
  /\ k.pc = "edit"
  /\ studies' = [studies EXCEPT ![k.case].version = IF @ < MaxEdits THEN @ + 1 ELSE @,
       ![k.case].status = IF k.arg /\ k.view.status # "draft" THEN "draft" ELSE @]
  /\ Commit(c)
  /\ UNCHANGED <<asks, links, heard>>
SubmitStudy(c) ==
  \E s \in Records : studies[s].status \in {"draft", "rejected"} /\ OnStudy(c, s, "enter", None)
CommitSubmit(c) ==
  /\ call[c].pc = "enter"
  /\ studies' = [studies EXCEPT ![call[c].case].status = "submitted"]
  /\ Commit(c)
  /\ UNCHANGED <<asks, links, heard>>
DeleteStudy(c) ==
  \E s \in Records :
    /\ studies' = [studies EXCEPT ![s].there = FALSE]
    /\ AtOnce(c, s)
    /\ UNCHANGED <<asks, links, heard>>
\* An upload intent, its completion (a checksum; the object is not looked at), a removal.
Transcript(c) ==
  \E s \in Records, t \in {"none", "intended", "complete"} :
    /\ t = "intended" => studies[s].transcript = "none"
    /\ t # "intended" => studies[s].transcript # "none"
    /\ studies' = [studies EXCEPT ![s].transcript = t]
    /\ AtOnce(c, s)
    /\ UNCHANGED <<asks, links, heard>>

(* ---- the candidate's requests: VerificationRequestService ---- *)
\* Holds the lock of the record. A request under way is answered as it is.
Apply(c) ==
  \E s \in Records, v \in Requests, attached \in BOOLEAN :
    /\ Unsettled(s) = {}
    /\ v \notin Asked /\ \A w \in Requests : w < v => w \in Asked
    /\ attached => studies[s].transcript = "complete"
    /\ asks' = [asks EXCEPT ![v] = [NoAsk EXCEPT !.study = s, !.evidence = attached,
                                                 !.status = "PENDING_SUBJECT_SUBMISSION"]]
    /\ studies' = [studies EXCEPT ![s].status = "pending"]
    /\ AtOnce(c, s)
    /\ UNCHANGED <<links, heard>>

Attach(c) ==
  \E v \in Asked :
    /\ asks[v].status \in Workflow!SubjectEditable
    /\ studies[asks[v].study].there /\ studies[asks[v].study].transcript = "complete"
    /\ Engage(c, "attach", v, None)
UpdateContact(c) ==
  \E v \in Asked : asks[v].status \in Workflow!SubjectEditable /\ Engage(c, "contact", v, "pending")
SubmitForReview(c) ==
  \E v \in Asked :
    /\ asks[v].status = "PENDING_SUBJECT_SUBMISSION" /\ asks[v].evidence
    /\ studies[asks[v].study].there
    /\ Engage(c, "submitted", v, "PENDING_ADMIN_REVIEW")
Resubmit(c) ==
  \E v \in Asked :
    /\ asks[v].status = "AWAITING_SUBJECT_CORRECTIONS" /\ asks[v].open
    /\ Engage(c, "resubmitted", v, "PENDING_ADMIN_RE_REVIEW")
SubmitInformation(c) ==
  \E v \in Asked :
    /\ asks[v].status = "AWAITING_INFORMATION" /\ ~asks[v].replied
    /\ Engage(c, "informed", v, "IN_PROGRESS")
Released(s) == IF studies[s].there /\ studies[s].status \in {"pending", "submitted"}
               THEN "draft" ELSE studies[s].status
\* Locks the request and the record.
Withdraw(c) ==
  \E v \in Asked :
    LET s == asks[v].study IN
    /\ asks[v].status \in Workflow!CandidateWithdrawable
    /\ ~asks[v].approved /\ ~asks[v].outreach
    /\ asks' = [asks EXCEPT ![v].status = "WITHDRAWN_BY_CANDIDATE"]
    /\ studies' = [studies EXCEPT ![s].status = Released(s)]
    /\ AtOnce(c, s)
    /\ UNCHANGED <<links, heard>>

(* ---- the administrators: VerificationRequestAdminReviewService ---- *)
RequestCorrections(c) ==
  \E v \in Asked :
    /\ asks[v].status \in Workflow!AdminReviewable
    /\ Engage(c, "corrected", v, "AWAITING_SUBJECT_CORRECTIONS")
ReviewContact(c) ==
  \E v \in Asked, r \in {"approved", "changes"} :
    asks[v].status \in Workflow!AdminReviewable /\ Engage(c, "contact", v, r)
Approve(c) ==
  \E v \in Asked :
    /\ asks[v].status \in Workflow!PreDispatch
    /\ asks[v].snapshot > 0 /\ asks[v].contact = "approved"
    /\ Engage(c, "approved", v, "APPROVED_FOR_ORGANIZATION_VERIFICATION")
\* Before dispatch, and from the quality review: the outcome, on the record as well.
Close(c) ==
  \E v \in Asked, o \in {"VERIFIED", "REJECTED", "UNABLE_TO_VERIFY"} :
    /\ o = "VERIFIED" => asks[v].status = "PENDING_ADMIN_QUALITY_REVIEW"
    /\ o \in Workflow!ValidTransitions[asks[v].status]
    /\ asks[v].status \in Workflow!AdminReviewable
    /\ Engage(c, "closed", v, o)
ReturnToVerifier(c) ==
  \E v \in Asked :
    asks[v].status = "PENDING_ADMIN_QUALITY_REVIEW" /\ Engage(c, "moved", v, "IN_PROGRESS")
AdminCancel(c) ==
  \E v \in Asked :
    "CANCELLED" \in Workflow!ValidTransitions[asks[v].status] /\ Engage(c, "moved", v, "CANCELLED")
RecordClarification(c) ==
  \E v \in Asked : asks[v].status = "AWAITING_INFORMATION" /\ Engage(c, "informed", v, "IN_PROGRESS")

(* ---- the institution: its workspace ---- *)
Manageable(v) == asks[v].org /\ asks[v].status \in Workflow!OrganizationVisible
InstitutionActs(c) ==
  \E v \in Asked : \E m \in {"IN_PROGRESS", "AWAITING_INFORMATION", "CANCELLED"} :
    /\ Manageable(v)
    /\ m = "IN_PROGRESS" => asks[v].status # m
    /\ m = "AWAITING_INFORMATION" => asks[v].status # m
    /\ Engage(c, "moved", v, m)
InstitutionAnswers(c) ==
  \E v \in Asked : Manageable(v) /\ Engage(c, "answered", v, "PENDING_ADMIN_QUALITY_REVIEW")

(* ---- what these calls commit: the columns they changed ---- *)
Plain == {"attach", "contact", "submitted", "resubmitted", "informed", "corrected", "moved", "answered"}
Written(row, k) ==
  CASE k.pc = "attach" -> [row EXCEPT !.evidence = TRUE]
    [] k.pc = "contact" -> [row EXCEPT !.contact = k.arg]
    [] k.pc = "submitted" -> [row EXCEPT !.status = k.arg, !.snapshot = studies[k.case].version]
    [] k.pc = "resubmitted" -> [row EXCEPT !.status = k.arg, !.open = FALSE]
    [] k.pc = "corrected" -> [row EXCEPT !.status = k.arg, !.open = TRUE]
    [] k.pc = "informed" -> [row EXCEPT !.status = k.arg, !.replied = TRUE]
    [] OTHER -> [row EXCEPT !.status = k.arg]
CommitRequest(c) ==
  LET k == call[c] IN
  /\ k.pc \in Plain
  /\ k.pc = "submitted" => studies[k.case].there
  /\ asks' = [asks EXCEPT ![k.on] = Written(@, k)]
  /\ heard' = heard \cup {v \in {k.on} : k.pc = "answered"}
  /\ Commit(c)
  /\ UNCHANGED <<studies, links>>

\* Mutant: only the status tells that a link went out.
SentIfWaiting(r) == r.outreach /\ r.status = "PENDING_ORGANIZATION_RESOLUTION"
Sent(r) == r.outreach
Issued(v) == [NoLink EXCEPT !.token = links[v].token + 1]
\* r: the request as the call has it; the sender of the link commits before it raises.
Dispatch(v, r, row) ==
  \/ /\ Sent(r)
     /\ asks' = [asks EXCEPT ![v] = [row EXCEPT !.status = "PENDING_ORGANIZATION_ACCEPTANCE"]]
     /\ UNCHANGED links
  \/ /\ ~Sent(r) /\ r.org
     /\ studies[r.study].there /\ links[v].token < MaxTokens
     /\ links' = [links EXCEPT ![v] = Issued(v)]
     /\ \E s \in {"PENDING_ORGANIZATION_ACCEPTANCE", r.status} :
          asks' = [asks EXCEPT ![v] = [row EXCEPT !.outreach = TRUE, !.status = s]]
CommitApproval(c) ==
  LET k == call[c] IN
  /\ k.pc = "approved"
  /\ LET row == [asks[k.on] EXCEPT !.approved = TRUE] IN
     \/ Dispatch(k.on, [k.view EXCEPT !.status = k.arg], row)
     \/ /\ ~Sent(k.view) /\ ~k.view.org
        /\ asks' = [asks EXCEPT ![k.on] = [row EXCEPT !.status = "PENDING_ORGANIZATION_RESOLUTION"]]
        /\ UNCHANGED links
  /\ Commit(c)
  /\ UNCHANGED <<studies, heard>>
\* Locks the request: an institution is attached, and the approved request sent on.
ResolveOrganization(c) ==
  \E v \in Asked :
    LET row == [asks[v] EXCEPT !.org = TRUE] IN
    /\ \/ /\ asks[v].status \in Workflow!PostApproval
          /\ Dispatch(v, row, row)
       \/ /\ asks[v].status \in Workflow!PreDispatch /\ ~asks[v].org
          /\ asks' = [asks EXCEPT ![v] = row]
          /\ UNCHANGED links
    /\ AtOnce(c, asks[v].study)
    /\ UNCHANGED <<studies, heard>>

Outcomes == [VERIFIED |-> "verified", REJECTED |-> "rejected", UNABLE_TO_VERIFY |-> "unable_to_verify"]
CommitClosing(c) ==
  LET k == call[c] IN
  /\ k.pc = "closed" /\ studies[k.case].there
  /\ asks' = [asks EXCEPT ![k.on].status = k.arg]
  /\ studies' = [studies EXCEPT ![k.case].status = Outcomes[k.arg]]
  /\ Commit(c)
  /\ UNCHANGED <<links, heard>>

(* ---- the institution: its link, PublicInstitutionVerificationService ---- *)
Open(v) == links[v].token > 0 /\ ~links[v].lapsed
ViewLink ==
  \E v \in Asked :
    /\ Open(v) /\ links[v].answer = "none" /\ ~links[v].viewed
    /\ asks[v].status \notin Workflow!Terminal \cup {"PENDING_ADMIN_QUALITY_REVIEW", "AWAITING_INFORMATION"}
    /\ links' = [links EXCEPT ![v].viewed = TRUE]
    /\ UNCHANGED <<studies, asks, heard, muddled, call>>
LinkLapses ==
  \E v \in Asked :
    /\ Open(v)
    /\ links' = [links EXCEPT ![v].lapsed = TRUE]
    /\ UNCHANGED <<studies, asks, heard, muddled, call>>
Unanswered(v) == Open(v) /\ links[v].answer = "none"
Respond(c) ==
  \E v \in Asked, a \in Answers :
    /\ Unanswered(v)
    /\ asks[v].status \in {"PENDING_ORGANIZATION_ACCEPTANCE", "IN_PROGRESS", "AWAITING_INFORMATION"}
    /\ Engage(c, "respond", v, a)
\* Mutant: a question of the institution goes to the quality review like an answer.
AlwaysReviewed(a) == "PENDING_ADMIN_QUALITY_REVIEW"
AfterAnswer(a) == IF a = "clarification" THEN "AWAITING_INFORMATION" ELSE "PENDING_ADMIN_QUALITY_REVIEW"
CommitResponse(c) ==
  LET k == call[c] IN
  /\ k.pc = "respond"
  /\ links' = [links EXCEPT ![k.on].answer = k.arg]
  /\ asks' = [asks EXCEPT ![k.on].status = AfterAnswer(k.arg)]
  /\ heard' = heard \cup {v \in {k.on} : k.arg # "clarification"}
  /\ Commit(c)
  /\ UNCHANGED studies

StudyNext ==
  /\ \/ \E c \in Calls :
          \/ Turn(c) /\ Cardinality(Flying) < AtATime
             /\ (\/ AddStudy(c) \/ EditStudy(c) \/ SubmitStudy(c) \/ DeleteStudy(c)
                 \/ Transcript(c) \/ Apply(c) \/ Attach(c) \/ UpdateContact(c)
                 \/ SubmitForReview(c) \/ Resubmit(c) \/ SubmitInformation(c) \/ Withdraw(c)
                 \/ RequestCorrections(c) \/ ReviewContact(c) \/ Approve(c) \/ Close(c)
                 \/ ReturnToVerifier(c) \/ AdminCancel(c) \/ RecordClarification(c)
                 \/ ResolveOrganization(c) \/ InstitutionActs(c) \/ InstitutionAnswers(c)
                 \/ Respond(c))
          \/ CommitEdit(c) \/ CommitSubmit(c) \/ CommitRequest(c) \/ CommitApproval(c)
          \/ CommitClosing(c) \/ CommitResponse(c)
     \/ ViewLink \/ LinkLapses
  /\ UNCHANGED <<cases, files, ghosts>>

\* An education record shows as verified exactly while the newest request about it is VERIFIED (verification_request_admin_review_service.py:1112-1145), through edits, cancellations and new applications; a withdrawal gives the record back (verification_request_service.py:1541-1566), and one request about it is under way at most. Two calls on the record at once may undo it.
StudyFollows ==
  \A s \in Records \ muddled :
    /\ studies[s].status = "verified" <=>
         RequestsOf(s) # {} /\ asks[Newest(s)].status = "VERIFIED"
    /\ studies[s].status = "pending" =>
         RequestsOf(s) # {} /\ asks[Newest(s)].status # "WITHDRAWN_BY_CANDIDATE"
    /\ Cardinality(Unsettled(s)) <= 1

\* Whatever calls overlap, a request is VERIFIED only with the candidate's consent, an administrator's approval, an institution, a link issued, and an answer of the institution by link or workspace (public_institution_verification_service.py:252-378).
VerifiedOnAnswer ==
  \A v \in Asked : asks[v].status = "VERIFIED" =>
    /\ v \in heard
    /\ asks[v].snapshot > 0 /\ asks[v].approved /\ asks[v].org /\ links[v].token > 0

\* The link of a request is issued once and its answer stands, through returns, corrections and approvals anew (public_institution_verification_service.py:271-280, verification_request_admin_review_service.py:1455-1466), unless two calls on the record overlapped.
AnswerStands ==
  [][\A v \in Asked : asks[v].study \notin muddled' =>
       /\ links[v].token > 0 => links'[v].token = links[v].token
       /\ links[v].answer # "none" => links'[v].answer = links[v].answer]_<<asks, links, muddled>>
================================================================================
