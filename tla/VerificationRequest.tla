------------------------- MODULE VerificationRequest -------------------------
(***************************************************************************)
(* One verification request and the rows around it, driven by concurrent   *)
(* HTTP requests.  Each HTTP request runs in a database session of its own *)
(* (app/db/session.py): it LOADS the rows it is about, decides on what it  *)
(* read, and COMMITS.  Reads take no lock except where the code says       *)
(* FOR UPDATE, and an UPDATE writes only the columns the handler changed,  *)
(* with no check that the row is still as it was read (READ COMMITTED, no  *)
(* version column).  So a handler is two steps here, Load and a commit,    *)
(* and between them other sessions may commit.                             *)
(*                                                                         *)
(* The rows a handler starts from are those it loads first: the request,   *)
(* the claim, the outreach row and the latest review.  What it reads later *)
(* (contact, corrections, evidence, the claim of a finalisation) is read   *)
(* in the commit step.                                                     *)
(***************************************************************************)
EXTENDS VerificationWorkflow

CONSTANTS Kinds,           \* what requests are about: an employment, or no claim
          Sessions,        \* database sessions that may be open at once
          NoSession,       \* holder of a lock nobody holds
          Reads,           \* what the handlers of a behaviour load
          Deliveries,      \* whether the provider takes an invitation: TRUE, FALSE
          MaxRounds,       \* review rounds a behaviour may open
          MaxCorrections,  \* correction requests a behaviour may make
          MaxTokens,       \* outreach tokens a behaviour may issue
          MaxEdits         \* versions of the claim's content

\* What a handler loads beside the request: the review it decides on, the employment
\* it edits, or the outreach row.
Parts == {"review", "claim", "link"}

ASSUME KindsAssumption == Kinds \subseteq {"employment", "unlinked"}
ASSUME DeliveriesAssumption == Deliveries \subseteq BOOLEAN
ASSUME ReadsAssumption == Reads \subseteq Parts
ASSUME SessionsAssumption == NoSession \notin Sessions
ASSUME BoundsAssumption == /\ MaxRounds \in Nat /\ MaxCorrections \in Nat
                           /\ MaxTokens \in Nat /\ MaxEdits \in Nat

VARIABLES
  req,       \* the verification_requests row
  review,    \* the latest verification_request_reviews row
  corr,      \* corrections made so far, and how many of them are open
  contact,   \* review_status of the current verification contact
  evidence,  \* whether an evidence item is attached
  claim,     \* the employments row the request is about
  evr,       \* the employer_verification_requests row (the outreach link)
  sess,      \* per session: idle, or the rows it loaded and the lock it took
  reqLock,   \* holder of the row lock on the request
  evrLock    \* holder of the row lock on the outreach row

children == <<review, corr, contact, evidence>>
vars == <<req, review, corr, contact, evidence, claim, evr, sess, reqLock,
          evrLock>>
-----------------------------------------------------------------------------
Orgs == {"none", "existing", "created"}  \* the attached organization; created: by an admin
ClaimStatus == {"DRAFT", "SUBMITTED", "CANCELLED", "VERIFIED", "REJECTED",
                "UNABLE_TO_VERIFY"}
ContactStatus == {"none", "PENDING", "APPROVED", "CHANGES_REQUESTED"}
ReviewStatus == {"PENDING", "ASSIGNED", "IN_REVIEW", "CORRECTIONS_REQUESTED",
                 "APPROVED", "REJECTED"}
Responses == {"PENDING", "CONFIRMED", "DECLINED", "ON_HOLD"}
Outcomes == {"VERIFIED", "REJECTED", "UNABLE_TO_VERIFY"}

RequestRow == [status : Status, kind : Kinds, org : Orgs,
               consented : BOOLEAN,   \* consented_at
               snapshot : Nat,        \* claim version in claim_snapshot; 0: none
               approved : BOOLEAN,    \* approved_for_organization_verification_at
               outreach : BOOLEAN,    \* organization_outreach_sent_at
               answered : BOOLEAN,    \* candidate_response_submitted_at
               withdrawn : BOOLEAN]   \* withdrawn_at
ReviewRow == [round : Nat, st : ReviewStatus]     \* round 0: there is none
ClaimRow == [st : ClaimStatus, version : Nat, deleted : BOOLEAN,
             byEmployer : BOOLEAN]    \* verification_method = employer_confirmation
OutreachRow == [token : Nat,          \* which token the link carries; 0: no row
                resp : Responses, revoked : BOOLEAN,
                mailed : BOOLEAN]     \* the provider accepted the e-mail with it

NewRequest(kind, org) ==
  [status |-> "PENDING_SUBJECT_SUBMISSION", kind |-> kind, org |-> org,
   consented |-> FALSE, snapshot |-> 0, approved |-> FALSE, outreach |-> FALSE,
   answered |-> FALSE, withdrawn |-> FALSE]
NoReview == [round |-> 0, st |-> "PENDING"]
NoLink == [token |-> 0, resp |-> "PENDING", revoked |-> FALSE, mailed |-> FALSE]
FirstDraft == [st |-> "DRAFT", version |-> 1, deleted |-> FALSE, byEmployer |-> FALSE]

\* Of the request, a handler that loads the claim or the link uses only the status.
\* What it does not use is left blank.
Idle == [lock |-> "idle"]
Held == {"none", "request", "link"}
Halves == {"resolving", "creating"}   \* the lock was given back half-way: see below
Loaded == [lock : Held \cup Halves, part : Parts, req : RequestRow,
           review : ReviewRow, claim : ClaimRow, evr : OutreachRow]

Snapshot(l, part) ==
  [lock |-> l, part |-> part,
   req |-> IF part = "review" THEN req
           ELSE [NewRequest(req.kind, "none") EXCEPT !.status = req.status],
   review |-> IF part = "review" THEN review ELSE NoReview,
   claim |-> IF part = "claim" THEN claim ELSE FirstDraft,
   evr |-> IF part = "link" THEN evr ELSE NoLink]
-----------------------------------------------------------------------------
\* A linked request is the candidate's draft.  An unlinked one (identity, licence,
\* ...) is created by an organization, or by the subject with or without one; it
\* awaits the subject's acceptance unless an accepted invitation precedes it.
Init ==
  /\ \E kind \in Kinds, org \in {"none", "existing"}, has \in BOOLEAN,
        status \in {"PENDING_SUBJECT_ACCEPTANCE", "PENDING_SUBJECT_SUBMISSION"} :
       /\ kind = "employment" => org = "none"
       /\ org = "none" => status = "PENDING_SUBJECT_SUBMISSION"
       /\ req = [NewRequest(kind, org) EXCEPT !.status = status]
       /\ contact = IF kind = "employment" THEN "PENDING" ELSE "none"
       /\ evidence = (kind = "employment" /\ has)
  /\ review = NoReview
  /\ corr = [made |-> 0, open |-> 0]
  /\ claim = FirstDraft
  /\ evr = NoLink
  /\ sess = [s \in Sessions |-> Idle]
  /\ reqLock = NoSession /\ evrLock = NoSession
-----------------------------------------------------------------------------
(* Sessions.                                                               *)

\* An unlocked read: get_by_public_id, get_owned_active, ...  What it does not find is
\* answered with 404.
Load(s, part) ==
  /\ sess[s] = Idle
  /\ part = "claim" => req.kind = "employment" /\ ~claim.deleted
  /\ part = "link" => evr.token > 0
  /\ sess' = [sess EXCEPT ![s] = Snapshot("none", part)]
  /\ UNCHANGED <<req, children, claim, evr, reqLock, evrLock>>

LoadWithoutForUpdate(s) ==
  /\ sess[s] = Idle
  /\ sess' = [sess EXCEPT ![s] = Snapshot("request", "review")]
  /\ UNCHANGED <<req, children, claim, evr, reqLock, evrLock>>

\* get_by_public_id_for_update: waits for the row, then reads it as committed.
LoadForUpdate(s) ==
  /\ sess[s] = Idle
  /\ reqLock = NoSession
  /\ reqLock' = s
  /\ sess' = [sess EXCEPT ![s] = Snapshot("request", "review")]
  /\ UNCHANGED <<req, children, claim, evr, evrLock>>

\* get_by_token_hash_for_update, then an unlocked read of the request.
LoadPortalToken(s) ==
  /\ sess[s] = Idle
  /\ evr.token > 0
  /\ evrLock = NoSession
  /\ evrLock' = s
  /\ sess' = [sess EXCEPT ![s] = Snapshot("link", "link")]
  /\ UNCHANGED <<req, children, claim, evr, reqLock>>

\* The HTML form (respond_with_action) reads the link first without the lock, and the
\* locking read then returns the object the session holds as it was: only the request
\* is read anew.  A link that carries another token by now is not found.
LockFormToken(s) ==
  /\ sess[s] # Idle
  /\ sess[s].lock = "none" /\ sess[s].part = "link"
  /\ sess[s].evr.token = evr.token
  /\ evrLock = NoSession
  /\ evrLock' = s
  /\ sess' = [sess EXCEPT ![s] = [Snapshot("link", "link") EXCEPT !.evr = sess[s].evr]]
  /\ UNCHANGED <<req, children, claim, evr, reqLock>>

\* The end of a session: its locks go, with what it wrote or without (rollback).
Close(s) ==
  /\ sess' = [sess EXCEPT ![s] = Idle]
  /\ reqLock' = IF reqLock = s THEN NoSession ELSE reqLock
  /\ evrLock' = IF evrLock = s THEN NoSession ELSE evrLock

\* A handler that raised, or a process that died: nothing it did is committed.
Rollback(s) ==
  /\ sess[s] # Idle
  /\ Close(s)
  /\ UNCHANGED <<req, children, claim, evr>>

\* A handler that loaded its rows under lock l can write: writing the request,
\* or an event that references it, waits for another session's row lock.
Serving(s, l, part) ==
  /\ sess[s] # Idle
  /\ sess[s].lock = l /\ sess[s].part = part
  /\ reqLock \in {NoSession, s}

EvrFree(s) == evrLock \in {NoSession, s}
-----------------------------------------------------------------------------
(* The review row a decision is recorded on: _get_or_create_review.  It is *)
(* read with the request or as late as the commit; two sessions opening    *)
(* the same round collide on its unique constraint and one of them fails.  *)

StartsRoundOnceDecided(status, rv) ==
  rv.round = 0 \/ rv.st \in {"APPROVED", "REJECTED"}

StartsRound(status, rv) ==
  \/ rv.round = 0
  \/ status = "PENDING_ADMIN_RE_REVIEW" /\ rv.st = "CORRECTIONS_REQUESTED"
  \/ rv.st \in {"APPROVED", "REJECTED"}

\* The review when a session that read rv moves it along becomes, a function on
\* review statuses.  Only a changed column is written, on the round that was read.
RecordReview(status, rv, becomes) ==
  IF StartsRound(status, rv)
  THEN /\ review.round = rv.round
       /\ rv.round < MaxRounds
       /\ review' = [round |-> rv.round + 1, st |-> becomes["PENDING"]]
  ELSE review' = IF review.round = rv.round /\ becomes[rv.st] # rv.st
                 THEN [review EXCEPT !.st = becomes[rv.st]]
                 ELSE review

Review(s, becomes) ==
  \E rv \in {sess[s].review, review} : RecordReview(sess[s].req.status, rv, becomes)

Always(st) == [x \in ReviewStatus |-> st]
Noted == [x \in ReviewStatus |-> IF x \in {"PENDING", "ASSIGNED"} THEN "IN_REVIEW" ELSE x]
-----------------------------------------------------------------------------
(* The candidate.                                                          *)

Accept(s) ==
  LET r == sess[s].req IN
  /\ Serving(s, "none", "review")
  /\ r.status = "PENDING_SUBJECT_ACCEPTANCE"
  /\ req' = [req EXCEPT !.status = "ACCEPTED"]
  /\ Close(s)
  /\ UNCHANGED <<children, claim, evr>>

UpdateVerificationContact(s) ==
  /\ Serving(s, "none", "review")
  /\ sess[s].req.status \in SubjectEditable
  /\ contact' = "PENDING"
  /\ Close(s)
  /\ UNCHANGED <<req, review, corr, evidence, claim, evr>>

AddEvidence(s) ==
  /\ Serving(s, "none", "review")
  /\ sess[s].req.status \in SubjectEditable
  /\ sess[s].req.kind = "employment" => ~claim.deleted
  /\ evidence' = TRUE
  /\ Close(s)
  /\ UNCHANGED <<req, review, corr, contact, claim, evr>>

SubmitForReview(s) ==
  LET r == sess[s].req IN
  /\ Serving(s, "none", "review")
  /\ r.status \in {"ACCEPTED", "PENDING_SUBJECT_SUBMISSION"}
  /\ evidence
  /\ r.kind = "employment" => contact # "none" /\ ~claim.deleted
  /\ req' = [req EXCEPT !.status = "PENDING_ADMIN_REVIEW", !.consented = TRUE,
                        !.snapshot = IF r.kind = "employment"
                                     THEN claim.version ELSE @]
  /\ Close(s)
  /\ UNCHANGED <<children, claim, evr>>

ResolveOne(c) == [c EXCEPT !.open = @ - 1]
ResolveAll(c) == [c EXCEPT !.open = 0]

Resubmit(s) ==
  /\ Serving(s, "none", "review")
  /\ sess[s].req.status = "AWAITING_SUBJECT_CORRECTIONS"
  /\ corr.open > 0
  /\ corr' = ResolveAll(corr)
  /\ req' = [req EXCEPT !.status = "PENDING_ADMIN_RE_REVIEW"]
  /\ Close(s)
  /\ UNCHANGED <<review, contact, evidence, claim, evr>>

WithdrawableInStatus(r) == r.status \in CandidateWithdrawable
Withdrawable(r) ==
  r.status \in CandidateWithdrawable /\ ~r.approved /\ ~r.outreach

WithdrawByCandidate(s) ==
  LET r == sess[s].req IN
  /\ Serving(s, "request", "review")
  /\ Withdrawable(r)
  /\ r.kind = "employment" /\ r.snapshot = 0 => ~claim.deleted
  /\ req' = [req EXCEPT !.status = "WITHDRAWN_BY_CANDIDATE", !.withdrawn = TRUE,
                        !.snapshot = IF r.kind = "employment" /\ r.snapshot = 0
                                     THEN claim.version ELSE @]
  /\ claim' = IF r.kind = "employment" /\ ~claim.deleted /\ claim.st = "SUBMITTED"
              THEN [claim EXCEPT !.st = "DRAFT"] ELSE claim
  /\ Close(s)
  /\ UNCHANGED <<children, evr>>

SubmitInformation(s) ==
  LET r == sess[s].req IN
  /\ Serving(s, "none", "review")
  /\ r.status = "AWAITING_INFORMATION"
  /\ ~r.answered
  /\ req' = [req EXCEPT !.status = "IN_PROGRESS", !.answered = TRUE]
  /\ Close(s)
  /\ UNCHANGED <<children, claim, evr>>
-----------------------------------------------------------------------------
(* Dispatch to the organization: _advance_to_organization_stage.  r is the *)
(* session's own view of the request and row the columns it has written;   *)
(* mailed says whether the provider takes the invitation.  A provider that *)
(* refuses makes the e-mail sender commit the session before it raises, so *)
(* everything but the last transition stays.                               *)

SentOnlyWhileWaiting(r) == r.outreach /\ r.status = "PENDING_ORGANIZATION_RESOLUTION"
AlreadySent(r) == r.outreach

Advance(s, r, row, mailed) ==
  \/ /\ AlreadySent(r)
     /\ Walks(<<r.status, "PENDING_ORGANIZATION_ACCEPTANCE">>)
     /\ req' = [row EXCEPT !.status = "PENDING_ORGANIZATION_ACCEPTANCE"]
     /\ UNCHANGED <<claim, evr>>
  \/ /\ ~AlreadySent(r) /\ r.org = "none"
     /\ Walks(<<r.status, "PENDING_ORGANIZATION_RESOLUTION">>)
     /\ req' = [row EXCEPT !.status = "PENDING_ORGANIZATION_RESOLUTION"]
     /\ UNCHANGED <<claim, evr>>
  \/ /\ ~AlreadySent(r) /\ r.org # "none" /\ r.kind = "unlinked"
     /\ Walks(<<r.status, "PENDING_ORGANIZATION_ACCEPTANCE">>)
     /\ req' = [row EXCEPT !.status = "PENDING_ORGANIZATION_ACCEPTANCE",
                           !.outreach = TRUE]
     /\ UNCHANGED <<claim, evr>>
  \/ /\ ~AlreadySent(r) /\ r.org # "none" /\ r.kind = "employment"
     /\ contact = "APPROVED"
     /\ r.approved /\ r.status \in PostApproval        \* initiate_admin_outreach
     /\ ~claim.deleted /\ claim.st = "DRAFT"           \* request_verification
     /\ EvrFree(s)
     /\ evr.token < MaxTokens
     /\ Walks(<<r.status, "PENDING_ORGANIZATION_ACCEPTANCE">>)
     /\ evr' = [token |-> evr.token + 1, resp |-> "PENDING", revoked |-> FALSE,
                mailed |-> mailed]
     /\ claim' = [claim EXCEPT !.byEmployer = TRUE]
     /\ req' = [row EXCEPT !.outreach = TRUE,
                           !.status = IF mailed
                                      THEN "PENDING_ORGANIZATION_ACCEPTANCE"
                                      ELSE r.status]
-----------------------------------------------------------------------------
(* Platform administrators.                                                *)

Assign(s) ==
  /\ Serving(s, "none", "review")
  /\ sess[s].req.status \in AdminReviewable
  /\ Review(s, Always("ASSIGNED"))
  /\ Close(s)
  /\ UNCHANGED <<req, corr, contact, evidence, claim, evr>>

AddNote(s) ==
  /\ Serving(s, "none", "review")
  /\ Review(s, Noted)
  /\ Close(s)
  /\ UNCHANGED <<req, corr, contact, evidence, claim, evr>>

AskedPossiblyNone == 0..MaxCorrections
Asked == 1..MaxCorrections   \* AdminReviewCorrectionRequest.corrections: at least one

\* n corrections are asked for; onContact: one of them is about the contact.
RequestCorrections(s, n, onContact) ==
  LET r == sess[s].req IN
  /\ Serving(s, "none", "review")
  /\ r.status \in AdminReviewable
  /\ corr.made + n <= MaxCorrections
  /\ Review(s, Always("CORRECTIONS_REQUESTED"))
  /\ corr' = [corr EXCEPT !.made = @ + n, !.open = @ + n]
  /\ contact' = IF onContact /\ contact # "none" THEN "CHANGES_REQUESTED" ELSE contact
  /\ req' = [req EXCEPT !.status = "AWAITING_SUBJECT_CORRECTIONS"]
  /\ Close(s)
  /\ UNCHANGED <<evidence, claim, evr>>

ReviewContact(s, decision) ==
  /\ Serving(s, "none", "review")
  /\ sess[s].req.status \in AdminReviewable
  /\ contact # "none"
  /\ contact' = decision
  /\ Close(s)
  /\ UNCHANGED <<req, review, corr, evidence, claim, evr>>

Approve(s, mailed) ==
  LET r == sess[s].req IN
  /\ Serving(s, "none", "review")
  /\ r.status \in PreDispatch
  /\ r.consented
  /\ contact = "APPROVED" \/ (contact = "none" /\ r.kind = "unlinked")
  /\ Walks(<<r.status, "APPROVED_FOR_ORGANIZATION_VERIFICATION">>)
  /\ Review(s, Always("APPROVED"))
  /\ Advance(s, [r EXCEPT !.approved = TRUE,
                          !.status = "APPROVED_FOR_ORGANIZATION_VERIFICATION"],
                [req EXCEPT !.approved = TRUE], mailed)
  /\ Close(s)
  /\ UNCHANGED <<corr, contact, evidence>>

\* An organization with no registry record gets one first (sync_organization), and
\* create_record commits: the request's row lock goes before the organization is
\* attached.  The session goes on with the rows it holds.
MakeRegistryRecord(s, half) ==
  LET r == sess[s].req IN
  /\ Serving(s, "request", "review")
  /\ r.org = "none" /\ r.status \in PreDispatch \cup PostApproval
  /\ half = "creating" =>
       r.kind = "employment" /\ (r.status \in PostApproval => contact = "APPROVED")
  /\ sess' = [sess EXCEPT ![s].lock = half]
  /\ reqLock' = NoSession
  /\ UNCHANGED <<req, children, claim, evr, evrLock>>

\* resolve_organization: attach org, or continue with the one already attached.
ResolveOrganization(s, mailed) ==
  LET r == sess[s].req
      row == [req EXCEPT !.org = "existing"] IN
  /\ Serving(s, "request", "review") \/ Serving(s, "resolving", "review")
  /\ \/ /\ r.org # "none" /\ r.status \in PostApproval
        /\ Advance(s, r, req, mailed)
     \/ /\ r.org = "none" /\ r.status \in PostApproval
        /\ Advance(s, [r EXCEPT !.org = "existing"], row, mailed)
     \/ /\ r.org = "none" /\ r.status \in PreDispatch
        /\ req' = row
        /\ UNCHANGED <<claim, evr>>
  /\ Close(s)
  /\ UNCHANGED children

CreateCanonicalOrganization(s, mailed) ==
  LET r == sess[s].req
      row == [req EXCEPT !.org = "created"] IN
  /\ Serving(s, "request", "review") \/ Serving(s, "creating", "review")
  /\ \/ /\ r.org = "created" /\ r.status \in PostApproval
        /\ Advance(s, r, req, mailed)
     \/ /\ r.org = "none" /\ r.kind = "employment" /\ r.status \in PostApproval
        /\ contact = "APPROVED"
        /\ Advance(s, [r EXCEPT !.org = "created"], row, mailed)
     \/ /\ r.org = "none" /\ r.kind = "employment" /\ r.status \in PreDispatch
        /\ req' = row
        /\ UNCHANGED <<claim, evr>>
  /\ Close(s)
  /\ UNCHANGED children

\* _apply_canonical_outcome: the outcome on the linked, still existing claim.
ApplyCanonicalOutcome(r, outcome) ==
  IF r.kind = "employment"
  THEN ~claim.deleted /\ claim' = [claim EXCEPT !.st = outcome]
  ELSE UNCHANGED claim

\* reject and unable_to_verify before dispatch: _close_pre_dispatch_request.
ClosePreDispatch(s, outcome) ==
  LET r == sess[s].req IN
  /\ Serving(s, "none", "review")
  /\ r.status \in PreDispatch
  /\ Walks(<<r.status, outcome>>)
  /\ Review(s, Always("REJECTED"))
  /\ req' = [req EXCEPT !.status = outcome]
  /\ ApplyCanonicalOutcome(r, outcome)
  /\ Close(s)
  /\ UNCHANGED <<corr, contact, evidence, evr>>

ReviewDecisionVerbatim(outcome) == outcome
ReviewDecision(outcome) == IF outcome = "VERIFIED" THEN "APPROVED" ELSE "REJECTED"

\* finalize, and reject and unable_to_verify after dispatch: _finalize_request.
FinalizeRequest(s, outcome) ==
  LET r == sess[s].req IN
  /\ Serving(s, "none", "review")
  /\ r.status = "PENDING_ADMIN_QUALITY_REVIEW"
  /\ r.kind = "employment"
  /\ Review(s, Always(ReviewDecision(outcome)))
  /\ req' = [req EXCEPT !.status = outcome]
  /\ ApplyCanonicalOutcome(r, outcome)
  /\ Close(s)
  /\ UNCHANGED <<corr, contact, evidence, evr>>

ReturnToVerifier(s) ==
  /\ Serving(s, "none", "review")
  /\ sess[s].req.status = "PENDING_ADMIN_QUALITY_REVIEW"
  /\ req' = [req EXCEPT !.status = "IN_PROGRESS"]
  /\ Close(s)
  /\ UNCHANGED <<children, claim, evr>>

AdminCancel(s) ==
  LET r == sess[s].req IN
  /\ Serving(s, "none", "review")
  /\ Walks(<<r.status, "CANCELLED">>)
  /\ req' = [req EXCEPT !.status = "CANCELLED"]
  /\ Close(s)
  /\ UNCHANGED <<children, claim, evr>>

RecordClarificationResponse(s) ==
  /\ Serving(s, "none", "review")
  /\ sess[s].req.status = "AWAITING_INFORMATION"
  /\ req' = [req EXCEPT !.status = "IN_PROGRESS", !.answered = TRUE]
  /\ Close(s)
  /\ UNCHANGED <<children, claim, evr>>
-----------------------------------------------------------------------------
(* Members of the attached organization.                                   *)

\* _require_manageable_request
Manageable(s) ==
  /\ Serving(s, "none", "review")
  /\ sess[s].req.org # "none"
  /\ sess[s].req.status \in OrganizationVisible

OrganizationAccept(s) ==
  /\ Manageable(s)
  /\ sess[s].req.status = "PENDING_ORGANIZATION_ACCEPTANCE"
  /\ req' = [req EXCEPT !.status = "IN_PROGRESS"]
  /\ Close(s)
  /\ UNCHANGED <<children, claim, evr>>

RequestInformation(s) ==
  /\ Manageable(s)
  /\ sess[s].req.status \in {"PENDING_ORGANIZATION_ACCEPTANCE", "IN_PROGRESS"}
  /\ req' = [req EXCEPT !.status = "AWAITING_INFORMATION"]
  /\ Close(s)
  /\ UNCHANGED <<children, claim, evr>>

\* verify with a decisive connector result, reject and unable_to_verify.
OrganizationRespond(s) ==
  /\ Manageable(s)
  /\ req' = [req EXCEPT !.status = "PENDING_ADMIN_QUALITY_REVIEW"]
  /\ Close(s)
  /\ UNCHANGED <<children, claim, evr>>

\* verify whose connector fails or is undecided: the move to IN_PROGRESS is
\* committed and the request answers with an error.
VerifyWithoutResult(s) ==
  /\ Manageable(s)
  /\ req' = [req EXCEPT !.status = IF sess[s].req.status = "IN_PROGRESS"
                                   THEN @ ELSE "IN_PROGRESS"]
  /\ Close(s)
  /\ UNCHANGED <<children, claim, evr>>

OrganizationCancel(s) ==
  /\ Manageable(s)
  /\ req' = [req EXCEPT !.status = "CANCELLED"]
  /\ Close(s)
  /\ UNCHANGED <<children, claim, evr>>
-----------------------------------------------------------------------------
(* The employer's link.                                                    *)

NotRevoked(link) == ~link.revoked
Answerable(link) == ~link.revoked /\ link.resp = "PENDING"

RespondPortal(s, decision) ==
  /\ Serving(s, "link", "link")
  /\ Answerable(sess[s].evr)
  /\ sess[s].req.status = "PENDING_ORGANIZATION_ACCEPTANCE"
  /\ evr' = [evr EXCEPT !.resp = decision]
  /\ req' = [req EXCEPT !.status = IF decision = "ON_HOLD"
                                   THEN "AWAITING_INFORMATION"
                                   ELSE "PENDING_ADMIN_QUALITY_REVIEW"]
  /\ Close(s)
  /\ UNCHANGED <<children, claim>>

Revoke(s) ==
  LET link == sess[s].evr IN
  /\ sess[s] # Idle /\ sess[s].lock = "none" /\ sess[s].part = "link"
  /\ EvrFree(s)
  /\ link.resp = "PENDING" /\ ~link.revoked
  /\ evr' = [evr EXCEPT !.revoked = TRUE]
  /\ Close(s)
  /\ UNCHANGED <<req, children, claim>>
-----------------------------------------------------------------------------
(* The candidate's own employment routes (EmploymentService).              *)

UpdateEmployment(s) ==
  LET c == sess[s].claim
      recovering == c.st = "REJECTED" \/ sess[s].req.status = "REJECTED" IN
  /\ Serving(s, "none", "claim")
  /\ c.st \in {"DRAFT", "REJECTED"} \/ recovering
  /\ claim.version < MaxEdits
  /\ claim' = [claim EXCEPT !.version = @ + 1,
                            !.st = IF recovering /\ c.st # "DRAFT" THEN "DRAFT" ELSE @]
  /\ Close(s)
  /\ UNCHANGED <<req, children, evr>>

DeleteEmployment(s) ==
  LET c == sess[s].claim IN
  /\ sess[s] # Idle /\ sess[s].lock = "none" /\ sess[s].part = "claim"
  /\ c.st = "DRAFT"
  /\ claim' = [claim EXCEPT !.deleted = TRUE]
  /\ Close(s)
  /\ UNCHANGED <<req, children, evr>>

CancelEmployment(s) ==
  LET c == sess[s].claim IN
  /\ sess[s] # Idle /\ sess[s].lock = "none" /\ sess[s].part = "claim"
  /\ c.st \in {"DRAFT", "SUBMITTED"}
  /\ claim' = [claim EXCEPT !.st = "CANCELLED"]
  /\ Close(s)
  /\ UNCHANGED <<req, children, evr>>

\* Holds the employment's row lock from its read to its commit: one step.
SubmitEmployment(s) ==
  /\ sess[s] = Idle
  /\ req.kind = "employment"
  /\ ~claim.deleted /\ claim.st = "DRAFT" /\ ~claim.byEmployer
  /\ claim' = [claim EXCEPT !.st = "SUBMITTED"]
  /\ UNCHANGED <<req, children, evr, sess, reqLock, evrLock>>
-----------------------------------------------------------------------------
Candidate(s) ==
  \/ Accept(s) \/ UpdateVerificationContact(s) \/ AddEvidence(s)
  \/ SubmitForReview(s) \/ Resubmit(s) \/ WithdrawByCandidate(s)
  \/ SubmitInformation(s)
  \/ UpdateEmployment(s) \/ DeleteEmployment(s) \/ CancelEmployment(s)
  \/ SubmitEmployment(s)

Admin(s) ==
  \/ Assign(s) \/ AddNote(s)
  \/ \E n \in Asked, onContact \in BOOLEAN :
       RequestCorrections(s, n, onContact)
  \/ \E decision \in ContactStatus \ {"none"} : ReviewContact(s, decision)
  \/ \E mailed \in Deliveries :
       \/ Approve(s, mailed) \/ ResolveOrganization(s, mailed)
       \/ CreateCanonicalOrganization(s, mailed)
  \/ \E outcome \in {"REJECTED", "UNABLE_TO_VERIFY"} : ClosePreDispatch(s, outcome)
  \/ \E outcome \in Outcomes : FinalizeRequest(s, outcome)
  \/ ReturnToVerifier(s) \/ AdminCancel(s) \/ RecordClarificationResponse(s)
  \/ Revoke(s)

Verifier(s) ==
  \/ OrganizationAccept(s) \/ RequestInformation(s) \/ OrganizationRespond(s)
  \/ VerifyWithoutResult(s) \/ OrganizationCancel(s)
  \/ \E decision \in Responses \ {"PENDING"} : RespondPortal(s, decision)

Next ==
  \E s \in Sessions :
    \/ \E part \in Reads : Load(s, part)
    \/ LoadForUpdate(s) \/ LoadPortalToken(s) \/ LockFormToken(s) \/ Rollback(s)
    \/ \E half \in Halves : MakeRegistryRecord(s, half)
    \/ Candidate(s) \/ Admin(s) \/ Verifier(s)

Spec == Init /\ [][Next]_vars
-----------------------------------------------------------------------------
(* Properties.                                                             *)

PostDispatch == {"PENDING_ORGANIZATION_ACCEPTANCE", "IN_PROGRESS", "AWAITING_INFORMATION",
                 "PENDING_ADMIN_QUALITY_REVIEW", "VERIFIED"}

\* The rows and the loaded copies of them hold values their columns admit.
TypeOK ==
  /\ req \in RequestRow
  /\ review \in ReviewRow
  /\ corr \in [made : Nat, open : Nat]
  /\ contact \in ContactStatus
  /\ evidence \in BOOLEAN
  /\ claim \in ClaimRow
  /\ evr \in OutreachRow
  /\ sess \in [Sessions -> Loaded \cup {Idle}]
  /\ reqLock \in Sessions \cup {NoSession}
  /\ evrLock \in Sessions \cup {NoSession}

\* Whatever requests interleave, a request that an organization can act on, or that
\* was acted on, or whose claim is VERIFIED, has the candidate's consent, an admin's
\* approval, an organization, and for an employment an issued employer link.
OrganizationStageApproved ==
  (req.status \in PostDispatch \/ claim.st = "VERIFIED") =>
    /\ req.consented /\ req.approved /\ req.outreach
    /\ req.org # "none"
    /\ req.kind = "employment" => evr.token > 0

\* A candidate withdraws under a row lock: while a request is WITHDRAWN it was never
\* approved for, or sent to, an organization, however approvals race with it; and
\* WITHDRAWN is final for every handler that sees it.  It is not final for the row: a
\* handler that read the request without the lock before the withdrawal overwrites it
\* (see WithdrawalIsFinal), and nothing else does.
WithdrawalDecided ==
  req.status = "WITHDRAWN_BY_CANDIDATE" =>
    req.withdrawn /\ ~req.approved /\ ~req.outreach

LeftUnseen ==
  req.status = "WITHDRAWN_BY_CANDIDATE" /\ req'.status # req.status =>
    \E s \in Sessions : /\ sess[s] # Idle /\ sess'[s] = Idle
                        /\ sess[s].req.status # "WITHDRAWN_BY_CANDIDATE"

WithdrawnStays == [][WithdrawalDecided' /\ LeftUnseen]_vars

\* The table of transitions leads nowhere from WITHDRAWN_BY_CANDIDATE, and its test
\* asserts so: what the candidate has withdrawn stays withdrawn.  Refuted: approve
\* reads the request without its lock, and a withdrawal that commits before the
\* approval does is overwritten.
WithdrawalIsFinal == req.withdrawn => req.status = "WITHDRAWN_BY_CANDIDATE"

\* The "one-time verifier response" of a link is given once, and not on a revoked
\* link: only a new link, with a new token, starts over.  It holds for one request at
\* a time, in any review round.  Refuted with two sessions: the form decides on the
\* link as it read it before it took the lock.
ResponseGivenOnce ==
  [][evr.resp # "PENDING" \/ evr.revoked =>
       evr'.resp = evr.resp \/ evr'.token > evr.token]_vars

\* A request that waits for the candidate's corrections has an open one, so it can be
\* resubmitted, however administrators and the candidate overlap.
AwaitedCorrectionIsOpen == req.status = "AWAITING_SUBJECT_CORRECTIONS" => corr.open > 0

\* One request at a time: corrections are open only while the request waits for
\* them, or was cancelled by an administrator while it did.
CorrectionsMatchStatus ==
  corr.open > 0 => req.status \in {"AWAITING_SUBJECT_CORRECTIONS", "CANCELLED"}

\* One request at a time: once outreach is recorded no other link is issued, through
\* any number of returns, corrections and re-approvals.
DispatchedOnce == [][req.outreach => evr'.token = evr.token]_vars

\* One request at a time: a review that decided, or asked for corrections, stays as
\* it is; what an administrator does next is recorded on a later round.
DecisionsAreKept ==
  [][review.st \in {"APPROVED", "REJECTED", "CORRECTIONS_REQUESTED"} /\ review.round > 0
       => review' = review \/ review'.round > review.round]_vars

\* One request at a time: the claim is VERIFIED exactly when its request is, in the
\* same commit, and stays so whatever the candidate does to the employment.
VerifiedTogether ==
  req.kind = "employment" => (req.status = "VERIFIED" <=> claim.st = "VERIFIED")

\* One request at a time: the corrections asked for and the claim keep step with the
\* status of the request.
ServedInOrder == CorrectionsMatchStatus /\ VerifiedTogether
-----------------------------------------------------------------------------
(* The abstract lifecycle a request goes through: see VerificationLifecycle. *)

PhaseOf(status) ==
  CASE status \in {"PENDING_SUBJECT_ACCEPTANCE", "ACCEPTED",
                       "PENDING_SUBJECT_SUBMISSION"} -> "candidate"
    [] status \in PreDispatch -> "review"
    [] status = "AWAITING_SUBJECT_CORRECTIONS" -> "corrections"
    [] status \in PostApproval -> "dispatch"
    [] status \in OrganizationVisible -> "organization"
    [] status = "PENDING_ADMIN_QUALITY_REVIEW" -> "quality"
    [] OTHER -> "closed"

VerdictOf(status) ==
  CASE status = "VERIFIED" -> "verified"
    [] status = "REJECTED" -> "rejected"
    [] status = "UNABLE_TO_VERIFY" -> "unable_to_verify"
    [] status = "CANCELLED" -> "cancelled"
    [] status = "WITHDRAWN_BY_CANDIDATE" -> "withdrawn"
    [] OTHER -> "none"

Lifecycle == INSTANCE VerificationLifecycle
  WITH Verdicts <- {"verified", "rejected", "unable_to_verify"},
       phase <- PhaseOf(req.status), released <- req.approved, verdict <- VerdictOf(req.status)

\* Served one at a time, the requests of candidates, admins and verifiers carry a
\* verification through the abstract lifecycle and never outside it.
ImplementsLifecycle == Lifecycle!Spec
=============================================================================
