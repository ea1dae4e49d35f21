--------------------- MODULE VerificationRequestProofs ---------------------
(***************************************************************************)
(* Proofs about VerificationRequest for every set of sessions and every    *)
(* bound: what the serial and the two-session runs check on small ones.    *)
(***************************************************************************)
EXTENDS VerificationRequest, TLAPS

Acts(s) == Candidate(s) \/ Admin(s) \/ Verifier(s)

-----------------------------------------------------------------------------
(* Types.                                                                  *)

\* A snapshot of well-typed rows is well typed.
LEMMA SnapshotTyped ==
  ASSUME TypeOK, NEW l \in Held, NEW part \in Parts
  PROVE  Snapshot(l, part) \in Loaded
<1>1. NoReview \in ReviewRow
  BY DEF NoReview, ReviewRow, ReviewStatus
<1>2. FirstDraft \in ClaimRow
  BY DEF FirstDraft, ClaimRow, ClaimStatus
<1>3. NoLink \in OutreachRow
  BY DEF NoLink, OutreachRow, Responses
<1>4. [NewRequest(req.kind, "none") EXCEPT !.status = req.status] \in RequestRow
  BY DEF TypeOK, NewRequest, RequestRow, Orgs, Status
<1>. QED
  BY <1>1, <1>2, <1>3, <1>4 DEF Snapshot, Loaded, TypeOK, Held

\* Closing a session keeps the sessions and the locks well typed.
LEMMA CloseTyped ==
  ASSUME TypeOK, NEW s \in Sessions, Close(s)
  PROVE  /\ sess' \in [Sessions -> Loaded \cup {Idle}]
         /\ reqLock' \in Sessions \cup {NoSession}
         /\ evrLock' \in Sessions \cup {NoSession}
BY DEF TypeOK, Close

\* Recording a decision on a review keeps the review well typed.
LEMMA ReviewTyped ==
  ASSUME TypeOK, NEW s \in Sessions, sess[s] \in Loaded,
         NEW becomes \in [ReviewStatus -> ReviewStatus], Review(s, becomes)
  PROVE  review' \in ReviewRow
<1>1. PICK rv \in {sess[s].review, review} :
        RecordReview(sess[s].req.status, rv, becomes)
  BY DEF Review
<1>2. rv \in ReviewRow
  BY DEF TypeOK, Loaded
<1>. QED
  BY <1>1, <1>2 DEF RecordReview, ReviewRow, TypeOK, ReviewStatus

\* A session that is open holds a well-typed snapshot.
LEMMA OpenTyped ==
  ASSUME TypeOK, NEW s \in Sessions, sess[s] # Idle
  PROVE  sess[s] \in Loaded /\ sess[s].req \in RequestRow
BY DEF TypeOK, Loaded

\* The dispatch to the organization keeps the rows it writes well typed.
LEMMA AdvanceTyped ==
  ASSUME TypeOK, NEW s \in Sessions, NEW r \in RequestRow, NEW row \in RequestRow,
         NEW mailed \in BOOLEAN, Advance(s, r, row, mailed)
  PROVE  req' \in RequestRow /\ claim' \in ClaimRow /\ evr' \in OutreachRow
<1>1. claim \in ClaimRow /\ evr \in OutreachRow
  BY DEF TypeOK
<1>2. evr' \in OutreachRow
  <2>1. CASE evr' = evr
    BY <1>1, <2>1
  <2>2. CASE evr' = [token |-> evr.token + 1, resp |-> "PENDING", revoked |-> FALSE,
                     mailed |-> mailed]
    <3>1. evr.token + 1 \in Nat
      BY <1>1 DEF OutreachRow
    <3>. QED
      BY <2>2, <3>1 DEF OutreachRow, Responses
  <2>. QED
    BY <2>1, <2>2 DEF Advance
<1>3. claim' \in ClaimRow
  BY <1>1 DEF Advance, ClaimRow
<1>4. req' \in RequestRow
  <2>1. \E st \in Status : req' = [row EXCEPT !.status = st]
                          \/ req' = [row EXCEPT !.status = st, !.outreach = TRUE]
    <3>1. /\ "PENDING_ORGANIZATION_ACCEPTANCE" \in Status
          /\ "PENDING_ORGANIZATION_RESOLUTION" \in Status
          /\ r.status \in Status
      BY DEF Status, RequestRow
    <3>. QED
      BY <3>1 DEF Advance, RequestRow
  <2>. QED
    BY <2>1 DEF RequestRow
<1>. QED
  BY <1>2, <1>3, <1>4

\* No step leaves the types.
LEMMA TypeStep == TypeOK /\ [Next]_vars => TypeOK'
<1>. SUFFICES ASSUME TypeOK, [Next]_vars PROVE TypeOK'
  OBVIOUS
<1>. USE DEF children
<1>1. ASSUME NEW s \in Sessions,
             (\E part \in Reads : Load(s, part)) \/ LoadForUpdate(s) \/ LoadPortalToken(s)
      PROVE  TypeOK'
  BY <1>1, SnapshotTyped, ReadsAssumption DEF Load, LoadForUpdate, LoadPortalToken, TypeOK, Parts,
     Held
<1>form. ASSUME NEW s \in Sessions, LockFormToken(s) PROVE TypeOK'
  <2>1. Snapshot("link", "link") \in Loaded
    BY SnapshotTyped DEF Parts, Held
  <2>2. sess[s] \in Loaded
    BY <1>form DEF LockFormToken, TypeOK
  <2>3. [Snapshot("link", "link") EXCEPT !.evr = sess[s].evr] \in Loaded
    BY <2>1, <2>2 DEF Loaded
  <2>. QED
    BY <1>form, <2>3 DEF LockFormToken, TypeOK
<1>half. ASSUME NEW s \in Sessions, NEW half \in Halves, MakeRegistryRecord(s, half)
         PROVE  TypeOK'
  <2>1. sess[s] \in Loaded
    BY <1>half DEF MakeRegistryRecord, Serving, TypeOK
  <2>2. [sess[s] EXCEPT !.lock = half] \in Loaded
    BY <2>1 DEF Loaded
  <2>. QED
    BY <1>half, <2>2 DEF MakeRegistryRecord, TypeOK
<1>2. ASSUME NEW s \in Sessions, Rollback(s) PROVE TypeOK'
  BY <1>2, CloseTyped DEF Rollback, TypeOK
<1>3. ASSUME NEW s \in Sessions, Candidate(s) PROVE TypeOK'
  <2>1. CASE Accept(s)
    BY <2>1, CloseTyped, OpenTyped DEF Accept, Serving, TypeOK, RequestRow, Status
  <2>2. CASE UpdateVerificationContact(s)
    BY <2>2, CloseTyped, OpenTyped DEF UpdateVerificationContact, Serving, TypeOK,
       ContactStatus
  <2>3. CASE AddEvidence(s)
    BY <2>3, CloseTyped, OpenTyped DEF AddEvidence, Serving, TypeOK
  <2>4. CASE SubmitForReview(s)
    BY <2>4, CloseTyped, OpenTyped DEF SubmitForReview, Serving, TypeOK, RequestRow,
       ClaimRow, Status
  <2>5. CASE Resubmit(s)
    BY <2>5, CloseTyped, OpenTyped DEF Resubmit, Serving, TypeOK, ResolveAll,
       RequestRow, Status
  <2>6. CASE WithdrawByCandidate(s)
    BY <2>6, CloseTyped, OpenTyped DEF WithdrawByCandidate, Serving, TypeOK, RequestRow,
       ClaimRow, ClaimStatus, Status
  <2>7. CASE SubmitInformation(s)
    BY <2>7, CloseTyped, OpenTyped DEF SubmitInformation, Serving, TypeOK, RequestRow,
       Status
  <2>8. CASE UpdateEmployment(s)
    <3>1. PICK st \in {claim.st, "DRAFT"} :
            claim' = [claim EXCEPT !.version = claim.version + 1, !.st = st]
      BY <2>8 DEF UpdateEmployment
    <3>2. claim \in ClaimRow /\ st \in ClaimStatus /\ claim.version + 1 \in Nat
      BY DEF TypeOK, ClaimRow, ClaimStatus
    <3>3. claim' \in ClaimRow
      BY <3>1, <3>2 DEF ClaimRow
    <3>. QED
      BY <2>8, <3>3, CloseTyped DEF UpdateEmployment, TypeOK
  <2>9. CASE DeleteEmployment(s)
    BY <2>9, CloseTyped, OpenTyped DEF DeleteEmployment, Serving, TypeOK, ClaimRow
  <2>10. CASE CancelEmployment(s)
    BY <2>10, CloseTyped, OpenTyped DEF CancelEmployment, Serving, TypeOK, ClaimRow,
       ClaimStatus
  <2>11. CASE SubmitEmployment(s)
    BY <2>11, CloseTyped, OpenTyped DEF SubmitEmployment, Serving, TypeOK, ClaimRow,
       ClaimStatus
  <2>. QED
    BY <1>3, <2>1, <2>2, <2>3, <2>4, <2>5, <2>6, <2>7, <2>8, <2>9, <2>10, <2>11 DEF
       Candidate
<1>4. ASSUME NEW s \in Sessions, Admin(s) PROVE TypeOK'
  <2>1. CASE Assign(s)
    BY <2>1, CloseTyped, OpenTyped, ReviewTyped DEF Assign, Serving, TypeOK, Always,
       ReviewStatus
  <2>2. CASE AddNote(s)
    BY <2>2, CloseTyped, OpenTyped, ReviewTyped DEF AddNote, Serving, TypeOK, Noted,
       ReviewStatus
  <2>3. ASSUME NEW n \in Asked, NEW onContact \in BOOLEAN, RequestCorrections(s, n, onContact)
        PROVE  TypeOK'
    <3>1. Always("CORRECTIONS_REQUESTED") \in [ReviewStatus -> ReviewStatus]
      BY DEF Always, ReviewStatus
    <3>2. review' \in ReviewRow
      BY <2>3, <3>1, OpenTyped, ReviewTyped DEF RequestCorrections, Serving
    <3>3. req' \in RequestRow /\ contact' \in ContactStatus
      BY <2>3 DEF RequestCorrections, TypeOK, RequestRow, Status, ContactStatus
    <3>4. corr' \in [made : Nat, open : Nat]
      <4>1. n \in Nat
        BY BoundsAssumption DEF Asked
      <4>2. corr \in [made : Nat, open : Nat]
        BY DEF TypeOK
      <4>3. corr.made + n \in Nat /\ corr.open + n \in Nat
        BY <4>1, <4>2
      <4>4. corr' = [corr EXCEPT !.made = corr.made + n, !.open = corr.open + n]
        BY <2>3 DEF RequestCorrections
      <4>. QED
        BY <4>2, <4>3, <4>4
    <3>. QED
      BY <2>3, <3>2, <3>3, <3>4, CloseTyped DEF RequestCorrections, TypeOK
  <2>4. ASSUME NEW decision \in ContactStatus \ {"none"}, ReviewContact(s, decision)
        PROVE  TypeOK'
    BY <2>4, CloseTyped, OpenTyped DEF ReviewContact, Serving, TypeOK, ContactStatus
  <2>5. ASSUME NEW mailed \in Deliveries, Approve(s, mailed) PROVE TypeOK'
    <3>1. Always("APPROVED") \in [ReviewStatus -> ReviewStatus]
      BY DEF Always, ReviewStatus
    <3>2. sess[s] \in Loaded /\ sess[s].req \in RequestRow
      BY <2>5, OpenTyped DEF Approve, Serving
    <3>3. review' \in ReviewRow
      BY <2>5, <3>1, <3>2, ReviewTyped DEF Approve
    <3>4. [sess[s].req EXCEPT !.approved = TRUE,
             !.status = "APPROVED_FOR_ORGANIZATION_VERIFICATION"] \in RequestRow
      BY <3>2 DEF RequestRow, Status
    <3>5. [req EXCEPT !.approved = TRUE] \in RequestRow
      BY DEF TypeOK, RequestRow
    <3>6. req' \in RequestRow /\ claim' \in ClaimRow /\ evr' \in OutreachRow
      BY <2>5, <3>4, <3>5, AdvanceTyped, DeliveriesAssumption DEF Approve
    <3>. QED
      BY <2>5, <3>3, <3>6, CloseTyped DEF Approve, TypeOK
  <2>6. ASSUME NEW mailed \in Deliveries, ResolveOrganization(s, mailed) PROVE TypeOK'
    BY <2>6, CloseTyped, OpenTyped, AdvanceTyped, DeliveriesAssumption DEF
       ResolveOrganization, Serving, TypeOK, Orgs, RequestRow, Status
  <2>7. ASSUME NEW mailed \in Deliveries, CreateCanonicalOrganization(s, mailed)
        PROVE  TypeOK'
    BY <2>7, CloseTyped, OpenTyped, AdvanceTyped, DeliveriesAssumption DEF
       CreateCanonicalOrganization, Serving, TypeOK, Orgs, RequestRow, Status
  <2>8. ASSUME NEW outcome \in {"REJECTED", "UNABLE_TO_VERIFY"}, ClosePreDispatch(s, outcome)
        PROVE  TypeOK'
    BY <2>8, CloseTyped, OpenTyped, ReviewTyped DEF ClosePreDispatch, Serving, TypeOK,
       Always, ReviewStatus, ApplyCanonicalOutcome, ClaimRow, ClaimStatus, RequestRow,
       Status
  <2>9. ASSUME NEW outcome \in Outcomes, FinalizeRequest(s, outcome) PROVE TypeOK'
    BY <2>9, CloseTyped, OpenTyped, ReviewTyped DEF FinalizeRequest, Serving, TypeOK,
       Always, ReviewDecision, ReviewStatus, Outcomes, ApplyCanonicalOutcome, ClaimRow,
       ClaimStatus, RequestRow, Status
  <2>10. CASE ReturnToVerifier(s)
    BY <2>10, CloseTyped, OpenTyped DEF ReturnToVerifier, Serving, TypeOK, RequestRow,
       Status
  <2>11. CASE AdminCancel(s)
    BY <2>11, CloseTyped, OpenTyped DEF AdminCancel, Serving, TypeOK, RequestRow, Status
  <2>12. CASE RecordClarificationResponse(s)
    BY <2>12, CloseTyped, OpenTyped DEF RecordClarificationResponse, Serving, TypeOK,
       RequestRow, Status
  <2>13. CASE Revoke(s)
    BY <2>13, CloseTyped, OpenTyped DEF Revoke, Serving, TypeOK, OutreachRow
  <2>. QED
    BY <1>4, <2>1, <2>2, <2>3, <2>4, <2>5, <2>6, <2>7, <2>8, <2>9, <2>10, <2>11, <2>12,
       <2>13 DEF Admin
<1>5. ASSUME NEW s \in Sessions, Verifier(s) PROVE TypeOK'
  <2>1. CASE OrganizationAccept(s)
    BY <2>1, CloseTyped, OpenTyped DEF OrganizationAccept, Serving, TypeOK, Manageable,
       RequestRow, Status
  <2>2. CASE RequestInformation(s)
    BY <2>2, CloseTyped, OpenTyped DEF RequestInformation, Serving, TypeOK, Manageable,
       RequestRow, Status
  <2>3. CASE OrganizationRespond(s)
    BY <2>3, CloseTyped, OpenTyped DEF OrganizationRespond, Serving, TypeOK, Manageable,
       RequestRow, Status
  <2>4. CASE VerifyWithoutResult(s)
    BY <2>4, CloseTyped, OpenTyped DEF VerifyWithoutResult, Serving, TypeOK, Manageable,
       RequestRow, Status
  <2>5. CASE OrganizationCancel(s)
    BY <2>5, CloseTyped, OpenTyped DEF OrganizationCancel, Serving, TypeOK, Manageable,
       RequestRow, Status
  <2>6. ASSUME NEW decision \in Responses \ {"PENDING"}, RespondPortal(s, decision)
        PROVE  TypeOK'
    BY <2>6, CloseTyped, OpenTyped DEF RespondPortal, Serving, TypeOK, OutreachRow,
       RequestRow, Status
  <2>. QED
    BY <1>5, <2>1, <2>2, <2>3, <2>4, <2>5, <2>6 DEF Verifier
<1>6. CASE UNCHANGED vars
  BY <1>6 DEF vars, TypeOK
<1>. QED
  BY <1>1, <1>form, <1>half, <1>2, <1>3, <1>4, <1>5, <1>6 DEF Next

\* A new request is well typed.
LEMMA TypeInit == Init => TypeOK
<1>. SUFFICES ASSUME Init PROVE TypeOK
  OBVIOUS
<1>1. req \in RequestRow
  <2>1. PICK kind \in Kinds, org \in {"none", "existing"},
             status \in {"PENDING_SUBJECT_ACCEPTANCE", "PENDING_SUBJECT_SUBMISSION"} :
          req = [NewRequest(kind, org) EXCEPT !.status = status]
    BY DEF Init
  <2>. QED
    BY <2>1 DEF NewRequest, RequestRow, Orgs, Status
<1>2. review \in ReviewRow /\ claim \in ClaimRow /\ evr \in OutreachRow
  BY DEF Init, NoReview, NoLink, FirstDraft, ReviewRow, ReviewStatus, ClaimRow,
         ClaimStatus, OutreachRow, Responses
<1>3. contact \in ContactStatus /\ evidence \in BOOLEAN
  BY DEF Init, ContactStatus
<1>. QED
  BY <1>1, <1>2, <1>3 DEF Init, TypeOK

\* The rows always hold values their columns admit, for any number of sessions.
THEOREM TypeCorrect == Spec => []TypeOK
<1>. QED
  BY TypeInit, TypeStep, PTL DEF Spec

-----------------------------------------------------------------------------
(* OrganizationStageApproved is not inductive: a handler acts on the row it *)
(* loaded, perhaps long ago.  What saves it is that consent, approval,      *)
(* outreach and organization are only ever added to a request, so whatever  *)
(* a snapshot says was done is still done when it is acted on.              *)

\* The current rows record every step that the status stands for.
Recorded ==
  /\ req.status \in PostApproval => req.approved
  /\ req.status \in PostDispatch => req.outreach
  /\ claim.st = "VERIFIED" => req.outreach
  /\ req.approved => req.consented
  /\ req.outreach => /\ req.approved /\ req.org # "none"
                     /\ req.kind = "employment" => evr.token > 0

\* What the loaded row v says was done, was done.
Carried(v) ==
  /\ v.kind = req.kind
  /\ v.consented => req.consented
  /\ v.approved => req.approved
  /\ v.outreach => req.outreach
  /\ v.org # "none" => req.org # "none"
  /\ v.status \in PostApproval => req.approved
  /\ v.status \in PostDispatch => req.outreach

IInv ==
  /\ TypeOK
  /\ Recorded
  /\ \A s \in Sessions : sess[s] # Idle => Carried(sess[s].req)

\* No step takes back what was done.
Grows ==
  /\ req'.kind = req.kind
  /\ req.consented => req'.consented
  /\ req.approved => req'.approved
  /\ req.outreach => req'.outreach
  /\ req.org # "none" => req'.org # "none"
  /\ evr.token > 0 => evr'.token > 0

\* Loading keeps the invariant: the snapshot is the current row, or part of it.
LEMMA LoadCarried ==
  ASSUME IInv, NEW l \in Held, NEW part \in Parts
  PROVE  Carried(Snapshot(l, part).req)
BY DEF IInv, Recorded, Carried, Snapshot, NewRequest, TypeOK, RequestRow

\* The dispatch to the organization only adds to the row it is given.
LEMMA AdvanceRecorded ==
  ASSUME IInv, NEW s \in Sessions, NEW mailed \in BOOLEAN,
         NEW r \in RequestRow, NEW row \in RequestRow, Advance(s, r, row, mailed),
         row.approved /\ row.consented, row.kind = req.kind, r.kind = req.kind,
         req.outreach => row.outreach, row.outreach => req.outreach,
         req.org # "none" => row.org # "none", r.org # "none" => row.org # "none",
         r.outreach => req.outreach, r.status \notin PostDispatch
  PROVE  Recorded' /\ Grows
<1>1. /\ req \in RequestRow /\ evr \in OutreachRow /\ claim \in ClaimRow /\ Recorded
  BY DEF IInv, TypeOK
<1>2. /\ "PENDING_ORGANIZATION_ACCEPTANCE" \in PostDispatch \ PostApproval
      /\ "PENDING_ORGANIZATION_RESOLUTION" \notin PostDispatch
  BY DEF PostDispatch, PostApproval
<1>3. row.outreach => req.org # "none" /\ (req.kind = "employment" => evr.token > 0)
  BY <1>1 DEF Recorded
<1>4. CASE /\ req' = [row EXCEPT !.status = "PENDING_ORGANIZATION_ACCEPTANCE"]
           /\ AlreadySent(r) /\ UNCHANGED <<claim, evr>>
  BY <1>1, <1>2, <1>3, <1>4 DEF AlreadySent, Recorded, Grows, RequestRow
<1>5. CASE /\ req' = [row EXCEPT !.status = "PENDING_ORGANIZATION_RESOLUTION"]
           /\ UNCHANGED <<claim, evr>>
  BY <1>1, <1>2, <1>3, <1>5 DEF Recorded, Grows, RequestRow
<1>6. CASE /\ req' = [row EXCEPT !.status = "PENDING_ORGANIZATION_ACCEPTANCE",
                                 !.outreach = TRUE]
           /\ r.org # "none" /\ r.kind = "unlinked" /\ UNCHANGED <<claim, evr>>
  BY <1>1, <1>2, <1>6 DEF Recorded, Grows, RequestRow
<1>7. CASE /\ \E st \in {"PENDING_ORGANIZATION_ACCEPTANCE", r.status} :
                req' = [row EXCEPT !.outreach = TRUE, !.status = st]
           /\ r.org # "none"
           /\ evr' = [token |-> evr.token + 1, resp |-> "PENDING", revoked |-> FALSE,
                      mailed |-> mailed]
           /\ claim' = [claim EXCEPT !.byEmployer = TRUE]
  <2>1. evr'.token > 0
    BY <1>1, <1>7 DEF OutreachRow
  <2>2. claim'.st = claim.st
    BY <1>1, <1>7 DEF ClaimRow
  <2>. QED
    BY <1>1, <1>2, <1>7, <2>1, <2>2 DEF Recorded, Grows, RequestRow
<1>. QED
  BY <1>4, <1>5, <1>6, <1>7 DEF Advance

\* Every commit leaves the rows recorded, and takes nothing back.
LEMMA ActsRecorded ==
  ASSUME IInv, NEW s \in Sessions, Acts(s)
  PROVE  Recorded' /\ Grows
<1>. DEFINE r == sess[s].req
<1>. USE DEF children
<1>1. req \in RequestRow /\ evr \in OutreachRow /\ claim \in ClaimRow /\ Recorded
  BY DEF IInv, TypeOK
<1>2. sess[s] # Idle => r \in RequestRow /\ Carried(r)
  BY OpenTyped DEF IInv
<1>3. ASSUME Candidate(s) PROVE Recorded' /\ Grows
  <2>1. CASE Accept(s)
    BY <1>1, <1>2, <2>1 DEF Accept, Serving, Recorded, Grows, RequestRow, PostDispatch,
       PostApproval
  <2>2. CASE UpdateVerificationContact(s)
    BY <1>1, <1>2, <2>2 DEF UpdateVerificationContact, Serving, Recorded, Grows,
       RequestRow
  <2>3. CASE AddEvidence(s)
    BY <1>1, <1>2, <2>3 DEF AddEvidence, Serving, Recorded, Grows, RequestRow
  <2>4. CASE SubmitForReview(s)
    BY <1>1, <1>2, <2>4 DEF SubmitForReview, Serving, Recorded, Grows, RequestRow,
       PostDispatch, PostApproval
  <2>5. CASE Resubmit(s)
    BY <1>1, <1>2, <2>5 DEF Resubmit, Serving, Recorded, Grows, RequestRow,
       PostDispatch, PostApproval
  <2>6. CASE WithdrawByCandidate(s)
    BY <1>1, <1>2, <2>6 DEF WithdrawByCandidate, Serving, Recorded, Grows, RequestRow,
       ClaimRow, PostDispatch, PostApproval
  <2>7. CASE SubmitInformation(s)
    BY <1>1, <1>2, <2>7 DEF SubmitInformation, Serving, Recorded, Grows, RequestRow,
       Carried, PostDispatch, PostApproval
  <2>8. CASE UpdateEmployment(s)
    BY <1>1, <1>2, <2>8 DEF UpdateEmployment, Serving, Recorded, Grows, RequestRow,
       ClaimRow
  <2>9. CASE DeleteEmployment(s)
    BY <1>1, <1>2, <2>9 DEF DeleteEmployment, Serving, Recorded, Grows, RequestRow,
       ClaimRow
  <2>10. CASE CancelEmployment(s)
    BY <1>1, <1>2, <2>10 DEF CancelEmployment, Serving, Recorded, Grows, RequestRow,
       ClaimRow
  <2>11. CASE SubmitEmployment(s)
    BY <1>1, <1>2, <2>11 DEF SubmitEmployment, Serving, Recorded, Grows, RequestRow,
       ClaimRow
  <2>. QED
    BY <1>3, <2>1, <2>2, <2>3, <2>4, <2>5, <2>6, <2>7, <2>8, <2>9, <2>10, <2>11 DEF
       Candidate
<1>4. ASSUME Admin(s) PROVE Recorded' /\ Grows
  <2>1. CASE Assign(s)
    BY <1>1, <1>2, <2>1 DEF Assign, Serving, Recorded, Grows, RequestRow
  <2>2. CASE AddNote(s)
    BY <1>1, <1>2, <2>2 DEF AddNote, Serving, Recorded, Grows, RequestRow
  <2>3. ASSUME NEW n \in Asked, NEW onContact \in BOOLEAN, RequestCorrections(s, n, onContact)
        PROVE  Recorded' /\ Grows
    BY <1>1, <1>2, <2>3 DEF RequestCorrections, Serving, Recorded, Grows, RequestRow,
       PostDispatch, PostApproval
  <2>4. ASSUME NEW decision \in ContactStatus \ {"none"}, ReviewContact(s, decision)
        PROVE  Recorded' /\ Grows
    BY <1>1, <1>2, <2>4 DEF ReviewContact, Serving, Recorded, Grows, RequestRow
  <2>5. ASSUME NEW mailed \in Deliveries, Approve(s, mailed) PROVE Recorded' /\ Grows
    <3>1. /\ r \in RequestRow /\ Carried(r) /\ mailed \in BOOLEAN
          /\ r.consented /\ r.status \in PreDispatch
      BY <1>2, <2>5, DeliveriesAssumption DEF Approve, Serving
    <3>. DEFINE v == [r EXCEPT !.approved = TRUE,
                          !.status = "APPROVED_FOR_ORGANIZATION_VERIFICATION"]
                row == [req EXCEPT !.approved = TRUE]
    <3>2. /\ v \in RequestRow /\ row \in RequestRow
          /\ v.kind = r.kind /\ v.org = r.org /\ v.outreach = r.outreach
          /\ v.status \notin PostDispatch
      BY <1>1, <3>1 DEF RequestRow, Status, PostDispatch, PostApproval
    <3>3. /\ row.approved /\ row.consented = req.consented /\ row.kind = req.kind
          /\ row.outreach = req.outreach /\ row.org = req.org
      BY <1>1 DEF RequestRow
    <3>4. Advance(s, v, row, mailed)
      BY <2>5 DEF Approve
    <3>. HIDE DEF v, row
    <3>. QED
      BY <3>1, <3>2, <3>3, <3>4, AdvanceRecorded DEF Carried
  <2>6. ASSUME NEW mailed \in Deliveries, ResolveOrganization(s, mailed)
        PROVE  Recorded' /\ Grows
    <3>1. r \in RequestRow /\ Carried(r) /\ mailed \in BOOLEAN
      BY <1>2, <2>6, DeliveriesAssumption DEF ResolveOrganization, Serving
    <3>. DEFINE v == [r EXCEPT !.org = "existing"]
                row == [req EXCEPT !.org = "existing"]
    <3>2. /\ v \in RequestRow /\ row \in RequestRow
          /\ v.kind = r.kind /\ v.org # "none" /\ v.outreach = r.outreach
          /\ v.status = r.status /\ row.approved = req.approved
          /\ row.consented = req.consented /\ row.kind = req.kind
          /\ row.outreach = req.outreach /\ row.org # "none" /\ row.status = req.status
      BY <1>1, <3>1 DEF RequestRow, Orgs
    <3>3. PostApproval \cap PostDispatch = {}
      BY DEF PostDispatch, PostApproval
    <3>4. CASE r.status \in PostApproval /\ Advance(s, r, req, mailed)
      <4>1. req.approved /\ req.consented /\ r.status \notin PostDispatch
        BY <1>1, <3>1, <3>3, <3>4 DEF Carried, Recorded
      <4>. QED
        BY <1>1, <3>1, <3>4, <4>1, AdvanceRecorded DEF Carried
    <3>5. CASE r.status \in PostApproval /\ Advance(s, v, row, mailed)
      <4>1. row.approved /\ row.consented /\ v.status \notin PostDispatch
        BY <1>1, <3>1, <3>2, <3>3, <3>5 DEF Carried, Recorded
      <4>. HIDE DEF v, row
      <4>. QED
        BY <3>1, <3>2, <3>5, <4>1, AdvanceRecorded DEF Carried
    <3>6. CASE req' = row /\ UNCHANGED <<claim, evr>>
      <4>. HIDE DEF row
      <4>. QED
        BY <1>1, <3>2, <3>6 DEF Recorded, Grows
    <3>. QED
      BY <2>6, <3>4, <3>5, <3>6 DEF ResolveOrganization
  <2>7. ASSUME NEW mailed \in Deliveries, CreateCanonicalOrganization(s, mailed)
        PROVE  Recorded' /\ Grows
    <3>1. r \in RequestRow /\ Carried(r) /\ mailed \in BOOLEAN
      BY <1>2, <2>7, DeliveriesAssumption DEF CreateCanonicalOrganization, Serving
    <3>. DEFINE v == [r EXCEPT !.org = "created"]
                row == [req EXCEPT !.org = "created"]
    <3>2. /\ v \in RequestRow /\ row \in RequestRow
          /\ v.kind = r.kind /\ v.org # "none" /\ v.outreach = r.outreach
          /\ v.status = r.status /\ row.approved = req.approved
          /\ row.consented = req.consented /\ row.kind = req.kind
          /\ row.outreach = req.outreach /\ row.org # "none" /\ row.status = req.status
      BY <1>1, <3>1 DEF RequestRow, Orgs
    <3>3. PostApproval \cap PostDispatch = {}
      BY DEF PostDispatch, PostApproval
    <3>4. CASE r.status \in PostApproval /\ Advance(s, r, req, mailed)
      <4>1. req.approved /\ req.consented /\ r.status \notin PostDispatch
        BY <1>1, <3>1, <3>3, <3>4 DEF Carried, Recorded
      <4>. QED
        BY <1>1, <3>1, <3>4, <4>1, AdvanceRecorded DEF Carried
    <3>5. CASE r.status \in PostApproval /\ Advance(s, v, row, mailed)
      <4>1. row.approved /\ row.consented /\ v.status \notin PostDispatch
        BY <1>1, <3>1, <3>2, <3>3, <3>5 DEF Carried, Recorded
      <4>. HIDE DEF v, row
      <4>. QED
        BY <3>1, <3>2, <3>5, <4>1, AdvanceRecorded DEF Carried
    <3>6. CASE req' = row /\ UNCHANGED <<claim, evr>>
      <4>. HIDE DEF row
      <4>. QED
        BY <1>1, <3>2, <3>6 DEF Recorded, Grows
    <3>. QED
      BY <2>7, <3>4, <3>5, <3>6 DEF CreateCanonicalOrganization
  <2>8. ASSUME NEW outcome \in {"REJECTED", "UNABLE_TO_VERIFY"}, ClosePreDispatch(s, outcome)
        PROVE  Recorded' /\ Grows
    BY <1>1, <1>2, <2>8 DEF ClosePreDispatch, Serving, Recorded, Grows, RequestRow,
       ApplyCanonicalOutcome, ClaimRow, PostDispatch, PostApproval
  <2>9. ASSUME NEW outcome \in Outcomes, FinalizeRequest(s, outcome)
        PROVE  Recorded' /\ Grows
    BY <1>1, <1>2, <2>9 DEF FinalizeRequest, Serving, Recorded, Grows, RequestRow,
       Carried, Outcomes, ApplyCanonicalOutcome, ClaimRow, PostDispatch, PostApproval
  <2>10. CASE ReturnToVerifier(s)
    BY <1>1, <1>2, <2>10 DEF ReturnToVerifier, Serving, Recorded, Grows, RequestRow,
       Carried, PostDispatch, PostApproval
  <2>11. CASE AdminCancel(s)
    BY <1>1, <1>2, <2>11 DEF AdminCancel, Serving, Recorded, Grows, RequestRow,
       PostDispatch, PostApproval
  <2>12. CASE RecordClarificationResponse(s)
    BY <1>1, <1>2, <2>12 DEF RecordClarificationResponse, Serving, Recorded, Grows,
       RequestRow, Carried, PostDispatch, PostApproval
  <2>13. CASE Revoke(s)
    BY <1>1, <1>2, <2>13 DEF Revoke, Serving, Recorded, Grows, RequestRow, OutreachRow
  <2>. QED
    BY <1>4, <2>1, <2>2, <2>3, <2>4, <2>5, <2>6, <2>7, <2>8, <2>9, <2>10, <2>11, <2>12,
       <2>13 DEF Admin
<1>5. ASSUME Verifier(s) PROVE Recorded' /\ Grows
  <2>1. CASE OrganizationAccept(s)
    BY <1>1, <1>2, <2>1 DEF OrganizationAccept, Serving, Recorded, Grows, RequestRow,
       Manageable, Carried, PostDispatch, PostApproval, OrganizationVisible
  <2>2. CASE RequestInformation(s)
    BY <1>1, <1>2, <2>2 DEF RequestInformation, Serving, Recorded, Grows, RequestRow,
       Manageable, Carried, PostDispatch, PostApproval, OrganizationVisible
  <2>3. CASE OrganizationRespond(s)
    BY <1>1, <1>2, <2>3 DEF OrganizationRespond, Serving, Recorded, Grows, RequestRow,
       Manageable, Carried, PostDispatch, PostApproval, OrganizationVisible
  <2>4. CASE VerifyWithoutResult(s)
    BY <1>1, <1>2, <2>4 DEF VerifyWithoutResult, Serving, Recorded, Grows, RequestRow,
       Manageable, Carried, PostDispatch, PostApproval, OrganizationVisible
  <2>5. CASE OrganizationCancel(s)
    BY <1>1, <1>2, <2>5 DEF OrganizationCancel, Serving, Recorded, Grows, RequestRow,
       Manageable, Carried, PostDispatch, PostApproval, OrganizationVisible
  <2>6. ASSUME NEW decision \in Responses \ {"PENDING"}, RespondPortal(s, decision)
         PROVE  Recorded' /\ Grows
    BY <1>1, <1>2, <2>6 DEF RespondPortal, Serving, Recorded, Grows, RequestRow,
       OutreachRow, Carried, PostDispatch, PostApproval
  <2>. QED
    BY <1>5, <2>1, <2>2, <2>3, <2>4, <2>5, <2>6 DEF Verifier
<1>. QED
  BY <1>3, <1>4, <1>5 DEF Acts

\* Every commit ends its session, or leaves the sessions alone.
LEMMA ActsClose ==
  ASSUME NEW s \in Sessions, Acts(s)
  PROVE  sess' = [sess EXCEPT ![s] = Idle] \/ sess' = sess
BY DEF Acts, Candidate, Admin, Verifier, Close, Accept, UpdateVerificationContact,
   AddEvidence, SubmitForReview, Resubmit, WithdrawByCandidate, SubmitInformation,
   UpdateEmployment, DeleteEmployment, CancelEmployment, SubmitEmployment, Assign,
   AddNote, RequestCorrections, ReviewContact, Approve, ResolveOrganization,
   CreateCanonicalOrganization, ClosePreDispatch, FinalizeRequest, ReturnToVerifier,
   AdminCancel, RecordClarificationResponse, Revoke, OrganizationAccept,
   RequestInformation, OrganizationRespond, VerifyWithoutResult, OrganizationCancel,
   RespondPortal

\* The invariant survives every step.
LEMMA InvStep == IInv /\ [Next]_vars => IInv'
<1>. SUFFICES ASSUME IInv, [Next]_vars PROVE IInv'
  OBVIOUS
<1>0. TypeOK /\ TypeOK'
  BY TypeStep DEF IInv
<1>1. ASSUME NEW s \in Sessions, NEW l \in Held, NEW part \in Parts,
             NEW loaded, loaded.req = Snapshot(l, part).req,
             sess' = [sess EXCEPT ![s] = loaded], UNCHANGED <<req, claim, evr>>
      PROVE  IInv'
  <2>1. Recorded'
    BY <1>1 DEF IInv, Recorded
  <2>2. ASSUME NEW t \in Sessions, sess'[t] # Idle PROVE Carried(sess'[t].req)
    BY <1>0, <1>1, <2>2, LoadCarried DEF IInv, TypeOK
  <2>. QED
    BY <1>0, <1>1, <2>1, <2>2 DEF IInv, Carried
<1>2. ASSUME NEW s \in Sessions, sess' = [sess EXCEPT ![s] = Idle] \/ sess' = sess,
             Recorded' /\ Grows
      PROVE  IInv'
  <2>1. ASSUME NEW t \in Sessions, sess'[t] # Idle
        PROVE  Carried(sess[t].req) /\ sess'[t] = sess[t]
    BY <1>0, <1>2, <2>1 DEF IInv, TypeOK
  <2>2. ASSUME NEW t \in Sessions, sess'[t] # Idle PROVE Carried(sess[t].req)'
    BY <1>2, <2>1, <2>2 DEF Carried, Grows
  <2>. QED
    BY <1>0, <1>2, <2>2 DEF IInv
<1>3. ASSUME NEW s \in Sessions, NEW part \in Reads, Load(s, part) PROVE IInv'
  BY <1>3, <1>1, ReadsAssumption DEF Load, Held
<1>4. ASSUME NEW s \in Sessions, LoadForUpdate(s) \/ LoadPortalToken(s) PROVE IInv'
  BY <1>4, <1>1 DEF LoadForUpdate, LoadPortalToken, Parts, Held
<1>form. ASSUME NEW s \in Sessions, LockFormToken(s) PROVE IInv'
  <2>1. [Snapshot("link", "link") EXCEPT !.evr = sess[s].evr].req
          = Snapshot("link", "link").req
    BY DEF Snapshot
  <2>. QED
    BY <1>form, <1>1, <2>1 DEF LockFormToken, Parts, Held
<1>half. ASSUME NEW s \in Sessions, NEW half \in Halves, MakeRegistryRecord(s, half)
         PROVE  IInv'
  <2>1. sess[s] \in Loaded /\ [sess[s] EXCEPT !.lock = half].req = sess[s].req
    BY <1>0, <1>half DEF MakeRegistryRecord, Serving, TypeOK, IInv, Loaded
  <2>2. \A t \in Sessions : sess'[t] # Idle => sess[t] # Idle /\ sess'[t].req = sess[t].req
    BY <1>0, <1>half, <2>1 DEF MakeRegistryRecord, Serving, TypeOK, IInv
  <2>. QED
    BY <1>0, <1>half, <2>2 DEF MakeRegistryRecord, IInv, Recorded, Carried
<1>5. ASSUME NEW s \in Sessions, Rollback(s) PROVE IInv'
  BY <1>5, <1>2 DEF Rollback, Close, IInv, Recorded, Grows
<1>6. ASSUME NEW s \in Sessions, Acts(s) PROVE IInv'
  BY <1>6, <1>2, ActsRecorded, ActsClose
<1>7. CASE UNCHANGED vars
  BY <1>7, <1>0 DEF vars, IInv, Recorded, Carried
<1>. QED
  BY <1>3, <1>4, <1>5, <1>6, <1>7, <1>form, <1>half DEF Next, Acts

\* The rows record what their statuses stand for, in every state.
LEMMA InvAlways == Spec => []IInv
<1>1. Init => IInv
  <2>. SUFFICES ASSUME Init PROVE IInv
    OBVIOUS
  <2>1. TypeOK
    BY TypeInit
  <2>2. Recorded
    BY DEF Init, Recorded, NewRequest, FirstDraft, PostApproval, PostDispatch
  <2>. QED
    BY <2>1, <2>2 DEF Init, IInv
<1>. QED
  BY <1>1, InvStep, PTL DEF Spec

\* However many requests overlap, and whatever each of them had loaded, nothing
\* reaches an organization, and no claim is VERIFIED, without consent and approval.
THEOREM ApprovedBeforeOrganization == Spec => []OrganizationStageApproved
<1>1. IInv => OrganizationStageApproved
  BY DEF IInv, Recorded, OrganizationStageApproved
<1>. QED
  BY <1>1, InvAlways, PTL

-----------------------------------------------------------------------------
(* A withdrawal decides under the request's row lock.  Every other commit   *)
(* that writes the row waits for that lock, so what the holder loaded is    *)
(* still the row; only a withdrawal leads into WITHDRAWN_BY_CANDIDATE, and  *)
(* only a session that loaded another status out of it.                     *)

\* A session that loaded the request FOR UPDATE holds its lock, and the row is as it
\* was loaded.
LockHeld ==
  \A s \in Sessions : sess[s] # Idle /\ sess[s].lock = "request" =>
    reqLock = s /\ sess[s].part = "review" /\ sess[s].req = req

\* How one step may enter, or stay in, the two statuses that are waited in or final.
Entered(s) ==
  /\ \/ reqLock \in {NoSession, s} /\ sess'[s] = Idle
     \/ req' = req
  /\ req'.status = "AWAITING_SUBJECT_CORRECTIONS" =>
       corr'.open > 0 \/ (req.status = req'.status /\ corr' = corr)
  /\ req'.status = "WITHDRAWN_BY_CANDIDATE" =>
       \/ WithdrawByCandidate(s)
       \/ /\ req.status = req'.status /\ req'.withdrawn = req.withdrawn
          /\ req'.approved = req.approved /\ req'.outreach = req.outreach

\* The dispatch to the organization enters neither, from a status after approval.
LEMMA AdvanceEntered ==
  ASSUME TypeOK, NEW s \in Sessions, NEW mailed \in BOOLEAN, NEW r \in RequestRow,
         NEW row \in RequestRow, Advance(s, r, row, mailed), r.status \in PostApproval
  PROVE  req'.status \notin {"AWAITING_SUBJECT_CORRECTIONS", "WITHDRAWN_BY_CANDIDATE"}
BY DEF Advance, RequestRow, PostApproval

\* No handler enters them in any other way.
LEMMA ActsEntered ==
  ASSUME TypeOK, NEW s \in Sessions, Acts(s)
  PROVE  Entered(s)
<1>. USE DEF children, Entered
<1>1. /\ req \in RequestRow /\ corr \in [made : Nat, open : Nat]
      /\ Close(s) => sess'[s] = Idle
  BY DEF TypeOK, Close
<1>2. sess[s] # Idle => sess[s].req \in RequestRow
  BY OpenTyped
<1>3. ASSUME Candidate(s) PROVE Entered(s)
  BY <1>1, <1>3 DEF Candidate, Accept, UpdateVerificationContact, AddEvidence,
     SubmitForReview, Resubmit, WithdrawByCandidate, SubmitInformation, UpdateEmployment,
     DeleteEmployment, CancelEmployment, SubmitEmployment, Serving, RequestRow
<1>4. ASSUME Verifier(s) PROVE Entered(s)
  BY <1>1, <1>4 DEF Verifier, OrganizationAccept, RequestInformation, OrganizationRespond,
     VerifyWithoutResult, OrganizationCancel, RespondPortal, Manageable, Serving,
     RequestRow
<1>5. ASSUME Admin(s) PROVE Entered(s)
  <2>1. ASSUME NEW n \in Asked, NEW onContact \in BOOLEAN, RequestCorrections(s, n, onContact)
        PROVE  Entered(s)
    <3>1. n \in Nat /\ n > 0 /\ corr.open \in Nat
      BY <1>1, BoundsAssumption DEF Asked
    <3>2. corr'.open = corr.open + n
      BY <1>1, <2>1 DEF RequestCorrections
    <3>3. /\ req'.status = "AWAITING_SUBJECT_CORRECTIONS" /\ reqLock \in {NoSession, s}
          /\ sess'[s] = Idle
      BY <1>1, <2>1 DEF RequestCorrections, Serving, RequestRow
    <3>. QED
      BY <3>1, <3>2, <3>3
  <2>2. ASSUME NEW mailed \in Deliveries, Approve(s, mailed) PROVE Entered(s)
    <3>. DEFINE v == [sess[s].req EXCEPT !.approved = TRUE,
                        !.status = "APPROVED_FOR_ORGANIZATION_VERIFICATION"]
                row == [req EXCEPT !.approved = TRUE]
    <3>1. v \in RequestRow /\ row \in RequestRow /\ v.status \in PostApproval
      BY <1>1, <1>2, <2>2 DEF Approve, Serving, RequestRow, Status, PostApproval
    <3>2. /\ Advance(s, v, row, mailed) /\ reqLock \in {NoSession, s}
          /\ mailed \in BOOLEAN /\ sess'[s] = Idle
      BY <1>1, <2>2, DeliveriesAssumption DEF Approve, Serving
    <3>. HIDE DEF v, row
    <3>. QED
      BY <3>1, <3>2, AdvanceEntered
  <2>3. ASSUME NEW mailed \in Deliveries, NEW org \in Orgs,
               \/ ResolveOrganization(s, mailed) /\ org = "existing"
               \/ CreateCanonicalOrganization(s, mailed) /\ org = "created"
        PROVE  Entered(s)
    <3>. DEFINE r == sess[s].req
                v == [r EXCEPT !.org = org]
                row == [req EXCEPT !.org = org]
    <3>1. /\ r \in RequestRow /\ reqLock \in {NoSession, s}
          /\ mailed \in BOOLEAN /\ sess'[s] = Idle
      BY <1>1, <1>2, <2>3, DeliveriesAssumption DEF ResolveOrganization,
         CreateCanonicalOrganization, Serving
    <3>2. /\ v \in RequestRow /\ row \in RequestRow /\ v.status = r.status
          /\ row.status = req.status /\ row.withdrawn = req.withdrawn
          /\ row.approved = req.approved /\ row.outreach = req.outreach
      BY <1>1, <3>1 DEF RequestRow
    <3>3. \/ r.status \in PostApproval /\ Advance(s, r, req, mailed)
          \/ r.status \in PostApproval /\ Advance(s, v, row, mailed)
          \/ req' = row /\ corr' = corr
      BY <2>3 DEF ResolveOrganization, CreateCanonicalOrganization
    <3>. HIDE DEF v, row, r
    <3>. QED
      BY <1>1, <3>1, <3>2, <3>3, AdvanceEntered
  <2>4. ASSUME NEW outcome \in Outcomes,
               ClosePreDispatch(s, outcome) \/ FinalizeRequest(s, outcome)
        PROVE  Entered(s)
    BY <1>1, <2>4 DEF ClosePreDispatch, FinalizeRequest, Serving, RequestRow, Outcomes
  <2>5. CASE \/ Assign(s) \/ AddNote(s) \/ Revoke(s)
             \/ \E decision \in ContactStatus \ {"none"} : ReviewContact(s, decision)
    BY <1>1, <2>5 DEF Assign, AddNote, Revoke, ReviewContact
  <2>6. CASE ReturnToVerifier(s) \/ AdminCancel(s) \/ RecordClarificationResponse(s)
    BY <1>1, <2>6 DEF ReturnToVerifier, AdminCancel, RecordClarificationResponse, Serving,
       RequestRow
  <2>. QED
    BY <1>5, <2>1, <2>2, <2>3, <2>4, <2>5, <2>6 DEF Admin, Outcomes, Orgs
<1>. QED
  BY <1>3, <1>4, <1>5 DEF Acts

\* A step is a load, an end of a session that writes nothing, or a handler's commit.
LEMMA StepKinds ==
  ASSUME Next
  PROVE  \E s \in Sessions :
           \/ (\E part \in Reads : Load(s, part)) \/ LoadForUpdate(s)
           \/ LoadPortalToken(s) \/ LockFormToken(s) \/ Rollback(s)
           \/ (\E half \in Halves : MakeRegistryRecord(s, half)) \/ Acts(s)
BY DEF Next, Acts

\* A request that waits for corrections has an open one, for any number of sessions.
THEOREM AwaitedCorrectionStaysOpen == Spec => []AwaitedCorrectionIsOpen
<1>1. Init => AwaitedCorrectionIsOpen
  BY DEF Init, NewRequest, AwaitedCorrectionIsOpen
<1>2. TypeOK /\ AwaitedCorrectionIsOpen /\ [Next]_vars => AwaitedCorrectionIsOpen'
  <2>. SUFFICES ASSUME TypeOK, AwaitedCorrectionIsOpen, [Next]_vars
                PROVE  AwaitedCorrectionIsOpen'
    OBVIOUS
  <2>. USE DEF AwaitedCorrectionIsOpen, children
  <2>1. CASE UNCHANGED vars
    BY <2>1 DEF vars
  <2>2. CASE Next
    <3>1. PICK s \in Sessions :
            \/ (\E part \in Reads : Load(s, part)) \/ LoadForUpdate(s)
            \/ LoadPortalToken(s) \/ LockFormToken(s) \/ Rollback(s)
            \/ (\E half \in Halves : MakeRegistryRecord(s, half)) \/ Acts(s)
      BY <2>2, StepKinds
    <3>2. CASE Acts(s)
      BY <3>2, ActsEntered DEF Entered
    <3>3. CASE ~Acts(s)
      BY <3>1, <3>3 DEF Load, LoadForUpdate, LoadPortalToken, LockFormToken, Rollback,
         MakeRegistryRecord
    <3>. QED
      BY <3>2, <3>3
  <2>. QED
    BY <2>1, <2>2
<1>. QED
  BY <1>1, <1>2, TypeCorrect, PTL DEF Spec

\* The lock protects what its holder loaded, through every step of the others.
LEMMA LockStep == TypeOK /\ LockHeld /\ [Next]_vars => LockHeld'
<1>. SUFFICES ASSUME TypeOK, LockHeld, [Next]_vars, NEW t \in Sessions,
                     sess'[t] # Idle, sess'[t].lock = "request"
              PROVE  reqLock' = t /\ sess'[t].part = "review" /\ sess'[t].req = req'
  BY DEF LockHeld
<1>. USE DEF children
<1>1. sess \in [Sessions -> Loaded \cup {Idle}] /\ NoSession \notin Sessions
  BY SessionsAssumption DEF TypeOK
<1>2. CASE UNCHANGED vars
  BY <1>2 DEF vars, LockHeld
<1>3. CASE Next
  <2>1. PICK s \in Sessions :
          \/ (\E part \in Reads : Load(s, part)) \/ LoadForUpdate(s)
          \/ LoadPortalToken(s) \/ LockFormToken(s) \/ Rollback(s)
          \/ (\E half \in Halves : MakeRegistryRecord(s, half)) \/ Acts(s)
    BY <1>3, StepKinds
  <2>2. ASSUME NEW part \in Reads, Load(s, part)
        PROVE  reqLock' = t /\ sess'[t].part = "review" /\ sess'[t].req = req'
    BY <1>1, <2>2 DEF Load, LockHeld, Snapshot
  <2>3. CASE LoadForUpdate(s)
    BY <1>1, <2>3 DEF LoadForUpdate, LockHeld, Snapshot
  <2>4. CASE LoadPortalToken(s) \/ LockFormToken(s)
    BY <1>1, <2>4 DEF LoadPortalToken, LockFormToken, LockHeld, Snapshot
  <2>half. ASSUME NEW half \in Halves, MakeRegistryRecord(s, half)
           PROVE  reqLock' = t /\ sess'[t].part = "review" /\ sess'[t].req = req'
    <3>1. reqLock = s
      BY <2>half DEF MakeRegistryRecord, Serving, LockHeld
    <3>2. sess'[s].lock # "request"
      BY <1>1, <2>half DEF MakeRegistryRecord, Serving, Loaded, Halves
    <3>3. t # s => sess'[t] = sess[t]
      BY <1>1, <2>half DEF MakeRegistryRecord
    <3>. QED
      BY <3>1, <3>2, <3>3 DEF LockHeld
  <2>5. CASE Rollback(s)
    BY <1>1, <2>5 DEF Rollback, Close, LockHeld
  <2>6. CASE Acts(s)
    <3>1. /\ sess' = [sess EXCEPT ![s] = Idle] \/ sess' = sess
          /\ \/ reqLock \in {NoSession, s} /\ sess'[s] = Idle
             \/ req' = req
      BY <2>6, ActsClose, ActsEntered DEF Entered
    <3>2. reqLock' = reqLock \/ (reqLock = s /\ sess' = [sess EXCEPT ![s] = Idle])
      BY <2>6 DEF Acts, Candidate, Admin, Verifier, Close, Accept,
         UpdateVerificationContact, AddEvidence, SubmitForReview, Resubmit,
         WithdrawByCandidate, SubmitInformation, UpdateEmployment, DeleteEmployment,
         CancelEmployment, SubmitEmployment, Assign, AddNote, RequestCorrections,
         ReviewContact, Approve, ResolveOrganization, CreateCanonicalOrganization,
         ClosePreDispatch, FinalizeRequest, ReturnToVerifier, AdminCancel,
         RecordClarificationResponse, Revoke, OrganizationAccept, RequestInformation,
         OrganizationRespond, VerifyWithoutResult, OrganizationCancel, RespondPortal
    <3>3. sess[t] = sess'[t] /\ reqLock = t
      BY <1>1, <3>1 DEF LockHeld
    <3>4. sess'[s] = Idle \/ sess' = sess
      BY <1>1, <3>1
    <3>. QED
      BY <1>1, <3>1, <3>2, <3>3, <3>4 DEF LockHeld
  <2>. QED
    BY <2>1, <2>2, <2>3, <2>4, <2>half, <2>5, <2>6
<1>. QED
  BY <1>2, <1>3

\* A walk of one transition is an entry of the table.
LEMMA WalksOnce ==
  ASSUME NEW a, NEW b, Walks(<<a, b>>)
  PROVE  b \in ValidTransitions[a]
<1>1. Len(<<a, b>>) = 2 /\ 1 \in 1..(2 - 1)
  OBVIOUS
<1>. QED
  BY <1>1 DEF Walks

\* A commit leaves its session idle.
LEMMA ActsIdle ==
  ASSUME TypeOK, NEW s \in Sessions, Acts(s)
  PROVE  sess'[s] = Idle
<1>1. Close(s) => sess'[s] = Idle
  BY DEF TypeOK, Close
<1>. QED
  BY <1>1 DEF Acts, Candidate, Admin, Verifier, Accept, UpdateVerificationContact,
     AddEvidence, SubmitForReview, Resubmit, WithdrawByCandidate, SubmitInformation,
     UpdateEmployment, DeleteEmployment, CancelEmployment, SubmitEmployment, Assign,
     AddNote, RequestCorrections, ReviewContact, Approve, ResolveOrganization,
     CreateCanonicalOrganization, ClosePreDispatch, FinalizeRequest, ReturnToVerifier,
     AdminCancel, RecordClarificationResponse, Revoke, OrganizationAccept,
     RequestInformation, OrganizationRespond, VerifyWithoutResult, OrganizationCancel,
     RespondPortal

\* A handler that loaded the request WITHDRAWN leaves its status alone.
LEMMA ActsUnseen ==
  ASSUME TypeOK, NEW s \in Sessions, Acts(s), req.status = "WITHDRAWN_BY_CANDIDATE",
         req'.status # req.status
  PROVE  sess[s] # Idle /\ sess[s].req.status # "WITHDRAWN_BY_CANDIDATE"
<1>. USE DEF children
<1>1. req \in RequestRow
  BY DEF TypeOK
<1>2. "WITHDRAWN_BY_CANDIDATE" \notin PreDispatch \cup PostApproval \cup OrganizationVisible
  BY DEF PreDispatch, PostApproval, OrganizationVisible
<1>3. "CANCELLED" \notin ValidTransitions["WITHDRAWN_BY_CANDIDATE"]
  BY DEF ValidTransitions, Status
<1>4. CASE Candidate(s)
  BY <1>1, <1>4 DEF Candidate, Accept, UpdateVerificationContact, AddEvidence,
     SubmitForReview, Resubmit, WithdrawByCandidate, Withdrawable, CandidateWithdrawable,
     SubmitInformation, UpdateEmployment, DeleteEmployment, CancelEmployment,
     SubmitEmployment, Serving, RequestRow
<1>5. CASE Verifier(s)
  BY <1>1, <1>2, <1>5 DEF Verifier, OrganizationAccept, RequestInformation,
     OrganizationRespond, VerifyWithoutResult, OrganizationCancel, RespondPortal,
     Manageable, Serving
<1>6. CASE Admin(s)
  <2>1. ASSUME NEW mailed \in Deliveries, Approve(s, mailed)
        PROVE  sess[s] # Idle /\ sess[s].req.status # "WITHDRAWN_BY_CANDIDATE"
    BY <1>2, <2>1 DEF Approve, Serving
  <2>2. ASSUME NEW mailed \in Deliveries, NEW org \in Orgs,
               \/ ResolveOrganization(s, mailed) /\ org = "existing"
               \/ CreateCanonicalOrganization(s, mailed) /\ org = "created"
        PROVE  sess[s] # Idle /\ sess[s].req.status # "WITHDRAWN_BY_CANDIDATE"
    <3>1. sess[s] # Idle
      BY <2>2 DEF ResolveOrganization, CreateCanonicalOrganization, Serving
    <3>2. sess[s].req.status \in PostApproval \cup PreDispatch
      BY <2>2 DEF ResolveOrganization, CreateCanonicalOrganization
    <3>. QED
      BY <1>2, <3>1, <3>2
  <2>3. CASE \/ Assign(s) \/ AddNote(s) \/ Revoke(s)
             \/ \E decision \in ContactStatus \ {"none"} : ReviewContact(s, decision)
    BY <2>3 DEF Assign, AddNote, Revoke, ReviewContact
  <2>4. ASSUME NEW n \in Asked, NEW onContact \in BOOLEAN, RequestCorrections(s, n, onContact)
        PROVE  sess[s] # Idle /\ sess[s].req.status # "WITHDRAWN_BY_CANDIDATE"
    BY <1>2, <2>4 DEF RequestCorrections, AdminReviewable, Serving
  <2>5. ASSUME NEW outcome, ClosePreDispatch(s, outcome) \/ FinalizeRequest(s, outcome)
        PROVE  sess[s] # Idle /\ sess[s].req.status # "WITHDRAWN_BY_CANDIDATE"
    BY <1>2, <2>5 DEF ClosePreDispatch, FinalizeRequest, Serving
  <2>6. CASE AdminCancel(s)
    BY <1>3, <2>6, WalksOnce DEF AdminCancel, Serving
  <2>7. CASE ReturnToVerifier(s) \/ RecordClarificationResponse(s)
    BY <2>7 DEF ReturnToVerifier, RecordClarificationResponse, Serving
  <2>. QED
    BY <1>6, <2>1, <2>2, <2>3, <2>4, <2>5, <2>6, <2>7 DEF Admin, Orgs
<1>. QED
  BY <1>4, <1>5, <1>6 DEF Acts

\* While a request is WITHDRAWN it was never approved for an organization, nor sent to
\* one, and only a session that had read it before the withdrawal takes it elsewhere,
\* for any number of sessions that approve, dispatch and withdraw at once.  (That such a
\* session may do so is what WithdrawalIsFinal denies, and is refuted by.)
THEOREM WithdrawalStays == Spec => WithdrawnStays
<1>1. Init => WithdrawalDecided /\ LockHeld
  <2>. SUFFICES ASSUME Init PROVE WithdrawalDecided /\ LockHeld
    OBVIOUS
  <2>1. req.status \in {"PENDING_SUBJECT_ACCEPTANCE", "PENDING_SUBJECT_SUBMISSION"}
    BY DEF Init, NewRequest
  <2>. QED
    BY <2>1 DEF Init, WithdrawalDecided, LockHeld
<1>2. TypeOK /\ LockHeld /\ WithdrawalDecided /\ [Next]_vars
        => WithdrawalDecided' /\ [LeftUnseen]_vars
  <2>. SUFFICES ASSUME TypeOK, LockHeld, WithdrawalDecided, [Next]_vars
                PROVE  WithdrawalDecided' /\ [LeftUnseen]_vars
    OBVIOUS
  <2>. USE DEF WithdrawalDecided, children
  <2>1. CASE UNCHANGED vars
    BY <2>1 DEF vars
  <2>2. CASE Next
    <3>1. PICK s \in Sessions :
            \/ (\E part \in Reads : Load(s, part)) \/ LoadForUpdate(s)
            \/ LoadPortalToken(s) \/ LockFormToken(s) \/ Rollback(s)
            \/ (\E half \in Halves : MakeRegistryRecord(s, half)) \/ Acts(s)
      BY <2>2, StepKinds
    <3>2. CASE Acts(s)
      <4>1. LeftUnseen
        BY <3>2, ActsUnseen, ActsIdle DEF LeftUnseen
      <4>2. CASE WithdrawByCandidate(s)
        <5>1. req \in RequestRow /\ sess[s].req = req
          BY <4>2 DEF WithdrawByCandidate, Serving, LockHeld, TypeOK
        <5>. QED
          BY <4>1, <4>2, <5>1 DEF WithdrawByCandidate, Withdrawable, RequestRow
      <4>3. CASE ~WithdrawByCandidate(s)
        BY <3>2, <4>1, <4>3, ActsEntered DEF Entered
      <4>. QED
        BY <4>2, <4>3
    <3>3. CASE ~Acts(s)
      <4>1. req' = req
        BY <3>1, <3>3 DEF Load, LoadForUpdate, LoadPortalToken, LockFormToken, Rollback,
           MakeRegistryRecord
      <4>. QED
        BY <4>1 DEF LeftUnseen
    <3>. QED
      BY <3>2, <3>3
  <2>. QED
    BY <2>1, <2>2
<1>3. TypeOK /\ LockHeld /\ WithdrawalDecided /\ [Next]_vars
        => [WithdrawalDecided' /\ LeftUnseen]_vars
  BY <1>2
<1>. QED
  BY <1>1, <1>2, <1>3, LockStep, TypeCorrect, PTL DEF Spec, WithdrawnStays

-----------------------------------------------------------------------------
(* One request at a time.  What the next theorems say of a row is refuted   *)
(* as soon as two sessions overlap: each decides on what it read.  With one *)
(* session the snapshot it decides on is the row, so that every guard of a  *)
(* handler speaks of the present.                                           *)

\* There is one session.
OneAtATime == \A s, t \in Sessions : s = t

\* What an open session loaded is what the rows hold.
Current ==
  \A s \in Sessions : sess[s] # Idle => sess[s] = Snapshot(sess[s].lock, sess[s].part)

\* The two statuses of the table that no handler writes.
Written == req.status \notin {"DRAFT", "EXPIRED"}

\* A review stands at corrections while they are awaited, when they have been made,
\* or when the request was given up meanwhile.
ReviewAsks ==
  review.st = "CORRECTIONS_REQUESTED" =>
    req.status \in {"AWAITING_SUBJECT_CORRECTIONS", "PENDING_ADMIN_RE_REVIEW",
                    "CANCELLED", "WITHDRAWN_BY_CANDIDATE"}

InTurn == Current /\ Written /\ ReviewAsks /\ ServedInOrder

\* What a snapshot of the rows shows.
LEMMA SnapshotShows ==
  ASSUME NEW l, NEW part
  PROVE  LET v == Snapshot(l, part) IN
         /\ v.lock = l /\ v.part = part
         /\ part = "review" => v.req = req /\ v.review = review
         /\ part = "claim" => v.claim = claim
         /\ part = "link" => v.evr = evr
         /\ v.req.status = req.status
BY DEF Snapshot, NewRequest

\* The rows an open session reads are the rows.
LEMMA ServedRows ==
  ASSUME Current, NEW s \in Sessions, sess[s] # Idle
  PROVE  /\ sess[s].part = "review" => sess[s].req = req /\ sess[s].review = review
         /\ sess[s].part = "claim" => sess[s].claim = claim
         /\ sess[s].part = "link" => sess[s].evr = evr
         /\ sess[s].req.status = req.status
<1>1. sess[s] = Snapshot(sess[s].lock, sess[s].part)
  BY DEF Current
<1>. QED
  BY <1>1, SnapshotShows

\* The one session keeps seeing the rows as they are.
LEMMA CurrentStep ==
  ASSUME OneAtATime
  PROVE  TypeOK /\ Current /\ [Next]_vars => Current'
<1>. SUFFICES ASSUME TypeOK, Current, [Next]_vars, NEW t \in Sessions, sess'[t] # Idle
              PROVE  (sess[t] = Snapshot(sess[t].lock, sess[t].part))'
  BY DEF Current
<1>. USE DEF children
<1>1. sess \in [Sessions -> Loaded \cup {Idle}]
  BY DEF TypeOK
<1>2. CASE UNCHANGED vars
  BY <1>2 DEF vars, Current, Snapshot
<1>3. CASE Next
  <2>1. PICK s \in Sessions :
          \/ (\E part \in Reads : Load(s, part)) \/ LoadForUpdate(s)
          \/ LoadPortalToken(s) \/ LockFormToken(s) \/ Rollback(s)
          \/ (\E half \in Halves : MakeRegistryRecord(s, half)) \/ Acts(s)
    BY <1>3, StepKinds
  <2>2. s = t
    BY DEF OneAtATime
  <2>3. ASSUME NEW l, NEW part, sess' = [sess EXCEPT ![s] = Snapshot(l, part)],
               UNCHANGED <<req, review, claim, evr>>
        PROVE  (sess[t] = Snapshot(sess[t].lock, sess[t].part))'
    <3>1. sess'[t] = Snapshot(l, part)
      BY <1>1, <2>2, <2>3
    <3>2. sess'[t].lock = l /\ sess'[t].part = part
      BY <3>1, SnapshotShows
    <3>. QED
      BY <2>3, <3>1, <3>2 DEF Snapshot
  <2>4. ASSUME NEW part \in Reads, Load(s, part)
        PROVE  (sess[t] = Snapshot(sess[t].lock, sess[t].part))'
    BY <2>3, <2>4 DEF Load
  <2>5. CASE LoadForUpdate(s) \/ LoadPortalToken(s)
    BY <2>3, <2>5 DEF LoadForUpdate, LoadPortalToken
  <2>6. CASE LockFormToken(s)
    <3>1. sess[s].evr = evr
      BY <2>6, ServedRows DEF LockFormToken
    <3>2. [Snapshot("link", "link") EXCEPT !.evr = evr] = Snapshot("link", "link")
      BY DEF Snapshot
    <3>. QED
      BY <2>3, <2>6, <3>1, <3>2 DEF LockFormToken
  <2>half. ASSUME NEW half \in Halves, MakeRegistryRecord(s, half)
           PROVE  (sess[t] = Snapshot(sess[t].lock, sess[t].part))'
    <3>1. /\ sess[s] # Idle /\ sess[s].part = "review"
          /\ sess' = [sess EXCEPT ![s] = [sess[s] EXCEPT !.lock = half]]
      BY <2>half DEF MakeRegistryRecord, Serving
    <3>2. sess[s] = Snapshot(sess[s].lock, "review")
      BY <3>1 DEF Current
    <3>3. [sess[s] EXCEPT !.lock = half] = Snapshot(half, "review")
      BY <3>2 DEF Snapshot
    <3>4. sess' = [sess EXCEPT ![s] = Snapshot(half, "review")]
      BY <3>1, <3>3
    <3>5. UNCHANGED <<req, review, claim, evr>>
      BY <2>half DEF MakeRegistryRecord
    <3>. QED
      BY <2>3, <3>4, <3>5
  <2>7. CASE Rollback(s)
    BY <1>1, <2>2, <2>7 DEF Rollback, Close
  <2>8. CASE Acts(s)
    BY <2>2, <2>8, ActsIdle
  <2>. QED
    BY <2>1, <2>4, <2>5, <2>6, <2>half, <2>7, <2>8
<1>. QED
  BY <1>2, <1>3

\* A review recorded on the current row stays as it was decided, or opens a round.
LEMMA ReviewServed ==
  ASSUME TypeOK, NEW s \in Sessions, NEW becomes \in [ReviewStatus -> ReviewStatus],
         sess[s].review = review, Review(s, becomes)
  PROVE  /\ review'.st \in {becomes["PENDING"], becomes[review.st]}
         /\ \/ review'.round > review.round /\ review'.st = becomes["PENDING"]
            \/ review'.round = review.round /\ review'.st = becomes[review.st]
               /\ ~StartsRound(sess[s].req.status, review)
<1>1. RecordReview(sess[s].req.status, review, becomes)
  BY DEF Review
<1>2. review \in ReviewRow
  BY DEF TypeOK
<1>. QED
  BY <1>1, <1>2 DEF RecordReview, ReviewRow

\* What a commit of the one session does: the order of the rows is kept, the link is
\* issued once, and neither a decision nor an answer is taken back.
Dispatched == req.outreach => evr'.token = evr.token
Decided ==
  review.st \in {"APPROVED", "REJECTED", "CORRECTIONS_REQUESTED"} /\ review.round > 0
    => review' = review \/ review'.round > review.round
Answered ==
  evr.resp # "PENDING" \/ evr.revoked => evr'.resp = evr.resp \/ evr'.token > evr.token
Turned == ServedInOrder' /\ Written' /\ ReviewAsks' /\ Dispatched /\ Decided /\ Answered

\* The dispatch changes the status and the link, and a link only once.
LEMMA AdvanceTurned ==
  ASSUME TypeOK, NEW s \in Sessions, NEW mailed \in BOOLEAN, NEW r \in RequestRow,
         NEW row \in RequestRow, Advance(s, r, row, mailed), r.outreach = req.outreach
  PROVE  /\ req'.status \in {"PENDING_ORGANIZATION_ACCEPTANCE",
                             "PENDING_ORGANIZATION_RESOLUTION", r.status}
         /\ req'.kind = row.kind /\ req'.approved = row.approved
         /\ claim'.st = claim.st
         /\ evr' = evr \/ (evr'.token > evr.token /\ ~req.outreach)
<1>1. claim \in ClaimRow /\ evr \in OutreachRow
  BY DEF TypeOK
<1>2. evr' = evr \/ (evr'.token > evr.token /\ ~req.outreach)
  BY <1>1 DEF Advance, AlreadySent, OutreachRow
<1>3. claim'.st = claim.st
  BY <1>1 DEF Advance, ClaimRow
<1>4. /\ req'.status \in {"PENDING_ORGANIZATION_ACCEPTANCE",
                          "PENDING_ORGANIZATION_RESOLUTION", r.status}
      /\ req'.kind = row.kind /\ req'.approved = row.approved
  BY DEF Advance, RequestRow
<1>. QED
  BY <1>2, <1>3, <1>4

\* A handler of the one session keeps the order, whichever it is.
LEMMA ActsTurned ==
  ASSUME IInv, InTurn, NEW s \in Sessions, Acts(s)
  PROVE  Turned
<1>. USE DEF children, Turned, ServedInOrder, CorrectionsMatchStatus, VerifiedTogether,
        Written, ReviewAsks, Dispatched, Decided, Answered
<1>1. /\ TypeOK /\ Current
      /\ req \in RequestRow /\ corr \in [made : Nat, open : Nat] /\ review \in ReviewRow
      /\ claim \in ClaimRow /\ evr \in OutreachRow
      /\ ServedInOrder /\ Written /\ ReviewAsks
  BY DEF IInv, TypeOK, InTurn
<1>2. sess[s] # Idle =>
        /\ sess[s].part = "review" => sess[s].req = req /\ sess[s].review = review
        /\ sess[s].part = "claim" => sess[s].claim = claim
        /\ sess[s].part = "link" => sess[s].evr = evr
        /\ sess[s].req.status = req.status
  BY <1>1, ServedRows
<1>3. ASSUME Candidate(s) PROVE Turned
  <2>1. CASE Accept(s) \/ SubmitForReview(s) \/ SubmitInformation(s)
    BY <1>1, <1>2, <2>1 DEF Accept, SubmitForReview, SubmitInformation, Serving,
       RequestRow
  <2>2. CASE UpdateVerificationContact(s) \/ AddEvidence(s)
    BY <1>1, <2>2 DEF UpdateVerificationContact, AddEvidence
  <2>3. CASE Resubmit(s)
    BY <1>1, <1>2, <2>3 DEF Resubmit, Serving, RequestRow, ResolveAll
  <2>4. CASE WithdrawByCandidate(s)
    BY <1>1, <1>2, <2>4 DEF WithdrawByCandidate, Withdrawable, CandidateWithdrawable,
       Serving, RequestRow, ClaimRow
  <2>5. CASE UpdateEmployment(s)
    BY <1>1, <1>2, <2>5 DEF UpdateEmployment, Serving, ClaimRow
  <2>6. CASE DeleteEmployment(s) \/ CancelEmployment(s) \/ SubmitEmployment(s)
    BY <1>1, <1>2, <2>6 DEF DeleteEmployment, CancelEmployment, SubmitEmployment, ClaimRow
  <2>. QED
    BY <1>3, <2>1, <2>2, <2>3, <2>4, <2>5, <2>6 DEF Candidate
<1>4. ASSUME Verifier(s) PROVE Turned
  <2>1. ASSUME Manageable(s), UNCHANGED <<children, claim, evr>>,
               NEW st \in {"IN_PROGRESS", "AWAITING_INFORMATION", "CANCELLED",
                           "PENDING_ADMIN_QUALITY_REVIEW"},
               req' = [req EXCEPT !.status = st]
        PROVE  Turned
    BY <1>1, <1>2, <2>1 DEF Manageable, Serving, OrganizationVisible, RequestRow
  <2>2. CASE OrganizationAccept(s) \/ RequestInformation(s)
    BY <2>1, <2>2 DEF OrganizationAccept, RequestInformation
  <2>3. CASE OrganizationRespond(s) \/ OrganizationCancel(s)
    BY <2>1, <2>3 DEF OrganizationRespond, OrganizationCancel
  <2>4. CASE VerifyWithoutResult(s)
    <3>1. req' = [req EXCEPT !.status = "IN_PROGRESS"]
      BY <1>1, <1>2, <2>4 DEF VerifyWithoutResult, Manageable, Serving, RequestRow
    <3>. QED
      BY <2>1, <2>4, <3>1 DEF VerifyWithoutResult
  <2>5. ASSUME NEW decision \in Responses \ {"PENDING"}, RespondPortal(s, decision)
        PROVE  Turned
    BY <1>1, <1>2, <2>5 DEF RespondPortal, Answerable, Serving, RequestRow, OutreachRow
  <2>. QED
    BY <1>4, <2>1, <2>2, <2>3, <2>4, <2>5 DEF Verifier
<1>5. ASSUME NEW becomes \in [ReviewStatus -> ReviewStatus], Review(s, becomes),
             sess[s] # Idle, sess[s].part = "review",
             \/ req.status \in AdminReviewable
             \/ \A x \in {"APPROVED", "REJECTED", "CORRECTIONS_REQUESTED"} : becomes[x] = x
      PROVE  /\ Decided
             /\ review'.st \in {becomes["PENDING"], becomes[review.st]}
  <2>1. /\ review'.st \in {becomes["PENDING"], becomes[review.st]}
        /\ \/ review'.round > review.round /\ review'.st = becomes["PENDING"]
           \/ review'.round = review.round /\ review'.st = becomes[review.st]
              /\ ~StartsRound(sess[s].req.status, review)
    BY <1>1, <1>2, <1>5, ReviewServed
  <2>2. sess[s].req.status = req.status
    BY <1>2, <1>5
  <2>3. review' \in ReviewRow
    BY <1>1, <1>2, <1>5, ReviewTyped DEF TypeOK
  <2>. QED
    BY <1>1, <1>5, <2>1, <2>2, <2>3 DEF StartsRound, AdminReviewable, PreDispatch, ReviewRow
<1>6. ASSUME Admin(s) PROVE Turned
  <2>0. \A st \in ReviewStatus : Always(st) \in [ReviewStatus -> ReviewStatus]
    BY DEF Always
  <2>1. CASE Assign(s)
    <3>1. Decided /\ review'.st = "ASSIGNED"
      BY <1>1, <1>2, <1>5, <2>0, <2>1 DEF Assign, Serving, Always, ReviewStatus, ReviewRow
    <3>. QED
      BY <1>1, <2>1, <3>1 DEF Assign
  <2>2. CASE AddNote(s)
    <3>1. /\ Noted \in [ReviewStatus -> ReviewStatus] /\ Noted["PENDING"] = "IN_REVIEW"
          /\ \A x \in {"APPROVED", "REJECTED", "CORRECTIONS_REQUESTED"} : Noted[x] = x
          /\ \A x \in ReviewStatus : Noted[x] = "CORRECTIONS_REQUESTED" => x = Noted[x]
      BY DEF Noted, ReviewStatus
    <3>2. Decided /\ review'.st \in {Noted["PENDING"], Noted[review.st]}
      BY <1>5, <2>2, <3>1 DEF AddNote, Serving
    <3>. QED
      BY <1>1, <2>2, <3>1, <3>2 DEF AddNote, ReviewRow
  <2>3. ASSUME NEW n \in Asked, NEW onContact \in BOOLEAN, RequestCorrections(s, n, onContact)
        PROVE  Turned
    <3>1. Decided
      BY <1>1, <1>2, <1>5, <2>0, <2>3 DEF RequestCorrections, Serving, ReviewStatus
    <3>2. req.status \in AdminReviewable
      BY <1>2, <2>3 DEF RequestCorrections, Serving
    <3>. QED
      BY <1>1, <2>3, <3>1, <3>2 DEF RequestCorrections, RequestRow, AdminReviewable, PreDispatch
  <2>4. ASSUME NEW decision \in ContactStatus \ {"none"}, ReviewContact(s, decision)
        PROVE  Turned
    BY <1>1, <2>4 DEF ReviewContact
  <2>5. ASSUME NEW mailed \in Deliveries, Approve(s, mailed) PROVE Turned
    <3>. DEFINE v == [req EXCEPT !.approved = TRUE,
                        !.status = "APPROVED_FOR_ORGANIZATION_VERIFICATION"]
                row == [req EXCEPT !.approved = TRUE]
    <3>1. sess[s] # Idle /\ sess[s].part = "review" /\ sess[s].req = req
      BY <1>2, <2>5 DEF Approve, Serving
    <3>2. /\ v \in RequestRow /\ row \in RequestRow /\ v.outreach = req.outreach
          /\ v.status = "APPROVED_FOR_ORGANIZATION_VERIFICATION" /\ row.kind = req.kind
      BY <1>1 DEF RequestRow, Status
    <3>3. Advance(s, v, row, mailed) /\ mailed \in BOOLEAN /\ corr' = corr
      BY <2>5, <3>1, DeliveriesAssumption DEF Approve
    <3>4. req.status \in PreDispatch /\ Review(s, Always("APPROVED"))
      BY <2>5, <3>1 DEF Approve
    <3>5. Decided /\ review'.st = "APPROVED"
      BY <1>1, <1>5, <2>0, <3>1, <3>4 DEF AdminReviewable, Always, ReviewStatus, ReviewRow
    <3>. HIDE DEF v, row
    <3>6. /\ req'.status \in {"PENDING_ORGANIZATION_ACCEPTANCE",
                              "PENDING_ORGANIZATION_RESOLUTION",
                              "APPROVED_FOR_ORGANIZATION_VERIFICATION"}
          /\ req'.kind = req.kind /\ claim'.st = claim.st
          /\ evr' = evr \/ (evr'.token > evr.token /\ ~req.outreach)
      BY <1>1, <3>2, <3>3, AdvanceTurned
    <3>. QED
      BY <1>1, <3>3, <3>4, <3>5, <3>6 DEF PreDispatch
  <2>6. ASSUME NEW mailed \in Deliveries, NEW org \in Orgs,
               \/ ResolveOrganization(s, mailed) /\ org = "existing"
               \/ CreateCanonicalOrganization(s, mailed) /\ org = "created"
        PROVE  Turned
    <3>. DEFINE v == [req EXCEPT !.org = org]
    <3>1. sess[s].req = req /\ mailed \in BOOLEAN
      BY <1>2, <2>6, DeliveriesAssumption DEF ResolveOrganization,
         CreateCanonicalOrganization, Serving
    <3>2. /\ v \in RequestRow /\ v.outreach = req.outreach /\ v.status = req.status
          /\ v.kind = req.kind
      BY <1>1 DEF RequestRow
    <3>3. UNCHANGED <<review, corr>>
      BY <2>6 DEF ResolveOrganization, CreateCanonicalOrganization
    <3>4. \/ req.status \in PostApproval /\ Advance(s, req, req, mailed)
          \/ req.status \in PostApproval /\ Advance(s, v, v, mailed)
          \/ req' = v /\ UNCHANGED <<claim, evr>>
      BY <2>6, <3>1 DEF ResolveOrganization, CreateCanonicalOrganization
    <3>. HIDE DEF v
    <3>5. CASE req.status \in PostApproval /\ (Advance(s, req, req, mailed)
                                               \/ Advance(s, v, v, mailed))
      <4>1. /\ req'.status \in {"PENDING_ORGANIZATION_ACCEPTANCE",
                                "PENDING_ORGANIZATION_RESOLUTION", req.status}
            /\ req'.kind = req.kind /\ claim'.st = claim.st
            /\ evr' = evr \/ (evr'.token > evr.token /\ ~req.outreach)
        BY <1>1, <3>1, <3>2, <3>5, AdvanceTurned
      <4>. QED
        BY <1>1, <3>3, <3>5, <4>1 DEF PostApproval
    <3>6. CASE req' = v /\ UNCHANGED <<claim, evr>>
      BY <1>1, <3>2, <3>3, <3>6
    <3>. QED
      BY <3>4, <3>5, <3>6
  <2>7. ASSUME NEW outcome \in {"REJECTED", "UNABLE_TO_VERIFY"}, ClosePreDispatch(s, outcome)
        PROVE  Turned
    <3>1. /\ sess[s] # Idle /\ sess[s].part = "review" /\ sess[s].req = req
          /\ req.status \in PreDispatch
      BY <1>2, <2>7 DEF ClosePreDispatch, Serving
    <3>2. Decided /\ review'.st = "REJECTED"
      BY <1>1, <1>5, <2>0, <2>7, <3>1 DEF ClosePreDispatch, AdminReviewable, Always,
         ReviewStatus, ReviewRow
    <3>. QED
      BY <1>1, <2>7, <3>1, <3>2 DEF ClosePreDispatch, ApplyCanonicalOutcome, PreDispatch,
         RequestRow, ClaimRow
  <2>8. ASSUME NEW outcome \in Outcomes, FinalizeRequest(s, outcome) PROVE Turned
    <3>1. /\ sess[s] # Idle /\ sess[s].part = "review" /\ sess[s].req = req
          /\ req.status = "PENDING_ADMIN_QUALITY_REVIEW" /\ req.kind = "employment"
      BY <1>2, <2>8 DEF FinalizeRequest, Serving
    <3>2. ReviewDecision(outcome) \in {"APPROVED", "REJECTED"}
      BY DEF ReviewDecision
    <3>3. Decided /\ review'.st \in {"APPROVED", "REJECTED"}
      BY <1>1, <1>5, <2>0, <2>8, <3>1, <3>2 DEF FinalizeRequest, AdminReviewable, Always,
         ReviewStatus, ReviewRow
    <3>4. req'.status = outcome /\ req'.kind = req.kind /\ claim'.st = outcome
      BY <1>1, <2>8, <3>1 DEF FinalizeRequest, ApplyCanonicalOutcome, RequestRow, ClaimRow
    <3>. QED
      BY <1>1, <2>8, <3>1, <3>3, <3>4 DEF FinalizeRequest, Outcomes
  <2>9. CASE ReturnToVerifier(s) \/ RecordClarificationResponse(s)
    BY <1>1, <1>2, <2>9 DEF ReturnToVerifier, RecordClarificationResponse, Serving,
       RequestRow
  <2>10. CASE AdminCancel(s)
    <3>1. "CANCELLED" \in ValidTransitions[req.status]
      BY <1>2, <2>10, WalksOnce DEF AdminCancel, Serving
    <3>2. req.status # "VERIFIED"
      BY <1>1, <3>1 DEF ValidTransitions, RequestRow
    <3>. QED
      BY <1>1, <2>10, <3>2 DEF AdminCancel, RequestRow
  <2>11. CASE Revoke(s)
    BY <1>1, <1>2, <2>11 DEF Revoke, OutreachRow
  <2>. QED
    BY <1>6, <2>1, <2>2, <2>3, <2>4, <2>5, <2>6, <2>7, <2>8, <2>9, <2>10, <2>11 DEF
       Admin, Orgs
<1>. QED
  BY <1>3, <1>4, <1>6 DEF Acts

\* With one session the rows keep in order, whatever is asked in whichever order.
LEMMA InTurnStep ==
  ASSUME OneAtATime
  PROVE  IInv /\ InTurn /\ [Next]_vars => InTurn' /\ (Turned \/ UNCHANGED vars)
<1>. SUFFICES ASSUME IInv, InTurn, [Next]_vars
              PROVE  InTurn' /\ (Turned \/ UNCHANGED vars)
  OBVIOUS
<1>. USE DEF children
<1>1. Current'
  BY CurrentStep DEF IInv, InTurn
<1>2. CASE UNCHANGED vars
  BY <1>1, <1>2 DEF vars, InTurn, Written, ReviewAsks, ServedInOrder,
     CorrectionsMatchStatus, VerifiedTogether
<1>3. CASE Next
  <2>1. PICK s \in Sessions :
          \/ (\E part \in Reads : Load(s, part)) \/ LoadForUpdate(s)
          \/ LoadPortalToken(s) \/ LockFormToken(s) \/ Rollback(s)
          \/ (\E half \in Halves : MakeRegistryRecord(s, half)) \/ Acts(s)
    BY <1>3, StepKinds
  <2>2. CASE Acts(s)
    BY <1>1, <2>2, ActsTurned DEF Turned, InTurn
  <2>3. CASE ~Acts(s)
    <3>1. UNCHANGED <<req, review, corr, claim, evr>>
      BY <2>1, <2>3 DEF Load, LoadForUpdate, LoadPortalToken, LockFormToken, Rollback,
         MakeRegistryRecord
    <3>. QED
      BY <1>1, <3>1 DEF InTurn, Turned, Written, ReviewAsks, ServedInOrder,
         CorrectionsMatchStatus, VerifiedTogether, Dispatched, Decided, Answered
  <2>. QED
    BY <2>2, <2>3
<1>. QED
  BY <1>2, <1>3

LEMMA InTurnInit == Init => InTurn
<1>. SUFFICES ASSUME Init PROVE InTurn
  OBVIOUS
<1>1. req.status \in {"PENDING_SUBJECT_ACCEPTANCE", "PENDING_SUBJECT_SUBMISSION"}
  BY DEF Init, NewRequest
<1>2. corr.open = 0 /\ claim.st = "DRAFT" /\ review.st = "PENDING"
  BY DEF Init, FirstDraft, NoReview
<1>3. Current
  BY DEF Init, Current
<1>. QED
  BY <1>1, <1>2, <1>3 DEF InTurn, Written, ReviewAsks, ServedInOrder,
     CorrectionsMatchStatus, VerifiedTogether

\* With one session the invariants of the rows hold in every state.
LEMMA InTurnAlways ==
  ASSUME OneAtATime
  PROVE  Spec => [](IInv /\ InTurn)
<1>1. IInv /\ InTurn /\ [Next]_vars => InTurn'
  BY InTurnStep
<1>. QED
  BY <1>1, InTurnInit, InvAlways, PTL DEF Spec

\* Served one at a time, corrections and the claim keep step with the status of the
\* request.
THEOREM ServedInOrderAlways ==
  ASSUME OneAtATime
  PROVE  Spec => []ServedInOrder
<1>1. IInv /\ InTurn => ServedInOrder
  BY DEF InTurn
<1>. QED
  BY <1>1, InTurnAlways, PTL

\* Served one at a time, a request whose outreach is recorded gets no second link.
THEOREM OneDispatch ==
  ASSUME OneAtATime
  PROVE  Spec => DispatchedOnce
<1>1. IInv /\ InTurn /\ [Next]_vars => [req.outreach => evr'.token = evr.token]_vars
  BY InTurnStep DEF Turned, Dispatched
<1>. QED
  BY <1>1, InTurnAlways, PTL DEF Spec, DispatchedOnce

\* Served one at a time, a review that decided, or asked, stays as it is.
THEOREM DecisionsStay ==
  ASSUME OneAtATime
  PROVE  Spec => DecisionsAreKept
<1>1. IInv /\ InTurn /\ [Next]_vars =>
        [review.st \in {"APPROVED", "REJECTED", "CORRECTIONS_REQUESTED"}
           /\ review.round > 0
           => review' = review \/ review'.round > review.round]_vars
  BY InTurnStep DEF Turned, Decided
<1>. QED
  BY <1>1, InTurnAlways, PTL DEF Spec, DecisionsAreKept

\* Served one at a time, an answer on a link is given once, and never on a revoked one.
THEOREM OneResponse ==
  ASSUME OneAtATime
  PROVE  Spec => ResponseGivenOnce
<1>1. IInv /\ InTurn /\ [Next]_vars =>
        [evr.resp # "PENDING" \/ evr.revoked =>
           evr'.resp = evr.resp \/ evr'.token > evr.token]_vars
  BY InTurnStep DEF Turned, Answered
<1>. QED
  BY <1>1, InTurnAlways, PTL DEF Spec, ResponseGivenOnce

-----------------------------------------------------------------------------
(* The refinement: every step of the one session is a step of the abstract  *)
(* lifecycle, or none.                                                      *)

\* The phase and the verdict each status stands for.
LEMMA PhaseTable ==
  /\ \A st \in {"PENDING_SUBJECT_ACCEPTANCE", "ACCEPTED", "PENDING_SUBJECT_SUBMISSION"} :
       PhaseOf(st) = "candidate" /\ VerdictOf(st) = "none"
  /\ \A st \in PreDispatch : PhaseOf(st) = "review" /\ VerdictOf(st) = "none"
  /\ PhaseOf("AWAITING_SUBJECT_CORRECTIONS") = "corrections"
  /\ VerdictOf("AWAITING_SUBJECT_CORRECTIONS") = "none"
  /\ \A st \in PostApproval : PhaseOf(st) = "dispatch" /\ VerdictOf(st) = "none"
  /\ \A st \in OrganizationVisible : PhaseOf(st) = "organization" /\ VerdictOf(st) = "none"
  /\ PhaseOf("PENDING_ADMIN_QUALITY_REVIEW") = "quality"
  /\ VerdictOf("PENDING_ADMIN_QUALITY_REVIEW") = "none"
  /\ \A st \in Terminal : PhaseOf(st) = "closed"
  /\ VerdictOf("VERIFIED") = "verified" /\ VerdictOf("REJECTED") = "rejected"
  /\ VerdictOf("UNABLE_TO_VERIFY") = "unable_to_verify"
  /\ VerdictOf("CANCELLED") = "cancelled"
  /\ VerdictOf("WITHDRAWN_BY_CANDIDATE") = "withdrawn"
BY DEF PhaseOf, VerdictOf, PreDispatch, PostApproval, OrganizationVisible, Terminal

\* A status from which a request can be cancelled has an open phase.
LEMMA CancelPhase ==
  ASSUME NEW st \in Status, "CANCELLED" \in ValidTransitions[st], st # "DRAFT"
  PROVE  PhaseOf(st) \in {"candidate", "review", "corrections", "dispatch",
                          "organization", "quality"}
BY DEF ValidTransitions, Status, PhaseOf, PreDispatch, PostApproval, OrganizationVisible

\* The dispatch: it releases a request that is approved with it, or moves one that was.
LEMMA ActsRefine ==
  ASSUME IInv, InTurn, NEW s \in Sessions, Acts(s)
  PROVE  [Lifecycle!Next]_(Lifecycle!lifecycle)
<1>. DEFINE Step == [Lifecycle!Next]_(Lifecycle!lifecycle)
<1>. USE DEF Lifecycle!Next, Lifecycle!lifecycle
<1>1. /\ TypeOK /\ Current /\ Recorded
      /\ req \in RequestRow /\ req.status # "DRAFT"
  BY DEF IInv, TypeOK, InTurn, Written
<1>2. sess[s] # Idle =>
        /\ sess[s].part = "review" => sess[s].req = req
        /\ sess[s].req.status = req.status
  BY <1>1, ServedRows
<1>3. ASSUME req'.status = req.status, req'.approved = req.approved PROVE Step
  BY <1>3
<1>4. ASSUME NEW st \in Status, req' = [req EXCEPT !.status = st]
      PROVE  req'.status = st /\ req'.approved = req.approved
  BY <1>1, <1>4 DEF RequestRow
<1>5. ASSUME req' = [req EXCEPT !.status = "CANCELLED"],
             PhaseOf(req.status) \in {"candidate", "review", "corrections", "dispatch",
                                      "organization", "quality"}
      PROVE  Step
  BY <1>4, <1>5, PhaseTable DEF Lifecycle!Cancel, Lifecycle!Close, Lifecycle!Phases,
     Terminal, Status
<1>6. ASSUME NEW st \in OrganizationVisible, req.status \in OrganizationVisible,
             req' = [req EXCEPT !.status = st]
      PROVE  Step
  <2>1. st \in Status
    BY DEF Status, OrganizationVisible
  <2>. QED
    BY <1>4, <1>6, <2>1, PhaseTable
<1>7. ASSUME Candidate(s) PROVE Step
  <2>1. CASE Accept(s)
    <3>1. /\ req.status = "PENDING_SUBJECT_ACCEPTANCE"
          /\ req'.status = "ACCEPTED" /\ req'.approved = req.approved
      BY <1>1, <1>2, <2>1 DEF Accept, Serving, RequestRow
    <3>. QED
      BY <3>1, PhaseTable
  <2>2. CASE SubmitForReview(s)
    <3>1. /\ req.status \in {"ACCEPTED", "PENDING_SUBJECT_SUBMISSION"}
          /\ req'.status = "PENDING_ADMIN_REVIEW" /\ req'.approved = req.approved
      BY <1>1, <1>2, <2>2 DEF SubmitForReview, Serving, RequestRow
    <3>. QED
      BY <3>1, PhaseTable DEF PreDispatch, Lifecycle!Submit, Lifecycle!Move
  <2>3. CASE Resubmit(s)
    <3>1. /\ req.status = "AWAITING_SUBJECT_CORRECTIONS"
          /\ req'.status = "PENDING_ADMIN_RE_REVIEW" /\ req'.approved = req.approved
      BY <1>1, <1>2, <2>3 DEF Resubmit, Serving, RequestRow
    <3>. QED
      BY <3>1, PhaseTable DEF PreDispatch, Lifecycle!Resubmit, Lifecycle!Move
  <2>4. CASE WithdrawByCandidate(s)
    <3>1. /\ req.status \in PreDispatch /\ ~req.approved
          /\ req'.status = "WITHDRAWN_BY_CANDIDATE" /\ req'.approved = req.approved
      BY <1>1, <1>2, <2>4 DEF WithdrawByCandidate, Withdrawable, CandidateWithdrawable,
         PreDispatch, Serving, RequestRow
    <3>. QED
      BY <3>1, PhaseTable DEF Terminal, Lifecycle!Withdraw, Lifecycle!Close
  <2>5. CASE SubmitInformation(s)
    <3>1. /\ req.status = "AWAITING_INFORMATION"
          /\ req'.status = "IN_PROGRESS" /\ req'.approved = req.approved
      BY <1>1, <1>2, <2>5 DEF SubmitInformation, Serving, RequestRow
    <3>. QED
      BY <3>1, PhaseTable DEF OrganizationVisible
  <2>6. CASE \/ UpdateVerificationContact(s) \/ AddEvidence(s) \/ UpdateEmployment(s)
             \/ DeleteEmployment(s) \/ CancelEmployment(s) \/ SubmitEmployment(s)
    BY <1>3, <2>6 DEF UpdateVerificationContact, AddEvidence, UpdateEmployment,
       DeleteEmployment, CancelEmployment, SubmitEmployment
  <2>. QED
    BY <1>7, <2>1, <2>2, <2>3, <2>4, <2>5, <2>6 DEF Candidate
<1>8. ASSUME Verifier(s) PROVE Step
  <2>1. CASE OrganizationAccept(s) \/ RequestInformation(s)
    BY <1>2, <1>6, <2>1 DEF OrganizationAccept, RequestInformation, Manageable, Serving,
       OrganizationVisible
  <2>2. CASE VerifyWithoutResult(s)
    <3>1. /\ req.status \in OrganizationVisible
          /\ req' = [req EXCEPT !.status = "IN_PROGRESS"]
      BY <1>1, <1>2, <2>2 DEF VerifyWithoutResult, Manageable, Serving, RequestRow
    <3>. QED
      BY <1>6, <3>1 DEF OrganizationVisible
  <2>3. CASE OrganizationRespond(s)
    <3>1. /\ req.status \in OrganizationVisible
          /\ req'.status = "PENDING_ADMIN_QUALITY_REVIEW" /\ req'.approved = req.approved
      BY <1>1, <1>2, <2>3 DEF OrganizationRespond, Manageable, Serving, RequestRow
    <3>. QED
      BY <3>1, PhaseTable DEF Lifecycle!Respond, Lifecycle!Move
  <2>4. CASE OrganizationCancel(s)
    <3>1. req.status \in OrganizationVisible
      BY <1>2, <2>4 DEF OrganizationCancel, Manageable, Serving
    <3>. QED
      BY <1>5, <2>4, <3>1, PhaseTable DEF OrganizationCancel
  <2>5. ASSUME NEW decision \in Responses \ {"PENDING"}, RespondPortal(s, decision)
        PROVE  Step
    <3>1. /\ req.status = "PENDING_ORGANIZATION_ACCEPTANCE"
          /\ req'.status \in {"AWAITING_INFORMATION", "PENDING_ADMIN_QUALITY_REVIEW"}
          /\ req'.approved = req.approved
      BY <1>1, <1>2, <2>5 DEF RespondPortal, Serving, RequestRow
    <3>. QED
      BY <3>1, PhaseTable DEF OrganizationVisible, Lifecycle!Respond, Lifecycle!Move
  <2>. QED
    BY <1>8, <2>1, <2>2, <2>3, <2>4, <2>5 DEF Verifier
<1>9. ASSUME Admin(s) PROVE Step
  <2>1. CASE \/ Assign(s) \/ AddNote(s) \/ Revoke(s)
             \/ \E decision \in ContactStatus \ {"none"} : ReviewContact(s, decision)
    BY <1>3, <2>1 DEF Assign, AddNote, Revoke, ReviewContact
  <2>2. ASSUME NEW n \in Asked, NEW onContact \in BOOLEAN, RequestCorrections(s, n, onContact)
        PROVE  Step
    <3>1. /\ req.status \in PreDispatch \cup {"PENDING_ADMIN_QUALITY_REVIEW"}
          /\ req'.status = "AWAITING_SUBJECT_CORRECTIONS" /\ req'.approved = req.approved
      BY <1>1, <1>2, <2>2 DEF RequestCorrections, AdminReviewable, Serving, RequestRow
    <3>. QED
      BY <3>1, PhaseTable DEF Lifecycle!AskForCorrections, Lifecycle!Move
  <2>3. ASSUME NEW mailed \in Deliveries, Approve(s, mailed) PROVE Step
    <3>. DEFINE v == [req EXCEPT !.approved = TRUE,
                        !.status = "APPROVED_FOR_ORGANIZATION_VERIFICATION"]
                row == [req EXCEPT !.approved = TRUE]
    <3>1. /\ req.status \in PreDispatch /\ mailed \in BOOLEAN
          /\ Advance(s, v, row, mailed)
      BY <1>2, <2>3, DeliveriesAssumption DEF Approve, Serving
    <3>2. /\ v \in RequestRow /\ row \in RequestRow /\ v.outreach = req.outreach
          /\ v.status = "APPROVED_FOR_ORGANIZATION_VERIFICATION" /\ row.approved = TRUE
      BY <1>1 DEF RequestRow, Status
    <3>. HIDE DEF v, row
    <3>3. /\ req'.status \in PostApproval \cup OrganizationVisible /\ req'.approved = TRUE
      BY <1>1, <3>1, <3>2, AdvanceTurned DEF PostApproval, OrganizationVisible
    <3>4. /\ PhaseOf(req.status) = "review" /\ VerdictOf(req.status) = "none"
          /\ PhaseOf(req'.status) \in {"dispatch", "organization"}
          /\ VerdictOf(req'.status) = "none"
      BY <3>1, <3>3, PhaseTable
    <3>. QED
      BY <3>3, <3>4 DEF Lifecycle!Release
  <2>4. ASSUME NEW mailed \in Deliveries, NEW org \in Orgs,
               \/ ResolveOrganization(s, mailed) /\ org = "existing"
               \/ CreateCanonicalOrganization(s, mailed) /\ org = "created"
        PROVE  Step
    <3>. DEFINE v == [req EXCEPT !.org = org]
    <3>1. sess[s].req = req /\ mailed \in BOOLEAN
      BY <1>2, <2>4, DeliveriesAssumption DEF ResolveOrganization,
         CreateCanonicalOrganization, Serving
    <3>2. /\ v \in RequestRow /\ v.outreach = req.outreach /\ v.status = req.status
          /\ v.approved = req.approved
      BY <1>1 DEF RequestRow
    <3>3. \/ req.status \in PostApproval /\ Advance(s, req, req, mailed)
          \/ req.status \in PostApproval /\ Advance(s, v, v, mailed)
          \/ req' = v
      BY <2>4, <3>1 DEF ResolveOrganization, CreateCanonicalOrganization
    <3>. HIDE DEF v
    <3>4. CASE req.status \in PostApproval /\ (Advance(s, req, req, mailed)
                                               \/ Advance(s, v, v, mailed))
      <4>1. /\ req'.status \in PostApproval \cup OrganizationVisible
            /\ req'.approved = req.approved
        BY <1>1, <3>1, <3>2, <3>4, AdvanceTurned DEF PostApproval, OrganizationVisible
      <4>2. /\ PhaseOf(req.status) = "dispatch" /\ VerdictOf(req.status) = "none"
            /\ PhaseOf(req'.status) \in {"dispatch", "organization"}
            /\ VerdictOf(req'.status) = "none"
        BY <3>4, <4>1, PhaseTable
      <4>. QED
        BY <4>1, <4>2 DEF Lifecycle!Dispatch, Lifecycle!Move
    <3>5. CASE req' = v
      BY <1>3, <3>2, <3>5
    <3>. QED
      BY <3>3, <3>4, <3>5
  <2>5. ASSUME NEW outcome \in {"REJECTED", "UNABLE_TO_VERIFY"}, ClosePreDispatch(s, outcome)
        PROVE  Step
    <3>1. /\ req.status \in PreDispatch /\ outcome \in ValidTransitions[req.status]
          /\ req'.status = outcome /\ req'.approved = req.approved
      BY <1>1, <1>2, <2>5, WalksOnce DEF ClosePreDispatch, Serving, RequestRow
    <3>2. outcome = "REJECTED"
      BY <3>1 DEF ValidTransitions, PreDispatch, Status
    <3>. QED
      BY <3>1, <3>2, PhaseTable DEF Terminal, Lifecycle!Reject, Lifecycle!Close
  <2>6. ASSUME NEW outcome \in Outcomes, FinalizeRequest(s, outcome) PROVE Step
    <3>1. /\ req.status = "PENDING_ADMIN_QUALITY_REVIEW"
          /\ req'.status = outcome /\ req'.approved = req.approved
      BY <1>1, <1>2, <2>6 DEF FinalizeRequest, Serving, RequestRow
    <3>2. req.approved
      BY <1>1, <3>1 DEF Recorded, PostDispatch
    <3>. QED
      BY <3>1, <3>2, PhaseTable DEF Outcomes, Terminal, Lifecycle!Finalize, Lifecycle!Close
  <2>7. CASE ReturnToVerifier(s)
    <3>1. /\ req.status = "PENDING_ADMIN_QUALITY_REVIEW"
          /\ req'.status = "IN_PROGRESS" /\ req'.approved = req.approved
      BY <1>1, <1>2, <2>7 DEF ReturnToVerifier, Serving, RequestRow
    <3>. QED
      BY <3>1, PhaseTable DEF OrganizationVisible, Lifecycle!ReturnToVerifier,
         Lifecycle!Move
  <2>8. CASE AdminCancel(s)
    <3>1. "CANCELLED" \in ValidTransitions[req.status] /\ req.status \in Status
      BY <1>1, <1>2, <2>8, WalksOnce DEF AdminCancel, Serving, RequestRow
    <3>. QED
      BY <1>1, <1>5, <2>8, <3>1, CancelPhase DEF AdminCancel
  <2>9. CASE RecordClarificationResponse(s)
    <3>1. /\ req.status = "AWAITING_INFORMATION"
          /\ req'.status = "IN_PROGRESS" /\ req'.approved = req.approved
      BY <1>1, <1>2, <2>9 DEF RecordClarificationResponse, Serving, RequestRow
    <3>. QED
      BY <3>1, PhaseTable DEF OrganizationVisible
  <2>. QED
    BY <1>9, <2>1, <2>2, <2>3, <2>4, <2>5, <2>6, <2>7, <2>8, <2>9 DEF Admin, Orgs
<1>. QED
  BY <1>7, <1>8, <1>9 DEF Acts

\* Served one at a time, a request goes through the abstract lifecycle: submitted,
\* reviewed, released once approved, answered, and closed with a verdict that stays.
THEOREM Refinement ==
  ASSUME OneAtATime
  PROVE  Spec => ImplementsLifecycle
<1>1. Init => Lifecycle!Init
  <2>. SUFFICES ASSUME Init PROVE Lifecycle!Init
    OBVIOUS
  <2>1. req.status \in {"PENDING_SUBJECT_ACCEPTANCE", "PENDING_SUBJECT_SUBMISSION"}
    BY DEF Init, NewRequest
  <2>2. req.approved = FALSE
    BY DEF Init, NewRequest
  <2>. QED
    BY <2>1, <2>2, PhaseTable DEF Lifecycle!Init
<1>2. IInv /\ InTurn /\ [Next]_vars => [Lifecycle!Next]_(Lifecycle!lifecycle)
  <2>. SUFFICES ASSUME IInv, InTurn, [Next]_vars
                PROVE  [Lifecycle!Next]_(Lifecycle!lifecycle)
    OBVIOUS
  <2>1. CASE req' = req
    BY <2>1 DEF Lifecycle!lifecycle
  <2>2. CASE req' # req
    <3>1. Next
      BY <2>2 DEF vars
    <3>2. PICK s \in Sessions :
            \/ (\E part \in Reads : Load(s, part)) \/ LoadForUpdate(s)
            \/ LoadPortalToken(s) \/ LockFormToken(s) \/ Rollback(s)
            \/ (\E half \in Halves : MakeRegistryRecord(s, half)) \/ Acts(s)
      BY <3>1, StepKinds
    <3>3. Acts(s)
      BY <2>2, <3>2 DEF Load, LoadForUpdate, LoadPortalToken, LockFormToken, Rollback,
         MakeRegistryRecord
    <3>. QED
      BY <3>3, ActsRefine
  <2>. QED
    BY <2>1, <2>2
<1>. QED
  BY <1>1, <1>2, InTurnAlways, PTL DEF Spec, ImplementsLifecycle, Lifecycle!Spec
=============================================================================
