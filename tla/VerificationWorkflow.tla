------------------------ MODULE VerificationWorkflow ------------------------
(***************************************************************************)
(* The transition table of VerificationRequestWorkflowService and the      *)
(* status sets the services test.  Constant level only: no variable.       *)
(***************************************************************************)
EXTENDS Integers, Sequences

\* DRAFT and EXPIRED are in the table, but no service under app/ ever writes them.
Status == {"DRAFT", "PENDING_SUBJECT_ACCEPTANCE", "ACCEPTED",
           "PENDING_SUBJECT_SUBMISSION", "PENDING_ADMIN_REVIEW",
           "AWAITING_SUBJECT_CORRECTIONS", "PENDING_ADMIN_RE_REVIEW",
           "APPROVED_FOR_ORGANIZATION_VERIFICATION",
           "PENDING_ORGANIZATION_RESOLUTION", "PENDING_ORGANIZATION_ACCEPTANCE",
           "IN_PROGRESS", "AWAITING_INFORMATION", "PENDING_ADMIN_QUALITY_REVIEW",
           "VERIFIED", "REJECTED", "UNABLE_TO_VERIFY", "CANCELLED",
           "WITHDRAWN_BY_CANDIDATE", "EXPIRED"}

\* A set of statuses for each status: where transition() may go from it.
ValidTransitions ==
  [x \in Status |->
    CASE x = "DRAFT" ->
           {"PENDING_SUBJECT_ACCEPTANCE", "PENDING_SUBJECT_SUBMISSION", "CANCELLED"}
      [] x = "PENDING_SUBJECT_ACCEPTANCE" ->
           {"ACCEPTED", "REJECTED", "CANCELLED", "EXPIRED"}
      [] x = "ACCEPTED" ->
           {"PENDING_SUBJECT_SUBMISSION", "PENDING_ADMIN_REVIEW",
            "PENDING_ORGANIZATION_ACCEPTANCE", "IN_PROGRESS", "CANCELLED"}
      [] x = "PENDING_SUBJECT_SUBMISSION" -> {"PENDING_ADMIN_REVIEW", "CANCELLED"}
      [] x \in {"PENDING_ADMIN_REVIEW", "PENDING_ADMIN_RE_REVIEW"} ->
           {"AWAITING_SUBJECT_CORRECTIONS", "APPROVED_FOR_ORGANIZATION_VERIFICATION",
            "REJECTED", "CANCELLED", "WITHDRAWN_BY_CANDIDATE"}
      [] x = "AWAITING_SUBJECT_CORRECTIONS" ->
           {"PENDING_ADMIN_RE_REVIEW", "CANCELLED", "EXPIRED"}
      [] x = "APPROVED_FOR_ORGANIZATION_VERIFICATION" ->
           {"PENDING_ORGANIZATION_RESOLUTION", "PENDING_ORGANIZATION_ACCEPTANCE",
            "CANCELLED"}
      [] x = "PENDING_ORGANIZATION_RESOLUTION" ->
           {"PENDING_ORGANIZATION_ACCEPTANCE", "REJECTED", "CANCELLED"}
      [] x = "PENDING_ORGANIZATION_ACCEPTANCE" ->
           {"IN_PROGRESS", "REJECTED", "EXPIRED", "CANCELLED"}
      [] x = "IN_PROGRESS" ->
           {"AWAITING_INFORMATION", "PENDING_ADMIN_QUALITY_REVIEW", "CANCELLED"}
      [] x = "AWAITING_INFORMATION" -> {"IN_PROGRESS", "CANCELLED"}
      [] x = "PENDING_ADMIN_QUALITY_REVIEW" ->
           {"AWAITING_SUBJECT_CORRECTIONS", "IN_PROGRESS", "VERIFIED", "REJECTED",
            "UNABLE_TO_VERIFY", "CANCELLED"}
      [] OTHER -> {}]

Terminal == {"VERIFIED", "REJECTED", "UNABLE_TO_VERIFY", "CANCELLED",
             "WITHDRAWN_BY_CANDIDATE", "EXPIRED"}

\* transition() called once for each further element of path, from path[1].
Walks(path) ==
  \A i \in 1..(Len(path) - 1) : path[i + 1] \in ValidTransitions[path[i]]

SubjectEditable == {"ACCEPTED", "PENDING_SUBJECT_SUBMISSION",
                    "AWAITING_SUBJECT_CORRECTIONS", "AWAITING_INFORMATION"}

CandidateWithdrawable == {"PENDING_ADMIN_REVIEW", "PENDING_ADMIN_RE_REVIEW"}

OrganizationVisibleEarly == {"PENDING_ADMIN_REVIEW", "IN_PROGRESS",
                             "PENDING_ORGANIZATION_ACCEPTANCE", "AWAITING_INFORMATION"}
OrganizationVisible == {"PENDING_ORGANIZATION_ACCEPTANCE", "IN_PROGRESS",
                        "AWAITING_INFORMATION"}

PreDispatch == {"PENDING_ADMIN_REVIEW", "PENDING_ADMIN_RE_REVIEW"}

PostApproval == {"PENDING_ORGANIZATION_RESOLUTION",
                 "APPROVED_FOR_ORGANIZATION_VERIFICATION"}

AdminReviewable == PreDispatch \cup {"PENDING_ADMIN_QUALITY_REVIEW"}
=============================================================================
