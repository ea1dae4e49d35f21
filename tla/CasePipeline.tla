------------------------------ MODULE CasePipeline ------------------------------
(* Employment cases a candidate proves with documents: their upload in two       *)
(* steps, their submission, and the reviewers' decisions. A call reads and       *)
(* checks in one step and commits in another; only submission locks the case in  *)
(* between, and a commit on a locked case waits. A refused call is not a step.   *)
EXTENDS Naturals, FiniteSets

CONSTANTS None,
          Employers, Dates,     \* what a case claims
          Cases, Files,         \* rows: bounds on the cases and documents made
          Names, Digests,       \* names and contents of documents
          Calls                 \* calls, numbered in the order they begin
ASSUME CallsAssumption == Calls \subseteq Nat \ {0}

VARIABLES cases,     \* employments
          files,     \* employment documents with their stored objects
          call,
          raced,     \* ghost: cases two calls were about at once
          rushed,    \* ghost: pairs of cases whose last submissions were under way at once
          lost       \* ghost: documents whose removal crashed after their object went
pipelineVars == <<cases, files, call, raced, rushed, lost>>
ghosts == <<raced, rushed, lost>>

Status == {"draft", "submitted", "under_review", "additional_info_requested", "verified",
           "approved", "rejected", "unable_to_verify", "cancelled"}
AdminTargets(s) == CASE s = "submitted" -> {"under_review"}
                     [] s = "under_review" -> {"approved", "rejected", "additional_info_requested"}
                     [] OTHER -> {}
ApplicantTargets(s) == CASE s = "draft" -> {"submitted", "cancelled"}
                         [] s = "additional_info_requested" -> {"submitted"}
                         [] s = "submitted" -> {"cancelled"}
                         [] OTHER -> {}
Attachable == {"draft", "submitted", "additional_info_requested"}
Reviewable == {"submitted", "under_review", "additional_info_requested"}
Pipeline == {"submitted", "under_review"}
Decided == {"approved", "rejected"}

\* request: of the newest verification request about the case, whether it is still open or
\* was rejected; what becomes of it in between is in VerificationRequest.
Case == [there: BOOLEAN, method: {"document", "employer_confirmation"}, status: Status,
         employer: Employers \cup {None}, dates: Dates \cup {None}, request: {"none", "open", "rejected"}]
NoCase == [there |-> FALSE, method |-> "document", status |-> "draft",
           employer |-> None, dates |-> None, request |-> "none"]
\* digest is None until the upload is completed; late: a ghost, completed after the decision.
File == [case: Cases \cup {None}, name: Names \cup {None}, digest: Digests \cup {None},
         status: {"pending_upload", "pending_review", "approved", "rejected"},
         there: BOOLEAN, object: BOOLEAN, late: BOOLEAN]
NoFile == [case |-> None, name |-> None, digest |-> None, status |-> "pending_upload",
           there |-> FALSE, object |-> FALSE, late |-> FALSE]

\* on: the row a call is about; view: that row as read; arg: what it was asked for.
Call(pc, case, on, view, arg) == [pc |-> pc, case |-> case, on |-> on, view |-> view, arg |-> arg]
Blank == Call("idle", None, None, None, None)
Over == Call("done", None, None, None, None)
Flying == {c \in Calls : call[c].pc \notin {"idle", "done"}}
Turn(c) == call[c].pc = "idle" /\ \A d \in Calls : d < c => call[d].pc # "idle"
Finish(c) == call' = [call EXCEPT ![c] = Over]

Overlapped(y) == {x \in Cases : x = y /\ \E d \in Flying : call[d].case = x}
\* Whoever submits a case has found no other with the reviewers: its earlier pairs are over.
TogetherWith(x) == {pair \in rushed : x \notin pair}
                 \cup {{x, call[d].case} : d \in {e \in Flying : call[e].pc = "submit"}}
Begin(c, k) ==
  /\ call' = [call EXCEPT ![c] = k]
  /\ raced' = raced \cup Overlapped(k.case)
  /\ rushed' = IF k.pc = "submit" THEN TogetherWith(k.case) ELSE rushed
  /\ UNCHANGED lost
Locked(x) == \E d \in Flying : call[d].pc = "submit" /\ call[d].case = x

Active == {x \in Cases : cases[x].there}
FreeCases == {x \in Cases : cases[x] = NoCase}
FilesOf(x) == {f \in Files : files[f].there /\ files[f].case = x}
Completed(x) == {f \in FilesOf(x) : files[f].digest # None}

(* ---- the candidate's cases: EmploymentService ---- *)
NewCase(e, d, m) == [NoCase EXCEPT !.there = TRUE, !.method = m, !.employer = e, !.dates = d]
AddCase(c) ==
  \E x \in FreeCases, e \in Employers, d \in Dates, m \in {"document", "employer_confirmation"} :
    /\ cases' = [cases EXCEPT ![x] = NewCase(e, d, m)]
    /\ Finish(c)
    /\ UNCHANGED <<files, ghosts>>

\* After a rejection of the case, or of the newest request about it, an edit starts over.
StartsOver(row) == row.status = "rejected" \/ row.request = "rejected"
UpdateCase(c) ==
  \E x \in Active, d \in Dates :
    /\ cases[x].status \in {"draft", "additional_info_requested"} \/ StartsOver(cases[x])
    /\ Begin(c, Call("update", x, x, cases[x], d))
    /\ UNCHANGED <<cases, files>>
CommitUpdate(c) ==
  LET k == call[c] IN
  /\ k.pc = "update" /\ ~Locked(k.case)
  /\ cases' = [cases EXCEPT ![k.case].dates = IF k.arg # k.view.dates THEN k.arg ELSE @,
                            ![k.case].status = IF StartsOver(k.view) /\ k.view.status # "draft"
                                              THEN "draft" ELSE @]
  /\ Finish(c)
  /\ UNCHANGED <<files, ghosts>>

DeleteCase(c) ==
  \E x \in Active :
    /\ cases[x].status \in {"draft", "additional_info_requested"}
    /\ Begin(c, Call("delete", x, x, cases[x], None))
    /\ UNCHANGED <<cases, files>>
CommitDelete(c) ==
  LET k == call[c] IN
  /\ k.pc = "delete" /\ ~Locked(k.case)
  /\ cases' = [cases EXCEPT ![k.case].there = FALSE]
  /\ files' = [f \in Files |-> [files[f] EXCEPT !.there = @ /\ files[f].case # k.case]]
  /\ Finish(c)
  /\ UNCHANGED ghosts

InPipeline(x) == {y \in Active \ {x} : cases[y].status \in Pipeline}
SubmitCase(c) ==
  \E x \in Active :
    /\ ~Locked(x) /\ "submitted" \in ApplicantTargets(cases[x].status)
    /\ InPipeline(x) = {}
    /\ cases[x].status = "draft" => cases[x].method = "document" /\ Completed(x) # {}
    /\ Begin(c, Call("submit", x, x, cases[x], "submitted"))
    /\ UNCHANGED <<cases, files>>
CancelCase(c) ==
  \E x \in Active :
    /\ "cancelled" \in ApplicantTargets(cases[x].status)
    /\ Begin(c, Call("status", x, x, cases[x], "cancelled"))
    /\ UNCHANGED <<cases, files>>

(* ---- the verification requests about a case, from its own side ---- *)
\* Made under the row lock of the case, which the step takes and lets go.
RequestMade(c) ==
  \E x \in Active :
    /\ cases[x].request # "open" /\ ~Locked(x)
    /\ cases' = [cases EXCEPT ![x].request = "open"]
    /\ Finish(c)
    /\ UNCHANGED <<files, ghosts>>
\* An administrator's decision is the case's status too, whatever it was; what the candidate
\* withdraws or an organization cancels leaves the case as it is.
RequestClosed(c) ==
  \E x \in Active, outcome \in {"none", "verified", "rejected", "unable_to_verify"} :
    /\ cases[x].request = "open" /\ outcome # "none" => ~Locked(x)
    /\ cases' = [cases EXCEPT ![x].request = IF outcome = "rejected" THEN "rejected" ELSE "none",
                              ![x].status = IF outcome = "none" THEN @ ELSE outcome]
    /\ raced' = IF outcome = "none" THEN raced ELSE raced \cup Overlapped(x)
    /\ Finish(c)
    /\ UNCHANGED <<files, rushed, lost>>

(* ---- its documents: DocumentUploadService ---- *)
CreateUploadIntent(c) ==
  \E x \in Active, n \in Names :
    /\ cases[x].method = "document" /\ cases[x].status \in Attachable
    /\ ~\E f \in FilesOf(x) : files[f].digest = None /\ files[f].name = n
    /\ Begin(c, Call("intent", x, None, None, n))
    /\ UNCHANGED <<cases, files>>
CommitIntent(c) ==
  LET k == call[c] IN
  \E f \in Files :
    /\ k.pc = "intent" /\ files[f] = NoFile
    /\ files' = [files EXCEPT ![f] = [NoFile EXCEPT !.case = k.case, !.name = k.arg, !.there = TRUE]]
    /\ Finish(c)
    /\ UNCHANGED <<cases, ghosts>>
\* The client puts the object at the signed address, which outlives the row.
PutObject ==
  \E f \in Files :
    /\ files[f] # NoFile /\ files[f].digest = None /\ ~files[f].object
    /\ files' = [files EXCEPT ![f].object = TRUE]
    /\ UNCHANGED <<cases, call, ghosts>>

Stored(f) == files[f].object
Copies(x, f, h) == {g \in Completed(x) \ {f} : files[g].digest = h}
CompleteUpload(c) ==
  \E x \in Active, h \in Digests : \E f \in FilesOf(x) :
    /\ files[f].digest = None /\ Copies(x, f, h) = {} /\ Stored(f)
    /\ Begin(c, Call("complete", x, f, files[f], h))
    /\ UNCHANGED <<cases, files>>
CommitComplete(c) ==
  LET k == call[c] IN
  /\ k.pc = "complete"
  /\ files' = [files EXCEPT ![k.on].digest = k.arg, ![k.on].status = "pending_review",
                            ![k.on].late = cases[k.case].status = "approved"]
  /\ Finish(c)
  /\ UNCHANGED <<cases, ghosts>>

RemoveFile(c) ==
  \E x \in Active : \E f \in FilesOf(x) :
    /\ cases[x].status \in Attachable
    /\ Begin(c, Call(IF files[f].digest = None THEN "erased" ELSE "remove", x, f, files[f], None))
    /\ UNCHANGED <<cases, files>>
EraseObject(c) ==
  /\ call[c].pc = "remove"
  /\ \E kept \in BOOLEAN :   \* best effort
       files' = [files EXCEPT ![call[c].on].object = @ /\ kept]
  /\ call' = [call EXCEPT ![c].pc = "erased"]
  /\ UNCHANGED <<cases, ghosts>>
CommitRemove(c) ==
  /\ call[c].pc = "erased"
  /\ files' = [files EXCEPT ![call[c].on].there = FALSE]
  /\ Finish(c)
  /\ UNCHANGED <<cases, ghosts>>

(* ---- the reviewers: AdminReviewService ---- *)
\* Mutant: documents nobody looked at are passed over.
NoneRejected(x) == Completed(x) # {} /\ \A f \in Completed(x) : files[f].status # "rejected"
AllApproved(x) == Completed(x) # {} /\ \A f \in Completed(x) : files[f].status = "approved"
Transition(c) ==
  \E x \in Active : \E s \in AdminTargets(cases[x].status) :
    /\ (s = "approved" /\ cases[x].method = "document") => AllApproved(x)
    /\ Begin(c, Call("status", x, x, cases[x], s))
    /\ UNCHANGED <<cases, files>>
\* Mutant: the field of the reviewer is taken for the status.
Reviewer == "reviewer"
Started == "under_review"
AssignReview(c) ==
  \E x \in Active :
    /\ cases[x].status = "submitted"   \* later on only the assignee changes
    /\ Begin(c, Call("status", x, x, cases[x], Started))
    /\ UNCHANGED <<cases, files>>
CommitStatus(c) ==
  LET k == call[c] IN
  /\ k.pc = "submit" \/ (k.pc = "status" /\ ~Locked(k.case))
  /\ cases' = [cases EXCEPT ![k.case].status = k.arg]
  /\ Finish(c)
  /\ UNCHANGED <<files, ghosts>>

ReviewFile(c) ==
  \E x \in Active, s \in {"approved", "rejected"} : \E f \in Completed(x) :
    /\ cases[x].method = "document" /\ cases[x].status \in Reviewable
    /\ Begin(c, Call("review", x, f, files[f], s))
    /\ UNCHANGED <<cases, files>>
CommitReview(c) ==
  LET k == call[c] IN
  /\ k.pc = "review"
  /\ files' = [files EXCEPT ![k.on].status = k.arg]
  /\ Finish(c)
  /\ UNCHANGED <<cases, ghosts>>

\* The process stops, or the session rolls back.
Crash(c) ==
  /\ c \in Flying
  /\ lost' = lost \cup {f \in Files : call[c].pc = "erased" /\ call[c].on = f}
  /\ Finish(c)
  /\ UNCHANGED <<cases, files, raced, rushed>>

PipelineNext ==
  \/ \E c \in Calls :
       \/ Turn(c) /\ (\/ AddCase(c) \/ UpdateCase(c) \/ DeleteCase(c) \/ SubmitCase(c)
                      \/ CancelCase(c) \/ CreateUploadIntent(c) \/ CompleteUpload(c)
                      \/ RemoveFile(c) \/ Transition(c) \/ AssignReview(c) \/ ReviewFile(c)
                      \/ RequestMade(c) \/ RequestClosed(c))
       \/ CommitUpdate(c) \/ CommitDelete(c) \/ CommitIntent(c) \/ CommitComplete(c)
       \/ EraseObject(c) \/ CommitRemove(c) \/ CommitStatus(c) \/ CommitReview(c)
  \/ PutObject

(* ---- what is shown: VerificationService, VerificationQueueService ---- *)
Readiness(x) == [documents |-> Cardinality(FilesOf(x)),
                 can_submit |-> cases[x].status \in {"draft", "additional_info_requested"},
                 clear |-> InPipeline(x) = {}]
PendingVerifications == {x \in Active : cases[x].status \in Pipeline}

\* An approved case has documents, and each was approved, but for uploads completed after the decision: the reviewer decides on all documents at once (admin_verification_service.py:88-121), documents cannot be removed or reviewed again afterwards, unless two calls on the case overlapped.
ApprovedOnEvidence ==
  \A x \in Active \ raced : cases[x].status = "approved" /\ cases[x].method = "document" =>
    /\ \E f \in Completed(x) : files[f].status = "approved"
    /\ \A f \in Completed(x) : files[f].late \/ files[f].status = "approved"

\* A candidate has one case with the reviewers at a time (employment_service.py:269-330), also after corrections, withdrawals and edits that start over, but for two whose last submissions overlapped, and unless two calls on a case did.
OnePipelineCase ==
  \A x, y \in PendingVerifications \ raced : x = y \/ {x, y} \in rushed

\* However submissions overlap, a candidate has one case with the reviewers at a time: what employment_service.py:283-285 says the row lock is for.
OneCaseWithReviewers == Cardinality(PendingVerifications \ raced) <= 1

Erased(f) == \E c \in Flying : call[c].pc = "erased" /\ call[c].on = f
\* A completed document has its stored object as long as it is listed (document_upload_service.py:149-260): it was found before completion, and removing it takes the row along, unless a crash came between.
EvidenceStored ==
  \A f \in Files \ lost : files[f].there /\ files[f].digest # None => files[f].object \/ Erased(f)

\* A case has no two documents with one content (document_upload_service.py:168-186), unless two calls on the case overlapped: contents are compared without a lock.
UniqueEvidence ==
  \A x \in Active \ raced : \A f, g \in Completed(x) : files[f].digest = files[g].digest => f = g
================================================================================
