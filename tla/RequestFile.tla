------------------------------- MODULE RequestFile -------------------------------
(* What is in the file of a verification request, and what each reader is shown   *)
(* of it: the evidence, the candidate's consent, the claim as it was when it was  *)
(* submitted, the timeline, and the organization's own notes. Decisions are in    *)
(* VerificationRequest and EducationVerification; here the status just moves.     *)
EXTENDS EducationVerification

CONSTANTS Items,    \* evidence rows, numbered in the order they are made
          Scopes,   \* what evidence is of: its type or its field
          Staff     \* members of the organization
ASSUME ItemsAssumption == Items \subseteq Nat

VARIABLES dossiers,  \* verification requests
          items,     \* verification_request_evidence
          given,     \* ghost: what the candidate submitted
          doubled    \* ghost: requests on whose evidence or claim two calls overlapped
fileVars == <<dossiers, items, given, doubled>>

\* What is about a claim: a case, with its dates, or an education record, with its version.
Claims == Cases \cup Studies
Live(x) == IF x \in Cases THEN cases[x].dates ELSE studies[x].version
There(x) == IF x \in Cases THEN cases[x].there ELSE studies[x].there
Versions == Dates \cup (1..MaxEdits)
Event == {"moved", "edited", "assigned", "noted", "hurried", "urged", "remarked", "opened"}
\* fields: the claim is consented to; log: the kinds of events recorded.
Dossier == [of: Claims \cup {None}, status: Workflow!Status, consented: BOOLEAN, fields: BOOLEAN,
            scopes: SUBSET Scopes, snapshot: Versions \cup {None}, assignee: Staff \cup {None},
            note: BOOLEAN, urgent: BOOLEAN, log: SUBSET Event, opened: BOOLEAN]
NoDossier == [of |-> None, status |-> "DRAFT", consented |-> FALSE, fields |-> FALSE, scopes |-> {},
              snapshot |-> None, assignee |-> None, note |-> FALSE, urgent |-> FALSE, log |-> {},
              opened |-> FALSE]
\* file: an employment or an education document; paper: an identity document.
Exhibit == [of: Requests \cup {None}, scope: Scopes \cup {None}, file: Files \cup {"transcript", None},
         paper: Papers \cup {None}]
NoExhibit == [of |-> None, scope |-> None, file |-> None, paper |-> None]
Given == [scopes: SUBSET Scopes, fields: BOOLEAN, version: Versions \cup {None}]
NothingGiven == [scopes |-> {}, fields |-> FALSE, version |-> None]

Opened == {v \in Requests : dossiers[v].of # None}
Evidence(v) == {i \in Items : items[i].of = v}
Editable(v) == v \in Opened /\ dossiers[v].status \in Workflow!SubjectEditable
ClaimFiles(x) == IF x \in Cases THEN Completed(x)
                 ELSE {t \in {"transcript"} : studies[x].transcript = "complete"}
Logged(row, e) == [row EXCEPT !.log = row.log \cup {e}]
Log(v, e) == [dossiers EXCEPT ![v] = Logged(dossiers[v], e)]
Met(v) == {w \in {v} : \E d \in Flying : call[d].on = v \/ call[d].case = dossiers[v].of}
OnFile(c, h, v, view, arg) ==
  /\ call' = [call EXCEPT ![c] = Call(h, dossiers[v].of, v, view, arg)]
  /\ doubled' = doubled \cup Met(v)
  /\ UNCHANGED <<dossiers, items, given>>

(* ---- the candidate ---- *)
\* A document of the claim is attached once; an identity document that is attached already is answered as it is.
Referred(v, d) == IF d.file # None THEN \E i \in Evidence(v) : items[i].file = d.file
                  ELSE \E i \in Evidence(v) : items[i].paper = d.paper
References(v) == [file: ClaimFiles(dossiers[v].of), paper: {None}] \cup [file: {None}, paper: Current]
AddEvidence(c) ==
  \E v \in Requests, s \in Scopes :
    /\ Editable(v)
    /\ \E d \in References(v) :
         /\ ~Referred(v, d)
         /\ OnFile(c, "exhibit", v, None, [scope |-> s, doc |-> d])
CommitEvidence(c) ==
  LET k == call[c] IN
  /\ k.pc = "exhibit"
  /\ \E i \in Items :
       /\ items[i] = NoExhibit /\ \A j \in Items : j < i => items[j] # NoExhibit
       /\ items' = [items EXCEPT ![i] = [of |-> k.on, scope |-> k.arg.scope, file |-> k.arg.doc.file,
                                         paper |-> k.arg.doc.paper]]
  /\ dossiers' = Log(k.on, "edited")
  /\ Finish(c)
  /\ UNCHANGED <<given, doubled>>
\* The scope, a document, or both; whether an identity document is attached elsewhere is not asked.
UpdateEvidence(c) ==
  \E v \in Requests :
    /\ Editable(v)
    /\ \E i \in Evidence(v), s \in Scopes, d \in References(v) \cup {None} :
         /\ d # None /\ d.file # None => \A j \in Evidence(v) \ {i} : items[j].file # d.file
         /\ [items[i] EXCEPT !.scope = s] # items[i] \/ d # None
         /\ OnFile(c, "amend", v, items[i], [row |-> i, scope |-> s, doc |-> d])
\* Only the columns that differ from the row as read are written.
Amended(k, r) ==
  IF k.arg.doc = None THEN [r EXCEPT !.scope = k.arg.scope]
  ELSE [r EXCEPT !.scope = k.arg.scope, !.file = IF k.arg.doc.file # k.view.file THEN k.arg.doc.file ELSE r.file,
                 !.paper = IF k.arg.doc.paper # k.view.paper THEN k.arg.doc.paper ELSE r.paper]
CommitAmendment(c) ==
  LET k == call[c] IN
  /\ k.pc = "amend"
  /\ items' = [items EXCEPT ![k.arg.row] = Amended(k, items[k.arg.row])]
  /\ dossiers' = Log(k.on, "edited")
  /\ Finish(c)
  /\ UNCHANGED <<given, doubled>>

\* With evidence, of which one is a document of the claim; the consent names fields or scopes.
SendForReview(c) ==
  \E v \in Opened, f \in BOOLEAN, S \in SUBSET Scopes :
    /\ dossiers[v].status = "PENDING_SUBJECT_SUBMISSION"
    /\ \E i \in Evidence(v) : items[i].file # None
    /\ f \/ S # {}
    /\ There(dossiers[v].of)
    /\ OnFile(c, "consent", v, dossiers[v], [scopes |-> S, fields |-> f, version |-> Live(dossiers[v].of)])
CommitConsent(c) ==
  LET k == call[c] IN
  /\ k.pc = "consent"
  /\ dossiers' = [Log(k.on, "moved") EXCEPT ![k.on].status = "PENDING_ADMIN_REVIEW",
       ![k.on].consented = TRUE, ![k.on].fields = k.arg.fields, ![k.on].scopes = k.arg.scopes,
       ![k.on].snapshot = k.arg.version]
  /\ given' = [given EXCEPT ![k.on] = [k.arg EXCEPT !.version = Live(k.case)]]
  /\ Finish(c)
  /\ UNCHANGED <<items, doubled>>
\* Neither the consent nor the snapshot is taken anew.
SendAgain(v) == dossiers[v].status = "AWAITING_SUBJECT_CORRECTIONS"

(* ---- the other moves of the request: administrators, the organization, answers ---- *)
Consented(v) == dossiers[v].consented /\ (dossiers[v].fields \/ dossiers[v].scopes # {})
Passed(v) ==
  LET s == dossiers[v].status IN
  CASE s \in Workflow!PreDispatch ->
         {"AWAITING_SUBJECT_CORRECTIONS"} \cup {t \in {"PENDING_ORGANIZATION_ACCEPTANCE"} : Consented(v)}
    [] SendAgain(v) -> {"PENDING_ADMIN_RE_REVIEW"}
    [] s \in {"PENDING_ORGANIZATION_ACCEPTANCE", "AWAITING_INFORMATION"} -> {"IN_PROGRESS"}
    [] s = "IN_PROGRESS" -> {"AWAITING_INFORMATION", "PENDING_ADMIN_QUALITY_REVIEW"}
    [] s = "PENDING_ADMIN_QUALITY_REVIEW" -> {"IN_PROGRESS", "AWAITING_SUBJECT_CORRECTIONS", "VERIFIED"}
    [] OTHER -> {}
Moves(c) ==
  \E v \in Opened : \E t \in Passed(v) :
    /\ dossiers' = [Log(v, "moved") EXCEPT ![v].status = t]
    /\ Finish(c)
    /\ UNCHANGED <<items, given, doubled>>

(* ---- what is the organization's, or the administrators', own ---- *)
Within(v) == v \in Opened /\ dossiers[v].status \in Workflow!OrganizationVisible
Put(c, v, e, row) ==
  /\ dossiers' = [dossiers EXCEPT ![v] = Logged(row, e)]
  /\ Finish(c)
  /\ UNCHANGED <<items, given, doubled>>
AssignReviewer(c) ==
  \E v \in Requests, p \in Staff \cup {None} :
    Within(v) /\ Put(c, v, "assigned", [dossiers[v] EXCEPT !.assignee = p])
UpdateInternalNote(c) ==
  \E v \in Requests, n \in BOOLEAN : Within(v) /\ Put(c, v, "noted", [dossiers[v] EXCEPT !.note = n])
\* An institution does so in any open status; an administrator also once it is withdrawn.
ChangePriority(c) ==
  \E v \in Opened, u \in BOOLEAN :
    \/ /\ dossiers[v].of \in Studies /\ dossiers[v].status \notin Workflow!Terminal
       /\ Put(c, v, "hurried", [dossiers[v] EXCEPT !.urgent = u])
    \/ /\ dossiers[v].status \notin Workflow!Terminal \ {"WITHDRAWN_BY_CANDIDATE", "UNABLE_TO_VERIFY"}
       /\ Put(c, v, "urged", [dossiers[v] EXCEPT !.urgent = u])
AdminRemark(c) ==
  \E v \in Opened : dossiers[v].status \notin Workflow!Terminal /\ Put(c, v, "remarked", dossiers[v])
\* The employer opens its link for the first time.
OpenPortal ==
  \E v \in Requests :
    /\ Within(v) /\ dossiers[v].of \in Cases /\ ~dossiers[v].opened
    /\ dossiers' = [Log(v, "opened") EXCEPT ![v].opened = TRUE]
    /\ UNCHANGED <<items, given, doubled, call>>

(* ---- what is shown ---- *)
Snapshot(v) == IF dossiers[v].snapshot # None THEN dossiers[v].snapshot ELSE Live(dossiers[v].of)
\* To the organization's members, by the request's own page.
ClaimToOrganization(v) == IF dossiers[v].fields THEN Snapshot(v) ELSE None
EvidenceToOrganization(v) == {i \in Evidence(v) : items[i].scope \in dossiers[v].scopes}
\* To the candidate: all of it but what the organization keeps to itself.
Private == {"assigned", "noted", "hurried"}
TimelineToOrganization(v) == dossiers[v].log \ {"remarked"}
TimelineToCandidate(v) == dossiers[v].log \ (Private \cup {"remarked"})
ToCandidate(v) == <<dossiers[v].status, Snapshot(v), {items[i] : i \in Evidence(v)}, TimelineToCandidate(v)>>
\* To the employer, by its link.
TimelineToEmployer(v) == dossiers[v].log \ {"noted", "remarked"}
ToOrganization(v) == <<dossiers[v].status, dossiers[v].assignee, dossiers[v].note, ClaimToOrganization(v),
                       {items[i] : i \in EvidenceToOrganization(v)}, TimelineToOrganization(v)>>

EditClaim(c) ==
  /\ \/ UpdateCase(c) /\ UNCHANGED studyVars
     \/ EditStudy(c) /\ UNCHANGED <<cases, files, ghosts>>
  /\ doubled' = doubled \cup {v \in Opened : call'[c].case = dossiers[v].of /\ Met(v) # {}}
  /\ UNCHANGED <<dossiers, items, given>>
CommitClaim(c) ==
  /\ \/ CommitUpdate(c) /\ UNCHANGED studyVars
     \/ CommitEdit(c) /\ UNCHANGED <<cases, files, ghosts>>
  /\ UNCHANGED fileVars

FileNext ==
  \/ \E c \in Calls :
       Turn(c) /\ Cardinality(Flying) < AtATime
         /\ (\/ /\ (\/ AddEvidence(c) \/ UpdateEvidence(c) \/ SendForReview(c) \/ Moves(c)
                    \/ AssignReviewer(c) \/ UpdateInternalNote(c) \/ ChangePriority(c) \/ AdminRemark(c))
                /\ UNCHANGED <<cases, files, ghosts, studyVars>>
             \/ EditClaim(c))
  \/ \E c \in Calls : CommitClaim(c)
  \/ /\ \/ \E c \in Calls : CommitEvidence(c) \/ CommitAmendment(c) \/ CommitConsent(c)
        \/ OpenPortal
     /\ UNCHANGED <<cases, files, ghosts, studyVars>>

\* What an organization is shown of a request is what the candidate submitted: no other version of the claim, nothing of a scope it did not name, whatever is edited or attached in rounds of corrections (verification_request_service.py:1668-1945), unless two calls on the request or its claim overlapped.
ShownAsGiven ==
  \A v \in Opened \ doubled : dossiers[v].status \in Workflow!OrganizationVisible =>
    /\ dossiers[v].consented
    /\ ClaimToOrganization(v) = IF given[v].fields THEN given[v].version ELSE None
    /\ \A i \in EvidenceToOrganization(v) : items[i].scope \in given[v].scopes

\* A document of the claim is evidence of a request once, and an item of evidence is one document at most (verification_request_service.py:787-854, 1568-1611), unless two calls on the request overlapped.
AttachedOnce ==
  \A i, j \in Items : items[i].of # None /\ items[i].of \notin doubled =>
    /\ items[i].file = None \/ items[i].paper = None
    /\ i # j /\ items[i].of = items[j].of => items[i].file = None \/ items[i].file # items[j].file

\* What the organization assigns or notes for itself changes nothing the candidate sees, and an administrator's internal remark nothing that either sees (verification_request_service.py:91-99, 1239-1242).
PrivateStays ==
  [][\A v \in Opened :
       /\ \/ dossiers'[v].assignee # dossiers[v].assignee
          \/ dossiers'[v].note # dossiers[v].note
          => ToCandidate(v)' = ToCandidate(v)
       /\ dossiers'[v].log \ dossiers[v].log = {"remarked"}
          => ToCandidate(v)' = ToCandidate(v) /\ ToOrganization(v)' = ToOrganization(v)]_dossiers
================================================================================
