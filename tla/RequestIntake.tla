------------------------------ MODULE RequestIntake ------------------------------
(* The ways a verification request comes about: a candidate's draft for one of   *)
(* his claims, which locks the claim; an organization's request, from one of its *)
(* invitations or without; a candidate's request to an organization; and the     *)
(* subject's acceptance. Each resolves the person in its own transaction, and    *)
(* fails with it. What becomes of an open request is module VerificationRequest's.*)
EXTENDS TrustInvitations

CONSTANTS Requests, Claims     \* rows: bounds on the requests made, numbered, and on the claims
ASSUME RequestsAssumption == Requests \subseteq Nat /\ IsFiniteSet(Requests) /\ None \notin Claims

VARIABLE requests              \* verification_requests
intakeVars == <<requests>>

Request == [there: BOOLEAN, status: {"pending_subject_acceptance", "pending_subject_submission",
                                     "verified", "rejected"},
            claim: Claims \cup {None}, invite: Invites \cup {None}, org: BOOLEAN,
            user: Users \cup {None}, email: Emails \cup {None}, person: Persons \cup {None}]
NoRequest == [there |-> FALSE, status |-> "pending_subject_submission", claim |-> None, invite |-> None,
              org |-> FALSE, user |-> None, email |-> None, person |-> None]

OpenRequest(r) == r.there /\ r.status \in {"pending_subject_acceptance", "pending_subject_submission"}
Free == Foremost({r \in Requests : requests[r] = NoRequest})
NewRequest(u, e, status, org) ==
  [NoRequest EXCEPT !.there = TRUE, !.user = u, !.email = e, !.status = status, !.org = org]
PhoneOfSubject(u) == IF u = None THEN None ELSE PhoneOf[u]
\* resolve_for_verification_request: no claim is tied to an organization yet.
Applicant(v) == Who(v.person, v.user, v.email, PhoneOfSubject(v.user), "candidate")
Resolving(c, pc, r, v, p) ==
  /\ call' = [call EXCEPT ![c] = Linking(pc, r, v, None, Resolution(Applicant(v), p))]
  /\ Meeting(c, p)
  /\ IF p = None THEN UNCHANGED byPhone ELSE Finding(Applicant(v), p)
  /\ UNCHANGED <<inviteVars, persons, ids, requests>>

(* ---- drafts for a claim ---- *)
ActiveFor(x) == {r \in Requests : OpenRequest(requests[r]) /\ requests[r].claim = x}
Unlocked(x) == ~\E d \in Flying : call[d].pc = "draft" /\ call[d].view.claim = x
DraftRequest(c) ==
  \E x \in Claims, u \in Users :
    /\ Unlocked(x) /\ ActiveFor(x) = {}
    /\ call' = [call EXCEPT ![c] =
         Call("draft", None, [NewRequest(u, EmailOf[u], "pending_subject_submission", FALSE)
                                EXCEPT !.claim = x], None)]
    /\ UNCHANGED <<inviteVars, persons, ids, met, byPhone, requests>>

(* ---- requests of and to an organization ---- *)
\* The accepter of the invitation, or the verified account with the address, if there is one.
SubjectsOf(e) == {None} \cup {u \in Users : EmailOf[u] = e}
FromInvitation(c) ==
  \E i \in Invites :
    /\ invites[i].there /\ ~invites[i].cancelled /\ ~invites[i].lapsed
    /\ \E u \in IF invites[i].by # None THEN {invites[i].by} ELSE SubjectsOf(invites[i].email) :
         LET v == [NewRequest(u, invites[i].email,
                              IF invites[i].by # None THEN "pending_subject_submission"
                              ELSE "pending_subject_acceptance", TRUE)
                     EXCEPT !.invite = i, !.person = invites[i].person]
         IN \E p \in Found(Applicant(v)) : Resolving(c, "request", None, v, p)
CreateRequest(c) ==
  \E e \in Emails : \E u \in SubjectsOf(e) :
    LET v == NewRequest(u, e, "pending_subject_acceptance", TRUE)
    IN \E p \in Found(Applicant(v)) : Resolving(c, "request", None, v, p)
SubjectRequest(c) ==
  \E u \in Users :
    LET v == NewRequest(u, EmailOf[u], "pending_subject_submission", TRUE)
    IN \E p \in Found(Applicant(v)) : Resolving(c, "request", None, v, p)

CommitDraft(c) ==
  LET k == call[c] IN
  /\ k.pc = "draft"
  /\ \E r \in Free : requests' = [requests EXCEPT ![r] = k.view]
  /\ Finish(c)
  /\ UNCHANGED <<inviteVars, persons, ids, met, byPhone>>
CommitRequest(c) ==
  LET k == call[c] IN
  /\ k.pc = "request"
  /\ \E p \in Rows(k.link), r \in Free :
       /\ ~Refused(k.link, p)
       /\ Resolve(k.link, p)
       \* an invitation deleted meanwhile has no row to refer to
       /\ k.view.invite # None => invites[k.view.invite].there
       /\ requests' = [requests EXCEPT ![r] = [k.view EXCEPT !.person = p]]
  /\ Finish(c)
  /\ UNCHANGED <<inviteVars, met, byPhone>>

(* ---- acceptance ---- *)
IsSubject(r, u) == requests[r].user = u \/ requests[r].email = EmailOf[u]
AcceptRequest(c) ==
  \E r \in Requests, u \in Users :
    /\ requests[r].there /\ requests[r].status = "pending_subject_acceptance" /\ IsSubject(r, u)
    /\ LET v == [requests[r] EXCEPT !.user = IF @ = None THEN u ELSE @]
       IN \E p \in Found(Applicant(v)) : Resolving(c, "consent", r, v, p)
CommitConsent(c) ==
  LET k == call[c] IN
  /\ k.pc = "consent"
  /\ \E p \in Rows(k.link) :
       /\ ~Refused(k.link, p)
       /\ Resolve(k.link, p)
       /\ requests' = [requests EXCEPT ![k.on].status = "pending_subject_submission",
                                       ![k.on].user = k.view.user, ![k.on].person = p]
  /\ Finish(c)
  /\ UNCHANGED <<inviteVars, met, byPhone>>
\* A unique key, or the deleted invitation, stops the transaction.
Fails(c) ==
  LET k == call[c] IN
  /\ k.pc \in {"request", "consent"}
  /\ \/ \A p \in Rows(k.link) : Refused(k.link, p)
     \/ k.pc = "request" /\ k.view.invite # None /\ ~invites[k.view.invite].there
  /\ Finish(c)
  /\ UNCHANGED <<inviteVars, persons, ids, met, byPhone, requests>>

\* What module VerificationRequest decides.
Decide ==
  \E r \in Requests, s \in {"verified", "rejected"} :
    /\ requests[r].there /\ requests[r].status = "pending_subject_submission"
    /\ requests' = [requests EXCEPT ![r].status = s]
    /\ UNCHANGED <<inviteVars, persons, ids, call, met, byPhone>>

\* Deleting an invitation sets the reference of its requests to null.
Unreferenced == [r \in Requests |->
  [requests[r] EXCEPT !.invite = IF @ # None /\ ~invites'[@].there THEN None ELSE @]]

(* ---- the people directory of the organization ---- *)
InvitationsOf(p) == {i \in Invites : invites[i].there /\ invites[i].person = p}
RequestsOf(p) == {r \in Requests : requests[r].there /\ requests[r].person = p}
InvitationSummary(v) ==
  CASE v.status = "pending" /\ v.opened -> "opened" [] v.status = "pending" /\ ~v.opened -> "sent" [] OTHER -> v.status
VerificationSummary(v) ==
  CASE v.status = "verified" -> "completed" [] v.status = "rejected" -> "unable_to_verify" [] OTHER -> "waiting_for_candidate"
\* The latest by its last activity: any of them, at one time or another.
InvitationStatuses(p) ==
  IF InvitationsOf(p) = {} THEN {"not_invited"} ELSE {InvitationSummary(invites[i]) : i \in InvitationsOf(p)}
VerificationStatuses(p) ==
  IF RequestsOf(p) = {} THEN {"not_started"} ELSE {VerificationSummary(requests[r]) : r \in RequestsOf(p)}
\* Nothing gives an organization access to the passport of one of its people.
PassportStatus(p) == "not_shared"
ActiveVerification == {"waiting_for_candidate", "in_verification", "clarification_required"}
TrustState(invitation, verification, passport) ==
  IF passport = "access_revoked" THEN "revoked"
  ELSE IF verification = "completed" THEN "verified"
  ELSE IF passport # "not_shared" \/ invitation = "accepted" THEN "partially_verified"
  ELSE IF invitation \in {"draft", "sent", "opened"} \/ verification \in ActiveVerification THEN "pending"
  ELSE "unknown"
DirectoryItem(p, invitation, verification) ==
  [invitation |-> invitation, verification |-> verification,
   trust |-> TrustState(invitation, verification, PassportStatus(p)),
   invitations |-> Cardinality(InvitationsOf(p)), requests |-> Cardinality(RequestsOf(p))]
DirectoryItems(p) == {DirectoryItem(p, i, v) : i \in InvitationStatuses(p), v \in VerificationStatuses(p)}
\* The list filtered by trust state, as it may be read; and what the page of a person counts.
Directory == {p \in Persons : persons[p].there}
ListedAs(trust) == {p \in Directory : \E x \in DirectoryItems(p) : x.trust = trust}
SurelyListedAs(trust) == {p \in Directory : \A x \in DirectoryItems(p) : x.trust = trust}
VerificationCounts(p) ==
  LET in(S) == Cardinality({r \in RequestsOf(p) : VerificationSummary(requests[r]) \in S}) IN
  [total |-> Cardinality(RequestsOf(p)), completed |-> in({"completed"}), active |-> in(ActiveVerification)]

IntakeNext ==
  \/ \E c \in Calls :
       \/ Turn(c) /\ (\/ DraftRequest(c) \/ FromInvitation(c) \/ CreateRequest(c)
                      \/ SubjectRequest(c) \/ AcceptRequest(c))
       \/ CommitDraft(c) \/ CommitRequest(c) \/ CommitConsent(c) \/ Fails(c)
  \/ Decide

\* A claim has one open request at a time (verification_request_service.py:176-182, 284-290), however many drafts are asked for at once.
OneOpenRequestPerClaim == \A x \in Claims : Cardinality(ActiveFor(x)) <= 1

\* Whatever was resolved with one e-mail address belongs to one person (ORGANIZATION_PERSON_REGISTRY.md "canonical"; organization_person_service.py:372-480): invitations and requests, resolved in whichever order, at once, or after one of them failed.
OnePersonPerAddress ==
  LET resolved == {<<invites[i].email, invites[i].person>> : i \in {j \in Invites : invites[j].person # None}}
                  \cup {<<requests[r].email, requests[r].person>> : r \in {q \in Requests : requests[q].person # None}}
  IN \A x, y \in resolved : x[1] = y[1] => x[2] = y[2]

\* The directory of an organization shows all of what it asked for (organization_person_service.py:119-187, 539-627 and 924-974). A request to or of the organization is found with one person, who has its address; who is listed as verified has a completed request, and nobody with an active request drops out as unknown. And whoever is counted as having accepted is linked to the account that accepted, unless the person was found by a number or by two calls at once, or the call is under way, was cut short or overlapped another.
DirectoryShows ==
  /\ \A r \in Requests : requests[r].there /\ requests[r].org =>
       \E p \in Directory : /\ r \in RequestsOf(p) /\ <<p, requests[r].email>> \in ids
                            /\ \A q \in Directory \ {p} : r \notin RequestsOf(q)
  /\ \A p \in SurelyListedAs("verified") : VerificationCounts(p).completed > 0
  /\ \A p \in ListedAs("unknown") : VerificationCounts(p).active < VerificationCounts(p).total \/ VerificationCounts(p).total = 0
  /\ \A i \in Invites \ (raced \cup cut) :
       LET p == invites[i].person IN
       /\ invites[i].by # None /\ p # None
       /\ p \notin met \cup byPhone /\ About(i) = {}
       => persons[p].user = invites[i].by
================================================================================
