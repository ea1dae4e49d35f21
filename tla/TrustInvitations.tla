----------------------------- MODULE TrustInvitations -----------------------------
(* Trust invitations of an organization: drafted, sent, opened and accepted by    *)
(* the invited, cancelled or deleted by members, expired by whoever looks at them *)
(* too late. No call locks the row: it is read in one step and written in         *)
(* another. The link to the registry of people is a transaction of its own, tried *)
(* after creation and after acceptance, and dropped when it fails.                *)
EXTENDS PeopleRegistry

CONSTANTS Invites          \* rows, numbered too: a bound on the invitations made
ASSUME InvitesAssumption == Invites \subseteq Nat /\ None # "pending"

VARIABLES invites,         \* trust_invitations
          mails,           \* notifications under way for each invitation
          raced,           \* ghost: invitations two calls were about at once
          cut              \* ghost: invitations a call about was cut short
inviteVars == <<invites, mails, raced, cut>>

\* lapsed: its deadline has passed; by: who accepted it, and that it was.
Invite == [there: BOOLEAN, status: {"draft", "pending", "accepted", "cancelled", "expired"},
           email: Emails \cup {None}, phone: Phones \cup {None}, lapsed: BOOLEAN,
           opened: BOOLEAN, by: Users \cup {None}, cancelled: BOOLEAN,
           delivery: {"queued", "delivered", "failed"}, person: Persons \cup {None}]
NoInvite == [there |-> FALSE, status |-> "draft", email |-> None, phone |-> None, lapsed |-> FALSE,
             opened |-> FALSE, by |-> None, cancelled |-> FALSE, delivery |-> "queued", person |-> None]

About(i) == {c \in Flying : call[c].on = i}
BeginOn(c, i, pc, arg) ==
  /\ call' = [call EXCEPT ![c] = Call(pc, i, invites[i], arg)]
  /\ raced' = raced \cup {j \in Invites : j = i /\ About(j) # {}}
  /\ UNCHANGED <<invites, mails, cut, persons, ids, met, byPhone>>
Enter(c, pc, view) == call' = [call EXCEPT ![c] = Call(pc, call[c].on, view, call[c].arg)]
OnlyInvites == UNCHANGED <<raced, cut, persons, ids, met, byPhone>>

Live(v) == v.status \in {"draft", "pending"}
\* _expire_if_needed: whoever reads a live invitation after its deadline expires it.
Lapsed(v) == v.lapsed /\ Live(v)
Open(v) == Live(v) /\ v.by = None /\ ~v.cancelled

(* ---- creation ---- *)
NewInvite(e, t, mode) == [NoInvite EXCEPT !.there = TRUE, !.email = e, !.phone = t,
                                          !.status = IF mode = "draft" THEN "draft" ELSE "pending"]
CreateInvitation(c) ==
  \E i \in Foremost({j \in Invites : invites[j] = NoInvite}), e \in Emails,
     t \in Phones \cup {None}, mode \in {"draft", "send"} :
    /\ invites' = [invites EXCEPT ![i] = NewInvite(e, t, mode)]
    /\ call' = [call EXCEPT ![c] = Call("sync", i, NewInvite(e, t, mode), mode)]
    /\ OnlyInvites /\ UNCHANGED mails

(* ---- the link to the registry: _sync_person_link_best_effort ---- *)
Invited(v) == Who(v.person, v.by, v.email, v.phone,
                  IF v.by # None THEN "candidate" ELSE "future_employee")
Sync(c) ==
  LET k == call[c] IN
  /\ k.pc = "sync"
  /\ \/ /\ ~invites[k.on].there
        /\ Finish(c) /\ UNCHANGED <<met, byPhone>>
     \/ /\ invites[k.on].there
        /\ \E p \in Found(Invited(k.view)) :
             /\ call' = [call EXCEPT ![c] = Linking("link", k.on, k.view, k.arg, Resolution(Invited(k.view), p))]
             /\ Meeting(c, p)
             /\ IF p = None THEN UNCHANGED byPhone ELSE Finding(Invited(k.view), p)
  /\ UNCHANGED <<inviteVars, persons, ids>>

\* The invitation's row is written only when its person changes, and must then be there.
Writable(k, p) == invites[k.on].there \/ k.view.person = p
AfterLink(k) == IF k.arg = "send" THEN "deliver" ELSE "done"
CommitSync(c) ==
  LET k == call[c] IN
  /\ k.pc = "link"
  /\ \E p \in Rows(k.link) :
       /\ ~Refused(k.link, p) /\ Writable(k, p)
       /\ Resolve(k.link, p)
       /\ invites' = [invites EXCEPT ![k.on].person = IF k.view.person # p THEN p ELSE @]
       /\ Enter(c, AfterLink(k), [k.view EXCEPT !.person = p])
  /\ UNCHANGED <<mails, raced, cut, met, byPhone>>
\* The unique key of another resolution, or the row's deletion, comes first: rolled back and logged.
SyncFails(c) ==
  LET k == call[c] IN
  /\ k.pc = "link"
  /\ \A p \in Rows(k.link) : Refused(k.link, p) \/ ~Writable(k, p)
  /\ Enter(c, IF invites[k.on].there THEN AfterLink(k) ELSE "done", invites[k.on])
  /\ UNCHANGED <<inviteVars, persons, ids, met, byPhone>>

(* ---- sending ---- *)
\* Mutant: any live invitation can be sent.
AnyLive(v) == Live(v) \/ v.status = "accepted"
Sendable(v) == v.status = "draft"
SendInvitation(c) ==
  \E i \in Invites :
    /\ invites[i].there /\ ~Lapsed(invites[i]) /\ Sendable(invites[i])
    /\ BeginOn(c, i, "deliver", "pending")
Resend(c) ==
  \E i \in Invites :
    /\ invites[i].there /\ ~Lapsed(invites[i]) /\ invites[i].status \in {"pending", "accepted"}
    /\ BeginOn(c, i, "deliver", None)
\* The notification is made and published, or the failure is recorded.
Deliver(c) ==
  LET k == call[c] IN
  /\ k.pc = "deliver" /\ invites[k.on].there
  /\ \E result \in {"queued", "failed"} :
       /\ invites' = [invites EXCEPT ![k.on].status = IF k.arg = "pending" THEN "pending" ELSE @,
                                     ![k.on].delivery = IF k.view.delivery # result THEN result ELSE @]
       /\ mails' = [mails EXCEPT ![k.on] = @ + IF result = "queued" THEN 1 ELSE 0]
  /\ Finish(c) /\ OnlyInvites
AfterFailure(now) == IF now = "delivered" THEN now ELSE "failed"
\* The worker's outcome: EmailSendJobHandler._reconcile_trust_invitation.
Reconcile ==
  \E i \in Invites, sent \in BOOLEAN :
    /\ mails[i] > 0
    /\ mails' = [mails EXCEPT ![i] = @ - 1]
    /\ invites' = [invites EXCEPT ![i].delivery =
                     IF ~invites[i].there THEN @ ELSE IF sent THEN "delivered" ELSE AfterFailure(@)]
    /\ OnlyInvites /\ UNCHANGED call

(* ---- the invited ---- *)
OpenInvitation(c) ==
  \E i \in Invites :
    /\ invites[i].there /\ ~Lapsed(invites[i]) /\ Open(invites[i]) /\ ~invites[i].opened
    /\ BeginOn(c, i, "open", None)
\* Mutant: whoever has the token accepts.
Bearer(i, u) == TRUE
Addressee(i, u) == EmailOf[u] = invites[i].email
Accept(c) ==
  \E u \in Users, i \in Invites :
    /\ invites[i].there /\ ~Lapsed(invites[i]) /\ Open(invites[i])
    /\ Addressee(i, u)
    /\ BeginOn(c, i, "accept", u)
\* Accepted before: only the link is tried again.
AcceptAgain(c) ==
  \E i \in Invites :
    /\ invites[i].there /\ invites[i].status = "accepted" /\ invites[i].by # None
    /\ BeginOn(c, i, "sync", None)
Accepted(v, u) == [v EXCEPT !.status = "accepted", !.by = u, !.opened = TRUE]
CommitAccept(c) ==
  LET k == call[c] IN
  /\ k.pc = "accept" /\ invites[k.on].there
  /\ invites' = [invites EXCEPT ![k.on] = Accepted(@, k.arg)]
  /\ Enter(c, "sync", Accepted(k.view, k.arg))
  /\ OnlyInvites /\ UNCHANGED mails

(* ---- the members ---- *)
CancelInvitation(c) ==
  \E i \in Invites :
    /\ invites[i].there /\ ~Lapsed(invites[i]) /\ Live(invites[i])
    /\ BeginOn(c, i, "cancel", None)
DeleteInvitation(c) ==
  \E i \in Invites :
    /\ invites[i].there /\ invites[i].status = "draft"
    /\ BeginOn(c, i, "delete", None)
\* A call of any kind reads the invitation after its deadline, and only expires it.
NoticeLapse(c) ==
  \E i \in Invites :
    /\ invites[i].there /\ Lapsed(invites[i])
    /\ BeginOn(c, i, "expire", None)
Written(k) ==
  CASE k.pc = "open" -> [invites[k.on] EXCEPT !.opened = TRUE]
    [] k.pc = "cancel" -> [invites[k.on] EXCEPT !.status = "cancelled", !.cancelled = TRUE]
    [] k.pc = "expire" -> [invites[k.on] EXCEPT !.status = "expired"]
CommitWrite(c) ==
  LET k == call[c] IN
  /\ k.pc \in {"open", "cancel", "expire"} /\ invites[k.on].there
  /\ invites' = [invites EXCEPT ![k.on] = Written(k)]
  /\ Finish(c) /\ OnlyInvites /\ UNCHANGED mails
CommitDeleteInvitation(c) ==
  LET k == call[c] IN
  /\ k.pc = "delete" /\ invites[k.on].there
  /\ invites' = [invites EXCEPT ![k.on] = [NoInvite EXCEPT !.email = invites[k.on].email]]   \* never used again
  /\ Finish(c) /\ OnlyInvites /\ UNCHANGED mails
\* Another call deleted the row: the write touches none, and the session rolls back.
Gone(c) ==
  /\ call[c].pc \in {"deliver", "open", "accept", "cancel", "expire", "delete"}
  /\ ~invites[call[c].on].there
  /\ Finish(c)
  /\ UNCHANGED <<inviteVars, persons, ids, met, byPhone>>

DeadlinePasses ==
  \E i \in Invites :
    /\ invites[i].there /\ ~invites[i].lapsed
    /\ invites' = [invites EXCEPT ![i].lapsed = TRUE]
    /\ OnlyInvites /\ UNCHANGED <<mails, call>>

CutShort(c) ==
  /\ c \in Flying
  /\ cut' = cut \cup {i \in Invites : call[c].on = i}
  /\ Finish(c)
  /\ UNCHANGED <<invites, mails, raced, persons, ids, met, byPhone>>

Issuing == \E c \in Calls :
  Turn(c) /\ (\/ CreateInvitation(c) \/ SendInvitation(c) \/ Resend(c)
             \/ CancelInvitation(c) \/ DeleteInvitation(c) \/ NoticeLapse(c))
Answering == \E c \in Calls : Turn(c) /\ (OpenInvitation(c) \/ Accept(c) \/ AcceptAgain(c))
InvitationSteps ==
  \/ \E c \in Calls : \/ Sync(c) \/ CommitSync(c) \/ SyncFails(c) \/ Deliver(c) \/ CommitAccept(c)
                      \/ CommitWrite(c) \/ CommitDeleteInvitation(c) \/ Gone(c)
  \/ Reconcile \/ DeadlinePasses

\* Who has accepted an invitation stays accepted, by that account and with its row (trust_invitation_service.py:286-345, 600-614), also after a resend, a cancellation or the deadline, unless calls on it overlapped.
AcceptanceIsFinal ==
  [][\A i \in Invites \ raced : invites[i].by # None =>
       /\ invites'[i].there /\ invites'[i].status = "accepted" /\ invites'[i].by = invites[i].by]_invites

\* An invitation that was sent and waits for its delivery has a notification under way (trust_invitation_service.py:500-548), unless a call about it was cut short: every way of sending ends in a notification or a recorded failure, and every outcome of one is recorded.
QueuedHasMail ==
  \A i \in Invites \ cut :
    invites[i].there /\ invites[i].status = "pending" /\ invites[i].delivery = "queued"
      => mails[i] > 0 \/ About(i) # {}

\* The person an accepted invitation belongs to is linked to nobody but the account that accepted it (organization_person_service.py:378-437), unless the person was found by a phone number: a number may be written into several invitations.
AccepterIsPerson ==
  \A i \in Invites :
    LET p == invites[i].person IN
    invites[i].by # None /\ p # None /\ p \notin byPhone => persons[p].user \in {None, invites[i].by}
================================================================================
