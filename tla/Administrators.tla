----------------------------- MODULE Administrators -----------------------------
(* Who administers the system: roles, suspensions, the sessions they end, and    *)
(* the invitations that give a role. A call reads and checks in one step and      *)
(* commits the columns it changed in another; nothing here locks a row. A refused *)
(* call is not a step.                                                            *)
EXTENDS Naturals, FiniteSets

CONSTANTS None,
          People,     \* those with an account, and addresses without one
          Invites,    \* invitation rows, numbered in the order they are made
          Calls,      \* numbered in the order they begin
          AtATime     \* how many calls may overlap: a bound of the exploration
ASSUME NumbersAssumption == Invites \subseteq Nat /\ Calls \subseteq Nat

VARIABLES people, live,   \* users, and which of them have a live session
          invites,        \* admin_access_invitations
          call,
          raced,          \* ghost: people two calls were about at once
          crossed,        \* ghost: two calls that change roles or suspensions overlapped
          lowered         \* ghost: an acceptance took the role of a superadmin
adminVars == <<people, live, invites, raced, crossed, lowered>>

\* moderator and hr may do here what support may: nothing.
Staff == {"support", "admin", "superadmin"}
Managers == {"admin", "superadmin"}
Person == [role: Staff \cup {"none", "user"}, active: BOOLEAN]
Nobody == [role |-> "none", active |-> FALSE]
Invite == [to: People \cup {None}, role: Staff, lapsed: BOOLEAN,
           status: {"pending", "accepted", "revoked", "expired"}]
NoInvite == [to |-> None, role |-> "support", lapsed |-> FALSE, status |-> "pending"]

\* about: the people a call is about; on: the row; view: that row as read.
Call(pc, about, on, view, arg) == [pc |-> pc, about |-> about, on |-> on, view |-> view, arg |-> arg]
Blank == Call("idle", {}, None, None, None)
Over == Call("done", {}, None, None, None)
Flying == {c \in Calls : call[c].pc \notin {"idle", "done"}}
Turn(c) == /\ call[c].pc = "idle" /\ \A d \in Calls : d < c => call[d].pc # "idle"
           /\ Cardinality(Flying) < AtATime
Finish(c) == call' = [call EXCEPT ![c] = Over]

Acting(a) == people[a].active /\ live[a] /\ people[a].role \in Managers
Administrator(p) == people[p].role \in Staff
Superadmins == {p \in People : people[p].role = "superadmin" /\ people[p].active}
Made == {i \in Invites : invites[i].to # None}
\* Mutant: an invitation past its deadline does not count.
StillOpen(p) == {i \in Made : invites[i].to = p /\ invites[i].status = "pending" /\ ~invites[i].lapsed}
PendingFor(p) == {i \in Made : invites[i].to = p /\ invites[i].status = "pending"}
Actionable(i) == invites[i].status = "pending" /\ ~invites[i].lapsed

Decisive == {"role", "deactivate", "restore", "accept"}
Begin(c, k) ==
  /\ call' = [call EXCEPT ![c] = k]
  /\ raced' = raced \cup {p \in k.about : \E d \in Flying : p \in call[d].about}
  /\ crossed' = (crossed \/ (k.pc \in Decisive /\ \E d \in Flying : call[d].pc \in Decisive))
  /\ UNCHANGED <<people, live, invites, lowered>>
About(c, pc, p, arg) == Begin(c, Call(pc, {p}, p, people[p], arg))
OnInvite(c, pc, i) == Begin(c, Call(pc, {invites[i].to}, i, invites[i], None))
Doing(c, pc) == call[c].pc = pc /\ Finish(c) /\ UNCHANGED <<raced, crossed>>

(* ---- roles and suspensions ---- *)
\* A superadmin is only changed by another one, and never the last.
Outranked(a, p) == people[a].role = "superadmin" \/ people[p].role # "superadmin"
NotTheLast == Cardinality(Superadmins) > 1
ChangeRole(c) ==
  \E a, p \in People, r \in Staff :
    /\ Acting(a) /\ Administrator(p) /\ a # p /\ Outranked(a, p)
    /\ r = "superadmin" => people[a].role = "superadmin"
    /\ people[p].role = "superadmin" => NotTheLast
    /\ r # people[p].role
    /\ About(c, "role", p, r)
CommitRole(c) ==
  LET k == call[c] IN
  /\ Doing(c, "role")
  /\ people' = [people EXCEPT ![k.on].role = k.arg]
  /\ live' = [live EXCEPT ![k.on] = FALSE]
  /\ UNCHANGED <<invites, lowered>>

Deactivate(c) ==
  \E a, p \in People :
    /\ Acting(a) /\ Administrator(p) /\ people[p].active /\ a # p /\ Outranked(a, p)
    /\ people[p].role = "superadmin" => NotTheLast
    /\ About(c, "deactivate", p, None)
CommitDeactivation(c) ==
  LET k == call[c] IN
  /\ Doing(c, "deactivate")
  /\ people' = [people EXCEPT ![k.on].active = FALSE]
  /\ live' = [live EXCEPT ![k.on] = FALSE]
  /\ UNCHANGED <<invites, lowered>>

Restore(c) ==
  \E a, p \in People :
    /\ Acting(a) /\ Administrator(p) /\ ~people[p].active
    /\ About(c, "restore", p, None)
CommitRestore(c) ==
  LET k == call[c] IN
  /\ Doing(c, "restore")
  /\ people' = [people EXCEPT ![k.on].active = TRUE]
  /\ UNCHANGED <<live, invites, lowered>>

(* ---- invitations ---- *)
CreateInvitation(c) ==
  \E a, p \in People, r \in Staff :
    /\ Acting(a) /\ (r = "superadmin" => people[a].role = "superadmin")
    /\ ~(Administrator(p) /\ people[p].active)
    /\ PendingFor(p) = {}
    /\ About(c, "invite", p, r)
CommitInvitation(c) ==
  LET k == call[c] IN
  /\ Doing(c, "invite")
  /\ \E i \in Invites \ Made :
       /\ \A j \in Invites \ Made : i <= j
       /\ invites' = [invites EXCEPT ![i] = [NoInvite EXCEPT !.to = k.on, !.role = k.arg]]
  /\ UNCHANGED <<people, live, lowered>>

RevokeInvitation(c) ==
  \E a \in People, i \in Made : Acting(a) /\ Actionable(i) /\ OnInvite(c, "revoke", i)
CommitRevocation(c) ==
  /\ Doing(c, "revoke")
  /\ invites' = [invites EXCEPT ![call[c].on].status = "revoked"]
  /\ UNCHANGED <<people, live, lowered>>

\* A new token and deadline; the status is not written.
ResendInvitation(c) ==
  \E a \in People, i \in Made : Acting(a) /\ Actionable(i) /\ OnInvite(c, "resend", i)
CommitResend(c) ==
  /\ Doing(c, "resend")
  /\ invites' = [invites EXCEPT ![call[c].on].lapsed = FALSE]
  /\ UNCHANGED <<people, live, lowered>>

\* The view is of the invited account. A known one must be active.
AcceptInvitation(c) ==
  \E i \in Made :
    LET p == invites[i].to IN
    /\ Actionable(i)
    /\ people[p] = Nobody \/ people[p].active
    /\ Begin(c, Call("accept", {p}, i, people[p], p))
\* Mutant: the account made for an address is left without a state.
RoleOnly(v, p, r) == IF v = Nobody THEN [role |-> r] ELSE [people[p] EXCEPT !.role = r]
\* The role is an UPDATE when it differs from the one read.
Taken(v, p, r) == IF v = Nobody THEN [role |-> r, active |-> TRUE]
                  ELSE [people[p] EXCEPT !.role = IF r = v.role THEN @ ELSE r]
CommitAcceptance(c) ==
  LET k == call[c]
      p == k.arg IN
  /\ Doing(c, "accept")
  /\ k.view = Nobody => people[p] = Nobody
  /\ people' = [people EXCEPT ![p] = Taken(k.view, p, invites[k.on].role)]
  /\ invites' = [invites EXCEPT ![k.on].status = "accepted"]
  /\ live' = [live EXCEPT ![p] = TRUE]
  /\ lowered' = (lowered \/ (people[p].role = "superadmin" /\ people'[p].role # "superadmin"))
\* The address got an account meanwhile: the row is refused, and the call with it.
RefuseAcceptance(c) ==
  /\ call[c].pc = "accept" /\ call[c].view = Nobody /\ people[call[c].arg] # Nobody
  /\ Finish(c)
  /\ UNCHANGED adminVars

Lapse ==
  \E i \in Made :
    /\ Actionable(i)
    /\ invites' = [invites EXCEPT ![i].lapsed = TRUE]
    /\ UNCHANGED <<people, live, call, raced, crossed, lowered>>
\* list_invitations is the one call that keeps what it finds lapsed.
ListInvitations(c) ==
  LET gone == {i \in Made : invites[i].status = "pending" /\ invites[i].lapsed} IN
  /\ gone # {} /\ \E a \in People : Acting(a)
  /\ Begin(c, Call("expire", {invites[i].to : i \in gone}, gone, None, None))
CommitExpiry(c) ==
  /\ Doing(c, "expire")
  /\ invites' = [i \in Invites |-> IF i \in call[c].on THEN [invites[i] EXCEPT !.status = "expired"]
                                   ELSE invites[i]]
  /\ UNCHANGED <<people, live, lowered>>

(* ---- accounts and sessions of theirs ---- *)
SignUp ==
  \E p \in People :
    /\ people[p] = Nobody
    /\ people' = [people EXCEPT ![p] = [role |-> "user", active |-> TRUE]]
    /\ UNCHANGED <<live, invites, call, raced, crossed, lowered>>
SignIn(c) == \E p \in People : people[p].active /\ ~live[p] /\ About(c, "sign_in", p, None)
CommitSession(c) ==
  /\ Doing(c, "sign_in")
  /\ live' = [live EXCEPT ![call[c].on] = TRUE]
  /\ UNCHANGED <<people, invites, lowered>>

Crash(c) == c \in Flying /\ Finish(c) /\ UNCHANGED adminVars
AdminNext ==
  \/ \E c \in Calls :
       \/ Turn(c) /\ (\/ ChangeRole(c) \/ Deactivate(c) \/ Restore(c) \/ CreateInvitation(c)
                      \/ RevokeInvitation(c) \/ ResendInvitation(c) \/ AcceptInvitation(c)
                      \/ ListInvitations(c) \/ SignIn(c))
       \/ CommitRole(c) \/ CommitDeactivation(c) \/ CommitRestore(c) \/ CommitInvitation(c)
       \/ CommitRevocation(c) \/ CommitResend(c) \/ CommitAcceptance(c) \/ RefuseAcceptance(c)
       \/ CommitExpiry(c) \/ CommitSession(c)
  \/ Lapse \/ SignUp

\* There is always a superadmin who can sign in: neither a demotion nor a suspension takes the last one (admin_settings_service.py:993-1025), unless two such calls overlapped, or an invitation sent to a suspended superadmin was accepted after its restoration.
SuperadminKept == ~crossed /\ ~lowered => Superadmins # {}

\* An address has one open invitation at most (admin_settings_service.py:515-522), past its deadline or not, through resends, revocations and sweeps, unless two calls about it overlapped.
OneOpenInvitation ==
  \A i, j \in Made :
    /\ invites[i].to = invites[j].to /\ invites[i].to \notin raced
    /\ invites[i].status = "pending" /\ invites[j].status = "pending"
    => i = j

\* A suspended administrator is signed in nowhere (admin_settings_service.py:367-390), unless a sign-in or an acceptance was under way.
SuspendedSignedOut == \A p \in People \ raced : ~people[p].active => ~live[p]

AccessKept == SuperadminKept /\ OneOpenInvitation /\ SuspendedSignedOut

\* An invitation that was accepted, revoked or expired stays so (admin_settings_service.py:563-685): its link gives no role a second time, unless two calls about its address overlapped.
InvitationsClose ==
  [][\A i \in Made : invites[i].status # "pending" /\ invites[i].to \notin raced' =>
       invites'[i] = invites[i]]_<<invites, raced>>

\* The final superadmin is never removed (the promise of admin_settings_service.py:1003 and 1011).
SuperadminRemains == Superadmins # {}
================================================================================
