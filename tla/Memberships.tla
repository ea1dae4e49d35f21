------------------------------ MODULE Memberships ------------------------------
(* Who belongs to which organization: roles, suspension, ownership, invitations  *)
(* and the workspace a user lands in. A call reads and checks in one step and    *)
(* commits in another; no row is locked in between. A refused call changes       *)
(* nothing and is not a step.                                                    *)
EXTENDS Naturals, FiniteSets

CONSTANTS None, Orgs, Users,
          Rows,       \* membership rows: a bound on the memberships made
          Invites,    \* invitations, a bound likewise
          Calls       \* API calls, numbered in the order they begin
ASSUME CallsAssumption == Calls \subseteq Nat

VARIABLES members,    \* membership rows
          invites,    \* invitation rows
          active,     \* users.active_organization_id
          call,
          contested,  \* ghost: organizations with two calls on their owners at once
          crossed     \* ghost: users whose memberships two calls were about at once
membershipVars == <<members, invites, active, call, contested, crossed>>

\* An ORM update writes the columns whose value differs from the one it loaded.
Written(current, seen, new) ==
  [f \in DOMAIN current |-> IF new[f] # seen[f] THEN new[f] ELSE current[f]]

Roles == {"owner", "admin", "member"}   \* a reviewer has the rights of a member here
Managers == {"owner", "admin"}
Assignable == Roles \ {"owner"}
InviteStatus == {"pending", "accepted", "declined", "cancelled", "expired"}

\* org is kept when the row is deleted, so that its key is not used again.
Member == [org: Orgs \cup {None}, user: Users \cup {None}, role: Roles,
           suspended: BOOLEAN, there: BOOLEAN]
NoMember == [org |-> None, user |-> None, role |-> "member", suspended |-> FALSE, there |-> FALSE]
\* late: expires_at has passed.
Invite == [org: Orgs \cup {None}, to: Users \cup {None}, role: Roles, status: InviteStatus,
           late: BOOLEAN]
NoInvite == [org |-> None, to |-> None, role |-> "member", status |-> "cancelled", late |-> FALSE]

OwnerOps == {"role", "suspend", "remove", "transfer"}
Call == [pc: {"idle", "done", "add", "role", "suspend", "restore", "remove", "transfer",
              "invite", "resend", "cancel", "accept", "decline", "expire"},
         org: Orgs \cup {None}, who: Users \cup {None},   \* who: the user the call is about
         row: Rows \cup {None}, view: Member,             \* the target row as read
         mine: Rows \cup {None}, me: Member,              \* a transferring owner's row
         inv: Invites \cup {None}, seen: Invite, stale: SUBSET Invites,
         role: Roles, next: Orgs \cup {None}, move: BOOLEAN]
Blank == [pc |-> "idle", org |-> None, who |-> None, row |-> None, view |-> NoMember,
          mine |-> None, me |-> NoMember, inv |-> None, seen |-> NoInvite, stale |-> {},
          role |-> "member", next |-> None, move |-> FALSE]
Done == [Blank EXCEPT !.pc = "done"]
Finish(c) == call' = [call EXCEPT ![c] = Done]

Membership(o, u) == {r \in Rows : members[r].there /\ members[r].org = o /\ members[r].user = u}
MembersOf(o) == {r \in Rows : members[r].there /\ members[r].org = o}
Joined(u) == {r \in Rows : members[r].there /\ members[r].user = u}
\* Some member may manage the organization; require_org_manager does not ask whether it is suspended.
Managed(o) == \E r \in MembersOf(o) : members[r].role \in Managers
ActiveOwners(o) == {r \in MembersOf(o) : members[r].role = "owner" /\ ~members[r].suspended}
FreeRows == {r \in Rows : members[r] = NoMember}
FreeInvites == {i \in Invites : invites[i] = NoInvite}
PendingFor(o, u) ==
  {i \in Invites : invites[i].org = o /\ invites[i].to = u /\ invites[i].status = "pending"}
Late(I) == {i \in I : invites[i].status = "pending" /\ invites[i].late}

(* Begin a call; the ghosts record calls that overlap on the same rows.          *)
Busy(c, o) == {d \in Calls \ {c} : call[d].pc \notin {"idle", "done"} /\ call[d].org = o}
Ready(c) == call[c].pc = "idle" /\ \A d \in Calls : d < c => call[d].pc # "idle"
Begin(c, next) ==
  /\ call' = [call EXCEPT ![c] = next]
  /\ contested' = contested \cup
       (IF next.pc \in OwnerOps /\ \E d \in Busy(c, next.org) : call[d].pc \in OwnerOps
        THEN {next.org} ELSE {})
  /\ crossed' = crossed \cup
       (IF \E d \in Calls \ {c} : call[d].pc \notin {"idle", "done"} /\ call[d].who = next.who
        THEN {next.who} ELSE {})
  /\ UNCHANGED <<members, invites, active>>

Insert(o, u, role) ==
  /\ FreeRows # {}
  /\ LET r == CHOOSE x \in FreeRows : TRUE IN
     members' = [members EXCEPT ![r] = [org |-> o, user |-> u, role |-> role,
                                        suspended |-> FALSE, there |-> TRUE]]

(* ---- members: OrganizationService ---- *)
AddMember(c) ==
  \E o \in Orgs, u \in Users, role \in Assignable :
    /\ Managed(o) /\ Membership(o, u) = {}
    /\ Begin(c, [Blank EXCEPT !.pc = "add", !.org = o, !.who = u, !.role = role])

Cancelled(I) == [i \in Invites |-> IF i \notin I THEN invites[i]
                                   ELSE [invites[i] EXCEPT !.status = IF invites[i].late
                                                                      THEN "expired" ELSE "cancelled"]]
\* The unique key on organization and user refuses a second row: the call rolls back.
CommitAdd(c) ==
  LET k == call[c] IN
  /\ k.pc = "add"
  /\ IF Membership(k.org, k.who) = {}
     THEN /\ Insert(k.org, k.who, k.role)
          /\ invites' = Cancelled(PendingFor(k.org, k.who))
     ELSE UNCHANGED <<members, invites>>
  /\ Finish(c)
  /\ UNCHANGED <<active, contested, crossed>>

Target(r, pc) ==
  [Blank EXCEPT !.pc = pc, !.org = members[r].org, !.who = members[r].user, !.row = r, !.view = members[r]]
Manageable(roles) ==
  {r \in Rows : members[r].there /\ \E a \in MembersOf(members[r].org) : members[a].role \in roles}

UpdateMemberRole(c) ==
  \E r \in Manageable(Managers), role \in Assignable :
    /\ members[r].role # "owner"
    /\ Begin(c, [Target(r, "role") EXCEPT !.role = role])

\* _assert_member_action_allowed: only owners act on owners.
Actionable == {r \in Manageable(Managers) : members[r].role = "owner" => r \in Manageable({"owner"})}
\* Mutant: off by one in the count of owners.
NotLastOfNone(r) ==
  members[r].role = "owner" /\ ~members[r].suspended
    => Cardinality(ActiveOwners(members[r].org)) > 0
NotLastOwner(r) ==
  members[r].role = "owner" /\ ~members[r].suspended
    => Cardinality(ActiveOwners(members[r].org)) > 1

\* Mutant: the membership instead of its organization.
ElsewhereRows(u, o) == {r \in Joined(u) : members[r].org # o /\ ~members[r].suspended}
(* _reassign_active_organization_if_needed, as the call sees it.                 *)
Elsewhere(u, o) == {members[r].org : r \in {x \in Joined(u) : members[x].org # o /\ ~members[x].suspended}}
Reassigned(r, k) ==
  LET u == members[r].user  o == members[r].org IN
  IF active[u] # o THEN {k}
  ELSE {[k EXCEPT !.move = TRUE, !.next = n] :
          n \in IF Elsewhere(u, o) = {} THEN {None} ELSE Elsewhere(u, o)}

SuspendMember(c) ==
  \E r \in Actionable :
    /\ NotLastOwner(r)
    /\ \E k \in Reassigned(r, Target(r, "suspend")) : Begin(c, k)
RestoreMember(c) == \E r \in Actionable : Begin(c, Target(r, "restore"))
RemoveMember(c) ==
  \E r \in Actionable :
    /\ NotLastOwner(r)
    /\ \E k \in Reassigned(r, Target(r, "remove")) : Begin(c, k)
TransferOwnership(c) ==
  \E r, a \in Rows :
    /\ r \in Manageable({"owner"}) /\ a \in MembersOf(members[r].org) /\ members[a].role = "owner"
    /\ members[r].role # "owner" /\ ~members[r].suspended
    /\ Begin(c, [Target(r, "transfer") EXCEPT !.mine = a, !.me = members[a]])

Changed(k) ==
  CASE k.pc = "role" -> [k.view EXCEPT !.role = k.role]
    [] k.pc = "suspend" -> [k.view EXCEPT !.suspended = TRUE]
    [] k.pc = "restore" -> [k.view EXCEPT !.suspended = FALSE]
    [] k.pc = "transfer" -> [k.view EXCEPT !.role = "owner"]
\* An update that finds its row gone raises, and the call rolls back.
Touched(k) == IF k.pc = "transfer" THEN {k.row, k.mine} ELSE {k.row}
Updated(k) ==
  [r \in Rows |->
     CASE r = k.row -> Written(members[r], k.view, Changed(k))
       [] r = k.mine /\ k.pc = "transfer" -> Written(members[r], k.me, [k.me EXCEPT !.role = "admin"])
       [] OTHER -> members[r]]
CommitMember(c) ==
  LET k == call[c] IN
  /\ k.pc \in {"role", "suspend", "restore", "transfer"}
  /\ IF \A r \in Touched(k) : members[r].there
     THEN /\ members' = Updated(k)
          /\ active' = IF k.move THEN [active EXCEPT ![k.who] = k.next] ELSE active
     ELSE UNCHANGED <<members, active>>
  /\ Finish(c)
  /\ UNCHANGED <<invites, contested, crossed>>
\* Deleting a row that is gone already only warns.
CommitRemove(c) ==
  LET k == call[c] IN
  /\ k.pc = "remove"
  /\ members' = [members EXCEPT ![k.row].there = FALSE]
  /\ active' = IF k.move THEN [active EXCEPT ![k.who] = k.next] ELSE active
  /\ Finish(c)
  /\ UNCHANGED <<invites, contested, crossed>>

(* ---- invitations: OrganizationService and WorkspaceService ---- *)
Open(i, pc) == [Blank EXCEPT !.pc = pc, !.org = invites[i].org, !.who = invites[i].to,
                             !.inv = i, !.seen = invites[i], !.role = invites[i].role]
CreateInvitation(c) ==
  \E o \in Orgs, u \in Users, role \in Assignable :
    /\ Managed(o) /\ Membership(o, u) = {}
    /\ PendingFor(o, u) = Late(PendingFor(o, u))
    /\ Begin(c, [Blank EXCEPT !.pc = "invite", !.org = o, !.who = u, !.role = role,
                              !.stale = PendingFor(o, u)])
ResendInvitation(c) ==
  \E i \in Invites :
    /\ invites[i].status = "pending" /\ ~invites[i].late
    /\ Managed(invites[i].org)
    /\ Membership(invites[i].org, invites[i].to) = {}
    /\ Begin(c, Open(i, "resend"))
CancelInvitation(c) ==
  \E i \in Invites :
    /\ invites[i].status = "pending" /\ ~invites[i].late
    /\ Managed(invites[i].org)
    /\ Begin(c, Open(i, "cancel"))
\* A member of the same role accepts without a row of its own; any other is refused.
AcceptInvitation(c) ==
  \E i \in Invites :
    /\ invites[i].status = "pending" /\ ~invites[i].late
    /\ \A r \in Membership(invites[i].org, invites[i].to) :
         ~members[r].suspended /\ members[r].role = invites[i].role
    /\ Begin(c, [Open(i, "accept") EXCEPT !.move = Membership(invites[i].org, invites[i].to) = {},
                                           !.next = active[invites[i].to]])
DeclineInvitation(c) ==
  \E i \in Invites :
    /\ invites[i].status = "pending" /\ ~invites[i].late
    /\ Begin(c, Open(i, "decline"))
\* The workspace calls of a user mark and commit what has expired, whatever comes after:
\* all of it for the listings, the one invitation for an answer to it.
ExpireStale(c) ==
  \E u \in Users :
    LET late == Late({i \in Invites : invites[i].to = u}) IN
    \E I \in ({late} \cup {{i} : i \in late}) \ {{}} :
      Begin(c, [Blank EXCEPT !.pc = "expire", !.who = u, !.stale = I])

Marked(I, status) == [i \in Invites |-> IF i \in I THEN [invites[i] EXCEPT !.status = status] ELSE invites[i]]
CommitInvite(c) ==
  LET k == call[c] IN
  /\ k.pc = "invite" /\ FreeInvites # {}
  /\ LET new == CHOOSE x \in FreeInvites : TRUE IN
     invites' = [Marked(k.stale, "expired") EXCEPT ![new] =
                   [org |-> k.org, to |-> k.who, role |-> k.role, status |-> "pending", late |-> FALSE]]
  /\ Finish(c)
  /\ UNCHANGED <<members, active, contested, crossed>>
CommitAnswer(c) ==
  LET k == call[c] IN
  /\ k.pc \in {"resend", "cancel", "decline", "expire"}
  /\ invites' = CASE k.pc = "resend" -> [invites EXCEPT ![k.inv].late = FALSE]
                  [] k.pc = "cancel" -> Marked({k.inv}, "cancelled")
                  [] k.pc = "decline" -> Marked({k.inv}, "declined")
                  [] k.pc = "expire" -> Marked(k.stale, "expired")
  /\ Finish(c)
  /\ UNCHANGED <<members, active, contested, crossed>>
CommitAccept(c) ==
  LET k == call[c] IN
  /\ k.pc = "accept"
  /\ IF k.move /\ Membership(k.org, k.who) # {}
     THEN UNCHANGED <<members, invites, active>>
     ELSE /\ IF k.move THEN Insert(k.org, k.who, k.role) ELSE UNCHANGED members
          /\ invites' = Marked({k.inv}, "accepted")
          /\ active' = IF k.next = k.org THEN active ELSE [active EXCEPT ![k.who] = k.org]
  /\ Finish(c)
  /\ UNCHANGED <<contested, crossed>>

InviteLapses(i) ==
  /\ invites[i].status = "pending" /\ ~invites[i].late
  /\ invites' = [invites EXCEPT ![i].late = TRUE]
  /\ UNCHANGED <<members, active, call, contested, crossed>>

MembershipNext ==
  \/ \E c \in Calls :
       \/ /\ Ready(c)
          /\ \/ AddMember(c) \/ UpdateMemberRole(c) \/ SuspendMember(c) \/ RestoreMember(c)
             \/ RemoveMember(c) \/ TransferOwnership(c) \/ CreateInvitation(c)
             \/ ResendInvitation(c) \/ CancelInvitation(c) \/ AcceptInvitation(c)
             \/ DeclineInvitation(c) \/ ExpireStale(c)
       \/ CommitAdd(c) \/ CommitMember(c) \/ CommitRemove(c)
       \/ CommitInvite(c) \/ CommitAnswer(c) \/ CommitAccept(c)
  \/ \E i \in Invites : InviteLapses(i)
================================================================================
