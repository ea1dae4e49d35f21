-------------------------- MODULE OrganizationsProofs --------------------------
(* What is proved of memberships and the registry, for any organizations, users,  *)
(* records and calls: what a call read of a user, of an organization's owners or  *)
(* of a record stays true of it unless another call about it met it on the way.   *)
EXTENDS Organizations, FiniteSetTheorems, TLAPS

--------------------------------------------------------------------------------
(* Rows, and what a write by column makes of them.                                *)

LEMMA MemberFields ==
  ASSUME NEW m \in Member
  PROVE  /\ m.org \in Orgs \cup {None} /\ m.user \in Users \cup {None} /\ m.role \in Roles
         /\ m.suspended \in BOOLEAN /\ m.there \in BOOLEAN
BY DEF Member

LEMMA WrittenMember ==
  ASSUME NEW now \in Member, NEW seen \in Member, NEW new \in Member
  PROVE  /\ Written(now, seen, new) \in Member
         /\ Written(now, seen, new).org = IF new.org # seen.org THEN new.org ELSE now.org
         /\ Written(now, seen, new).user = IF new.user # seen.user THEN new.user ELSE now.user
         /\ Written(now, seen, new).role = IF new.role # seen.role THEN new.role ELSE now.role
         /\ Written(now, seen, new).suspended = IF new.suspended # seen.suspended THEN new.suspended ELSE now.suspended
         /\ Written(now, seen, new).there = IF new.there # seen.there THEN new.there ELSE now.there
BY DEF Written, Member

LEMMA WrittenOrganization ==
  ASSUME NEW now \in Organization, NEW seen \in Organization, NEW new \in Organization
  PROVE  /\ Written(now, seen, new) \in Organization
         /\ Written(now, seen, new).there = IF new.there # seen.there THEN new.there ELSE now.there
         /\ Written(now, seen, new).link = IF new.link # seen.link THEN new.link ELSE now.link
BY DEF Written, Organization

LEMMA WrittenRequest ==
  ASSUME NEW now \in Request, NEW seen \in Request, NEW new \in Request
  PROVE  /\ Written(now, seen, new) \in Request
         /\ Written(now, seen, new).org = IF new.org # seen.org THEN new.org ELSE now.org
         /\ Written(now, seen, new).link = IF new.link # seen.link THEN new.link ELSE now.link
         /\ Written(now, seen, new).state = IF new.state # seen.state THEN new.state ELSE now.state
BY DEF Written, Request

LEMMA CallFields ==
  ASSUME NEW k \in Call
  PROVE  /\ k.org \in Orgs \cup {None} /\ k.who \in Users \cup {None} /\ k.row \in Rows \cup {None}
         /\ k.view \in Member /\ k.mine \in Rows \cup {None} /\ k.me \in Member
         /\ k.inv \in Invites \cup {None} /\ k.seen \in Invite /\ k.stale \subseteq Invites
         /\ k.role \in Roles /\ k.next \in Orgs \cup {None} /\ k.move \in BOOLEAN
BY DEF Call

LEMMA Blanks ==
  /\ NoMember \in Member /\ NoInvite \in Invite /\ Blank \in Call /\ Done \in Call
  /\ Blank.pc = "idle" /\ Done.pc = "done"
  /\ NoMember.there = FALSE /\ NoMember.role = "member" /\ NoMember.org = None /\ NoMember.user = None
  /\ NoInvite.status = "cancelled" /\ NoInvite.org = None /\ NoInvite.to = None
<1>1. NoMember \in Member /\ NoInvite \in Invite
  BY DEF NoMember, Member, NoInvite, Invite, Roles, InviteStatus
<1>2. Blank \in Call
  BY <1>1 DEF Blank, Call, Roles
<1>3. Done \in Call
  BY <1>1 DEF Done, Blank, Call, Roles
<1>. QED  BY <1>1, <1>2, <1>3 DEF Blank, Done, NoMember, NoInvite

--------------------------------------------------------------------------------
(* What is always true of the members, the invitations and the calls on them.     *)

There == {o \in Orgs : orgs[o].there}
OnRow == {"role", "suspend", "restore", "remove", "transfer"}
OnInvite == {"resend", "cancel", "accept", "decline"}

MembersTyped ==
  /\ members \in [Rows -> Member] /\ invites \in [Invites -> Invite]
  /\ active \in [Users -> Orgs \cup {None}] /\ call \in [Calls -> Call]
  /\ contested \subseteq Orgs /\ crossed \subseteq Users

\* A row keeps its organization and its user, also when it is deleted; a key is used once.
RowsIs ==
  /\ \A r \in Rows : members[r] # NoMember => members[r].user \in Users /\ members[r].org \in There
  /\ \A r, x \in Rows : /\ members[r].there /\ members[x].there
                       /\ members[r].org = members[x].org /\ members[r].user = members[x].user
                       => r = x
  /\ \A i \in Invites : invites[i] # NoInvite =>
       invites[i].to \in Users /\ invites[i].org \in There /\ invites[i].role \in Assignable

\* What a call holds whatever else goes on.
Static(k) ==
  /\ k.pc \notin {"idle", "done"} => k.who \in Users
  /\ k.pc \notin {"idle", "done", "expire"} => k.org \in There
  /\ k.pc \in OnRow => /\ k.row \in Rows /\ members[k.row] # NoMember
                       /\ members[k.row].org = k.org /\ members[k.row].user = k.who
  /\ k.pc = "transfer" => /\ k.mine \in Rows \ {k.row} /\ members[k.mine] # NoMember
                          /\ members[k.mine].org = k.org
                          /\ k.me.role = "owner" /\ k.view.role # "owner"
  /\ k.pc \in {"add", "role", "invite", "accept"} => k.role \in Assignable
  /\ k.pc \in OnInvite => /\ k.inv \in Invites /\ invites[k.inv] # NoInvite
                          /\ invites[k.inv].org = k.org /\ invites[k.inv].to = k.who
  /\ k.pc \in {"invite", "expire"} => \A i \in k.stale : invites[i].to = k.who /\ invites[i] # NoInvite
  /\ k.pc \notin {"suspend", "remove", "accept"} => ~k.move

\* What a call knows of its organization's owners, as long as no other call on them met it.
OwnersKnown(k) ==
  /\ k.pc \in {"role", "suspend", "remove"} => members[k.row].role # "owner"
  /\ k.pc = "transfer" => /\ members[k.row].there /\ members[k.row].role # "owner" /\ ~members[k.row].suspended
                          /\ members[k.mine].there /\ members[k.mine].role = "owner"

\* A membership the user can work with.
Usable(o, u) == \E r \in Rows : /\ members[r].there /\ members[r].org = o /\ members[r].user = u
                               /\ ~members[r].suspended
\* What a call knows of its user, as long as no other call about the user met it.
UserKnown(k) ==
  /\ k.pc \in {"suspend", "remove"} =>
       IF k.move THEN k.next # k.org /\ (k.next = None \/ Usable(k.next, k.who))
       ELSE active[k.who] # k.org
  /\ k.pc = "invite" =>
       /\ Membership(k.org, k.who) = {}
       /\ \A i \in Invites : invites[i].status = "pending" /\ invites[i].org = k.org /\ invites[i].to = k.who
                              => i \in k.stale
  /\ k.pc \in {"resend", "accept"} => invites[k.inv].status = "pending"
  /\ k.pc = "accept" => k.move

\* One active owner.
Owned(o) ==
  \E w \in Rows : /\ members[w].there /\ members[w].org = o /\ ~members[w].suspended
                 /\ \A r \in Rows :
                      members[r].there /\ members[r].org = o /\ members[r].role = "owner" <=> r = w
\* At most one invitation to an organization, none to the user's own; and the user lands where work is possible.
Placed(u) ==
  /\ \A i, j \in Invites : /\ invites[i].status = "pending" /\ invites[i].to = u
                          /\ invites[j].status = "pending" /\ invites[j].to = u
                          /\ invites[i].org = invites[j].org
                          => i = j
  /\ \A i \in Invites, r \in Rows :
       ~(/\ invites[i].status = "pending" /\ invites[i].to = u
         /\ members[r].there /\ members[r].user = u /\ members[r].org = invites[i].org)
  /\ active[u] = None \/ Usable(active[u], u)

CallsIs ==
  /\ \A c \in Calls : Static(call[c])
  /\ \A c, d \in Calls : /\ c # d /\ call[c].pc \in OwnerOps /\ call[d].pc \in OwnerOps
                        /\ call[c].org = call[d].org
                        => call[c].org \in contested
  /\ \A c, d \in Calls : /\ c # d /\ call[c].pc \notin {"idle", "done"} /\ call[d].pc \notin {"idle", "done"}
                        /\ call[c].who = call[d].who
                        => call[c].who \in crossed
OwnersIs ==
  /\ \A o \in There \ contested : Owned(o)
  /\ \A c \in Calls : call[c].org \notin contested => OwnersKnown(call[c])
UsersIs ==
  /\ \A u \in Users \ crossed : Placed(u)
  /\ \A c \in Calls : call[c].who \notin crossed => UserKnown(call[c])

MembersHeld == MembersTyped /\ RowsIs /\ CallsIs /\ OwnersIs /\ UsersIs

--------------------------------------------------------------------------------
(* A call begins: it reads, and the rows stay.                                    *)

LEMMA Begins ==
  ASSUME MembersHeld, NEW c \in Calls, NEW next \in Call, Begin(c, next), UNCHANGED orgs,
         next.pc \notin {"idle", "done"}, Static(next),
         next.org \notin contested => OwnersKnown(next),
         next.who \notin crossed => UserKnown(next)
  PROVE  MembersHeld'
<1>1. /\ call' = [call EXCEPT ![c] = next]
      /\ members' = members /\ invites' = invites /\ active' = active /\ There' = There
      /\ call' \in [Calls -> Call]
      /\ call'[c] = next /\ \A d \in Calls \ {c} : call'[d] = call[d]
  BY DEF MembersHeld, MembersTyped, Begin, There
<1>2. /\ contested \subseteq contested' /\ crossed \subseteq crossed'
      /\ \A d \in Calls \ {c} : next.pc \in OwnerOps /\ call[d].pc \in OwnerOps /\ call[d].org = next.org
                                => next.org \in contested'
      /\ \A d \in Calls \ {c} : call[d].pc \notin {"idle", "done"} /\ call[d].who = next.who
                                => next.who \in crossed'
  BY DEF Begin, Busy, OwnerOps
<1>3. contested' \subseteq Orgs /\ crossed' \subseteq Users
  BY DEF MembersHeld, MembersTyped, Begin, Busy, Static, OwnerOps, There
<1>4. MembersTyped' /\ RowsIs'
  BY <1>1, <1>3 DEF MembersHeld, MembersTyped, RowsIs
<1>5. \A d \in Calls : Static(call[d])'
  BY <1>1 DEF MembersHeld, CallsIs, Static
<1>6. CallsIs'
  <2>1. \A a, b \in Calls : /\ a # b /\ call'[a].pc \in OwnerOps /\ call'[b].pc \in OwnerOps
                            /\ call'[a].org = call'[b].org
                            => call'[a].org \in contested'
    BY <1>1, <1>2 DEF MembersHeld, CallsIs
  <2>2. \A a, b \in Calls : /\ a # b /\ call'[a].pc \notin {"idle", "done"} /\ call'[b].pc \notin {"idle", "done"}
                            /\ call'[a].who = call'[b].who
                            => call'[a].who \in crossed'
    BY <1>1, <1>2 DEF MembersHeld, CallsIs
  <2>. QED  BY <1>5, <2>1, <2>2 DEF CallsIs
<1>7. OwnersIs'
  <2>1. \A o \in There' \ contested' : Owned(o)'
    BY <1>1, <1>2 DEF MembersHeld, OwnersIs, Owned
  <2>2. \A d \in Calls : call'[d].org \notin contested' => OwnersKnown(call[d])'
    BY <1>1, <1>2 DEF MembersHeld, OwnersIs, OwnersKnown
  <2>. QED  BY <2>1, <2>2 DEF OwnersIs
<1>8. UsersIs'
  <2>1. \A u \in Users \ crossed' : Placed(u)'
    BY <1>1, <1>2 DEF MembersHeld, UsersIs, Placed, Usable
  <2>2. \A d \in Calls : call'[d].who \notin crossed' => UserKnown(call[d])'
    BY <1>1, <1>2 DEF MembersHeld, UsersIs, UserKnown, Usable, Membership
  <2>. QED  BY <2>1, <2>2 DEF UsersIs
<1>. QED  BY <1>4, <1>6, <1>7, <1>8 DEF MembersHeld

--------------------------------------------------------------------------------
(* What a step leaves as it is, of a user and of an organization's owners.        *)

RowsKept ==
  /\ \A r \in Rows : members[r] # NoMember =>
       members'[r] # NoMember /\ members'[r].org = members[r].org /\ members'[r].user = members[r].user
  /\ \A i \in Invites : invites[i] # NoInvite =>
       /\ invites'[i] # NoInvite /\ invites'[i].org = invites[i].org
       /\ invites'[i].to = invites[i].to /\ invites'[i].role = invites[i].role
KeptUser(u) ==
  /\ active'[u] = active[u]
  /\ \A r \in Rows : members[r].user = u \/ members'[r].user = u =>
       /\ members'[r].org = members[r].org /\ members'[r].user = members[r].user
       /\ members'[r].there = members[r].there /\ members'[r].suspended = members[r].suspended
  /\ \A i \in Invites : invites[i].to = u \/ invites'[i].to = u =>
       /\ invites'[i].org = invites[i].org /\ invites'[i].to = invites[i].to
       /\ invites'[i].status = invites[i].status
KeptOwners(o) ==
  \A r \in Rows :
    /\ members[r].org = o =>
         /\ members'[r].org = o /\ members'[r].role = members[r].role
         /\ members'[r].there = members[r].there /\ (members'[r].suspended => members[r].suspended)
    /\ members'[r].org = o /\ members'[r].role = "owner" => members[r].org = o

LEMMA StaticStays ==
  ASSUME RowsKept, There \subseteq There', NEW k \in Call, Static(k)
  PROVE  Static(k)'
BY CallFields DEF RowsKept, Static, OnRow, OnInvite

LEMMA OwnersKnownStays ==
  ASSUME NEW k, Static(k), OwnersKnown(k), KeptOwners(k.org)
  PROVE  OwnersKnown(k)'
BY DEF Static, OwnersKnown, KeptOwners, OnRow

LEMMA OwnedStays ==
  ASSUME NEW o, Owned(o), KeptOwners(o)
  PROVE  Owned(o)'
<1>1. PICK w \in Rows : /\ members[w].there /\ members[w].org = o /\ ~members[w].suspended
                        /\ \A r \in Rows :
                             members[r].there /\ members[r].org = o /\ members[r].role = "owner" <=> r = w
  BY DEF Owned
<1>2. members'[w].there /\ members'[w].org = o
  BY <1>1 DEF KeptOwners
<1>3. ~members'[w].suspended
  BY <1>1 DEF KeptOwners
<1>4. ASSUME NEW r \in Rows
      PROVE  members'[r].there /\ members'[r].org = o /\ members'[r].role = "owner" <=> r = w
  BY <1>1 DEF KeptOwners
<1>. QED  BY <1>2, <1>3, <1>4 DEF Owned

LEMMA UsableStays ==
  ASSUME NEW o, NEW u, Usable(o, u), KeptUser(u)
  PROVE  Usable(o, u)'
BY DEF Usable, KeptUser

LEMMA UserKnownStays ==
  ASSUME NEW k, Static(k), UserKnown(k), KeptUser(k.who)
  PROVE  UserKnown(k)'
<1>1. k.pc \in {"suspend", "remove"} =>
        IF k.move THEN k.next # k.org /\ (k.next = None \/ Usable(k.next, k.who)')
        ELSE active'[k.who] # k.org
  BY UsableStays DEF UserKnown, KeptUser
<1>2. k.pc = "invite" =>
        /\ \A r \in Rows : ~(members'[r].there /\ members'[r].org = k.org /\ members'[r].user = k.who)
        /\ \A i \in Invites : invites'[i].status = "pending" /\ invites'[i].org = k.org /\ invites'[i].to = k.who
                               => i \in k.stale
  BY DEF UserKnown, KeptUser, Membership
<1>3. k.pc \in {"resend", "accept"} => invites'[k.inv].status = "pending"
  BY DEF UserKnown, KeptUser, Static, OnInvite
<1>. QED  BY <1>1, <1>2, <1>3 DEF UserKnown, Membership

LEMMA PlacedStays ==
  ASSUME NEW u, Placed(u), KeptUser(u)
  PROVE  Placed(u)'
<1>0. PICK o : o = active[u]
  OBVIOUS
<1>1. active'[u] = o /\ (o = None \/ Usable(o, u)')
  BY <1>0, UsableStays DEF Placed, KeptUser
<1>2. \A i, j \in Invites : /\ invites'[i].status = "pending" /\ invites'[i].to = u
                            /\ invites'[j].status = "pending" /\ invites'[j].to = u
                            /\ invites'[i].org = invites'[j].org
                            => i = j
  BY DEF Placed, KeptUser
<1>3. \A i \in Invites, r \in Rows :
        ~(/\ invites'[i].status = "pending" /\ invites'[i].to = u
          /\ members'[r].there /\ members'[r].user = u /\ members'[r].org = invites'[i].org)
  BY DEF Placed, KeptUser
<1>4. active'[u] = None \/ Usable(active[u], u)'
  BY <1>1 DEF Usable
<1>. QED  BY <1>2, <1>3, <1>4 DEF Placed

--------------------------------------------------------------------------------
(* A call commits: it may change its own user, and the owners of its organization *)
(* only if it is about them.                                                      *)

LEMMA Commits ==
  ASSUME MembersHeld, NEW c \in Calls, call[c].pc \notin {"idle", "done"},
         NEW w, NEW g, call[c].who = w, call[c].org = g, Finish(c), UNCHANGED <<contested, crossed, orgs>>,
         members' \in [Rows -> Member], invites' \in [Invites -> Invite],
         active' \in [Users -> Orgs \cup {None}], RowsIs', RowsKept,
         \A u \in Users \ {w} : KeptUser(u), w \notin crossed => Placed(w)',
         \A o \in Orgs : o # g \/ call[c].pc \notin OwnerOps => KeptOwners(o),
         call[c].pc \in OwnerOps /\ g \notin contested => Owned(g)'
  PROVE  MembersHeld'
<1>1. /\ call' \in [Calls -> Call] /\ There' = There /\ contested' = contested /\ crossed' = crossed
      /\ call'[c] = Done /\ \A d \in Calls \ {c} : call'[d] = call[d]
  BY Blanks DEF MembersHeld, MembersTyped, Finish, There
<1>2. MembersTyped'
  BY <1>1 DEF MembersHeld, MembersTyped
<1>3. /\ Done.pc = "done" /\ ~Done.move
  BY DEF Done, Blank
<1>5. ASSUME NEW d \in Calls \ {c}
      PROVE  /\ Static(call[d])'
             /\ call[d].org \notin contested => OwnersKnown(call[d])'
             /\ call[d].who \notin crossed => UserKnown(call[d])'
  <2>0. PICK k \in Call : k = call[d] /\ call'[d] = k
    BY <1>1 DEF MembersHeld, MembersTyped
  <2>1. Static(k) /\ (k.org \notin contested => OwnersKnown(k)) /\ (k.who \notin crossed => UserKnown(k))
    BY <2>0 DEF MembersHeld, CallsIs, OwnersIs, UsersIs
  <2>2. k.pc \notin {"idle", "done"} /\ k.who \notin crossed => k.who \in Users \ {call[c].who}
    BY <2>0, <2>1 DEF MembersHeld, CallsIs, Static
  <2>3. k.pc \in OwnerOps /\ k.org \notin contested => k.org \in Orgs /\ (k.org # call[c].org \/ call[c].pc \notin OwnerOps)
    BY <2>0, <2>1 DEF MembersHeld, CallsIs, Static, There, OwnerOps
  <2>4. k.pc \notin OwnerOps => OwnersKnown(k)'
    BY DEF OwnersKnown, OwnerOps
  <2>5. k.pc \in {"idle", "done"} => UserKnown(k)'
    BY DEF UserKnown
  <2>6. Static(k)'
    BY <1>1, <2>1, StaticStays
  <2>7. k.org \notin contested => OwnersKnown(k)'
    BY <2>1, <2>3, <2>4, OwnersKnownStays
  <2>8. k.who \notin crossed => UserKnown(k)'
    BY <2>1, <2>2, <2>5, UserKnownStays
  <2>9. Static(call[d])'
    BY <2>0, <2>6 DEF Static
  <2>10. k.org \notin contested => OwnersKnown(call[d])'
    BY <2>0, <2>7 DEF OwnersKnown
  <2>11. k.who \notin crossed => UserKnown(call[d])'
    BY <2>0, <2>8 DEF UserKnown
  <2>. QED  BY <2>0, <2>9, <2>10, <2>11
<1>6. Static(call[c])' /\ OwnersKnown(call[c])' /\ UserKnown(call[c])'
  BY <1>1, <1>3 DEF Static, OwnersKnown, UserKnown, OnRow, OnInvite
<1>7. CallsIs'
  <2>1. \A d \in Calls : Static(call[d])'
    BY <1>5, <1>6
  <2>2. \A a, b \in Calls : /\ a # b /\ call'[a].pc \in OwnerOps /\ call'[b].pc \in OwnerOps
                            /\ call'[a].org = call'[b].org
                            => call'[a].org \in contested'
    BY <1>1, <1>3 DEF MembersHeld, CallsIs, OwnerOps
  <2>3. \A a, b \in Calls : /\ a # b /\ call'[a].pc \notin {"idle", "done"} /\ call'[b].pc \notin {"idle", "done"}
                            /\ call'[a].who = call'[b].who
                            => call'[a].who \in crossed'
    BY <1>1, <1>3 DEF MembersHeld, CallsIs
  <2>. QED  BY <2>1, <2>2, <2>3 DEF CallsIs
<1>8. OwnersIs'
  <2>1. ASSUME NEW o \in There \ contested
        PROVE  Owned(o)'
    <3>1. Owned(o) /\ o \in Orgs
      BY DEF MembersHeld, OwnersIs, There
    <3>2. CASE o = g /\ call[c].pc \in OwnerOps
      BY <3>2
    <3>3. CASE o # g \/ call[c].pc \notin OwnerOps
      BY <3>1, <3>3, OwnedStays
    <3>. QED  BY <3>2, <3>3
  <2>2. \A d \in Calls : call'[d].org \notin contested' => OwnersKnown(call[d])'
    BY <1>1, <1>5, <1>6
  <2>. QED  BY <1>1, <2>1, <2>2 DEF OwnersIs
<1>9. UsersIs'
  <2>1. ASSUME NEW u \in Users \ crossed
        PROVE  Placed(u)'
    <3>1. CASE u = w
      BY <3>1
    <3>2. CASE u # w
      BY <3>2, PlacedStays DEF MembersHeld, UsersIs
    <3>. QED  BY <3>1, <3>2
  <2>2. \A d \in Calls : call'[d].who \notin crossed' => UserKnown(call[d])'
    BY <1>1, <1>5, <1>6
  <2>. QED  BY <1>1, <2>1, <2>2 DEF UsersIs
<1>. QED  BY <1>2, <1>7, <1>8, <1>9 DEF MembersHeld

--------------------------------------------------------------------------------
(* The calls on members begin.                                                    *)

LEMMA ManagedThere ==
  ASSUME MembersHeld, NEW o, Managed(o)
  PROVE  o \in There /\ o \in Orgs
<1>1. PICK r \in Rows : members[r].there /\ members[r].org = o
  BY DEF Managed, MembersOf
<1>2. members[r] # NoMember
  BY <1>1, Blanks
<1>. QED  BY <1>1, <1>2 DEF MembersHeld, RowsIs, There

LEMMA TargetFields ==
  ASSUME MembersHeld, NEW r \in Rows, members[r].there, NEW pc \in OnRow, NEW k, k = Target(r, pc)
  PROVE  /\ k \in Call /\ k.pc = pc /\ k.org = members[r].org /\ k.who = members[r].user
         /\ k.row = r /\ k.view = members[r] /\ ~k.move
         /\ members[r] # NoMember /\ k.org \in There /\ k.org \in Orgs /\ k.who \in Users
<1>1. members[r] # NoMember /\ members[r] \in Member
  BY Blanks DEF MembersHeld, MembersTyped
<1>2. members[r].org \in There /\ members[r].user \in Users /\ members[r].org \in Orgs
  BY <1>1 DEF MembersHeld, RowsIs, There
<1>. QED  BY <1>1, <1>2, Blanks DEF Target, Blank, Call, OnRow

LEMMA AddMemberHolds ==
  ASSUME MembersHeld, NEW c \in Calls, AddMember(c), UNCHANGED orgs
  PROVE  MembersHeld'
<1>1. PICK o \in Orgs, u \in Users, role \in Assignable :
        Managed(o) /\ Begin(c, [Blank EXCEPT !.pc = "add", !.org = o, !.who = u, !.role = role])
  BY DEF AddMember
<1>2. PICK k : k = [Blank EXCEPT !.pc = "add", !.org = o, !.who = u, !.role = role]
  OBVIOUS
<1>3. k \in Call /\ k.pc = "add" /\ k.org = o /\ k.who = u /\ k.role = role /\ ~k.move
  BY <1>2, Blanks DEF Blank, Call, Assignable
<1>4. Static(k) /\ OwnersKnown(k) /\ UserKnown(k)
  BY <1>1, <1>3, ManagedThere DEF Static, OwnersKnown, UserKnown, OnRow, OnInvite
<1>. QED  BY <1>1, <1>2, <1>3, <1>4, Begins

LEMMA UpdateMemberRoleHolds ==
  ASSUME MembersHeld, NEW c \in Calls, UpdateMemberRole(c), UNCHANGED orgs
  PROVE  MembersHeld'
<1>1. PICK r \in Rows, role \in Assignable :
        /\ members[r].there /\ members[r].role # "owner"
        /\ Begin(c, [Target(r, "role") EXCEPT !.role = role])
  BY DEF UpdateMemberRole, Manageable
<1>2. PICK t : t = Target(r, "role")
  OBVIOUS
<1>3. PICK k : k = [t EXCEPT !.role = role]
  OBVIOUS
<1>4. /\ t \in Call /\ t.pc = "role" /\ t.org = members[r].org /\ t.who = members[r].user
      /\ t.row = r /\ ~t.move /\ members[r] # NoMember /\ t.org \in There /\ t.who \in Users
  BY <1>1, <1>2, TargetFields DEF OnRow
<1>5. /\ k \in Call /\ k.pc = "role" /\ k.org = t.org /\ k.who = t.who /\ k.row = r /\ k.role = role /\ ~k.move
  BY <1>3, <1>4 DEF Call, Assignable
<1>6. Static(k) /\ OwnersKnown(k) /\ UserKnown(k)
  BY <1>1, <1>4, <1>5 DEF Static, OwnersKnown, UserKnown, OnRow, OnInvite
<1>. QED  BY <1>1, <1>2, <1>3, <1>5, <1>6, Begins

LEMMA RestoreMemberHolds ==
  ASSUME MembersHeld, NEW c \in Calls, RestoreMember(c), UNCHANGED orgs
  PROVE  MembersHeld'
<1>1. PICK r \in Rows : members[r].there /\ Begin(c, Target(r, "restore"))
  BY DEF RestoreMember, Actionable, Manageable
<1>2. PICK k : k = Target(r, "restore")
  OBVIOUS
<1>3. /\ k \in Call /\ k.pc = "restore" /\ k.org = members[r].org /\ k.who = members[r].user
      /\ k.row = r /\ ~k.move /\ members[r] # NoMember /\ k.org \in There /\ k.who \in Users
  BY <1>1, <1>2, TargetFields DEF OnRow
<1>4. Static(k) /\ OwnersKnown(k) /\ UserKnown(k)
  BY <1>3 DEF Static, OwnersKnown, UserKnown, OnRow, OnInvite
<1>. QED  BY <1>1, <1>2, <1>3, <1>4, Begins

\* An organization's one owner cannot be suspended or removed.
LEMMA LastOwnerStays ==
  ASSUME NEW r \in Rows, members[r].there, NotLastOwner(r), Owned(members[r].org)
  PROVE  members[r].role # "owner"
<1>1. PICK w \in Rows : /\ members[w].there /\ members[w].org = members[r].org /\ ~members[w].suspended
                        /\ \A x \in Rows : members[x].there /\ members[x].org = members[r].org
                                           /\ members[x].role = "owner" <=> x = w
  BY DEF Owned
<1>2. SUFFICES ASSUME members[r].role = "owner" PROVE FALSE
  OBVIOUS
<1>3. r = w
  BY <1>1, <1>2
<1>4. ActiveOwners(members[r].org) = {w}
  BY <1>1 DEF ActiveOwners, MembersOf
<1>5. Cardinality(ActiveOwners(members[r].org)) = 1
  BY <1>4, FS_Singleton
<1>. QED  BY <1>1, <1>2, <1>3, <1>5 DEF NotLastOwner

\* A call that takes a membership away from a user moves the user on.
LEMMA LeavesHolds ==
  ASSUME MembersHeld, NEW c \in Calls, NEW pc \in {"suspend", "remove"}, UNCHANGED orgs,
         NEW r \in Actionable, NotLastOwner(r), NEW k \in Reassigned(r, Target(r, pc)), Begin(c, k)
  PROVE  MembersHeld'
<1>1. PICK t : t = Target(r, pc)
  OBVIOUS
<1>2. r \in Rows /\ members[r].there
  BY DEF Actionable, Manageable
<1>3. /\ t \in Call /\ t.pc = pc /\ t.org = members[r].org /\ t.who = members[r].user
      /\ t.row = r /\ ~t.move /\ members[r] # NoMember /\ t.org \in There /\ t.org \in Orgs /\ t.who \in Users
  BY <1>1, <1>2, TargetFields DEF OnRow
<1>4. k \in Reassigned(r, t)
  BY <1>1
<1>5. \/ k = t /\ active[t.who] # t.org
      \/ \E n : /\ n = None \/ n \in Elsewhere(t.who, t.org)
                /\ k = [t EXCEPT !.move = TRUE, !.next = n]
  BY <1>3, <1>4 DEF Reassigned
<1>6. \A n \in Elsewhere(t.who, t.org) : n \in Orgs /\ n # t.org /\ Usable(n, t.who)
  <2>1. ASSUME NEW x \in Rows, members[x].there, members[x].user = t.who, members[x].org # t.org, ~members[x].suspended
        PROVE  members[x].org \in Orgs
    BY <2>1, Blanks DEF MembersHeld, RowsIs, There
  <2>. QED  BY <2>1 DEF Elsewhere, Joined, Usable
<1>7. PICK n \in Orgs \cup {None} : /\ n = None \/ (n # t.org /\ Usable(n, t.who))
                                   /\ \/ k = t /\ active[t.who] # t.org
                                      \/ k = [t EXCEPT !.move = TRUE, !.next = n]
  <2>1. CASE k = t /\ active[t.who] # t.org
    BY <2>1
  <2>2. ASSUME NEW n, n = None \/ n \in Elsewhere(t.who, t.org), k = [t EXCEPT !.move = TRUE, !.next = n]
        PROVE  /\ n \in Orgs \cup {None} /\ (n = None \/ (n # t.org /\ Usable(n, t.who)))
               /\ k = [t EXCEPT !.move = TRUE, !.next = n]
    BY <1>6, <2>2
  <2>. QED  BY <1>5, <2>1, <2>2
<1>8. /\ k \in Call /\ k.pc = pc /\ k.org = t.org /\ k.who = t.who /\ k.row = r
      /\ IF k.move THEN k.next = n ELSE active[k.who] # k.org
  BY <1>3, <1>7 DEF Call
<1>9. n # k.org
  BY <1>3, <1>7, <1>8, NullAssumption
<1>10. k.org \notin contested => members[r].role # "owner"
  BY <1>2, <1>3, <1>8, LastOwnerStays DEF MembersHeld, OwnersIs
<1>11. Static(k) /\ (k.org \notin contested => OwnersKnown(k))
  <2>1. k.pc \in {"suspend", "remove"} /\ k.org \in There /\ k.who \in Users /\ k.row = r
    BY <1>3, <1>8
  <2>2. members[r].org = k.org /\ members[r].user = k.who /\ members[r] # NoMember
    BY <1>3, <1>8
  <2>3. Static(k)
    BY <1>2, <2>1, <2>2 DEF Static, OnRow, OnInvite
  <2>4. k.org \notin contested => OwnersKnown(k)
    BY <1>10, <2>1 DEF OwnersKnown
  <2>. QED  BY <2>3, <2>4
<1>12. k.move => k.next # k.org /\ (k.next = None \/ Usable(k.next, k.who))
  BY <1>7, <1>8, <1>9
<1>13. UserKnown(k)
  BY <1>8, <1>12 DEF UserKnown
<1>. QED  BY <1>8, <1>11, <1>13, Begins

LEMMA TransferOwnershipHolds ==
  ASSUME MembersHeld, NEW c \in Calls, TransferOwnership(c), UNCHANGED orgs
  PROVE  MembersHeld'
<1>1. PICK r \in Rows, a \in Rows :
        /\ members[r].there /\ members[a].there /\ members[a].org = members[r].org /\ members[a].role = "owner"
        /\ members[r].role # "owner" /\ ~members[r].suspended
        /\ Begin(c, [Target(r, "transfer") EXCEPT !.mine = a, !.me = members[a]])
  BY DEF TransferOwnership, Manageable, MembersOf
<1>2. PICK t : t = Target(r, "transfer")
  OBVIOUS
<1>3. PICK k : k = [t EXCEPT !.mine = a, !.me = members[a]]
  OBVIOUS
<1>4. /\ t \in Call /\ t.pc = "transfer" /\ t.org = members[r].org /\ t.who = members[r].user /\ t.view = members[r]
      /\ t.row = r /\ ~t.move /\ members[r] # NoMember /\ t.org \in There /\ t.who \in Users
  BY <1>1, <1>2, TargetFields DEF OnRow
<1>5. members[a] \in Member /\ members[a] # NoMember
  BY <1>1, Blanks DEF MembersHeld, MembersTyped
<1>6. /\ k \in Call /\ k.pc = "transfer" /\ k.org = t.org /\ k.who = t.who /\ k.row = r
      /\ k.view = members[r] /\ k.mine = a /\ k.me = members[a] /\ ~k.move
  BY <1>3, <1>4, <1>5 DEF Call
<1>7. Static(k) /\ OwnersKnown(k) /\ UserKnown(k)
  BY <1>1, <1>4, <1>5, <1>6 DEF Static, OwnersKnown, UserKnown, OnRow, OnInvite
<1>. QED  BY <1>1, <1>2, <1>3, <1>6, <1>7, Begins

--------------------------------------------------------------------------------
(* The calls on invitations begin.                                                *)

LEMMA OpenFields ==
  ASSUME MembersHeld, NEW i \in Invites, invites[i] # NoInvite, NEW pc \in OnInvite, NEW k, k = Open(i, pc)
  PROVE  /\ k \in Call /\ k.pc = pc /\ k.org = invites[i].org /\ k.who = invites[i].to
         /\ k.inv = i /\ k.role = invites[i].role /\ ~k.move
         /\ k.org \in There /\ k.org \in Orgs /\ k.who \in Users /\ k.role \in Assignable
<1>1. invites[i] \in Invite
  BY DEF MembersHeld, MembersTyped
<1>2. /\ invites[i].org \in There /\ invites[i].to \in Users /\ invites[i].org \in Orgs
      /\ invites[i].role \in Assignable /\ invites[i].role \in Roles
  BY DEF MembersHeld, RowsIs, There, Assignable
<1>. QED  BY <1>1, <1>2, Blanks DEF Open, Blank, Call, OnInvite

LEMMA CreateInvitationHolds ==
  ASSUME MembersHeld, NEW c \in Calls, CreateInvitation(c), UNCHANGED orgs
  PROVE  MembersHeld'
<1>1. PICK o \in Orgs, u \in Users, role \in Assignable :
        /\ Managed(o) /\ Membership(o, u) = {}
        /\ Begin(c, [Blank EXCEPT !.pc = "invite", !.org = o, !.who = u, !.role = role, !.stale = PendingFor(o, u)])
  BY DEF CreateInvitation
<1>2. PICK k : k = [Blank EXCEPT !.pc = "invite", !.org = o, !.who = u, !.role = role, !.stale = PendingFor(o, u)]
  OBVIOUS
<1>3. PendingFor(o, u) \subseteq Invites
  BY DEF PendingFor
<1>4. k \in Call /\ k.pc = "invite" /\ k.org = o /\ k.who = u /\ k.role = role /\ k.stale = PendingFor(o, u) /\ ~k.move
  BY <1>2, <1>3, Blanks DEF Blank, Call, Assignable
<1>5. \A i \in PendingFor(o, u) : invites[i].to = u /\ invites[i] # NoInvite
  BY Blanks DEF PendingFor
<1>6. Static(k)
  BY <1>1, <1>4, <1>5, ManagedThere DEF Static, OnRow, OnInvite
<1>7. OwnersKnown(k) /\ UserKnown(k)
  BY <1>1, <1>4 DEF OwnersKnown, UserKnown, PendingFor
<1>. QED  BY <1>1, <1>2, <1>4, <1>6, <1>7, Begins

\* Resending, cancelling and declining one invitation that is waited for.
LEMMA AnswerHolds ==
  ASSUME MembersHeld, NEW c \in Calls, NEW pc \in {"resend", "cancel", "decline"}, UNCHANGED orgs,
         NEW i \in Invites, invites[i].status = "pending", Begin(c, Open(i, pc))
  PROVE  MembersHeld'
<1>1. PICK k : k = Open(i, pc)
  OBVIOUS
<1>2. invites[i] # NoInvite
  BY Blanks
<1>3. /\ k \in Call /\ k.pc = pc /\ k.org = invites[i].org /\ k.who = invites[i].to
      /\ k.inv = i /\ ~k.move /\ k.org \in There /\ k.who \in Users
  BY <1>1, <1>2, OpenFields DEF OnInvite
<1>4. Static(k) /\ OwnersKnown(k) /\ UserKnown(k)
  BY <1>2, <1>3 DEF Static, OwnersKnown, UserKnown, OnRow, OnInvite
<1>. QED  BY <1>1, <1>3, <1>4, Begins

LEMMA AcceptInvitationHolds ==
  ASSUME MembersHeld, NEW c \in Calls, AcceptInvitation(c), UNCHANGED orgs
  PROVE  MembersHeld'
<1>1. PICK i \in Invites :
        /\ invites[i].status = "pending"
        /\ Begin(c, [Open(i, "accept") EXCEPT !.move = Membership(invites[i].org, invites[i].to) = {},
                                               !.next = active[invites[i].to]])
  BY DEF AcceptInvitation
<1>2. PICK t : t = Open(i, "accept")
  OBVIOUS
<1>3. PICK n : n = active[invites[i].to]
  OBVIOUS
<1>4. PICK m \in BOOLEAN : m = (Membership(invites[i].org, invites[i].to) = {})
  OBVIOUS
<1>5. PICK k : k = [t EXCEPT !.move = m, !.next = n]
  OBVIOUS
<1>6. invites[i] # NoInvite
  BY <1>1, Blanks
<1>7. /\ t \in Call /\ t.pc = "accept" /\ t.org = invites[i].org /\ t.who = invites[i].to
      /\ t.inv = i /\ t.org \in There /\ t.who \in Users /\ t.role \in Assignable
  BY <1>2, <1>6, OpenFields DEF OnInvite
<1>8. n \in Orgs \cup {None}
  BY <1>3, <1>7 DEF MembersHeld, MembersTyped
<1>9. /\ k \in Call /\ k.pc = "accept" /\ k.org = t.org /\ k.who = t.who /\ k.inv = i /\ k.role = t.role
      /\ k.move = m
  BY <1>5, <1>7, <1>8 DEF Call
<1>10. t.who \notin crossed => m
  <2>1. t.who \notin crossed => Placed(t.who)
    BY <1>7 DEF MembersHeld, UsersIs
  <2>. QED  BY <1>1, <1>4, <1>7, <2>1 DEF Placed, Membership
<1>11. Static(k) /\ OwnersKnown(k) /\ (k.who \notin crossed => UserKnown(k))
  BY <1>1, <1>6, <1>7, <1>9, <1>10 DEF Static, OwnersKnown, UserKnown, OnRow, OnInvite
<1>. QED  BY <1>1, <1>2, <1>3, <1>4, <1>5, <1>9, <1>11, Begins

LEMMA ExpireStaleHolds ==
  ASSUME MembersHeld, NEW c \in Calls, ExpireStale(c), UNCHANGED orgs
  PROVE  MembersHeld'
<1>1. PICK u \in Users, I \in SUBSET Invites :
        /\ I \subseteq Late({i \in Invites : invites[i].to = u})
        /\ Begin(c, [Blank EXCEPT !.pc = "expire", !.who = u, !.stale = I])
  BY DEF ExpireStale, Late
<1>2. PICK k : k = [Blank EXCEPT !.pc = "expire", !.who = u, !.stale = I]
  OBVIOUS
<1>3. I \subseteq Invites /\ \A i \in I : invites[i].to = u /\ invites[i] # NoInvite
  BY <1>1, Blanks DEF Late
<1>4. k \in Call /\ k.pc = "expire" /\ k.who = u /\ k.stale = I /\ ~k.move
  BY <1>2, <1>3, Blanks DEF Blank, Call
<1>5. Static(k) /\ OwnersKnown(k) /\ UserKnown(k)
  BY <1>3, <1>4 DEF Static, OwnersKnown, UserKnown, OnRow, OnInvite
<1>. QED  BY <1>1, <1>2, <1>4, <1>5, Begins

--------------------------------------------------------------------------------
(* Invitations are answered, or expire.                                           *)

\* Some of a user's invitations are no longer waited for, or have an end again.
Answered(w) ==
  /\ invites' \in [Invites -> Invite]
  /\ \A i \in Invites :
       /\ invites'[i].org = invites[i].org /\ invites'[i].to = invites[i].to /\ invites'[i].role = invites[i].role
       /\ invites'[i] = NoInvite <=> invites[i] = NoInvite
       /\ invites'[i].status = "pending" => invites[i].status = "pending"
       /\ invites[i].to # w => invites'[i].status = invites[i].status

LEMMA MarkedAnswers ==
  ASSUME MembersHeld, NEW w \in Users, NEW I, NEW status \in InviteStatus \ {"pending"},
         \A i \in I : invites[i].to = w, invites' = Marked(I, status)
  PROVE  Answered(w)
<1>1. ASSUME NEW i \in Invites
      PROVE  /\ invites'[i] \in Invite
             /\ invites'[i].org = invites[i].org /\ invites'[i].to = invites[i].to /\ invites'[i].role = invites[i].role
             /\ invites'[i] = NoInvite <=> invites[i] = NoInvite
             /\ invites'[i].status = "pending" => invites[i].status = "pending"
             /\ invites[i].to # w => invites'[i].status = invites[i].status
  <2>1. invites[i] \in Invite
    BY DEF MembersHeld, MembersTyped
  <2>2. CASE i \notin I
    BY <2>1, <2>2 DEF Marked
  <2>3. CASE i \in I
    <3>1. invites'[i] = [invites[i] EXCEPT !.status = status] /\ invites[i].to = w
      BY <2>3 DEF Marked
    <3>2. invites'[i] # NoInvite /\ invites[i] # NoInvite
      BY <2>1, <3>1, Blanks, NullAssumption DEF Invite
    <3>. QED  BY <2>1, <3>1, <3>2 DEF Invite
  <2>. QED  BY <2>2, <2>3
<1>2. invites' = [i \in Invites |-> invites'[i]]
  BY DEF Marked
<1>. QED  BY <1>1, <1>2 DEF Answered

LEMMA AnsweredKeeps ==
  ASSUME NEW w, Answered(w), NEW u, u # w, active' = active, members' = members
  PROVE  KeptUser(u)
BY DEF Answered, KeptUser

LEMMA PlacedAnswered ==
  ASSUME NEW u, Placed(u), NEW w, Answered(w), active' = active, members' = members
  PROVE  Placed(u)'
<1>1. active'[u] = None \/ Usable(active[u], u)'
  BY DEF Placed, Usable
<1>2. \A i, j \in Invites : /\ invites'[i].status = "pending" /\ invites'[i].to = u
                            /\ invites'[j].status = "pending" /\ invites'[j].to = u
                            /\ invites'[i].org = invites'[j].org
                            => i = j
  BY DEF Placed, Answered
<1>3. \A i \in Invites, r \in Rows :
        ~(/\ invites'[i].status = "pending" /\ invites'[i].to = u
          /\ members'[r].there /\ members'[r].user = u /\ members'[r].org = invites'[i].org)
  BY DEF Placed, Answered
<1>. QED  BY <1>1, <1>2, <1>3 DEF Placed

LEMMA AnsweredRows ==
  ASSUME MembersHeld, NEW w, Answered(w), members' = members, There' = There
  PROVE  RowsIs' /\ RowsKept /\ \A o : KeptOwners(o)
<1>1. RowsIs'
  BY DEF MembersHeld, RowsIs, Answered
<1>. QED  BY <1>1 DEF RowsKept, Answered, KeptOwners

LEMMA CommitAnswerHolds ==
  ASSUME MembersHeld, NEW c \in Calls, CommitAnswer(c), UNCHANGED orgs
  PROVE  MembersHeld'
<1>1. PICK k \in Call : k = call[c]
  BY DEF MembersHeld, MembersTyped
<1>2. PICK w, g : w = k.who /\ g = k.org
  OBVIOUS
<1>3. /\ k.pc \in {"resend", "cancel", "decline", "expire"} /\ Finish(c)
      /\ UNCHANGED <<members, active, contested, crossed>>
  BY <1>1 DEF CommitAnswer
<1>4. Static(k) /\ w \in Users
  BY <1>1, <1>2, <1>3 DEF MembersHeld, CallsIs, Static
<1>5. Answered(w)
  <2>1. CASE k.pc = "resend"
    <3>1. invites' = [invites EXCEPT ![k.inv].late = FALSE] /\ k.inv \in Invites /\ invites[k.inv] # NoInvite
          /\ invites \in [Invites -> Invite]
      BY <1>1, <1>4, <2>1 DEF CommitAnswer, Static, OnInvite, MembersHeld, MembersTyped
    <3>2. PICK i \in Invites : i = k.inv
      BY <3>1
    <3>3. PICK x : x = [invites[i] EXCEPT !.late = FALSE]
      OBVIOUS
    <3>4. /\ x \in Invite /\ x.org = invites[i].org /\ x.to = invites[i].to /\ x.role = invites[i].role
          /\ x.status = invites[i].status
      BY <3>1, <3>3 DEF Invite
    <3>5. invites[i].org # None
      BY <3>1, <3>2, NullAssumption DEF MembersHeld, RowsIs, There
    <3>6. x # NoInvite
      BY <3>4, <3>5, Blanks
    <3>7. invites' = [invites EXCEPT ![i] = x]
      BY <3>1, <3>2, <3>3
    <3>. QED  BY <3>1, <3>2, <3>4, <3>6, <3>7 DEF Answered
  <2>2. CASE k.pc = "cancel"
    <3>1. invites' = Marked({k.inv}, "cancelled") /\ invites[k.inv].to = w
      BY <1>1, <1>2, <1>4, <2>2 DEF CommitAnswer, Static, OnInvite
    <3>. QED  BY <1>4, <3>1, MarkedAnswers DEF InviteStatus
  <2>3. CASE k.pc = "decline"
    <3>1. invites' = Marked({k.inv}, "declined") /\ invites[k.inv].to = w
      BY <1>1, <1>2, <1>4, <2>3 DEF CommitAnswer, Static, OnInvite
    <3>. QED  BY <1>4, <3>1, MarkedAnswers DEF InviteStatus
  <2>4. CASE k.pc = "expire"
    <3>1. invites' = Marked(k.stale, "expired") /\ \A i \in k.stale : invites[i].to = w
      BY <1>1, <1>2, <1>4, <2>4 DEF CommitAnswer, Static
    <3>. QED  BY <1>4, <3>1, MarkedAnswers DEF InviteStatus
  <2>. QED  BY <1>3, <2>1, <2>2, <2>3, <2>4
<1>6. /\ \A u \in Users \ {w} : KeptUser(u)
      /\ RowsIs' /\ RowsKept /\ \A o : KeptOwners(o)
  BY <1>3, <1>5, AnsweredKeeps, AnsweredRows DEF There
<1>7. w \notin crossed => Placed(w)'
  BY <1>3, <1>4, <1>5, PlacedAnswered DEF MembersHeld, UsersIs
<1>8. /\ members' \in [Rows -> Member] /\ invites' \in [Invites -> Invite] /\ active' \in [Users -> Orgs \cup {None}]
  BY <1>3, <1>5 DEF MembersHeld, MembersTyped, Answered
<1>9. call[c].pc \notin OwnerOps /\ call[c].pc \notin {"idle", "done"}
  BY <1>1, <1>3 DEF OwnerOps
<1>. QED  BY <1>1, <1>2, <1>3, <1>6, <1>7, <1>8, <1>9, Commits

LEMMA InviteLapsesHolds ==
  ASSUME MembersHeld, NEW i \in Invites, InviteLapses(i), UNCHANGED orgs
  PROVE  MembersHeld'
<1>1. PICK x : x = [invites[i] EXCEPT !.late = TRUE]
  OBVIOUS
<1>2. /\ x \in Invite /\ x.org = invites[i].org /\ x.to = invites[i].to /\ x.role = invites[i].role
      /\ x.status = "pending" /\ invites[i].status = "pending"
  BY <1>1 DEF MembersHeld, MembersTyped, Invite, InviteLapses
<1>3. x # NoInvite /\ invites[i] # NoInvite
  BY <1>2, Blanks
<1>4. /\ invites' \in [Invites -> Invite] /\ UNCHANGED <<members, active, call, contested, crossed>>
      /\ invites'[i] = x /\ \A j \in Invites \ {i} : invites'[j] = invites[j]
  BY <1>1, <1>2 DEF MembersHeld, MembersTyped, InviteLapses
<1>5. /\ There' = There /\ RowsKept /\ \A u : KeptUser(u)
      /\ RowsIs' /\ MembersTyped'
  BY <1>2, <1>3, <1>4 DEF There, RowsKept, KeptUser, MembersHeld, RowsIs, MembersTyped
<1>6. ASSUME NEW d \in Calls
      PROVE  /\ Static(call[d])'
             /\ call[d].org \notin contested => OwnersKnown(call[d])'
             /\ call[d].who \notin crossed => UserKnown(call[d])'
  <2>1. PICK k \in Call : k = call[d] /\ call'[d] = k
    BY <1>4 DEF MembersHeld, MembersTyped
  <2>2. Static(k) /\ (k.org \notin contested => OwnersKnown(k)) /\ (k.who \notin crossed => UserKnown(k))
    BY <2>1 DEF MembersHeld, CallsIs, OwnersIs, UsersIs
  <2>3. Static(k)' /\ (k.who \notin crossed => UserKnown(k)')
    BY <1>5, <2>2, StaticStays, UserKnownStays
  <2>4. Static(call[d])'
    BY <2>1, <2>3 DEF Static
  <2>5. k.org \notin contested => OwnersKnown(call[d])'
    BY <1>4, <2>1, <2>2 DEF OwnersKnown
  <2>6. k.who \notin crossed => UserKnown(call[d])'
    BY <2>1, <2>3 DEF UserKnown
  <2>. QED  BY <2>1, <2>4, <2>5, <2>6
<1>7. CallsIs'
  BY <1>4, <1>6 DEF MembersHeld, CallsIs
<1>8. OwnersIs'
  BY <1>4, <1>5, <1>6 DEF MembersHeld, OwnersIs, Owned
<1>9. UsersIs'
  BY <1>4, <1>5, <1>6, PlacedStays DEF MembersHeld, UsersIs
<1>. QED  BY <1>5, <1>7, <1>8, <1>9 DEF MembersHeld

--------------------------------------------------------------------------------
(* An invitation is made, and a membership.                                       *)

LEMMA CommitInviteHolds ==
  ASSUME MembersHeld, NEW c \in Calls, CommitInvite(c), UNCHANGED orgs
  PROVE  MembersHeld'
<1>1. PICK k \in Call : k = call[c]
  BY DEF MembersHeld, MembersTyped
<1>2. PICK w, g : w = k.who /\ g = k.org
  OBVIOUS
<1>3. PICK new \in Invites : new = CHOOSE x \in FreeInvites : TRUE
  BY DEF CommitInvite, FreeInvites
<1>4. PICK row : row = [org |-> g, to |-> w, role |-> k.role, status |-> "pending", late |-> FALSE]
  OBVIOUS
<1>5. /\ k.pc = "invite" /\ Finish(c) /\ invites[new] = NoInvite
      /\ invites' = [Marked(k.stale, "expired") EXCEPT ![new] = row]
      /\ UNCHANGED <<members, active, contested, crossed>>
  BY <1>1, <1>2, <1>3, <1>4 DEF CommitInvite, FreeInvites
<1>6. Static(k) /\ (w \notin crossed => UserKnown(k))
  BY <1>1, <1>2, <1>5 DEF MembersHeld, CallsIs, UsersIs
<1>7. /\ w \in Users /\ g \in There /\ g \in Orgs /\ k.role \in Assignable /\ k.role \in Roles
      /\ k.stale \subseteq Invites /\ \A i \in k.stale : invites[i].to = w /\ invites[i] # NoInvite
  BY <1>1, <1>2, <1>5, <1>6, CallFields DEF Static, There
<1>8. row \in Invite /\ row # NoInvite /\ row.org = g /\ row.to = w /\ row.role = k.role /\ row.status = "pending"
  BY <1>4, <1>7 DEF Invite, InviteStatus, NoInvite
<1>9. /\ invites \in [Invites -> Invite] /\ invites'[new] = row
      /\ \A i \in Invites \ {new} : invites'[i] = IF i \in k.stale THEN [invites[i] EXCEPT !.status = "expired"]
                                                   ELSE invites[i]
      /\ DOMAIN invites' = Invites /\ invites' = [i \in Invites |-> invites'[i]]
  BY <1>3, <1>5, <1>7 DEF MembersHeld, MembersTyped, Marked
<1>10. \A i \in Invites \ {new} :
         /\ invites'[i] \in Invite /\ invites'[i].org = invites[i].org /\ invites'[i].to = invites[i].to
         /\ invites'[i].role = invites[i].role /\ (invites'[i] = NoInvite <=> invites[i] = NoInvite)
         /\ invites'[i].status = "pending" => invites[i].status = "pending" /\ i \notin k.stale
         /\ invites[i].to # w => invites'[i].status = invites[i].status
  <2>1. ASSUME NEW i \in Invites \ {new}, i \in k.stale
        PROVE  /\ invites'[i] \in Invite /\ invites'[i].org = invites[i].org /\ invites'[i].to = invites[i].to
               /\ invites'[i].role = invites[i].role /\ invites'[i].status = "expired" /\ invites[i].to = w
               /\ invites'[i] # NoInvite /\ invites[i] # NoInvite
    <3>1. PICK x : x = invites[i] /\ x \in Invite
      BY <1>9
    <3>2. PICK y : y = [x EXCEPT !.status = "expired"]
      OBVIOUS
    <3>3. y \in Invite /\ y.org = x.org /\ y.to = x.to /\ y.role = x.role /\ y.status = "expired"
      BY <3>1, <3>2 DEF Invite, InviteStatus
    <3>4. invites'[i] = y
      BY <1>9, <2>1, <3>1, <3>2
    <3>5. y # NoInvite
      BY <3>3, Blanks
    <3>. QED  BY <1>7, <2>1, <3>1, <3>3, <3>4, <3>5
  <2>2. ASSUME NEW i \in Invites \ {new}, i \notin k.stale
        PROVE  invites'[i] = invites[i] /\ invites'[i] \in Invite
    BY <1>9, <2>2
  <2>. QED  BY <2>1, <2>2
<1>11. invites' \in [Invites -> Invite]
  BY <1>8, <1>9, <1>10
<1>12. RowsIs'
  BY <1>5, <1>7, <1>8, <1>9, <1>10 DEF MembersHeld, RowsIs, There
<1>13. RowsKept /\ \A o : KeptOwners(o)
  BY <1>5, <1>9, <1>10 DEF RowsKept, KeptOwners
<1>14. \A u \in Users \ {w} : KeptUser(u)
  BY <1>5, <1>8, <1>9, <1>10, Blanks, NullAssumption DEF KeptUser
<1>15. ASSUME w \notin crossed
       PROVE  Placed(w)'
  <2>1. Placed(w)
    BY <1>7, <1>15 DEF MembersHeld, UsersIs
  <2>2. /\ \A r \in Rows : ~(members[r].there /\ members[r].org = g /\ members[r].user = w)
        /\ \A i \in Invites : invites[i].status = "pending" /\ invites[i].org = g /\ invites[i].to = w
                              => i \in k.stale
    BY <1>2, <1>5, <1>6, <1>15 DEF UserKnown, Membership
  <2>3. \A i \in Invites : invites'[i].status = "pending" /\ invites'[i].to = w =>
          \/ i = new
          \/ i # new /\ invites[i].status = "pending" /\ invites[i].to = w /\ invites'[i].org = invites[i].org
             /\ invites[i].org # g
    BY <1>8, <1>9, <1>10, <2>2
  <2>4. \A i, j \in Invites : /\ invites'[i].status = "pending" /\ invites'[i].to = w
                              /\ invites'[j].status = "pending" /\ invites'[j].to = w
                              /\ invites'[i].org = invites'[j].org
                              => i = j
    BY <1>8, <1>9, <2>1, <2>3 DEF Placed
  <2>5. \A i \in Invites, r \in Rows :
          ~(/\ invites'[i].status = "pending" /\ invites'[i].to = w
            /\ members'[r].there /\ members'[r].user = w /\ members'[r].org = invites'[i].org)
    BY <1>5, <1>8, <1>9, <2>1, <2>2, <2>3 DEF Placed
  <2>6. active'[w] = None \/ Usable(active[w], w)'
    BY <1>5, <2>1 DEF Placed, Usable
  <2>. QED  BY <2>4, <2>5, <2>6 DEF Placed
<1>16. /\ members' \in [Rows -> Member] /\ active' \in [Users -> Orgs \cup {None}]
       /\ call[c].pc \notin OwnerOps /\ call[c].pc \notin {"idle", "done"}
  BY <1>1, <1>5 DEF MembersHeld, MembersTyped, OwnerOps
<1>. QED  BY <1>1, <1>2, <1>5, <1>11, <1>12, <1>13, <1>14, <1>15, <1>16, Commits

\* A new row, of a user who had none in the organization.
LEMMA Inserted ==
  ASSUME MembersHeld, NEW o \in Orgs, NEW u \in Users, NEW role \in Roles, Insert(o, u, role)
  PROVE  \E r \in Rows :
           /\ members[r] = NoMember /\ ~members[r].there /\ members[r].org = None /\ members[r].user = None
           /\ members' \in [Rows -> Member] /\ members'[r] # NoMember
           /\ members'[r].org = o /\ members'[r].user = u /\ members'[r].role = role
           /\ members'[r].there /\ ~members'[r].suspended
           /\ \A x \in Rows \ {r} : members'[x] = members[x]
<1>1. PICK r \in Rows : /\ members[r] = NoMember
                        /\ members' = [members EXCEPT ![r] = [org |-> o, user |-> u, role |-> role,
                                                              suspended |-> FALSE, there |-> TRUE]]
  BY DEF Insert, FreeRows
<1>2. PICK x : x = [org |-> o, user |-> u, role |-> role, suspended |-> FALSE, there |-> TRUE]
  OBVIOUS
<1>3. x \in Member /\ x.org = o /\ x.user = u /\ x.role = role /\ x.there /\ ~x.suspended
  BY <1>2 DEF Member
<1>4. x # NoMember
  BY <1>3, Blanks
<1>5. members \in [Rows -> Member]
  BY DEF MembersHeld, MembersTyped
<1>6. members' = [members EXCEPT ![r] = x]
  BY <1>1, <1>2
<1>7. members'[r] = x /\ members' \in [Rows -> Member] /\ \A y \in Rows \ {r} : members'[y] = members[y]
  BY <1>3, <1>5, <1>6
<1>8. ~members[r].there /\ members[r].org = None /\ members[r].user = None
  BY <1>1, Blanks
<1>9. /\ members'[r] # NoMember /\ members'[r].org = o /\ members'[r].user = u /\ members'[r].role = role
      /\ members'[r].there /\ ~members'[r].suspended
  BY <1>3, <1>4, <1>7
<1>. QED  BY <1>1, <1>7, <1>8, <1>9

\* What the new row leaves alone, when the user's invitations are answered with it.
LEMMA InsertedKeeps ==
  ASSUME MembersHeld, NEW o \in There, NEW u \in Users, NEW role \in Assignable,
         Insert(o, u, role), Membership(o, u) = {}, Answered(u), There' = There
  PROVE  /\ members' \in [Rows -> Member] /\ RowsIs' /\ RowsKept /\ \A p \in Orgs : KeptOwners(p)
         /\ \A p, v : Usable(p, v) => Usable(p, v)'
         /\ Usable(o, u)'
         /\ \A v \in Users \ {u} : active'[v] = active[v] => KeptUser(v)
         /\ Placed(u) /\ (\A i \in Invites : invites'[i].status = "pending" /\ invites[i].to = u => invites[i].org # o)
              /\ (active'[u] = None \/ active'[u] = o \/ active'[u] = active[u])
            => Placed(u)'
<1>1. o \in Orgs /\ role \in Roles /\ role # "owner"
  BY DEF There, Assignable
<1>2. PICK r \in Rows :
           /\ members[r] = NoMember /\ ~members[r].there /\ members[r].org = None /\ members[r].user = None
           /\ members' \in [Rows -> Member] /\ members'[r] # NoMember
           /\ members'[r].org = o /\ members'[r].user = u /\ members'[r].role = role
           /\ members'[r].there /\ ~members'[r].suspended
           /\ \A x \in Rows \ {r} : members'[x] = members[x]
  BY <1>1, Inserted
<1>3. \A x \in Rows : ~(members[x].there /\ members[x].org = o /\ members[x].user = u)
  BY DEF Membership
<1>4. RowsIs'
  <2>1. \A x \in Rows : members'[x] # NoMember => members'[x].user \in Users /\ members'[x].org \in There
    BY <1>2 DEF MembersHeld, RowsIs
  <2>2. \A x, y \in Rows : /\ members'[x].there /\ members'[y].there
                           /\ members'[x].org = members'[y].org /\ members'[x].user = members'[y].user
                           => x = y
    BY <1>2, <1>3 DEF MembersHeld, RowsIs
  <2>3. \A i \in Invites : invites'[i] # NoInvite =>
          invites'[i].to \in Users /\ invites'[i].org \in There /\ invites'[i].role \in Assignable
    BY DEF MembersHeld, RowsIs, Answered
  <2>. QED  BY <2>1, <2>2, <2>3 DEF RowsIs
<1>5. RowsKept
  BY <1>2 DEF RowsKept, Answered
<1>6. \A p \in Orgs : KeptOwners(p)
  BY <1>1, <1>2, NullAssumption DEF KeptOwners
<1>7. \A p, v : Usable(p, v) => Usable(p, v)'
  BY <1>2 DEF Usable
<1>8. Usable(o, u)'
  BY <1>2 DEF Usable
<1>9. ASSUME NEW v \in Users \ {u}, active'[v] = active[v]
      PROVE  KeptUser(v)
  BY <1>2, <1>9, NullAssumption DEF KeptUser, Answered
<1>10. ASSUME Placed(u), \A i \in Invites : invites'[i].status = "pending" /\ invites[i].to = u => invites[i].org # o,
              active'[u] = None \/ active'[u] = o \/ active'[u] = active[u]
       PROVE  Placed(u)'
  <2>1. \A i, j \in Invites : /\ invites'[i].status = "pending" /\ invites'[i].to = u
                              /\ invites'[j].status = "pending" /\ invites'[j].to = u
                              /\ invites'[i].org = invites'[j].org
                              => i = j
    BY <1>10 DEF Placed, Answered
  <2>2. \A i \in Invites, x \in Rows :
          ~(/\ invites'[i].status = "pending" /\ invites'[i].to = u
            /\ members'[x].there /\ members'[x].user = u /\ members'[x].org = invites'[i].org)
    BY <1>2, <1>10 DEF Placed, Answered
  <2>3. PICK a : a = active'[u]
    OBVIOUS
  <2>4. a = None \/ Usable(a, u)'
    BY <1>7, <1>8, <1>10, <2>3 DEF Placed
  <2>5. active'[u] = None \/ Usable(active[u], u)'
    BY <2>3, <2>4 DEF Usable
  <2>. QED  BY <2>1, <2>2, <2>5 DEF Placed
<1>. QED  BY <1>2, <1>4, <1>5, <1>6, <1>7, <1>8, <1>9, <1>10

LEMMA CommitAddHolds ==
  ASSUME MembersHeld, NEW c \in Calls, CommitAdd(c), UNCHANGED orgs
  PROVE  MembersHeld'
<1>1. PICK k \in Call : k = call[c]
  BY DEF MembersHeld, MembersTyped
<1>2. PICK w, g : w = k.who /\ g = k.org
  OBVIOUS
<1>3. k.pc = "add" /\ Finish(c) /\ UNCHANGED <<active, contested, crossed>> /\ There' = There
  BY <1>1 DEF CommitAdd, There
<1>4. Static(k) /\ w \in Users /\ g \in There /\ g \in Orgs /\ k.role \in Assignable
  BY <1>1, <1>2, <1>3 DEF MembersHeld, CallsIs, Static, There
<1>5. call[c].pc \notin OwnerOps /\ call[c].pc \notin {"idle", "done"} /\ active' \in [Users -> Orgs \cup {None}]
  BY <1>1, <1>3 DEF OwnerOps, MembersHeld, MembersTyped
<1>6. CASE Membership(g, w) = {}
  <2>1. Insert(g, w, k.role) /\ invites' = Cancelled(PendingFor(g, w))
    BY <1>1, <1>2, <1>6 DEF CommitAdd
  <2>2. ASSUME NEW i \in Invites
        PROVE  /\ invites'[i] \in Invite
               /\ invites'[i].org = invites[i].org /\ invites'[i].to = invites[i].to /\ invites'[i].role = invites[i].role
               /\ invites'[i] = NoInvite <=> invites[i] = NoInvite
               /\ invites'[i].status = "pending" => invites[i].status = "pending" /\ i \notin PendingFor(g, w)
               /\ invites[i].to # w => invites'[i].status = invites[i].status
    <3>1. PICK x \in Invite : x = invites[i]
      BY DEF MembersHeld, MembersTyped
    <3>2. CASE i \notin PendingFor(g, w)
      BY <2>1, <3>1, <3>2 DEF Cancelled
    <3>3. CASE i \in PendingFor(g, w)
      <4>1. PICK st \in {"expired", "cancelled"} : invites'[i] = [x EXCEPT !.status = st]
        BY <2>1, <3>1, <3>3 DEF Cancelled
      <4>2. x.to = w /\ x # NoInvite /\ w # None
        BY <1>4, <3>1, <3>3, Blanks, NullAssumption DEF PendingFor
      <4>3. PICK y : y = [x EXCEPT !.status = st]
        OBVIOUS
      <4>4. y \in Invite /\ y.org = x.org /\ y.to = x.to /\ y.role = x.role /\ y.status = st
        BY <3>1, <4>3 DEF Invite, InviteStatus
      <4>5. y # NoInvite
        BY <4>2, <4>4, Blanks
      <4>. QED  BY <3>1, <4>1, <4>2, <4>3, <4>4, <4>5
    <3>. QED  BY <3>2, <3>3
  <2>3. invites' = [i \in Invites |-> invites'[i]]
    BY <2>1 DEF Cancelled
  <2>4. Answered(w) /\ invites' \in [Invites -> Invite]
    BY <2>2, <2>3 DEF Answered
  <2>5. \A i \in Invites : invites'[i].status = "pending" /\ invites[i].to = w => invites[i].org # g
    BY <2>2 DEF PendingFor
  <2>6. /\ members' \in [Rows -> Member] /\ RowsIs' /\ RowsKept /\ \A p \in Orgs : KeptOwners(p)
        /\ \A v \in Users \ {w} : KeptUser(v)
        /\ Placed(w) => Placed(w)'
    BY <1>3, <1>4, <1>6, <2>1, <2>4, <2>5, InsertedKeeps
  <2>7. w \notin crossed => Placed(w)'
    BY <1>4, <2>6 DEF MembersHeld, UsersIs
  <2>. QED  BY <1>1, <1>2, <1>3, <1>5, <2>4, <2>6, <2>7, Commits
<1>7. CASE Membership(g, w) # {}
  <2>1. members' = members /\ invites' = invites
    BY <1>1, <1>2, <1>7 DEF CommitAdd
  <2>2. Answered(w)
    BY <2>1 DEF Answered, MembersHeld, MembersTyped
  <2>3. /\ \A u \in Users \ {w} : KeptUser(u)
        /\ RowsIs' /\ RowsKept /\ \A o : KeptOwners(o)
    BY <1>3, <2>1, <2>2, AnsweredKeeps, AnsweredRows
  <2>4. w \notin crossed => Placed(w)'
    BY <1>3, <1>4, <2>1, <2>2, PlacedAnswered DEF MembersHeld, UsersIs
  <2>5. members' \in [Rows -> Member] /\ invites' \in [Invites -> Invite]
    BY <2>1 DEF MembersHeld, MembersTyped
  <2>. QED  BY <1>1, <1>2, <1>3, <1>5, <2>3, <2>4, <2>5, Commits
<1>. QED  BY <1>6, <1>7

LEMMA CommitAcceptHolds ==
  ASSUME MembersHeld, NEW c \in Calls, CommitAccept(c), UNCHANGED orgs
  PROVE  MembersHeld'
<1>1. PICK k \in Call : k = call[c]
  BY DEF MembersHeld, MembersTyped
<1>2. PICK w, g : w = k.who /\ g = k.org
  OBVIOUS
<1>3. k.pc = "accept" /\ Finish(c) /\ UNCHANGED <<contested, crossed>> /\ There' = There
  BY <1>1 DEF CommitAccept, There
<1>4. /\ Static(k) /\ w \in Users /\ g \in There /\ g \in Orgs /\ k.role \in Assignable
      /\ k.inv \in Invites /\ invites[k.inv].org = g /\ invites[k.inv].to = w
  BY <1>1, <1>2, <1>3 DEF MembersHeld, CallsIs, Static, There, OnInvite
<1>5. call[c].pc \notin OwnerOps /\ call[c].pc \notin {"idle", "done"}
  BY <1>1, <1>3 DEF OwnerOps
<1>6. active \in [Users -> Orgs \cup {None}] /\ members \in [Rows -> Member] /\ invites \in [Invites -> Invite]
  BY DEF MembersHeld, MembersTyped
<1>7. w \notin crossed => Placed(w) /\ invites[k.inv].status = "pending" /\ k.move
  BY <1>1, <1>2, <1>3, <1>4 DEF MembersHeld, UsersIs, UserKnown
<1>8. CASE k.move /\ Membership(g, w) # {}
  <2>1. members' = members /\ invites' = invites /\ active' = active
    BY <1>1, <1>2, <1>8 DEF CommitAccept
  <2>2. Answered(w)
    BY <2>1 DEF Answered, MembersHeld, MembersTyped
  <2>3. /\ \A u \in Users \ {w} : KeptUser(u)
        /\ RowsIs' /\ RowsKept /\ \A o : KeptOwners(o)
    BY <1>3, <2>1, <2>2, AnsweredKeeps, AnsweredRows
  <2>4. w \notin crossed => Placed(w)'
    BY <1>7, <2>1, <2>2, PlacedAnswered
  <2>. QED  BY <1>1, <1>2, <1>3, <1>5, <1>6, <2>1, <2>3, <2>4, Commits
<1>9. CASE ~(k.move /\ Membership(g, w) # {})
  <2>1. /\ IF k.move THEN Insert(g, w, k.role) ELSE UNCHANGED members
        /\ invites' = Marked({k.inv}, "accepted")
        /\ active' = IF k.next = g THEN active ELSE [active EXCEPT ![w] = g]
    BY <1>1, <1>2, <1>9 DEF CommitAccept
  <2>2. Answered(w) /\ invites' \in [Invites -> Invite]
    <3>1. Answered(w)
      BY <1>4, <2>1, MarkedAnswers DEF InviteStatus
    <3>. QED  BY <3>1 DEF Answered
  <2>3. /\ active' \in [Users -> Orgs \cup {None}] /\ \A u \in Users \ {w} : active'[u] = active[u]
        /\ active'[w] = g \/ active'[w] = active[w]
    BY <1>4, <1>6, <2>1
  <2>4. CASE k.move
    <3>1. Membership(g, w) = {} /\ Insert(g, w, k.role)
      BY <1>9, <2>1, <2>4
    <3>2. /\ members' \in [Rows -> Member] /\ RowsIs' /\ RowsKept /\ \A p \in Orgs : KeptOwners(p)
          /\ \A v \in Users \ {w} : KeptUser(v)
      BY <1>3, <1>4, <2>2, <2>3, <3>1, InsertedKeeps
    <3>3. ASSUME w \notin crossed
          PROVE  Placed(w)'
      <4>1. ASSUME NEW i \in Invites, invites'[i].status = "pending", invites[i].to = w, invites[i].org = g
            PROVE  FALSE
        <5>1. invites[i].status = "pending"
          BY <2>2, <4>1 DEF Answered
        <5>2. i = k.inv
          BY <1>4, <1>7, <3>3, <4>1, <5>1 DEF Placed
        <5>3. invites'[i].status = "accepted"
          BY <1>6, <2>1, <5>2 DEF Marked, Invite
        <5>. QED  BY <4>1, <5>3
      <4>. QED  BY <1>3, <1>4, <1>7, <2>2, <2>3, <3>1, <3>3, <4>1, InsertedKeeps
    <3>. QED  BY <1>1, <1>2, <1>3, <1>5, <2>2, <2>3, <3>2, <3>3, Commits
  <2>5. CASE ~k.move
    <3>1. members' = members /\ w \in crossed
      BY <1>7, <2>1, <2>5
    <3>2. RowsIs' /\ RowsKept /\ \A o : KeptOwners(o)
      BY <1>3, <2>2, <3>1, AnsweredRows
    <3>3. \A u \in Users \ {w} : KeptUser(u)
      BY <2>2, <2>3, <3>1 DEF KeptUser, Answered
    <3>. QED  BY <1>1, <1>2, <1>3, <1>5, <1>6, <2>2, <2>3, <3>1, <3>2, <3>3, Commits
  <2>. QED  BY <2>4, <2>5
<1>. QED  BY <1>8, <1>9

--------------------------------------------------------------------------------
(* A row is changed, or deleted.                                                  *)

\* How a commit may leave the rows: the target's, and in a transfer the owner's, change.
Rewritten(k) ==
  /\ members' \in [Rows -> Member]
  /\ \A r \in Rows : /\ members'[r].org = members[r].org /\ members'[r].user = members[r].user
                     /\ members'[r] # NoMember <=> members[r] # NoMember
                     /\ members'[r].there => members[r].there
                     /\ r # k.row => members'[r].suspended = members[r].suspended /\ members'[r].there = members[r].there
                     /\ r # k.row /\ (k.pc # "transfer" \/ r # k.mine) => members'[r].role = members[r].role

LEMMA RewrittenKeeps ==
  ASSUME MembersHeld, NEW k \in Call, Static(k), k.pc \in OnRow, Rewritten(k), There' = There, invites' = invites
  PROVE  /\ RowsIs' /\ RowsKept
         /\ \A o \in Orgs \ {k.org} : KeptOwners(o)
         /\ \A v \in Users \ {k.who} : active'[v] = active[v] => KeptUser(v)
         /\ \A o \in Orgs \ {k.org} : Usable(o, k.who) => Usable(o, k.who)'
<1>1. /\ k.row \in Rows /\ members[k.row].org = k.org /\ members[k.row].user = k.who
      /\ k.pc = "transfer" => k.mine \in Rows /\ members[k.mine].org = k.org
  BY DEF Static
<1>2. RowsIs'
  BY DEF MembersHeld, RowsIs, Rewritten
<1>3. RowsKept
  BY DEF Rewritten, RowsKept
<1>4. ASSUME NEW o \in Orgs \ {k.org}
      PROVE  KeptOwners(o)
  BY <1>1 DEF Rewritten, KeptOwners
<1>5. ASSUME NEW v \in Users \ {k.who}, active'[v] = active[v]
      PROVE  KeptUser(v)
  BY <1>1, <1>5 DEF Rewritten, KeptUser
<1>6. ASSUME NEW o \in Orgs \ {k.org}, Usable(o, k.who)
      PROVE  Usable(o, k.who)'
  <2>1. PICK r \in Rows : members[r].there /\ members[r].org = o /\ members[r].user = k.who /\ ~members[r].suspended
    BY <1>6 DEF Usable
  <2>2. r # k.row
    BY <1>1, <2>1
  <2>3. members'[r].there /\ members'[r].org = o /\ members'[r].user = k.who /\ ~members'[r].suspended
    BY <2>1, <2>2 DEF Rewritten
  <2>. QED  BY <2>3 DEF Usable
<1>. QED  BY <1>2, <1>3, <1>4, <1>5, <1>6

\* Where the user lands once a row is changed.
LEMMA RewrittenPlaces ==
  ASSUME NEW k \in Call, Rewritten(k), invites' = invites, Placed(k.who),
         NEW a, a = active'[k.who], a = None \/ Usable(a, k.who)'
  PROVE  Placed(k.who)'
<1>1. active'[k.who] = None \/ Usable(active[k.who], k.who)'
  BY DEF Usable
<1>2. \A i, j \in Invites : /\ invites'[i].status = "pending" /\ invites'[i].to = k.who
                            /\ invites'[j].status = "pending" /\ invites'[j].to = k.who
                            /\ invites'[i].org = invites'[j].org
                            => i = j
  BY DEF Placed
<1>3. \A i \in Invites, r \in Rows :
        ~(/\ invites'[i].status = "pending" /\ invites'[i].to = k.who
          /\ members'[r].there /\ members'[r].user = k.who /\ members'[r].org = invites'[i].org)
  BY DEF Placed, Rewritten
<1>. QED  BY <1>1, <1>2, <1>3 DEF Placed

\* A call that did not know of an owner leaves the owner where it was.
LEMMA RewrittenOwned ==
  ASSUME NEW k \in Call, Rewritten(k), k.pc # "transfer", NEW o, Owned(o), k.row \in Rows,
         members[k.row].role # "owner", members'[k.row].role # "owner"
  PROVE  Owned(o)'
<1>1. PICK w \in Rows : /\ members[w].there /\ members[w].org = o /\ ~members[w].suspended
                        /\ \A r \in Rows :
                             members[r].there /\ members[r].org = o /\ members[r].role = "owner" <=> r = w
  BY DEF Owned
<1>2. w # k.row
  BY <1>1
<1>3. members'[w].there /\ members'[w].org = o /\ ~members'[w].suspended /\ members'[w].role = "owner"
  BY <1>1, <1>2 DEF Rewritten
<1>4. ASSUME NEW r \in Rows, members'[r].there, members'[r].org = o, members'[r].role = "owner"
      PROVE  r = w
  BY <1>1, <1>4 DEF Rewritten
<1>. QED  BY <1>3, <1>4 DEF Owned

LEMMA CommitRemoveHolds ==
  ASSUME MembersHeld, NEW c \in Calls, CommitRemove(c), UNCHANGED orgs
  PROVE  MembersHeld'
<1>1. PICK k \in Call : k = call[c]
  BY DEF MembersHeld, MembersTyped
<1>2. PICK w, g : w = k.who /\ g = k.org
  OBVIOUS
<1>3. /\ k.pc = "remove" /\ Finish(c) /\ UNCHANGED <<invites, contested, crossed>> /\ There' = There
      /\ members' = [members EXCEPT ![k.row].there = FALSE]
      /\ active' = IF k.move THEN [active EXCEPT ![w] = k.next] ELSE active
  BY <1>1, <1>2 DEF CommitRemove, There
<1>4. /\ Static(k) /\ w \in Users /\ g \in Orgs /\ k.row \in Rows /\ members[k.row] # NoMember
      /\ members[k.row].org = g /\ members[k.row].user = w
  BY <1>1, <1>2, <1>3 DEF MembersHeld, CallsIs, Static, There, OnRow
<1>5. members \in [Rows -> Member] /\ invites \in [Invites -> Invite] /\ active \in [Users -> Orgs \cup {None}]
  BY DEF MembersHeld, MembersTyped
<1>6. PICK x : x = [members[k.row] EXCEPT !.there = FALSE]
  OBVIOUS
<1>7. /\ x \in Member /\ x.org = members[k.row].org /\ x.user = members[k.row].user
      /\ x.role = members[k.row].role /\ x.suspended = members[k.row].suspended /\ ~x.there
  BY <1>4, <1>5, <1>6 DEF Member
<1>8. x # NoMember
  BY <1>4, <1>7, Blanks, NullAssumption
<1>9. members' = [members EXCEPT ![k.row] = x]
  BY <1>3, <1>6
<1>10. Rewritten(k) /\ members'[k.row].role = members[k.row].role
  BY <1>4, <1>5, <1>7, <1>8, <1>9 DEF Rewritten
<1>11. /\ active' \in [Users -> Orgs \cup {None}] /\ \A v \in Users \ {w} : active'[v] = active[v]
       /\ active'[w] = IF k.move THEN k.next ELSE active[w]
  BY <1>3, <1>4, <1>5, CallFields
<1>12. /\ RowsIs' /\ RowsKept
       /\ \A o \in Orgs \ {g} : KeptOwners(o)
       /\ \A v \in Users \ {w} : KeptUser(v)
       /\ \A o \in Orgs \ {g} : Usable(o, w) => Usable(o, w)'
  BY <1>2, <1>3, <1>4, <1>10, <1>11, RewrittenKeeps DEF OnRow
<1>13. ASSUME w \notin crossed
       PROVE  Placed(w)'
  <2>1. Placed(w) /\ UserKnown(k)
    BY <1>1, <1>2, <1>4, <1>13 DEF MembersHeld, UsersIs
  <2>2. PICK a : a = active'[w]
    OBVIOUS
  <2>3. a = None \/ (a \in Orgs \ {g} /\ Usable(a, w))
    <3>1. CASE k.move
      BY <1>2, <1>3, <1>11, <2>1, <2>2, <3>1, CallFields DEF UserKnown
    <3>2. CASE ~k.move
      <4>1. a = active[w] /\ a \in Orgs \cup {None} /\ a # g
        BY <1>2, <1>3, <1>4, <1>5, <1>11, <2>1, <2>2, <3>2 DEF UserKnown
      <4>. QED  BY <2>1, <4>1 DEF Placed
    <3>. QED  BY <3>1, <3>2
  <2>4. a = None \/ Usable(a, w)'
    BY <1>12, <2>3
  <2>. QED  BY <1>2, <1>3, <1>10, <2>1, <2>2, <2>4, RewrittenPlaces
<1>14. ASSUME g \notin contested
       PROVE  Owned(g)'
  <2>1. Owned(g) /\ OwnersKnown(k)
    BY <1>1, <1>2, <1>3, <1>14 DEF MembersHeld, OwnersIs, CallsIs, Static
  <2>2. members[k.row].role # "owner"
    BY <1>3, <2>1 DEF OwnersKnown
  <2>. QED  BY <1>3, <1>4, <1>10, <2>1, <2>2, RewrittenOwned
<1>15. members' \in [Rows -> Member] /\ invites' \in [Invites -> Invite]
  BY <1>3, <1>5, <1>10 DEF Rewritten
<1>16. call[c].pc \in OwnerOps /\ call[c].pc \notin {"idle", "done"}
  BY <1>1, <1>3 DEF OwnerOps
<1>. QED  BY <1>1, <1>2, <1>3, <1>11, <1>12, <1>13, <1>14, <1>15, <1>16, Commits

\* What each call makes of its row: the columns it changed.
LEMMA UpdatedRows ==
  ASSUME MembersHeld, NEW k \in Call, Static(k), k.pc \in {"role", "suspend", "restore", "transfer"},
         members' = Updated(k), \A r \in Touched(k) : members[r].there
  PROVE  /\ Rewritten(k) /\ \A r \in Rows : members'[r].there = members[r].there
         /\ k.pc = "role" => /\ members'[k.row].role \in {k.role, members[k.row].role}
                             /\ members'[k.row].suspended = members[k.row].suspended
         /\ k.pc = "suspend" => members'[k.row].role = members[k.row].role
         /\ k.pc = "restore" => /\ members'[k.row].role = members[k.row].role
                                /\ members'[k.row].suspended => members[k.row].suspended
         /\ k.pc = "transfer" => /\ members'[k.row].role = "owner" /\ members'[k.mine].role = "admin"
                                 /\ members'[k.row].suspended = members[k.row].suspended
<1>1. /\ k.row \in Rows /\ k.view \in Member /\ k.me \in Member /\ k.role \in Roles
      /\ members \in [Rows -> Member] /\ members[k.row].there
  BY CallFields DEF Static, OnRow, MembersHeld, MembersTyped, Touched
<1>2. PICK new : new = Changed(k)
  OBVIOUS
<1>3. /\ new \in Member /\ new.org = k.view.org /\ new.user = k.view.user /\ new.there = k.view.there
      /\ k.pc = "role" => new.role = k.role /\ new.suspended = k.view.suspended
      /\ k.pc = "suspend" => new.role = k.view.role
      /\ k.pc = "restore" => new.role = k.view.role /\ ~new.suspended
      /\ k.pc = "transfer" => new.role = "owner" /\ new.suspended = k.view.suspended
  BY <1>1, <1>2 DEF Changed, Member, Roles
<1>4. PICK x : x = Written(members[k.row], k.view, new)
  OBVIOUS
<1>5. /\ x \in Member /\ x.org = members[k.row].org /\ x.user = members[k.row].user /\ x.there = members[k.row].there
      /\ k.pc = "role" => x.role \in {k.role, members[k.row].role} /\ x.suspended = members[k.row].suspended
      /\ k.pc = "suspend" => x.role = members[k.row].role
      /\ k.pc = "restore" => x.role = members[k.row].role /\ (x.suspended => members[k.row].suspended)
  <2>1. /\ x \in Member
        /\ x.org = (IF new.org # k.view.org THEN new.org ELSE members[k.row].org)
        /\ x.user = (IF new.user # k.view.user THEN new.user ELSE members[k.row].user)
        /\ x.role = (IF new.role # k.view.role THEN new.role ELSE members[k.row].role)
        /\ x.suspended = (IF new.suspended # k.view.suspended THEN new.suspended ELSE members[k.row].suspended)
        /\ x.there = (IF new.there # k.view.there THEN new.there ELSE members[k.row].there)
    <3>1. PICK now \in Member : now = members[k.row]
      BY <1>1
    <3>2. new \in Member /\ k.view \in Member /\ x = Written(now, k.view, new)
      BY <1>1, <1>3, <1>4, <3>1
    <3>. QED  BY <3>1, <3>2, WrittenMember
  <2>. QED  BY <1>3, <2>1
<1>6. k.pc = "transfer" => x.role = "owner" /\ x.suspended = members[k.row].suspended
  <2>1. /\ x.role = (IF new.role # k.view.role THEN new.role ELSE members[k.row].role)
        /\ x.suspended = (IF new.suspended # k.view.suspended THEN new.suspended ELSE members[k.row].suspended)
    BY <1>1, <1>3, <1>4, WrittenMember
  <2>. QED  BY <1>3, <2>1 DEF Static
<1>7. members'[k.row] = x /\ x # NoMember /\ members[k.row] # NoMember
  <2>1. members'[k.row] = x
    <3>1. ~(k.row = k.mine /\ k.pc = "transfer")
      BY DEF Static
    <3>. QED  BY <1>1, <1>2, <1>4, <3>1 DEF Updated
  <2>. QED  BY <1>1, <1>5, <2>1, Blanks
<1>8. CASE k.pc # "transfer"
  <2>1. \A r \in Rows \ {k.row} : members'[r] = members[r]
    BY <1>8 DEF Updated
  <2>2. members' = [r \in Rows |-> members'[r]]
    BY DEF Updated
  <2>3. members' \in [Rows -> Member]
    BY <1>1, <1>5, <1>7, <2>1, <2>2
  <2>4. Rewritten(k)
    BY <1>5, <1>7, <1>8, <2>1, <2>3 DEF Rewritten
  <2>. QED  BY <1>5, <1>7, <1>8, <2>1, <2>4
<1>9. CASE k.pc = "transfer"
  <2>1. /\ k.mine \in Rows \ {k.row} /\ members[k.mine] # NoMember /\ members[k.mine].there
        /\ k.me.role = "owner"
    BY <1>9 DEF Static, Touched
  <2>2. PICK z : z = [k.me EXCEPT !.role = "admin"]
    OBVIOUS
  <2>3. /\ z \in Member /\ z.role = "admin" /\ z.org = k.me.org /\ z.user = k.me.user
        /\ z.suspended = k.me.suspended /\ z.there = k.me.there
    BY <1>1, <2>2 DEF Member, Roles
  <2>4. PICK y : y = Written(members[k.mine], k.me, z)
    OBVIOUS
  <2>5. /\ y \in Member /\ y.role = "admin" /\ y.org = members[k.mine].org /\ y.user = members[k.mine].user
        /\ y.suspended = members[k.mine].suspended /\ y.there = members[k.mine].there
    <3>1. members[k.mine] \in Member
      BY <1>1, <2>1
    <3>2. /\ y \in Member
          /\ y.org = (IF z.org # k.me.org THEN z.org ELSE members[k.mine].org)
          /\ y.user = (IF z.user # k.me.user THEN z.user ELSE members[k.mine].user)
          /\ y.role = (IF z.role # k.me.role THEN z.role ELSE members[k.mine].role)
          /\ y.suspended = (IF z.suspended # k.me.suspended THEN z.suspended ELSE members[k.mine].suspended)
          /\ y.there = (IF z.there # k.me.there THEN z.there ELSE members[k.mine].there)
      BY <1>1, <2>3, <2>4, <3>1, WrittenMember
    <3>. QED  BY <2>1, <2>3, <3>2
  <2>6. members'[k.mine] = y /\ y # NoMember
    <3>1. members'[k.mine] = y
      BY <1>9, <2>1, <2>2, <2>4 DEF Updated
    <3>. QED  BY <2>1, <2>5, <3>1, Blanks
  <2>7. \A r \in Rows \ {k.row, k.mine} : members'[r] = members[r]
    BY DEF Updated
  <2>8. members' = [r \in Rows |-> members'[r]]
    BY DEF Updated
  <2>9. members' \in [Rows -> Member]
    BY <1>1, <1>5, <1>7, <2>5, <2>6, <2>7, <2>8
  <2>10. Rewritten(k)
    BY <1>5, <1>7, <1>9, <2>1, <2>5, <2>6, <2>7, <2>9 DEF Rewritten
  <2>. QED  BY <1>5, <1>6, <1>7, <1>9, <2>5, <2>6, <2>7, <2>10
<1>. QED  BY <1>8, <1>9

LEMMA CommitMemberHolds ==
  ASSUME MembersHeld, NEW c \in Calls, CommitMember(c), UNCHANGED orgs
  PROVE  MembersHeld'
<1>1. PICK k \in Call : k = call[c]
  BY DEF MembersHeld, MembersTyped
<1>2. PICK w, g : w = k.who /\ g = k.org
  OBVIOUS
<1>3. /\ k.pc \in {"role", "suspend", "restore", "transfer"} /\ Finish(c)
      /\ UNCHANGED <<invites, contested, crossed>> /\ There' = There
      /\ IF \A r \in Touched(k) : members[r].there
         THEN /\ members' = Updated(k)
              /\ active' = IF k.move THEN [active EXCEPT ![w] = k.next] ELSE active
         ELSE UNCHANGED <<members, active>>
  BY <1>1, <1>2 DEF CommitMember, There
<1>4. /\ Static(k) /\ w \in Users /\ g \in Orgs /\ k.row \in Rows /\ members[k.row] # NoMember
      /\ members[k.row].org = g /\ members[k.row].user = w /\ (k.pc # "suspend" => ~k.move)
      /\ (k.pc = "role" => k.role # "owner")
  BY <1>1, <1>2, <1>3 DEF MembersHeld, CallsIs, Static, There, OnRow, Assignable
<1>5. members \in [Rows -> Member] /\ invites \in [Invites -> Invite] /\ active \in [Users -> Orgs \cup {None}]
  BY DEF MembersHeld, MembersTyped
<1>6. call[c].pc \notin {"idle", "done"} /\ members[k.row] \in Member
  BY <1>1, <1>3, <1>4, <1>5
<1>7. w \notin crossed => Placed(w) /\ UserKnown(k)
  BY <1>1, <1>2, <1>4 DEF MembersHeld, UsersIs
<1>8. g \notin contested => Owned(g) /\ OwnersKnown(k)
  BY <1>1, <1>2, <1>3 DEF MembersHeld, OwnersIs, CallsIs, Static
<1>9. CASE ~\A r \in Touched(k) : members[r].there
  <2>1. members' = members /\ active' = active /\ Answered(w) /\ invites' = invites
    BY <1>3, <1>5, <1>9 DEF Answered
  <2>2. /\ \A u \in Users \ {w} : KeptUser(u)
        /\ RowsIs' /\ RowsKept /\ \A o : KeptOwners(o)
    BY <1>3, <2>1, AnsweredKeeps, AnsweredRows
  <2>3. /\ w \notin crossed => Placed(w)'
        /\ g \notin contested => Owned(g)'
    BY <1>7, <1>8, <2>1, <2>2, PlacedAnswered, OwnedStays
  <2>. QED  BY <1>1, <1>2, <1>3, <1>5, <1>6, <2>1, <2>2, <2>3, Commits
<1>10. CASE \A r \in Touched(k) : members[r].there
  <2>1. /\ Rewritten(k) /\ \A r \in Rows : members'[r].there = members[r].there
        /\ k.pc = "role" => /\ members'[k.row].role \in {k.role, members[k.row].role}
                            /\ members'[k.row].suspended = members[k.row].suspended
        /\ k.pc = "suspend" => members'[k.row].role = members[k.row].role
        /\ k.pc = "restore" => /\ members'[k.row].role = members[k.row].role
                               /\ members'[k.row].suspended => members[k.row].suspended
        /\ k.pc = "transfer" => /\ members'[k.row].role = "owner" /\ members'[k.mine].role = "admin"
                                /\ members'[k.row].suspended = members[k.row].suspended
    BY <1>3, <1>4, <1>10, UpdatedRows
  <2>2. /\ active' \in [Users -> Orgs \cup {None}] /\ \A v \in Users \ {w} : active'[v] = active[v]
        /\ active'[w] = IF k.move THEN k.next ELSE active[w]
    BY <1>3, <1>4, <1>5, <1>10, CallFields
  <2>3. /\ RowsIs' /\ RowsKept
        /\ \A o \in Orgs \ {g} : KeptOwners(o)
        /\ \A v \in Users \ {w} : KeptUser(v)
        /\ \A o \in Orgs \ {g} : Usable(o, w) => Usable(o, w)'
    BY <1>2, <1>3, <1>4, <2>1, <2>2, RewrittenKeeps DEF OnRow
  <2>4. k.pc \notin OwnerOps => KeptOwners(g)
    BY <1>3, <1>4, <2>1 DEF Rewritten, KeptOwners, OwnerOps
  <2>5. ASSUME w \notin crossed
        PROVE  Placed(w)'
    <3>1. PICK a : a = active'[w]
      OBVIOUS
    <3>2. CASE k.pc = "suspend"
      <4>1. a = None \/ (a \in Orgs \ {g} /\ Usable(a, w))
        <5>1. CASE k.move
          BY <1>2, <1>7, <2>2, <2>5, <3>1, <3>2, <5>1, CallFields DEF UserKnown
        <5>2. CASE ~k.move
          <6>1. a = active[w] /\ a \in Orgs \cup {None} /\ a # g
            BY <1>2, <1>4, <1>5, <1>7, <2>2, <2>5, <3>1, <3>2, <5>2 DEF UserKnown
          <6>. QED  BY <1>7, <2>5, <6>1 DEF Placed
        <5>. QED  BY <5>1, <5>2
      <4>2. a = None \/ Usable(a, w)'
        BY <2>3, <4>1
      <4>. QED  BY <1>2, <1>3, <1>7, <2>1, <2>5, <3>1, <4>2, RewrittenPlaces
    <3>3. CASE k.pc # "suspend"
      <4>1. a = active[w] /\ (a = None \/ Usable(a, w))
        BY <1>4, <1>7, <2>2, <2>5, <3>1, <3>3 DEF Placed
      <4>2. \A r \in Rows : members'[r].suspended => members[r].suspended
        BY <1>3, <2>1, <3>3 DEF Rewritten
      <4>3. a = None \/ Usable(a, w)'
        BY <2>1, <4>1, <4>2 DEF Usable, Rewritten
      <4>. QED  BY <1>2, <1>3, <1>7, <2>1, <2>5, <3>1, <4>3, RewrittenPlaces
    <3>. QED  BY <3>2, <3>3
  <2>6. ASSUME k.pc \in OwnerOps, g \notin contested
        PROVE  Owned(g)'
    <3>1. CASE k.pc \in {"role", "suspend"}
      <4>1. members[k.row].role # "owner" /\ members'[k.row].role # "owner"
        BY <1>4, <1>8, <2>1, <2>6, <3>1 DEF OwnersKnown
      <4>. QED  BY <1>4, <1>8, <2>1, <2>6, <3>1, <4>1, RewrittenOwned
    <3>2. CASE k.pc = "transfer"
      <4>1. /\ members[k.row].there /\ members[k.row].role # "owner" /\ ~members[k.row].suspended
            /\ members[k.mine].there /\ members[k.mine].role = "owner"
            /\ k.mine \in Rows \ {k.row} /\ members[k.mine].org = g
        BY <1>2, <1>4, <1>8, <2>6, <3>2 DEF OwnersKnown, Static
      <4>2. \A r \in Rows : members[r].there /\ members[r].org = g /\ members[r].role = "owner" => r = k.mine
        BY <1>8, <2>6, <4>1 DEF Owned
      <4>3. members'[k.row].there /\ members'[k.row].org = g /\ ~members'[k.row].suspended /\ members'[k.row].role = "owner"
        BY <1>4, <2>1, <3>2, <4>1 DEF Rewritten
      <4>4. ASSUME NEW r \in Rows, members'[r].there, members'[r].org = g, members'[r].role = "owner"
            PROVE  r = k.row
        <5>1. r # k.mine
          BY <2>1, <3>2, <4>4
        <5>. QED  BY <2>1, <4>2, <4>4, <5>1 DEF Rewritten
      <4>. QED  BY <1>4, <4>3, <4>4 DEF Owned
    <3>. QED  BY <1>3, <2>6, <3>1, <3>2 DEF OwnerOps
  <2>7. members' \in [Rows -> Member] /\ invites' \in [Invites -> Invite]
    BY <1>3, <1>5, <2>1 DEF Rewritten
  <2>8. \A o \in Orgs : o # g \/ k.pc \notin OwnerOps => KeptOwners(o)
    BY <2>3, <2>4
  <2>. QED  BY <1>1, <1>2, <1>3, <1>6, <2>2, <2>3, <2>5, <2>6, <2>7, <2>8, Commits
<1>. QED  BY <1>9, <1>10

\* Every step of the memberships, the organizations being as they were.
LEMMA MembershipNextHolds ==
  ASSUME MembersHeld, MembershipNext, UNCHANGED orgs
  PROVE  MembersHeld'
<1>1. ASSUME NEW c \in Calls, SuspendMember(c)
      PROVE  MembersHeld'
  <2>1. PICK r \in Actionable : NotLastOwner(r) /\ \E k \in Reassigned(r, Target(r, "suspend")) : Begin(c, k)
    BY <1>1 DEF SuspendMember
  <2>. QED  BY <2>1, LeavesHolds
<1>2. ASSUME NEW c \in Calls, RemoveMember(c)
      PROVE  MembersHeld'
  <2>1. PICK r \in Actionable : NotLastOwner(r) /\ \E k \in Reassigned(r, Target(r, "remove")) : Begin(c, k)
    BY <1>2 DEF RemoveMember
  <2>. QED  BY <2>1, LeavesHolds
<1>3. ASSUME NEW c \in Calls, ResendInvitation(c) \/ CancelInvitation(c) \/ DeclineInvitation(c)
      PROVE  MembersHeld'
  <2>1. PICK pc \in {"resend", "cancel", "decline"}, i \in Invites : invites[i].status = "pending" /\ Begin(c, Open(i, pc))
    BY <1>3 DEF ResendInvitation, CancelInvitation, DeclineInvitation
  <2>. QED  BY <2>1, AnswerHolds
<1>. QED  BY <1>1, <1>2, <1>3, AddMemberHolds, UpdateMemberRoleHolds, RestoreMemberHolds, TransferOwnershipHolds,
             CreateInvitationHolds, AcceptInvitationHolds, ExpireStaleHolds, CommitAddHolds, CommitMemberHolds,
             CommitRemoveHolds, CommitInviteHolds, CommitAnswerHolds, CommitAcceptHolds, InviteLapsesHolds
          DEF MembershipNext

\* Steps that leave the memberships alone.
LEMMA MembersStay ==
  ASSUME MembersHeld, UNCHANGED membershipVars, There' = There
  PROVE  MembersHeld'
<1>1. /\ MembersTyped' /\ RowsIs' /\ call' = call /\ contested' = contested /\ crossed' = crossed
      /\ members' = members /\ invites' = invites /\ active' = active
  BY DEF membershipVars, MembersHeld, MembersTyped, RowsIs
<1>2. CallsIs'
  BY <1>1 DEF MembersHeld, CallsIs, Static
<1>3. OwnersIs'
  BY <1>1 DEF MembersHeld, OwnersIs, Owned, OwnersKnown
<1>4. UsersIs'
  BY <1>1 DEF MembersHeld, UsersIs, Placed, UserKnown, Usable, Membership
<1>. QED  BY <1>1, <1>2, <1>3, <1>4 DEF MembersHeld

\* A new organization comes with its owner, who is not known to any call on it.
LEMMA FoundedMembers ==
  ASSUME MembersHeld, NEW o \in Orgs \ There, NEW u \in Users, Insert(o, u, "owner"),
         active' = [active EXCEPT ![u] = o], UNCHANGED <<invites, call, contested, crossed>>,
         There' = There \cup {o}
  PROVE  MembersHeld'
<1>1. PICK n \in Rows :
           /\ members[n] = NoMember /\ ~members[n].there /\ members[n].org = None /\ members[n].user = None
           /\ members' \in [Rows -> Member] /\ members'[n] # NoMember
           /\ members'[n].org = o /\ members'[n].user = u /\ members'[n].role = "owner"
           /\ members'[n].there /\ ~members'[n].suspended
           /\ \A x \in Rows \ {n} : members'[x] = members[x]
  BY Inserted DEF Roles
<1>2. /\ \A r \in Rows : members[r].org # o
      /\ \A i \in Invites : invites[i].org # o
  BY Blanks, NullAssumption DEF MembersHeld, RowsIs
<1>3. /\ MembersTyped' /\ call' = call /\ active'[u] = o /\ \A v \in Users \ {u} : active'[v] = active[v]
      /\ contested' = contested /\ crossed' = crossed /\ invites' = invites
  BY <1>1 DEF MembersHeld, MembersTyped
<1>4. RowsIs'
  <2>1. \A r \in Rows : members'[r] # NoMember => members'[r].user \in Users /\ members'[r].org \in There'
    BY <1>1 DEF MembersHeld, RowsIs
  <2>2. \A x, y \in Rows : /\ members'[x].there /\ members'[y].there
                           /\ members'[x].org = members'[y].org /\ members'[x].user = members'[y].user
                           => x = y
    BY <1>1, <1>2 DEF MembersHeld, RowsIs
  <2>3. \A i \in Invites : invites'[i] # NoInvite =>
          invites'[i].to \in Users /\ invites'[i].org \in There' /\ invites'[i].role \in Assignable
    BY <1>3 DEF MembersHeld, RowsIs
  <2>. QED  BY <2>1, <2>2, <2>3 DEF RowsIs
<1>5. RowsKept /\ \A p \in Orgs \ {o} : KeptOwners(p)
  BY <1>1, <1>3, NullAssumption DEF RowsKept, KeptOwners
<1>6. \A v \in Users \ {u} : KeptUser(v)
  BY <1>1, <1>3, NullAssumption DEF KeptUser
<1>7. \A p, v : Usable(p, v) => Usable(p, v)'
  BY <1>1 DEF Usable
<1>8. ASSUME NEW k \in Call, Static(k), UserKnown(k), k.who = u
      PROVE  UserKnown(k)'
  <2>1. k.pc \notin {"idle", "done", "expire"} => k.org # o
    BY <1>8 DEF Static
  <2>2. k.pc \in {"suspend", "remove"} =>
          IF k.move THEN k.next # k.org /\ (k.next = None \/ Usable(k.next, k.who)')
          ELSE active'[k.who] # k.org
    BY <1>3, <1>7, <1>8, <2>1 DEF UserKnown
  <2>3. k.pc = "invite" =>
          /\ Membership(k.org, k.who)' = {}
          /\ \A i \in Invites : invites'[i].status = "pending" /\ invites'[i].org = k.org /\ invites'[i].to = k.who
                                 => i \in k.stale
    BY <1>1, <1>3, <1>8, <2>1 DEF UserKnown, Membership
  <2>4. k.pc \in {"resend", "accept"} => invites'[k.inv].status = "pending"
    BY <1>3, <1>8 DEF UserKnown
  <2>. QED  BY <1>8, <2>2, <2>3, <2>4 DEF UserKnown
<1>9. ASSUME NEW d \in Calls
      PROVE  /\ Static(call[d])'
             /\ call[d].org \notin contested => OwnersKnown(call[d])'
             /\ call[d].who \notin crossed => UserKnown(call[d])'
  <2>1. PICK k \in Call : k = call[d] /\ call'[d] = k
    BY <1>3 DEF MembersHeld, MembersTyped
  <2>2. Static(k) /\ (k.org \notin contested => OwnersKnown(k)) /\ (k.who \notin crossed => UserKnown(k))
    BY <2>1 DEF MembersHeld, CallsIs, OwnersIs, UsersIs
  <2>3. Static(k)'
    BY <1>5, <2>2, StaticStays
  <2>4. k.org \notin contested => OwnersKnown(k)'
    <3>1. CASE k.pc \in OwnerOps
      <4>1. k.org \in Orgs \ {o}
        BY <2>2, <3>1 DEF Static, OwnerOps, There
      <4>. QED  BY <1>5, <2>2, <4>1, OwnersKnownStays
    <3>2. CASE k.pc \notin OwnerOps
      BY <3>2 DEF OwnersKnown, OwnerOps
    <3>. QED  BY <3>1, <3>2
  <2>5. k.who \notin crossed => UserKnown(k)'
    <3>1. CASE k.pc \in {"idle", "done"}
      BY <3>1 DEF UserKnown
    <3>2. CASE k.pc \notin {"idle", "done"}
      <4>1. k.who \in Users
        BY <2>2, <3>2 DEF Static
      <4>. QED  BY <1>6, <1>8, <2>2, <4>1, UserKnownStays
    <3>. QED  BY <3>1, <3>2
  <2>6. Static(call[d])'
    BY <2>1, <2>3 DEF Static
  <2>7. k.org \notin contested => OwnersKnown(call[d])'
    BY <2>1, <2>4 DEF OwnersKnown
  <2>8. k.who \notin crossed => UserKnown(call[d])'
    BY <2>1, <2>5 DEF UserKnown
  <2>. QED  BY <2>1, <2>6, <2>7, <2>8
<1>10. CallsIs'
  BY <1>3, <1>9 DEF MembersHeld, CallsIs
<1>11. OwnersIs'
  <2>1. Owned(o)'
    <3>1. \A r \in Rows : members'[r].there /\ members'[r].org = o /\ members'[r].role = "owner" <=> r = n
      BY <1>1, <1>2
    <3>. QED  BY <1>1, <3>1 DEF Owned
  <2>2. ASSUME NEW p \in There \ contested
        PROVE  Owned(p)'
    <3>1. Owned(p) /\ p \in Orgs \ {o}
      BY DEF MembersHeld, OwnersIs, There
    <3>. QED  BY <1>5, <3>1, OwnedStays
  <2>3. \A d \in Calls : call'[d].org \notin contested' => OwnersKnown(call[d])'
    BY <1>3, <1>9
  <2>. QED  BY <1>3, <2>1, <2>2, <2>3 DEF OwnersIs
<1>12. UsersIs'
  <2>1. ASSUME NEW v \in Users \ crossed
        PROVE  Placed(v)'
    <3>1. Placed(v)
      BY DEF MembersHeld, UsersIs
    <3>2. CASE v # u
      BY <1>6, <3>1, <3>2, PlacedStays
    <3>3. CASE v = u
      <4>1. active'[v] = None \/ Usable(active[v], v)'
        BY <1>1, <1>3, <3>3 DEF Usable
      <4>2. \A i, j \in Invites : /\ invites'[i].status = "pending" /\ invites'[i].to = v
                                  /\ invites'[j].status = "pending" /\ invites'[j].to = v
                                  /\ invites'[i].org = invites'[j].org
                                  => i = j
        BY <1>3, <3>1 DEF Placed
      <4>3. \A i \in Invites, r \in Rows :
              ~(/\ invites'[i].status = "pending" /\ invites'[i].to = v
                /\ members'[r].there /\ members'[r].user = v /\ members'[r].org = invites'[i].org)
        BY <1>1, <1>2, <1>3, <3>1 DEF Placed
      <4>. QED  BY <4>1, <4>2, <4>3 DEF Placed
    <3>. QED  BY <3>2, <3>3
  <2>2. \A d \in Calls : call'[d].who \notin crossed' => UserKnown(call[d])'
    BY <1>3, <1>9
  <2>. QED  BY <1>3, <2>1, <2>2 DEF UsersIs
<1>. QED  BY <1>3, <1>4, <1>10, <1>11, <1>12 DEF MembersHeld

--------------------------------------------------------------------------------
(* What is always true of the registry and the edits on it.                       *)

RegistryTyped ==
  /\ orgs \in [Orgs -> Organization] /\ records \in [Records -> Record]
  /\ labels \in [Records \X Labels -> Label] /\ relations \in [Records \X Records -> Relation]
  /\ requests \in [Requests -> Request] /\ torn \in BOOLEAN /\ twinned \in BOOLEAN
  /\ \A o \in Orgs : orgs[o] = NoOrg \/ orgs[o].there
  /\ \A l \in Records \X Labels : labels[l].live => labels[l].at # None

InProgress(k) == k.pc \notin {"idle", "done"}
OnOrg == {"sync", "create", "link", "org", "update"}
OnRecord == {"rename", "label", "relate", "merge", "org", "request", "resolve", "sync", "link"}
OnRequest == {"request", "resolve", "defer"}
\* A creation under way: the organization it is for is not there.
Creates(k) == k.pc \in {"sync", "create"} /\ ~k.view.there

\* What an edit holds whatever else goes on.
Fixed(k) ==
  /\ k.pc \in OnOrg => k.org \in Orgs /\ (k.view.there => k.org \in There)
  /\ k.pc \in {"link", "org", "update"} => k.view.there
  /\ Creates(k) => k.view = NoOrg /\ orgs[k.org] = NoOrg
  /\ k.pc \in {"sync", "create", "link", "update"} => k.new.there
  /\ k.pc = "update" => k.new.link = k.view.link
  /\ k.pc \in OnRecord => k.rec \in Records
  /\ k.pc \in {"relate", "merge"} => k.into \in Records
  /\ k.pc \in OnRequest => k.req \in Requests
  /\ k.pc = "label" => k.label \in Labels
  /\ k.pc = "merge" => /\ k.rec # k.into /\ k.orgs \subseteq There
                       /\ k.moved \cap k.dropped = {}
                       /\ k.seen.link = None /\ k.view.link = None

\* What a merge knows of its two records, as long as no other edit met it there.
MergeKnown(k) ==
  /\ \A l \in Records \X Labels :
       /\ labels[l].live /\ labels[l].at = k.rec <=> l \in k.moved \cup k.dropped
       /\ l \in k.moved => l \notin k.dropped
       /\ l \in k.dropped => \E m \in Records \X Labels : labels[m].live /\ labels[m].at = k.into /\ m[2] = l[2]
  /\ k.kept \subseteq k.moved /\ \A l \in k.kept : labels[l].primary
  /\ \A K \in Kinds :
       LET had == {l \in Records \X Labels : labels[l].live /\ labels[l].at = k.into /\ l[2] \in K /\ labels[l].primary}
       IN  Cardinality({l \in k.kept : l[2] \in K}) <= IF had = {} THEN 1 ELSE 0
  /\ \A x \in Records \X Records : relations[x].live /\ k.rec \in {relations[x].parent, relations[x].child} => x \in k.ties
  /\ \A o \in Orgs : orgs[o].link = k.rec => o \in k.orgs
  /\ \A q \in Requests : /\ requests[q].link = k.rec => q \in k.reqs
                         /\ q \in k.reqs => requests[q].link # None

\* What an edit knows of its records and its request, likewise.
Known(k) ==
  /\ k.pc \in {"label", "relate", "merge", "org", "request", "sync", "link"} => Live(k.rec)
  /\ k.pc \in {"relate", "merge"} => Live(k.into)
  /\ k.pc \in {"request", "defer"} => requests[k.req] = k.seen
  /\ k.pc = "label" => labels[<<k.rec, k.label>>].at \in {None, k.rec}
  /\ k.pc = "merge" => MergeKnown(k)

LinksHold ==
  /\ \A o \in Orgs : orgs[o].link = None \/ Live(orgs[o].link)
  /\ \A q \in Requests : /\ requests[q].link = None \/ Live(requests[q].link)
                         /\ (requests[q].state = "resolved") = (requests[q].link # None)
  /\ \A x \in Records \X Records : relations[x].live => Live(relations[x].parent) /\ Live(relations[x].child)

Named(n) == \E r \in Records : Live(r) /\ records[r].name = n
Apart ==
  \A r, s \in Records : /\ Live(r) /\ Live(s) /\ records[r].origin # None /\ records[s].origin # None
                        /\ records[r].name = records[s].name
                        => r = s
Syncs == {"sync", "create", "link"}
TwinsHold ==
  /\ Apart
  /\ \A c \in Edits : edit[c].pc # "rename"
  /\ \A c, d \in Edits : edit[c].pc \in Syncs /\ edit[d].pc \in Syncs => c = d
  /\ \A c \in Edits : edit[c].pc = "create" => ~Named(edit[c].new.name)

EditsIs ==
  /\ edit \in [Edits -> Edit] /\ founder \in [Edits -> Users \cup {None}]
  /\ \A c \in Edits : Fixed(edit[c])
  /\ \A c \in Edits : Creates(edit[c]) =>
       founder[c] \in Users /\ \A d \in Edits \ {c} : edit[d].org # edit[c].org
KnownIs ==
  /\ LinksHold
  /\ \A c \in Edits : InProgress(edit[c]) => Known(edit[c])
  /\ \A c, d \in Edits : c # d /\ InProgress(edit[c]) /\ InProgress(edit[d]) => ~Clash(edit[c], edit[d])

RegistryHeld ==
  /\ RegistryTyped /\ EditsIs
  /\ ~torn => KnownIs
  /\ ~twinned => TwinsHold

--------------------------------------------------------------------------------
(* Edits, and what a step leaves as an edit knows it.                             *)

LEMMA EditFields ==
  ASSUME NEW k \in Edit
  PROVE  /\ k.rec \in Records \cup {None} /\ k.into \in Records \cup {None} /\ k.org \in Orgs \cup {None}
         /\ k.view \in Organization /\ k.new \in Organization /\ k.req \in Requests \cup {None}
         /\ k.seen \in Request /\ k.label \in Labels \cup {None} /\ k.primary \in BOOLEAN
         /\ k.name \in Names \cup {None} /\ k.moved \subseteq Records \X Labels
         /\ k.kept \subseteq Records \X Labels /\ k.dropped \subseteq Records \X Labels
         /\ k.ties \subseteq Records \X Records /\ k.cut \subseteq Records \X Records
         /\ k.orgs \subseteq Orgs /\ k.reqs \subseteq Requests
BY DEF Edit

LEMMA NoEdits ==
  /\ NoOrg \in Organization /\ NoEdit \in Edit /\ Edited \in Edit
  /\ NoEdit.pc = "idle" /\ Edited.pc = "done" /\ NoOrg.there = FALSE /\ NoOrg.link = None
<1>1. NoOrg \in Organization
  BY DEF NoOrg, Organization
<1>2. [org |-> None, link |-> None, state |-> "unresolved"] \in Request
  BY DEF Request
<1>3. NoEdit \in Edit
  BY <1>1, <1>2 DEF NoEdit, Edit
<1>4. Edited \in Edit
  BY <1>1, <1>2 DEF Edited, NoEdit, Edit
<1>. QED  BY <1>1, <1>3, <1>4 DEF NoEdit, Edited, NoOrg

\* What an edit knows is left alone.
Left(k) ==
  /\ Live(k.rec) => Live(k.rec)'
  /\ Live(k.into) => Live(k.into)'
  /\ k.pc \in {"request", "defer"} => requests'[k.req] = requests[k.req]
  /\ k.pc = "label" => labels'[<<k.rec, k.label>>].at \in {k.rec, labels[<<k.rec, k.label>>].at}
  /\ k.pc = "merge" =>
       /\ \A l \in Records \X Labels :
            {labels[l].at, labels'[l].at} \cap {k.rec, k.into} # {} => labels'[l] = labels[l]
       /\ \A x \in Records \X Records :
            relations'[x].live /\ k.rec \in {relations'[x].parent, relations'[x].child}
              => relations[x].live /\ k.rec \in {relations[x].parent, relations[x].child}
       /\ \A o \in Orgs : orgs'[o].link = k.rec => orgs[o].link = k.rec
       /\ \A q \in Requests :
            /\ requests'[q].link = k.rec => requests[q].link = k.rec
            /\ q \in k.reqs /\ requests[q].link # None => requests'[q].link # None

LEMMA MergeKnownStays ==
  ASSUME NEW k \in Edit, k.pc = "merge", MergeKnown(k), Left(k)
  PROVE  MergeKnown(k)'
<1>1. \A l \in Records \X Labels :
        /\ labels[l].at \in {k.rec, k.into} => labels'[l] = labels[l]
        /\ labels'[l].at \in {k.rec, k.into} => labels'[l] = labels[l]
  BY DEF Left
<1>2. \A l \in Records \X Labels :
        /\ labels'[l].live /\ labels'[l].at = k.rec <=> l \in k.moved \cup k.dropped
        /\ l \in k.moved => l \notin k.dropped
        /\ l \in k.dropped => \E m \in Records \X Labels : labels'[m].live /\ labels'[m].at = k.into /\ m[2] = l[2]
  BY <1>1 DEF MergeKnown
<1>3. k.kept \subseteq k.moved /\ \A l \in k.kept : labels'[l].primary
  BY <1>1, EditFields DEF MergeKnown
<1>4. ASSUME NEW K \in Kinds
      PROVE  {l \in Records \X Labels : labels'[l].live /\ labels'[l].at = k.into /\ l[2] \in K /\ labels'[l].primary}
             = {l \in Records \X Labels : labels[l].live /\ labels[l].at = k.into /\ l[2] \in K /\ labels[l].primary}
  BY <1>1
<1>5. \A x \in Records \X Records : relations'[x].live /\ k.rec \in {relations'[x].parent, relations'[x].child} => x \in k.ties
  BY DEF Left, MergeKnown
<1>6. /\ \A o \in Orgs : orgs'[o].link = k.rec => o \in k.orgs
      /\ \A q \in Requests : /\ requests'[q].link = k.rec => q \in k.reqs
                             /\ q \in k.reqs => requests'[q].link # None
  BY DEF Left, MergeKnown
<1>7. \A K \in Kinds :
        LET had == {l \in Records \X Labels : labels'[l].live /\ labels'[l].at = k.into /\ l[2] \in K /\ labels'[l].primary}
        IN  Cardinality({l \in k.kept : l[2] \in K}) <= IF had = {} THEN 1 ELSE 0
  BY <1>4, Zenon DEF MergeKnown
<1>. QED  BY <1>2, <1>3, <1>5, <1>6, <1>7 DEF MergeKnown

LEMMA KnownStays ==
  ASSUME NEW k \in Edit, Known(k), Left(k)
  PROVE  Known(k)'
<1>1. k.pc \in {"label", "relate", "merge", "org", "request", "sync", "link"} => Live(k.rec)'
  BY DEF Known, Left
<1>2. k.pc \in {"relate", "merge"} => Live(k.into)'
  BY DEF Known, Left
<1>3. /\ k.pc \in {"request", "defer"} => requests'[k.req] = k.seen
      /\ k.pc = "label" => labels'[<<k.rec, k.label>>].at \in {None, k.rec}
  BY DEF Known, Left
<1>4. k.pc = "merge" => MergeKnown(k)'
  BY MergeKnownStays DEF Known
<1>. QED  BY <1>1, <1>2, <1>3, <1>4 DEF Known

--------------------------------------------------------------------------------
(* A step of one edit: what the others hold and know, and what it comes to hold.  *)

LEMMA FixedStays ==
  ASSUME NEW k \in Edit, Fixed(k), There \subseteq There', Creates(k) => orgs'[k.org] = NoOrg
  PROVE  Fixed(k)'
BY DEF Fixed, Creates

Others(c) == {k \in Edit : InProgress(k) /\ \E d \in Edits \ {c} : edit[d] = k}

LEMMA Steps ==
  ASSUME RegistryHeld, NEW c \in Edits, NEW next \in Edit, edit' = [edit EXCEPT ![c] = next],
         founder' \in [Edits -> Users \cup {None}], \A d \in Edits \ {c} : founder'[d] = founder[d],
         torn => torn', twinned => twinned', RegistryTyped', There \subseteq There',
         \A o \in Orgs : orgs[o] = NoOrg /\ o # edit[c].org => orgs'[o] = NoOrg,
         Fixed(next)', Creates(next) => founder'[c] \in Users,
         \A d \in Edits \ {c} : Creates(edit[d]) \/ Creates(next) => edit[d].org # next.org,
         ~torn' =>
           /\ LinksHold' /\ (InProgress(next) => Known(next)')
           /\ \A k \in Others(c) : Left(k) /\ (InProgress(next) => ~Clash(next, k) /\ ~Clash(k, next)),
         ~twinned' =>
           /\ Apart' /\ next.pc # "rename"
           /\ next.pc \in Syncs => \A d \in Edits \ {c} : edit[d].pc \notin Syncs
           /\ next.pc = "create" => ~Named(next.new.name)'
           /\ \A k \in Others(c) : \A n : k.pc = "create" /\ k.new.name = n /\ Named(n)' => Named(n)
  PROVE  RegistryHeld'
<1>1. edit' \in [Edits -> Edit] /\ edit'[c] = next /\ \A d \in Edits \ {c} : edit'[d] = edit[d]
  BY DEF RegistryHeld, EditsIs
<1>0. \A d \in Edits \ {c} : edit[d] \in Edit /\ (InProgress(edit[d]) => edit[d] \in Others(c))
  BY DEF RegistryHeld, EditsIs, Others
<1>2. ASSUME NEW d \in Edits
      PROVE  Fixed(edit[d])'
  <2>1. CASE d = c
    BY <1>1, <2>1 DEF Fixed
  <2>2. CASE d # c
    <3>1. PICK k \in Edit : k = edit[d] /\ edit'[d] = k
      BY <1>1, <2>2 DEF RegistryHeld, EditsIs
    <3>2. Fixed(k)
      BY <3>1 DEF RegistryHeld, EditsIs
    <3>3. Creates(k) => k.org \in Orgs /\ k.org # edit[c].org /\ orgs[k.org] = NoOrg
      BY <2>2, <3>1, <3>2 DEF RegistryHeld, EditsIs, Fixed, Creates, OnOrg
    <3>4. Fixed(k)'
      BY <3>2, <3>3, FixedStays
    <3>. QED  BY <3>1, <3>4 DEF Fixed
  <2>. QED  BY <2>1, <2>2
<1>3. \A d \in Edits : Creates(edit'[d]) => founder'[d] \in Users /\ \A e \in Edits \ {d} : edit'[e].org # edit'[d].org
  BY <1>1 DEF RegistryHeld, EditsIs
<1>4. EditsIs'
  BY <1>1, <1>2, <1>3 DEF EditsIs, Creates
<1>5. ASSUME ~torn'
      PROVE  KnownIs'
  <2>1. ASSUME NEW d \in Edits, InProgress(edit'[d])
        PROVE  Known(edit[d])'
    <3>1. CASE d = c
      BY <1>1, <1>5, <2>1, <3>1 DEF Known
    <3>2. CASE d # c
      <4>1. PICK k \in Edit : k = edit[d] /\ edit'[d] = k
        BY <1>1, <3>2 DEF RegistryHeld, EditsIs
      <4>2. Known(k) /\ Left(k)
        BY <1>0, <1>5, <2>1, <3>2, <4>1 DEF RegistryHeld, KnownIs
      <4>3. Known(k)'
        BY <4>2, KnownStays
      <4>. QED  BY <4>1, <4>3 DEF Known
    <3>. QED  BY <3>1, <3>2
  <2>2. ASSUME NEW d \in Edits, NEW e \in Edits, d # e, InProgress(edit'[d]), InProgress(edit'[e])
        PROVE  ~Clash(edit'[d], edit'[e])
    BY <1>0, <1>1, <1>5, <2>2 DEF RegistryHeld, KnownIs
  <2>3. \A d \in Edits : InProgress(edit[d])' => Known(edit[d])'
    BY <2>1 DEF InProgress
  <2>4. \A d, e \in Edits : d # e /\ InProgress(edit[d])' /\ InProgress(edit[e])' => ~Clash(edit[d], edit[e])'
    BY <2>2 DEF InProgress, Clash, Involved
  <2>. QED  BY <1>5, <2>3, <2>4 DEF KnownIs
<1>6. ASSUME ~twinned'
      PROVE  TwinsHold'
  <2>1. TwinsHold
    BY <1>6 DEF RegistryHeld
  <2>2. \A d \in Edits : edit'[d].pc # "rename"
    BY <1>1, <1>6, <2>1 DEF TwinsHold
  <2>3. \A d, e \in Edits : edit'[d].pc \in Syncs /\ edit'[e].pc \in Syncs => d = e
    BY <1>1, <1>6, <2>1 DEF TwinsHold
  <2>4. ASSUME NEW d \in Edits, edit'[d].pc = "create"
        PROVE  ~Named(edit[d].new.name)'
    <3>1. CASE d = c
      BY <1>1, <1>6, <2>4, <3>1 DEF Named, Live
    <3>2. CASE d # c
      <4>1. PICK n : n = edit[d].new.name
        OBVIOUS
      <4>2. edit[d].pc = "create" /\ edit'[d].new.name = n /\ ~Named(n) /\ edit[d] \in Others(c)
        BY <1>0, <1>1, <2>1, <2>4, <3>2, <4>1 DEF TwinsHold, InProgress
      <4>3. Named(edit[d].new.name)' <=> Named(n)'
        BY <4>2 DEF Named, Live
      <4>. QED  BY <1>6, <4>1, <4>2, <4>3
    <3>. QED  BY <3>1, <3>2
  <2>. QED  BY <1>6, <2>2, <2>3, <2>4 DEF TwinsHold
<1>. QED  BY <1>4, <1>5, <1>6 DEF RegistryHeld

--------------------------------------------------------------------------------
(* An edit begins: it reads, and the rows stay.                                   *)

LEMMA LeftAlone ==
  ASSUME UNCHANGED <<orgs, records, labels, relations, requests>>, NEW k
  PROVE  Left(k)
BY DEF Left, Live

LEMMA Starting ==
  ASSUME RegistryHeld, NEW c \in Edits, Turn(c), NEW next \in Edit, Start(c, next), InProgress(next),
         founder' \in [Edits -> Users \cup {None}], \A d \in Edits \ {c} : founder'[d] = founder[d],
         Fixed(next), Creates(next) => founder'[c] \in Users,
         \A d \in Edits \ {c} : Creates(edit[d]) \/ Creates(next) => edit[d].org # next.org,
         next.pc # "link", ~torn => Known(next),
         ~twinned /\ next.pc = "create" => ~Named(next.new.name)
  PROVE  RegistryHeld'
<1>1. /\ orgs' = orgs /\ records' = records /\ labels' = labels /\ relations' = relations /\ requests' = requests
      /\ edit' = [edit EXCEPT ![c] = next]
  BY DEF Start
<1>2. /\ torn' \in BOOLEAN /\ twinned' \in BOOLEAN /\ (torn => torn') /\ (twinned => twinned')
      /\ ~torn' => ~Clashes(c, next)
      /\ ~twinned' => /\ next.pc # "rename"
                      /\ next.pc \in {"sync", "create"} => \A d \in InFlight(c) : edit[d].pc \notin Syncs
  BY DEF Start, RegistryHeld, RegistryTyped, Syncs
<1>3. RegistryTyped' /\ There' = There
  BY <1>1, <1>2 DEF RegistryHeld, RegistryTyped, There
<1>4. Fixed(next)'
  BY <1>1, <1>3, FixedStays, NoEdits DEF Fixed, Creates
<1>5. ASSUME ~torn'
      PROVE  /\ LinksHold' /\ Known(next)'
             /\ \A k \in Others(c) : Left(k) /\ ~Clash(next, k) /\ ~Clash(k, next)
  <2>1. LinksHold'
    BY <1>1, <1>2, <1>5 DEF RegistryHeld, KnownIs, LinksHold, Live
  <2>2. Known(next)'
    BY <1>1, <1>2, <1>5, LeftAlone, KnownStays
  <2>3. \A k \in Others(c) : ~Clash(next, k) /\ ~Clash(k, next)
    BY <1>2, <1>5 DEF Clashes, InFlight, Others, InProgress
  <2>. QED  BY <1>1, <2>1, <2>2, <2>3, LeftAlone
<1>6. ASSUME ~twinned'
      PROVE  /\ Apart' /\ next.pc # "rename"
             /\ next.pc \in Syncs => \A d \in Edits \ {c} : edit[d].pc \notin Syncs
             /\ next.pc = "create" => ~Named(next.new.name)'
             /\ \A k \in Others(c) : \A n : k.pc = "create" /\ k.new.name = n /\ Named(n)' => Named(n)
  <2>1. \A n : Named(n)' <=> Named(n)
    BY <1>1 DEF Named, Live
  <2>2. Apart'
    BY <1>1, <1>2, <1>6 DEF RegistryHeld, TwinsHold, Apart, Live
  <2>3. next.pc \in Syncs => \A d \in Edits \ {c} : edit[d].pc \notin Syncs
    BY <1>2, <1>6 DEF InFlight, Syncs
  <2>. QED  BY <1>2, <1>6, <2>1, <2>2, <2>3
<1>. QED  BY <1>1, <1>2, <1>3, <1>4, <1>5, <1>6, Steps

LEMMA Blanked ==
  NoOrg \in Organization /\ NoEdit.seen \in Request
BY NoEdits DEF Edit

\* Any edit but the creation of an organization.
LEMMA Opens ==
  ASSUME RegistryHeld, NEW c \in Edits, Turn(c), NEW next \in Edit, Start(c, next), InProgress(next),
         UNCHANGED founder, Fixed(next), next.pc # "link", next.org \in There \cup {None}, ~Creates(next),
         ~torn => Known(next),
         ~twinned /\ next.pc = "create" => ~Named(next.new.name)
  PROVE  RegistryHeld'
<1>1. \A d \in Edits \ {c} : Creates(edit[d]) => edit[d].org # next.org
  <2>1. \A d \in Edits : Creates(edit[d]) => edit[d].org \in Orgs \ There
    BY NoEdits DEF RegistryHeld, EditsIs, Fixed, Creates, OnOrg, There
  <2>. QED  BY <2>1, NullAssumption
<1>2. founder' \in [Edits -> Users \cup {None}] /\ \A d \in Edits \ {c} : founder'[d] = founder[d]
  BY DEF RegistryHeld, EditsIs
<1>. QED  BY <1>1, <1>2, Starting

\* The rows an edit is made from.
LEMMA RegistryRows ==
  ASSUME RegistryHeld
  PROVE  /\ \A o \in Orgs : orgs[o] \in Organization /\ (o \in There \/ orgs[o] = NoOrg)
         /\ \A q \in Requests : requests[q] \in Request
         /\ \A r \in Records : records[r] \in Record
         /\ \A r : r \in LiveRecords <=> r \in Records /\ Live(r)
BY DEF RegistryHeld, RegistryTyped, There, LiveRecords

LEMMA UpdateRecordHolds ==
  ASSUME RegistryHeld, NEW c \in Edits, Turn(c), UpdateRecord(c), UNCHANGED founder
  PROVE  RegistryHeld'
<1>1. PICK r \in LiveRecords, n \in Names : Start(c, [NoEdit EXCEPT !.pc = "rename", !.rec = r, !.name = n])
  BY DEF UpdateRecord
<1>2. PICK k : k = [NoEdit EXCEPT !.pc = "rename", !.rec = r, !.name = n]
  OBVIOUS
<1>3. k \in Edit /\ k.pc = "rename" /\ k.rec = r /\ k.org = None /\ r \in Records
  BY <1>2, Blanked, RegistryRows DEF NoEdit, Edit
<1>4. Fixed(k) /\ Known(k) /\ InProgress(k) /\ ~Creates(k)
  BY <1>3 DEF Fixed, Known, InProgress, OnOrg, OnRecord, OnRequest, Creates
<1>. QED  BY <1>1, <1>2, <1>3, <1>4, Opens

LEMMA AddLabelHolds ==
  ASSUME RegistryHeld, NEW c \in Edits, Turn(c), AddLabel(c), UNCHANGED founder
  PROVE  RegistryHeld'
<1>1. PICK r \in LiveRecords, l \in Labels, p \in BOOLEAN :
        /\ labels[<<r, l>>] = NoLabel
        /\ Start(c, [NoEdit EXCEPT !.pc = "label", !.rec = r, !.label = l, !.primary = p])
  BY DEF AddLabel
<1>2. PICK k : k = [NoEdit EXCEPT !.pc = "label", !.rec = r, !.label = l, !.primary = p]
  OBVIOUS
<1>3. k \in Edit /\ k.pc = "label" /\ k.rec = r /\ k.label = l /\ k.org = None /\ r \in Records /\ Live(r)
  BY <1>2, Blanked, RegistryRows DEF NoEdit, Edit
<1>4. Fixed(k) /\ InProgress(k) /\ ~Creates(k)
  BY <1>3 DEF Fixed, InProgress, OnOrg, OnRecord, OnRequest, Creates
<1>5. Known(k)
  BY <1>1, <1>3 DEF Known, NoLabel
<1>. QED  BY <1>1, <1>2, <1>3, <1>4, <1>5, Opens

LEMMA AddRelationshipHolds ==
  ASSUME RegistryHeld, NEW c \in Edits, Turn(c), AddRelationship(c), UNCHANGED founder
  PROVE  RegistryHeld'
<1>1. PICK r \in LiveRecords, s \in LiveRecords : Start(c, [NoEdit EXCEPT !.pc = "relate", !.rec = r, !.into = s])
  BY DEF AddRelationship
<1>2. PICK k : k = [NoEdit EXCEPT !.pc = "relate", !.rec = r, !.into = s]
  OBVIOUS
<1>3. /\ k \in Edit /\ k.pc = "relate" /\ k.rec = r /\ k.into = s /\ k.org = None
      /\ r \in Records /\ Live(r) /\ s \in Records /\ Live(s)
  BY <1>2, Blanked, RegistryRows DEF NoEdit, Edit
<1>4. Fixed(k) /\ Known(k) /\ InProgress(k) /\ ~Creates(k)
  BY <1>3 DEF Fixed, Known, InProgress, OnOrg, OnRecord, OnRequest, Creates
<1>. QED  BY <1>1, <1>2, <1>3, <1>4, Opens

LEMMA ResolveOrganizationHolds ==
  ASSUME RegistryHeld, NEW c \in Edits, Turn(c), ResolveOrganization(c), UNCHANGED founder
  PROVE  RegistryHeld'
<1>1. PICK o \in Orgs, r \in LiveRecords :
        orgs[o].there /\ Start(c, [NoEdit EXCEPT !.pc = "org", !.org = o, !.rec = r, !.view = orgs[o]])
  BY DEF ResolveOrganization
<1>2. PICK k : k = [NoEdit EXCEPT !.pc = "org", !.org = o, !.rec = r, !.view = orgs[o]]
  OBVIOUS
<1>3. /\ k \in Edit /\ k.pc = "org" /\ k.rec = r /\ k.org = o /\ k.view = orgs[o]
      /\ r \in Records /\ Live(r) /\ o \in There
  BY <1>1, <1>2, Blanked, RegistryRows DEF NoEdit, Edit, There
<1>4. Fixed(k) /\ Known(k) /\ InProgress(k) /\ ~Creates(k)
  BY <1>1, <1>3 DEF Fixed, Known, InProgress, OnOrg, OnRecord, OnRequest, Creates
<1>. QED  BY <1>1, <1>2, <1>3, <1>4, Opens

LEMMA ResolvingFields ==
  ASSUME RegistryHeld, NEW q \in Requests, NEW r \in Records, NEW k, k = Resolving(q, r)
  PROVE  /\ k \in Edit /\ k.pc = "request" /\ k.req = q /\ k.rec = r /\ k.seen = requests[q] /\ k.org = None
         /\ Fixed(k) /\ InProgress(k) /\ ~Creates(k) /\ (Live(r) => Known(k))
<1>0. requests[q] \in Request
  BY RegistryRows
<1>1. k \in Edit /\ k.pc = "request" /\ k.req = q /\ k.rec = r /\ k.seen = requests[q] /\ k.org = None
  BY <1>0, Blanked DEF Resolving, NoEdit, Edit
<1>. QED  BY <1>1 DEF Fixed, Known, InProgress, OnOrg, OnRecord, OnRequest, Creates

LEMMA ResolveRequestHolds ==
  ASSUME RegistryHeld, NEW c \in Edits, Turn(c), ResolveRequest(c), UNCHANGED founder
  PROVE  RegistryHeld'
<1>1. PICK q \in Requests, r \in LiveRecords : Start(c, Resolving(q, r))
  BY DEF ResolveRequest
<1>2. PICK k : k = Resolving(q, r)
  OBVIOUS
<1>3. /\ k \in Edit /\ k.pc = "request" /\ k.org = None
      /\ Fixed(k) /\ InProgress(k) /\ ~Creates(k) /\ Known(k)
  BY <1>2, RegistryRows, ResolvingFields
<1>. QED  BY <1>1, <1>2, <1>3, Opens

LEMMA DeferRequestHolds ==
  ASSUME RegistryHeld, NEW c \in Edits, Turn(c), DeferRequest(c), UNCHANGED founder
  PROVE  RegistryHeld'
<1>1. PICK q \in Requests : Start(c, [NoEdit EXCEPT !.pc = "defer", !.req = q, !.seen = requests[q]])
  BY DEF DeferRequest
<1>2. PICK k : k = [NoEdit EXCEPT !.pc = "defer", !.req = q, !.seen = requests[q]]
  OBVIOUS
<1>3. k \in Edit /\ k.pc = "defer" /\ k.req = q /\ k.seen = requests[q] /\ k.org = None
  BY <1>2, Blanked, RegistryRows DEF NoEdit, Edit
<1>4. Fixed(k) /\ Known(k) /\ InProgress(k) /\ ~Creates(k)
  BY <1>3 DEF Fixed, Known, InProgress, OnOrg, OnRecord, OnRequest, Creates
<1>. QED  BY <1>1, <1>2, <1>3, <1>4, Opens

LEMMA MergeRecordsHolds ==
  ASSUME RegistryHeld, NEW c \in Edits, Turn(c), MergeRecords(c), UNCHANGED founder
  PROVE  RegistryHeld'
<1>1. PICK s \in LiveRecords, t \in LiveRecords :
        LET moved == {l \in LabelsOf(s) : l[2] \notin Keys(t)} IN
        /\ s # t
        /\ \E kept \in KeptPrimary(s, t, moved) :
             Start(c, [NoEdit EXCEPT !.pc = "merge", !.rec = s, !.into = t,
                         !.moved = moved, !.kept = kept, !.dropped = LabelsOf(s) \ moved,
                         !.ties = Ties(s), !.cut = {x \in Ties(s) : Twice(x, s, t)},
                         !.orgs = {o \in Orgs : orgs[o].link = s},
                         !.reqs = {q \in Requests : requests[q].link = s}])
  BY DEF MergeRecords
<1>2. PICK moved : moved = {l \in LabelsOf(s) : l[2] \notin Keys(t)}
  OBVIOUS
<1>3. PICK kept \in KeptPrimary(s, t, moved) :
        Start(c, [NoEdit EXCEPT !.pc = "merge", !.rec = s, !.into = t,
                    !.moved = moved, !.kept = kept, !.dropped = LabelsOf(s) \ moved,
                    !.ties = Ties(s), !.cut = {x \in Ties(s) : Twice(x, s, t)},
                    !.orgs = {o \in Orgs : orgs[o].link = s},
                    !.reqs = {q \in Requests : requests[q].link = s}])
  BY <1>1, <1>2
<1>4. PICK dropped, ties, cut, linked, reqs :
        /\ dropped = LabelsOf(s) \ moved /\ ties = Ties(s) /\ cut = {x \in Ties(s) : Twice(x, s, t)}
        /\ linked = {o \in Orgs : orgs[o].link = s} /\ reqs = {q \in Requests : requests[q].link = s}
  OBVIOUS
<1>5. PICK k : k = [NoEdit EXCEPT !.pc = "merge", !.rec = s, !.into = t, !.moved = moved, !.kept = kept,
                                  !.dropped = dropped, !.ties = ties, !.cut = cut, !.orgs = linked, !.reqs = reqs]
  OBVIOUS
<1>6. /\ s \in Records /\ t \in Records /\ s # t /\ Live(s) /\ Live(t) /\ s # None
      /\ \A l : l \in LabelsOf(s) <=> l \in Records \X Labels /\ labels[l].live /\ labels[l].at = s
      /\ moved \subseteq Records \X Labels /\ dropped \subseteq Records \X Labels
      /\ ties \subseteq Records \X Records /\ cut \subseteq Records \X Records
      /\ linked \subseteq Orgs /\ reqs \subseteq Requests
  BY <1>1, <1>2, <1>4, RegistryRows DEF LabelsOf, Ties, Live
<1>7. /\ kept \subseteq moved
      /\ \A K \in Kinds :
           /\ \A l \in kept : l[2] \in K => labels[l].primary
           /\ Cardinality({l \in kept : l[2] \in K}) <= IF Primaries(LabelsOf(t), K) = {} THEN 1 ELSE 0
  BY <1>3 DEF KeptPrimary, Primaries
<1>8. kept \subseteq Records \X Labels
  BY <1>6, <1>7
<1>9. /\ k \in Edit /\ k.pc = "merge" /\ k.rec = s /\ k.into = t /\ k.moved = moved /\ k.kept = kept
      /\ k.dropped = dropped /\ k.ties = ties /\ k.cut = cut /\ k.orgs = linked /\ k.reqs = reqs
      /\ k.org = None /\ k.seen.link = None /\ k.view.link = None
  BY <1>5, <1>6, <1>8, Blanked DEF NoEdit, NoOrg, Edit
<1>10. linked \subseteq There
  BY <1>4, <1>6, RegistryRows, NoEdits DEF There
<1>11. Fixed(k) /\ InProgress(k) /\ ~Creates(k)
  BY <1>4, <1>6, <1>9, <1>10 DEF Fixed, InProgress, OnOrg, OnRecord, OnRequest, Creates
<1>12. MergeKnown(k)
  <2>1. \A l \in Records \X Labels :
          /\ labels[l].live /\ labels[l].at = s <=> l \in moved \cup dropped
          /\ l \in moved => l \notin dropped
    BY <1>2, <1>4, <1>6
  <2>2. \A l \in dropped : \E m \in Records \X Labels : labels[m].live /\ labels[m].at = t /\ m[2] = l[2]
    BY <1>2, <1>4 DEF Keys, LabelsOf
  <2>3. \A l \in kept : labels[l].primary
    BY <1>7, <1>8, RegistryAssumption
  <2>4. ASSUME NEW K \in Kinds
        PROVE  LET had == {l \in Records \X Labels : labels[l].live /\ labels[l].at = t /\ l[2] \in K /\ labels[l].primary}
               IN  Cardinality({l \in kept : l[2] \in K}) <= IF had = {} THEN 1 ELSE 0
    <3>1. Primaries(LabelsOf(t), K)
          = {l \in Records \X Labels : labels[l].live /\ labels[l].at = t /\ l[2] \in K /\ labels[l].primary}
      BY DEF Primaries, LabelsOf
    <3>. QED  BY <1>7, <3>1
  <2>5. \A x \in Records \X Records : relations[x].live /\ s \in {relations[x].parent, relations[x].child} => x \in ties
    BY <1>4 DEF Ties
  <2>6. /\ \A o \in Orgs : orgs[o].link = s => o \in linked
        /\ \A q \in Requests : /\ requests[q].link = s => q \in reqs
                               /\ q \in reqs => requests[q].link # None
    BY <1>4, <1>6
  <2>. QED  BY <1>7, <1>9, <2>1, <2>2, <2>3, <2>4, <2>5, <2>6 DEF MergeKnown
<1>13. Known(k)
  BY <1>6, <1>9, <1>12 DEF Known
<1>. QED  BY <1>3, <1>4, <1>5, <1>9, <1>11, <1>13, NullAssumption, Opens

Plan(pc, o, view, org, r) == [NoEdit EXCEPT !.pc = pc, !.org = o, !.view = view, !.new = org, !.rec = r]
LEMMA PlanFields ==
  ASSUME NEW pc \in {"create", "sync"}, NEW r \in Records \cup {None}, NEW o \in Orgs,
         NEW view \in Organization, NEW org \in Organization
  PROVE  Plan(pc, o, view, org, r) \in Edit
BY Blanked DEF Plan, NoEdit, Edit

\* A synchronisation plans to link a live record, or to make one for a name no live record has.
LEMMA PlannedFields ==
  ASSUME RegistryHeld, NEW o \in Orgs, NEW org \in Organization, NEW k, k = Planned(o, org)
  PROVE  /\ k \in Edit /\ k.org = o /\ k.view = orgs[o] /\ k.new = org
         /\ \/ k.pc = "sync" /\ k.rec \in Records /\ Live(k.rec)
            \/ k.pc = "create" /\ ~Named(org.name)
<1>1. PICK S : S = Matches(o, org)
  OBVIOUS
<1>2. \A r \in S : r \in Records /\ Live(r)
  <2>1. Belongs(org.link, o, org) => org.link \in Records /\ Live(org.link)
    BY DEF Belongs, Live, Organization
  <2>2. \A r \in DomainMatches(o, org) \cup NameMatches(org.name) : r \in Records /\ Live(r)
    BY DEF DomainMatches, NameMatches, LiveRecords
  <2>. QED  BY <1>1, <2>1, <2>2 DEF Matches
<1>3. S = {} => ~Named(org.name)
  <2>1. ASSUME S = {}
        PROVE  NameMatches(org.name) = {}
    BY <1>1, <2>1 DEF Matches
  <2>. QED  BY <2>1 DEF NameMatches, Named, LiveRecords
<1>4. PICK row \in Organization : row = orgs[o]
  BY RegistryRows
<1>5. PICK r \in Records \cup {None} : r = IF S = {} THEN None ELSE CHOOSE x \in S : TRUE
  BY <1>2
<1>6. PICK pc \in {"create", "sync"} : pc = IF S = {} THEN "create" ELSE "sync"
  OBVIOUS
<1>7. S # {} => r \in Records /\ Live(r)
  BY <1>2, <1>5
<1>8. k = Plan(pc, o, row, org, r)
  BY <1>1, <1>4, <1>5, <1>6 DEF Planned, Plan
<1>9. k \in Edit /\ k.pc = pc /\ k.org = o /\ k.view = row /\ k.new = org /\ k.rec = r
  <2>1. Plan(pc, o, row, org, r) \in Edit
    BY PlanFields
  <2>. QED  BY <1>8, <2>1 DEF Plan, NoEdit
<1>. QED  BY <1>3, <1>4, <1>6, <1>7, <1>9

LEMMA SyncOrganizationHolds ==
  ASSUME RegistryHeld, NEW c \in Edits, Turn(c), SyncOrganization(c), UNCHANGED founder
  PROVE  RegistryHeld'
<1>1. PICK o \in Orgs : orgs[o].there /\ Start(c, Planned(o, orgs[o]))
  BY DEF SyncOrganization, PlanSync
<1>2. PICK org \in Organization : org = orgs[o]
  BY RegistryRows
<1>3. PICK k : k = Planned(o, org)
  OBVIOUS
<1>4. /\ k \in Edit /\ k.org = o /\ k.view = orgs[o] /\ k.new = org /\ k.view.there /\ k.new.there /\ o \in There
      /\ \/ k.pc = "sync" /\ k.rec \in Records /\ Live(k.rec)
         \/ k.pc = "create" /\ ~Named(org.name)
  BY <1>1, <1>2, <1>3, PlannedFields DEF There
<1>5. Fixed(k) /\ InProgress(k) /\ ~Creates(k)
  BY <1>4 DEF Fixed, InProgress, OnOrg, OnRecord, OnRequest, Creates, There
<1>6. Known(k)
  BY <1>4 DEF Known
<1>. QED  BY <1>1, <1>2, <1>3, <1>4, <1>5, <1>6, Opens

LEMMA CreateOrganizationHolds ==
  ASSUME RegistryHeld, NEW c \in Edits, Turn(c), CreateOrganization(c)
  PROVE  RegistryHeld'
<1>1. PICK u \in Founders, n \in Names, d \in Domains \cup {None} :
        /\ FreeOrgs # {}
        /\ Start(c, Planned(CHOOSE o \in FreeOrgs : TRUE,
                            Completed([there |-> TRUE, name |-> n, domain |-> d, setup |-> FALSE, link |-> None])))
        /\ founder' = [founder EXCEPT ![c] = u]
  BY DEF CreateOrganization, PlanSync
<1>2. PICK o : o = CHOOSE x \in FreeOrgs : TRUE
  OBVIOUS
<1>3. o \in Orgs /\ orgs[o] = NoOrg /\ \A e \in Edits : edit[e].org # o
  BY <1>1, <1>2 DEF FreeOrgs
<1>4. PICK org : org = Completed([there |-> TRUE, name |-> n, domain |-> d, setup |-> FALSE, link |-> None])
  OBVIOUS
<1>5. org \in Organization /\ org.there
  BY <1>4 DEF Completed, Organization
<1>6. PICK k : k = Planned(o, org)
  OBVIOUS
<1>7. /\ k \in Edit /\ k.org = o /\ k.view = orgs[o] /\ k.new = org
      /\ \/ k.pc = "sync" /\ k.rec \in Records /\ Live(k.rec)
         \/ k.pc = "create" /\ ~Named(org.name)
  BY <1>3, <1>5, <1>6, PlannedFields
<1>8. k.view = NoOrg /\ ~k.view.there /\ k.new.there
  BY <1>3, <1>5, <1>7, NoEdits
<1>9. Fixed(k) /\ InProgress(k) /\ Known(k)
  BY <1>3, <1>7, <1>8 DEF Fixed, InProgress, OnOrg, OnRecord, OnRequest, Creates, There, Known
<1>10. /\ founder' \in [Edits -> Users \cup {None}] /\ \A e \in Edits \ {c} : founder'[e] = founder[e]
       /\ founder'[c] \in Users
  BY <1>1, FoundersAssumption DEF RegistryHeld, EditsIs
<1>. QED  BY <1>1, <1>2, <1>3, <1>4, <1>6, <1>7, <1>9, <1>10, Starting

LEMMA UpdateOrganizationHolds ==
  ASSUME RegistryHeld, MembersHeld, NEW c \in Edits, Turn(c), UpdateOrganization(c)
  PROVE  RegistryHeld'
<1>1. PICK o \in Orgs, n \in Names, d \in Domains :
        /\ Managed(o) /\ UNCHANGED founder
        /\ Start(c, [NoEdit EXCEPT !.pc = "update", !.org = o, !.view = orgs[o],
                       !.new = Completed([orgs[o] EXCEPT !.name = n, !.domain = d])])
  BY DEF UpdateOrganization
<1>2. PICK org \in Organization : org = orgs[o]
  BY RegistryRows
<1>3. PICK new : new = Completed([org EXCEPT !.name = n, !.domain = d])
  OBVIOUS
<1>4. o \in There /\ org.there
  BY <1>1, <1>2, ManagedThere DEF There
<1>5. new \in Organization /\ new.there /\ new.link = org.link
  BY <1>3, <1>4 DEF Completed, Organization
<1>6. PICK k : k = [NoEdit EXCEPT !.pc = "update", !.org = o, !.view = org, !.new = new]
  OBVIOUS
<1>7. k \in Edit /\ k.pc = "update" /\ k.org = o /\ k.view = org /\ k.new = new
  BY <1>5, <1>6, Blanked DEF NoEdit, Edit
<1>8. Fixed(k) /\ InProgress(k) /\ Known(k) /\ ~Creates(k)
  BY <1>4, <1>5, <1>7 DEF Fixed, InProgress, OnOrg, OnRecord, OnRequest, Creates, There, Known
<1>. QED  BY <1>1, <1>2, <1>3, <1>4, <1>6, <1>7, <1>8, Opens

--------------------------------------------------------------------------------
(* An edit commits: what the others know is left alone unless they clash with it. *)

LEMMA Alongside ==
  ASSUME RegistryHeld, ~torn, NEW c \in Edits, NEW k, k = edit[c], InProgress(k)
  PROVE  /\ Known(k) /\ LinksHold
         /\ \A e \in Others(c) : Known(e) /\ Fixed(e) /\ ~Clash(k, e) /\ ~Clash(e, k)
BY DEF RegistryHeld, KnownIs, EditsIs, Others

LEMMA Closing ==
  ASSUME RegistryHeld, NEW c \in Edits, InProgress(edit[c]), Close(c), UNCHANGED <<torn, twinned>>,
         founder' \in [Edits -> Users \cup {None}], \A d \in Edits \ {c} : founder'[d] = founder[d],
         RegistryTyped', There \subseteq There',
         \A o \in Orgs : orgs[o] = NoOrg /\ o # edit[c].org => orgs'[o] = NoOrg,
         ~torn => LinksHold' /\ \A e \in Others(c) : Left(e),
         ~twinned => \A r \in Records : Live(r)' =>
           Live(r) /\ records'[r].name = records[r].name /\ records'[r].origin = records[r].origin
  PROVE  RegistryHeld'
<1>0. PICK next \in Edit : next = Edited
  BY NoEdits
<1>1. edit' = [edit EXCEPT ![c] = next] /\ torn' = torn /\ twinned' = twinned
  BY <1>0 DEF Close
<1>2. next \in Edit /\ next.pc = "done" /\ ~InProgress(next) /\ ~Creates(next)
  BY <1>0, NoEdits DEF InProgress, Creates
<1>3. Fixed(next)'
  BY <1>2 DEF Fixed, Creates, OnOrg, OnRecord, OnRequest
<1>4. next.org = None
  BY <1>0 DEF Edited, NoEdit
<1>5. \A d \in Edits \ {c} : Creates(edit[d]) => edit[d].org # next.org
  BY <1>4, NullAssumption DEF RegistryHeld, EditsIs, Fixed, Creates, OnOrg
<1>6. ASSUME ~twinned
      PROVE  /\ Apart'
             /\ \A e \in Others(c) : \A n : e.pc = "create" /\ e.new.name = n /\ Named(n)' => Named(n)
  <2>1. Apart
    BY <1>6 DEF RegistryHeld, TwinsHold
  <2>2. \A r \in Records : Live(r)' =>
           Live(r) /\ records'[r].name = records[r].name /\ records'[r].origin = records[r].origin
    BY <1>6
  <2>3. Apart'
    BY <2>1, <2>2 DEF Apart
  <2>4. \A n : Named(n)' => Named(n)
    BY <2>2 DEF Named
  <2>. QED  BY <2>3, <2>4
<1>7. ~torn' =>
        /\ LinksHold' /\ (InProgress(next) => Known(next)')
        /\ \A e \in Others(c) : Left(e) /\ (InProgress(next) => ~Clash(next, e) /\ ~Clash(e, next))
  BY <1>1, <1>2
<1>8. ~twinned' =>
        /\ Apart' /\ next.pc # "rename"
        /\ next.pc \in Syncs => \A d \in Edits \ {c} : edit[d].pc \notin Syncs
        /\ next.pc = "create" => ~Named(next.new.name)'
        /\ \A e \in Others(c) : \A n : e.pc = "create" /\ e.new.name = n /\ Named(n)' => Named(n)
  BY <1>1, <1>2, <1>6 DEF Syncs
<1>9. \A d \in Edits \ {c} : Creates(edit[d]) \/ Creates(next) => edit[d].org # next.org
  BY <1>2, <1>5
<1>10. (torn => torn') /\ (twinned => twinned') /\ (Creates(next) => founder'[c] \in Users)
  BY <1>1, <1>2
<1>11. edit' = [edit EXCEPT ![c] = next]
  BY <1>1
<1>. QED  BY <1>3, <1>7, <1>8, <1>9, <1>10, <1>11, Steps, Zenon

\* A commit that leaves the founders, and what lives and its names.
LEMMA Closed ==
  ASSUME RegistryHeld, NEW c \in Edits, InProgress(edit[c]), Close(c), UNCHANGED <<torn, twinned, founder>>,
         RegistryTyped', There \subseteq There',
         \A o \in Orgs : orgs[o] = NoOrg /\ o # edit[c].org => orgs'[o] = NoOrg,
         ~torn => LinksHold' /\ \A e \in Others(c) : Left(e),
         UNCHANGED records
  PROVE  RegistryHeld'
<1>1. founder' \in [Edits -> Users \cup {None}] /\ \A d \in Edits \ {c} : founder'[d] = founder[d]
  BY DEF RegistryHeld, EditsIs
<1>2. \A r \in Records : Live(r)' =>
        Live(r) /\ records'[r].name = records[r].name /\ records'[r].origin = records[r].origin
  BY DEF Live
<1>. QED  BY <1>1, <1>2, Closing

LEMMA EditCrashHolds ==
  ASSUME RegistryHeld, NEW c \in Edits, EditCrash(c), UNCHANGED founder
  PROVE  RegistryHeld'
<1>1. /\ InProgress(edit[c]) /\ Close(c) /\ torn' = torn /\ twinned' = twinned
      /\ orgs' = orgs /\ records' = records /\ labels' = labels /\ relations' = relations /\ requests' = requests
  BY DEF EditCrash, InProgress, registryVars
<1>2. RegistryTyped' /\ There' = There
  BY <1>1 DEF RegistryHeld, RegistryTyped, There
<1>3. ~torn => LinksHold'
  BY <1>1 DEF RegistryHeld, KnownIs, LinksHold, Live
<1>4. \A e \in Others(c) : Left(e)
  BY <1>1, LeftAlone
<1>. QED  BY <1>1, <1>2, <1>3, <1>4, Closed

LEMMA CommitRenameHolds ==
  ASSUME RegistryHeld, NEW c \in Edits, CommitRename(c), UNCHANGED founder
  PROVE  RegistryHeld'
<1>1. PICK k \in Edit : k = edit[c]
  BY DEF RegistryHeld, EditsIs
<1>2. /\ k.pc = "rename" /\ InProgress(k) /\ Fixed(k) /\ Close(c) /\ torn' = torn /\ twinned' = twinned
      /\ orgs' = orgs /\ labels' = labels /\ relations' = relations /\ requests' = requests
      /\ records' = [records EXCEPT ![k.rec].name = k.name]
  BY <1>1 DEF CommitRename, RegistryHeld, EditsIs, InProgress
<1>3. records' \in [Records -> Record] /\ \A r : Live(r)' <=> Live(r)
  <2>1. k.name \in Names \cup {None} /\ k.rec \in Records
    BY <1>2, EditFields DEF Fixed, OnRecord
  <2>2. PICK row \in Record : row = records[k.rec]
    BY <2>1 DEF RegistryHeld, RegistryTyped
  <2>3. PICK new : new = [row EXCEPT !.name = k.name]
    OBVIOUS
  <2>4. new \in Record /\ new.there = row.there /\ new.deleted = row.deleted
    BY <2>1, <2>3 DEF Record
  <2>5. records' = [records EXCEPT ![k.rec] = new]
    BY <1>2, <2>2, <2>3
  <2>6. records' \in [Records -> Record]
    BY <2>4, <2>5 DEF RegistryHeld, RegistryTyped
  <2>7. \A r \in Records : records'[r].there = records[r].there /\ records'[r].deleted = records[r].deleted
    BY <2>2, <2>4, <2>5 DEF RegistryHeld, RegistryTyped
  <2>8. \A r : r \notin Records => records'[r] = records[r]
    BY <2>5 DEF RegistryHeld, RegistryTyped
  <2>. QED  BY <2>6, <2>7, <2>8 DEF Live
<1>4. RegistryTyped' /\ There' = There
  BY <1>2, <1>3 DEF RegistryHeld, RegistryTyped, There
<1>5. ~torn => LinksHold'
  BY <1>2, <1>3 DEF RegistryHeld, KnownIs, LinksHold
<1>6. \A e \in Others(c) : Left(e)
  BY <1>2, <1>3 DEF Left
<1>7. twinned
  BY <1>1, <1>2 DEF RegistryHeld, TwinsHold
<1>8. founder' \in [Edits -> Users \cup {None}] /\ \A d \in Edits \ {c} : founder'[d] = founder[d]
  BY DEF RegistryHeld, EditsIs
<1>. QED  BY <1>1, <1>2, <1>4, <1>5, <1>6, <1>7, <1>8, Closing

\* A label or a relationship is put at the edit's records, where no merge is under way.
LEMMA CommitLabelHolds ==
  ASSUME RegistryHeld, NEW c \in Edits, CommitLabel(c), UNCHANGED founder
  PROVE  RegistryHeld'
<1>1. PICK k \in Edit : k = edit[c]
  BY DEF RegistryHeld, EditsIs
<1>2. /\ k.pc = "label" /\ InProgress(k) /\ Fixed(k) /\ Close(c) /\ torn' = torn /\ twinned' = twinned
      /\ orgs' = orgs /\ records' = records /\ relations' = relations /\ requests' = requests
      /\ k.rec \in Records /\ k.label \in Labels
      /\ \/ labels' = labels
         \/ labels' = [labels EXCEPT ![<<k.rec, k.label>>] = [at |-> k.rec, primary |-> k.primary, live |-> TRUE]]
  BY <1>1 DEF CommitLabel, RegistryHeld, EditsIs, InProgress, Fixed, OnRecord
<1>3. PICK row : row = [at |-> k.rec, primary |-> k.primary, live |-> TRUE]
  OBVIOUS
<1>4. row \in Label /\ row.at = k.rec /\ row.at # None
  BY <1>2, <1>3, EditFields, NullAssumption DEF Label
<1>5. /\ labels' \in [Records \X Labels -> Label]
      /\ \A l \in Records \X Labels :
           labels'[l] = labels[l] \/ (l = <<k.rec, k.label>> /\ labels'[l] = row)
  BY <1>2, <1>3, <1>4 DEF RegistryHeld, RegistryTyped
<1>6. \A l \in Records \X Labels : labels'[l].live => labels'[l].at # None
  BY <1>4, <1>5 DEF RegistryHeld, RegistryTyped
<1>7. RegistryTyped' /\ There' = There
  BY <1>2, <1>5, <1>6 DEF RegistryHeld, RegistryTyped, There
<1>8. ASSUME ~torn
      PROVE  LinksHold' /\ \A e \in Others(c) : Left(e)
  <2>1. Known(k) /\ LinksHold /\ \A e \in Others(c) : Known(e) /\ Fixed(e) /\ ~Clash(k, e) /\ ~Clash(e, k)
    BY <1>1, <1>2, <1>8, Alongside
  <2>2. LinksHold'
    BY <1>2, <2>1 DEF LinksHold, Live
  <2>3. ASSUME NEW e \in Others(c)
        PROVE  Left(e)
    <3>1. k.rec # None
      BY <1>2, NullAssumption
    <3>2. e.pc = "merge" => k.rec \notin {e.rec, e.into}
      BY <2>1, <3>1 DEF Clash, Involved
    <3>3. labels[<<k.rec, k.label>>].at \in {None, k.rec}
      BY <1>2, <2>1 DEF Known
    <3>4. e.pc = "merge" => None \notin {e.rec, e.into}
      BY <2>1, NullAssumption DEF Fixed, OnRecord
    <3>5. e.pc = "label" => labels'[<<e.rec, e.label>>].at \in {e.rec, labels[<<e.rec, e.label>>].at}
      <4>1. e.pc = "label" => <<e.rec, e.label>> \in Records \X Labels
        BY <2>1 DEF Fixed, OnRecord
      <4>. QED  BY <1>4, <1>5, <4>1
    <3>6. e.pc = "merge" => \A l \in Records \X Labels :
            {labels[l].at, labels'[l].at} \cap {e.rec, e.into} # {} => labels'[l] = labels[l]
      BY <1>4, <1>5, <3>2, <3>3, <3>4
    <3>. QED  BY <1>2, <3>5, <3>6 DEF Left, Live
  <2>. QED  BY <2>2, <2>3
<1>. QED  BY <1>1, <1>2, <1>7, <1>8, Closed

LEMMA CommitRelationshipHolds ==
  ASSUME RegistryHeld, NEW c \in Edits, CommitRelationship(c), UNCHANGED founder
  PROVE  RegistryHeld'
<1>1. PICK k \in Edit : k = edit[c]
  BY DEF RegistryHeld, EditsIs
<1>2. /\ k.pc = "relate" /\ InProgress(k) /\ Fixed(k) /\ Close(c) /\ torn' = torn /\ twinned' = twinned
      /\ orgs' = orgs /\ records' = records /\ labels' = labels /\ requests' = requests
      /\ k.rec \in Records /\ k.into \in Records
      /\ \/ relations' = relations
         \/ relations' = [relations EXCEPT ![<<k.rec, k.into>>] = [parent |-> k.rec, child |-> k.into, live |-> TRUE]]
  BY <1>1 DEF CommitRelationship, RegistryHeld, EditsIs, InProgress, Fixed, OnRecord
<1>3. PICK row : row = [parent |-> k.rec, child |-> k.into, live |-> TRUE]
  OBVIOUS
<1>4. row \in Relation /\ row.parent = k.rec /\ row.child = k.into
  BY <1>2, <1>3 DEF Relation
<1>5. /\ relations' \in [Records \X Records -> Relation]
      /\ \A x \in Records \X Records : relations'[x] = relations[x] \/ relations'[x] = row
  BY <1>2, <1>3, <1>4 DEF RegistryHeld, RegistryTyped
<1>6. RegistryTyped' /\ There' = There
  BY <1>2, <1>5 DEF RegistryHeld, RegistryTyped, There
<1>7. ASSUME ~torn
      PROVE  LinksHold' /\ \A e \in Others(c) : Left(e)
  <2>1. Known(k) /\ LinksHold /\ \A e \in Others(c) : Known(e) /\ Fixed(e) /\ ~Clash(k, e) /\ ~Clash(e, k)
    BY <1>1, <1>2, <1>7, Alongside
  <2>2. \A r : Live(r)' <=> Live(r)
    BY <1>2 DEF Live
  <2>3. LinksHold'
    <3>1. Live(k.rec) /\ Live(k.into)
      BY <1>2, <2>1 DEF Known
    <3>2. ASSUME NEW x \in Records \X Records, relations'[x].live
          PROVE  Live(relations'[x].parent) /\ Live(relations'[x].child)
      BY <1>4, <1>5, <2>1, <3>1, <3>2 DEF LinksHold
    <3>3. ASSUME NEW x \in Records \X Records, relations'[x].live
          PROVE  Live(relations[x].parent)' /\ Live(relations[x].child)'
      BY <1>2, <3>2, <3>3 DEF Live
    <3>. QED  BY <1>2, <2>1, <2>2, <3>3 DEF LinksHold
  <2>4. ASSUME NEW e \in Others(c)
        PROVE  Left(e)
    <3>1. k.rec # None /\ k.into # None
      BY <1>2, NullAssumption
    <3>2. e.pc = "merge" => e.rec \notin {k.rec, k.into}
      BY <2>1, <3>1 DEF Clash, Involved
    <3>3. e.pc = "merge" => \A x \in Records \X Records :
            relations'[x].live /\ e.rec \in {relations'[x].parent, relations'[x].child}
              => relations[x].live /\ e.rec \in {relations[x].parent, relations[x].child}
      BY <1>4, <1>5, <3>2
    <3>. QED  BY <1>2, <2>2, <3>3 DEF Left
  <2>. QED  BY <2>3, <2>4
<1>. QED  BY <1>1, <1>2, <1>6, <1>7, Closed

\* An organization is written: linked to the edit's record, or as it was.
LEMMA CommitOrganizationHolds ==
  ASSUME RegistryHeld, NEW c \in Edits, CommitOrganization(c) \/ CommitUpdate(c), UNCHANGED founder
  PROVE  RegistryHeld' /\ There' = There
<1>1. PICK k \in Edit : k = edit[c]
  BY DEF RegistryHeld, EditsIs
<1>2. PICK row \in Organization, new \in Organization :
        /\ row = orgs[k.org] /\ new = IF k.pc = "org" THEN [k.view EXCEPT !.link = k.rec] ELSE k.new
        /\ k.view \in Organization /\ k.view.there /\ new.there /\ row.there
        /\ new.link = IF k.pc = "org" THEN k.rec ELSE k.view.link
  <2>1. k.view \in Organization /\ k.new \in Organization /\ k.rec \in Records \cup {None} /\ Fixed(k) /\ k.pc \in {"org", "update"}
    BY <1>1, EditFields DEF RegistryHeld, EditsIs, CommitOrganization, CommitUpdate
  <2>2. k.org \in There /\ k.view.there /\ orgs[k.org] \in Organization /\ orgs[k.org].there
    BY <2>1, RegistryRows DEF Fixed, OnOrg, There
  <2>3. PICK linked : linked = [k.view EXCEPT !.link = k.rec]
    OBVIOUS
  <2>4. linked \in Organization /\ linked.there /\ linked.link = k.rec
    BY <2>1, <2>2, <2>3 DEF Organization
  <2>5. PICK new : new = IF k.pc = "org" THEN [k.view EXCEPT !.link = k.rec] ELSE k.new
    OBVIOUS
  <2>6. new \in Organization /\ new.there /\ new.link = IF k.pc = "org" THEN k.rec ELSE k.view.link
    BY <2>1, <2>3, <2>4, <2>5 DEF Fixed
  <2>. QED  BY <2>1, <2>2, <2>5, <2>6
<1>3. /\ k.pc \in {"org", "update"} /\ InProgress(k) /\ Fixed(k) /\ Close(c) /\ torn' = torn /\ twinned' = twinned
      /\ records' = records /\ labels' = labels /\ relations' = relations /\ requests' = requests
      /\ k.org \in There /\ k.org \in Orgs /\ (k.pc = "org" => k.rec \in Records)
      /\ orgs' = [orgs EXCEPT ![k.org] = Written(row, k.view, new)]
  BY <1>1, <1>2 DEF CommitOrganization, CommitUpdate, RegistryHeld, EditsIs, InProgress, Fixed, OnOrg, OnRecord, registryVars, There
<1>4. PICK w : w = Written(row, k.view, new)
  OBVIOUS
<1>5. /\ w \in Organization /\ w.there
      /\ w.link = row.link \/ (k.pc = "org" /\ w.link = k.rec)
  <2>1. PICK view \in Organization : view = k.view
    BY <1>2
  <2>2. /\ Written(row, view, new) \in Organization
        /\ Written(row, view, new).there = IF new.there # view.there THEN new.there ELSE row.there
        /\ Written(row, view, new).link = IF new.link # view.link THEN new.link ELSE row.link
    BY WrittenOrganization
  <2>. QED  BY <1>2, <1>3, <1>4, <2>1, <2>2
<1>6. /\ orgs' \in [Orgs -> Organization] /\ orgs'[k.org] = w
      /\ \A o \in Orgs : o # k.org => orgs'[o] = orgs[o]
  BY <1>3, <1>4, <1>5 DEF RegistryHeld, RegistryTyped
<1>7. RegistryTyped' /\ There' = There
  <2>1. There' = There
    BY <1>3, <1>5, <1>6 DEF There
  <2>. QED  BY <1>3, <1>5, <1>6, <2>1 DEF RegistryHeld, RegistryTyped
<1>8. ASSUME ~torn
      PROVE  LinksHold' /\ \A e \in Others(c) : Left(e)
  <2>1. Known(k) /\ LinksHold /\ \A e \in Others(c) : Known(e) /\ Fixed(e) /\ ~Clash(k, e) /\ ~Clash(e, k)
    BY <1>1, <1>3, <1>8, Alongside
  <2>2. \A r : Live(r)' <=> Live(r)
    BY <1>3 DEF Live
  <2>3. \A o \in Orgs : orgs'[o].link = orgs[o].link \/ (k.pc = "org" /\ orgs'[o].link = k.rec)
    BY <1>2, <1>5, <1>6
  <2>4. LinksHold'
    <3>1. k.pc = "org" => Live(k.rec)
      BY <2>1 DEF Known
    <3>2. \A o \in Orgs : orgs'[o].link = None \/ Live(orgs'[o].link)
      BY <2>1, <2>3, <3>1 DEF LinksHold
    <3>3. \A o \in Orgs : orgs'[o].link = None \/ Live(orgs[o].link)'
      BY <1>3, <3>2 DEF Live
    <3>4. /\ \A q \in Requests : /\ requests'[q].link = None \/ Live(requests[q].link)'
                                 /\ (requests'[q].state = "resolved") = (requests'[q].link # None)
          /\ \A x \in Records \X Records : relations'[x].live => Live(relations[x].parent)' /\ Live(relations[x].child)'
      BY <1>3, <2>1 DEF LinksHold, Live
    <3>. QED  BY <3>3, <3>4 DEF LinksHold
  <2>5. ASSUME NEW e \in Others(c)
        PROVE  Left(e)
    <3>1. k.pc = "org" => k.rec # None
      BY <1>3, NullAssumption
    <3>2. e.pc = "merge" /\ k.pc = "org" => e.rec # k.rec
      BY <2>1, <3>1 DEF Clash, Involved
    <3>. QED  BY <1>3, <2>2, <2>3, <3>2 DEF Left
  <2>. QED  BY <2>4, <2>5
<1>9. \A o \in Orgs : orgs[o] = NoOrg /\ o # edit[c].org => orgs'[o] = NoOrg
  BY <1>1, <1>6
<1>10. RegistryHeld'
  BY <1>1, <1>3, <1>7, <1>8, <1>9, Closed
<1>. QED  BY <1>7, <1>10

LEMMA CommitRequestHolds ==
  ASSUME RegistryHeld, NEW c \in Edits, CommitRequest(c), UNCHANGED founder
  PROVE  RegistryHeld'
<1>1. PICK k \in Edit : k = edit[c]
  BY DEF RegistryHeld, EditsIs
<1>2. PICK new : new = IF k.pc = "defer" THEN [k.seen EXCEPT !.link = None, !.state = "deferred"]
                       ELSE [k.seen EXCEPT !.link = k.rec, !.state = "resolved"]
  OBVIOUS
<1>3. PICK seen \in Request, row \in Request : seen = k.seen /\ row = requests[k.req]
  <2>1. k.seen \in Request /\ k.pc \in {"request", "defer"} /\ Fixed(k)
    BY <1>1, EditFields DEF CommitRequest, RegistryHeld, EditsIs
  <2>2. requests[k.req] \in Request
    BY <2>1, RegistryRows DEF Fixed, OnRequest
  <2>. QED  BY <2>1, <2>2
<1>w. PICK w : w = Written(row, seen, new)
  OBVIOUS
<1>4. /\ k.pc \in {"request", "defer"} /\ InProgress(k) /\ Fixed(k) /\ Close(c) /\ torn' = torn /\ twinned' = twinned
      /\ orgs' = orgs /\ records' = records /\ labels' = labels /\ relations' = relations
      /\ k.req \in Requests /\ (k.pc = "request" => k.rec \in Records)
      /\ requests' = [requests EXCEPT ![k.req] = w]
  BY <1>1, <1>2, <1>3, <1>w DEF CommitRequest, RegistryHeld, EditsIs, InProgress, Fixed, OnRecord, OnRequest
<1>5. /\ new \in Request
      /\ k.pc = "defer" => new.link = None /\ new.state = "deferred"
      /\ k.pc = "request" => new.link = k.rec /\ new.state = "resolved"
  BY <1>2, <1>3, <1>4 DEF Request
<1>6. /\ w \in Request
      /\ w.link = IF new.link # seen.link THEN new.link ELSE row.link
      /\ w.state = IF new.state # seen.state THEN new.state ELSE row.state
  BY <1>5, <1>w, WrittenRequest
<1>7. /\ requests' \in [Requests -> Request] /\ requests'[k.req] = w
      /\ \A q \in Requests : q # k.req => requests'[q] = requests[q]
  BY <1>4, <1>6 DEF RegistryHeld, RegistryTyped
<1>8. RegistryTyped' /\ There' = There
  BY <1>4, <1>7 DEF RegistryHeld, RegistryTyped, There
<1>9. ASSUME ~torn
      PROVE  LinksHold' /\ \A e \in Others(c) : Left(e)
  <2>1. Known(k) /\ LinksHold /\ \A e \in Others(c) : Known(e) /\ Fixed(e) /\ ~Clash(k, e) /\ ~Clash(e, k)
    BY <1>1, <1>4, <1>9, Alongside
  <2>2. \A r : Live(r)' <=> Live(r)
    BY <1>4 DEF Live
  <2>3. w.link = new.link /\ w.state = new.state
    BY <1>3, <1>4, <1>6, <2>1 DEF Known
  <2>4. (k.pc = "request" => Live(k.rec)) /\ k.req # None /\ (k.pc = "request" => k.rec # None)
    BY <1>4, <2>1, NullAssumption DEF Known
  <2>5. LinksHold'
    <3>1. \A q \in Requests : requests'[q].link = None \/ Live(requests'[q].link)
      BY <1>4, <1>5, <1>7, <2>1, <2>3, <2>4 DEF LinksHold
    <3>2. \A q \in Requests : (requests'[q].state = "resolved") = (requests'[q].link # None)
      BY <1>4, <1>5, <1>7, <2>1, <2>3, <2>4 DEF LinksHold
    <3>3. \A q \in Requests : requests'[q].link = None \/ Live(requests[q].link)'
      BY <1>4, <3>1 DEF Live
    <3>4. /\ \A o \in Orgs : orgs'[o].link = None \/ Live(orgs[o].link)'
          /\ \A x \in Records \X Records : relations'[x].live => Live(relations[x].parent)' /\ Live(relations[x].child)'
      BY <1>4, <2>1 DEF LinksHold, Live
    <3>. QED  BY <3>2, <3>3, <3>4 DEF LinksHold
  <2>6. ASSUME NEW e \in Others(c)
        PROVE  Left(e)
    <3>1. e.req # k.req /\ (e.pc = "merge" => k.req \notin e.reqs)
      BY <2>1, <2>4 DEF Clash
    <3>2. e.pc = "merge" => e.rec # None /\ (k.pc = "request" => e.rec # k.rec)
      BY <2>1, <2>4, NullAssumption DEF Clash, Involved, Fixed, OnRecord
    <3>3. e.pc \in {"request", "defer"} => e.req \in Requests
      BY <2>1 DEF Fixed, OnRequest
    <3>. QED  BY <1>4, <1>5, <1>7, <2>2, <2>3, <3>1, <3>2, <3>3 DEF Left
  <2>. QED  BY <2>5, <2>6
<1>. QED  BY <1>1, <1>4, <1>8, <1>9, Closed

\* What a synchronisation stores of its organization.
LEMMA StoredFields ==
  ASSUME RegistryHeld, NEW k \in Edit, Fixed(k), k.pc \in {"sync", "create", "link"},
         NEW link \in Records \cup {None}, NEW s, s = Stored(k, link)
  PROVE  /\ s \in Organization /\ s.there /\ k.org \in Orgs
         /\ s.link = link \/ (k.view.there /\ s.link = orgs[k.org].link)
         /\ ~k.view.there => s.link = link
         /\ link = k.view.link => s.link = orgs[k.org].link
<1>1. PICK view \in Organization, row \in Organization, set \in Organization :
        view = k.view /\ row = orgs[k.org] /\ set = [k.new EXCEPT !.link = link]
  <2>1. k.view \in Organization /\ k.new \in Organization /\ k.org \in Orgs
    BY EditFields DEF Fixed, OnOrg
  <2>2. [k.new EXCEPT !.link = link] \in Organization
    BY <2>1 DEF Organization
  <2>. QED  BY <2>1, <2>2, RegistryRows
<1>2. k.new \in Organization /\ k.new.there /\ k.org \in Orgs
  BY EditFields DEF Fixed, OnOrg
<1>3. set.there /\ set.link = link
  BY <1>1, <1>2 DEF Organization
<1>4. view.there => row.there
  BY <1>1 DEF Fixed, OnOrg, There
<1>5. /\ Written(row, view, set) \in Organization
      /\ Written(row, view, set).there = IF set.there # view.there THEN set.there ELSE row.there
      /\ Written(row, view, set).link = IF set.link # view.link THEN set.link ELSE row.link
  BY WrittenOrganization
<1>6. view.there \in BOOLEAN /\ set.there \in BOOLEAN /\ row.there \in BOOLEAN
  BY DEF Organization
<1>7. CASE view.there
  <2>1. s = Written(row, view, set)
    BY <1>1, <1>7 DEF Stored
  <2>. QED  BY <1>1, <1>2, <1>3, <1>4, <1>5, <1>6, <1>7, <2>1
<1>8. CASE ~view.there
  <2>1. s = set
    BY <1>1, <1>8 DEF Stored
  <2>2. k.pc # "link" /\ Creates(k) /\ view = NoOrg /\ row = NoOrg
    BY <1>1, <1>8 DEF Fixed, Creates
  <2>. QED  BY <1>1, <1>2, <1>3, <1>8, <2>1, <2>2
<1>. QED  BY <1>7, <1>8

\* A synchronisation links its organization and the requests made there.
LEMMA Relates ==
  ASSUME RegistryHeld, NEW c \in Edits, NEW k \in Edit, k = edit[c], k.pc \in {"sync", "link"},
         orgs' = [orgs EXCEPT ![k.org] = Stored(k, k.rec)], requests' = RelatedRequests(k.org, k.rec),
         UNCHANGED <<records, relations>>
  PROVE  /\ orgs' \in [Orgs -> Organization] /\ requests' \in [Requests -> Request]
         /\ \A o \in Orgs : orgs'[o] = NoOrg \/ orgs'[o].there
         /\ There' = There \cup {k.org}
         /\ \A o \in Orgs : orgs[o] = NoOrg /\ o # k.org => orgs'[o] = NoOrg
         /\ ~torn => /\ LinksHold'
                     /\ \A e \in Others(c) :
                          /\ e.pc \in {"request", "defer"} => requests'[e.req] = requests[e.req]
                          /\ e.pc = "merge" =>
                               /\ \A o \in Orgs : orgs'[o].link = e.rec => orgs[o].link = e.rec
                               /\ \A q \in Requests :
                                    /\ requests'[q].link = e.rec => requests[q].link = e.rec
                                    /\ requests[q].link # None => requests'[q].link # None
<1>1. Fixed(k) /\ InProgress(k) /\ k.org \in Orgs /\ k.rec \in Records /\ k.rec # None
  BY NullAssumption DEF RegistryHeld, EditsIs, Fixed, InProgress, OnOrg, OnRecord
<1>2. PICK s : s = Stored(k, k.rec)
  OBVIOUS
<1>3. s \in Organization /\ s.there /\ (s.link = k.rec \/ s.link = orgs[k.org].link)
  BY <1>1, <1>2, StoredFields
<1>4. /\ orgs' \in [Orgs -> Organization] /\ orgs'[k.org] = s
      /\ \A o \in Orgs : o # k.org => orgs'[o] = orgs[o]
  BY <1>1, <1>2, <1>3 DEF RegistryHeld, RegistryTyped
<1>5. \A o \in Orgs : orgs'[o] = NoOrg \/ orgs'[o].there
  BY <1>3, <1>4 DEF RegistryHeld, RegistryTyped
<1>6. There' = There \cup {k.org}
  BY <1>1, <1>3, <1>4 DEF There
<1>7. ASSUME NEW q \in Requests
      PROVE  /\ requests'[q] \in Request
             /\ \/ requests'[q] = requests[q]
                \/ requests[q].org = k.org /\ requests'[q].link = k.rec /\ requests'[q].state = "resolved"
  <2>1. PICK row \in Request : row = requests[q]
    BY RegistryRows
  <2>2. requests'[q] = IF row.org = k.org /\ row.link # k.rec THEN [row EXCEPT !.link = k.rec, !.state = "resolved"] ELSE row
    BY <2>1 DEF RelatedRequests
  <2>3. PICK new : new = [row EXCEPT !.link = k.rec, !.state = "resolved"]
    OBVIOUS
  <2>4. new \in Request /\ new.link = k.rec /\ new.state = "resolved"
    BY <1>1, <2>3 DEF Request
  <2>. QED  BY <2>1, <2>2, <2>3, <2>4
<1>8. requests' \in [Requests -> Request]
  BY <1>7 DEF RelatedRequests
<1>9. ASSUME ~torn
      PROVE  LinksHold'
  <2>1. Known(k) /\ LinksHold
    BY <1>1, <1>9, Alongside
  <2>2. \A r : Live(r)' <=> Live(r)
    BY DEF Live
  <2>3. Live(k.rec)
    BY <2>1 DEF Known
  <2>4. \A o \in Orgs : orgs'[o].link = None \/ Live(orgs'[o].link)
    BY <1>1, <1>3, <1>4, <2>1, <2>3 DEF LinksHold
  <2>5. \A q \in Requests : /\ requests'[q].link = None \/ Live(requests'[q].link)
                            /\ (requests'[q].state = "resolved") = (requests'[q].link # None)
    BY <1>1, <1>7, <2>1, <2>3 DEF LinksHold
  <2>6. /\ \A o \in Orgs : orgs'[o].link = None \/ Live(orgs[o].link)'
        /\ \A q \in Requests : requests'[q].link = None \/ Live(requests[q].link)'
    BY <2>4, <2>5 DEF Live
  <2>7. \A x \in Records \X Records : relations'[x].live => Live(relations[x].parent)' /\ Live(relations[x].child)'
    BY <2>1 DEF LinksHold, Live
  <2>. QED  BY <2>5, <2>6, <2>7 DEF LinksHold
<1>10. ASSUME ~torn, NEW e \in Others(c)
       PROVE  /\ e.pc \in {"request", "defer"} => requests'[e.req] = requests[e.req]
              /\ e.pc = "merge" =>
                   /\ \A o \in Orgs : orgs'[o].link = e.rec => orgs[o].link = e.rec
                   /\ \A q \in Requests :
                        /\ requests'[q].link = e.rec => requests[q].link = e.rec
                        /\ requests[q].link # None => requests'[q].link # None
  <2>1. Known(e) /\ Fixed(e) /\ ~Clash(k, e) /\ ~Clash(e, k)
    BY <1>1, <1>10, Alongside
  <2>2. e.pc = "merge" => e.rec # k.rec
    BY <1>1, <2>1 DEF Clash, Involved
  <2>3. e.pc \in {"request", "defer"} => e.req \in Requests /\ requests[e.req].org # k.org
    BY <1>1, <2>1, NullAssumption DEF Clash, Known, Fixed, OnRequest
  <2>. QED  BY <1>1, <1>3, <1>4, <1>7, <2>2, <2>3
<1>. QED  BY <1>4, <1>5, <1>6, <1>8, <1>9, <1>10

LEMMA CommitSyncHolds ==
  ASSUME RegistryHeld, NEW c \in Edits, CommitSync(c),
         founder' \in [Edits -> Users \cup {None}], \A d \in Edits \ {c} : founder'[d] = founder[d]
  PROVE  RegistryHeld' /\ There' = There \cup {edit[c].org}
<1>1. PICK k \in Edit : k = edit[c]
  BY DEF RegistryHeld, EditsIs
<1>2. /\ k.pc = "sync" /\ InProgress(k) /\ Close(c) /\ torn' = torn /\ twinned' = twinned
      /\ records' = records /\ labels' = labels /\ relations' = relations
      /\ orgs' = [orgs EXCEPT ![k.org] = Stored(k, k.rec)] /\ requests' = RelatedRequests(k.org, k.rec)
  BY <1>1 DEF CommitSync, InProgress
<1>3. /\ orgs' \in [Orgs -> Organization] /\ requests' \in [Requests -> Request]
      /\ \A o \in Orgs : orgs'[o] = NoOrg \/ orgs'[o].there
      /\ There' = There \cup {k.org}
      /\ \A o \in Orgs : orgs[o] = NoOrg /\ o # k.org => orgs'[o] = NoOrg
      /\ ~torn => /\ LinksHold'
                  /\ \A e \in Others(c) :
                       /\ e.pc \in {"request", "defer"} => requests'[e.req] = requests[e.req]
                       /\ e.pc = "merge" =>
                            /\ \A o \in Orgs : orgs'[o].link = e.rec => orgs[o].link = e.rec
                            /\ \A q \in Requests :
                                 /\ requests'[q].link = e.rec => requests[q].link = e.rec
                                 /\ requests[q].link # None => requests'[q].link # None
  BY <1>1, <1>2, Relates
<1>4. RegistryTyped'
  BY <1>2, <1>3 DEF RegistryHeld, RegistryTyped
<1>5. ~torn => LinksHold' /\ \A e \in Others(c) : Left(e)
  <2>1. ASSUME ~torn, NEW e \in Others(c)
        PROVE  Left(e)
    BY <1>2, <1>3, <2>1 DEF Left, Live
  <2>. QED  BY <1>3, <2>1
<1>6. \A r \in Records : Live(r)' =>
        Live(r) /\ records'[r].name = records[r].name /\ records'[r].origin = records[r].origin
  BY <1>2 DEF Live
<1>7. RegistryHeld'
  BY <1>1, <1>2, <1>3, <1>4, <1>5, <1>6, Closing
<1>. QED  BY <1>1, <1>3, <1>7

LEMMA CommitLinkHolds ==
  ASSUME RegistryHeld, NEW c \in Edits, CommitLink(c), UNCHANGED founder
  PROVE  RegistryHeld' /\ There' = There
<1>1. PICK k \in Edit : k = edit[c]
  BY DEF RegistryHeld, EditsIs
<1>2. /\ k.pc = "link" /\ InProgress(k) /\ Fixed(k) /\ Close(c) /\ torn' = torn /\ twinned' = twinned
      /\ records' = records /\ relations' = relations /\ k.org \in There /\ k.rec \in Records /\ k.rec # None
  BY <1>1, NullAssumption DEF CommitLink, RegistryHeld, EditsIs, InProgress, Fixed, OnOrg, OnRecord
<1>3. CASE UNCHANGED <<orgs, requests, labels>>
  <2>1. RegistryTyped' /\ There' = There
    BY <1>2, <1>3 DEF RegistryHeld, RegistryTyped, There
  <2>2. ~torn => LinksHold'
    BY <1>2, <1>3 DEF RegistryHeld, KnownIs, LinksHold, Live
  <2>3. \A e \in Others(c) : Left(e)
    BY <1>2, <1>3, LeftAlone
  <2>4. RegistryHeld'
    BY <1>1, <1>2, <1>3, <2>1, <2>2, <2>3, Closed
  <2>. QED  BY <2>1, <2>4
<1>4. CASE ~UNCHANGED <<orgs, requests, labels>>
  <2>1. PICK d : d = k.new.domain
    OBVIOUS
  <2>2. /\ orgs' = [orgs EXCEPT ![k.org] = Stored(k, k.rec)] /\ requests' = RelatedRequests(k.org, k.rec)
        /\ labels' = IF d = None THEN labels
                     ELSE [labels EXCEPT ![<<k.rec, d>>] = [at |-> k.rec, primary |-> TRUE, live |-> TRUE]]
        /\ d # None => labels[<<k.rec, d>>] = NoLabel
    BY <1>1, <1>4, <2>1 DEF CommitLink
  <2>3. PICK row : row = [at |-> k.rec, primary |-> TRUE, live |-> TRUE]
    OBVIOUS
  <2>4. row \in Label /\ row.at = k.rec /\ NoLabel.at = None
    BY <1>2, <2>3 DEF Label, NoLabel
  <2>5. d = None \/ d \in Labels
    <3>1. k.new \in Organization
      BY EditFields
    <3>. QED  BY <2>1, <3>1, RegistryAssumption DEF Organization
  <2>6. /\ labels' \in [Records \X Labels -> Label]
        /\ \A l \in Records \X Labels :
             labels'[l] = labels[l] \/ (labels[l].at = None /\ labels'[l] = row)
    <3>1. CASE d = None
      BY <2>2, <3>1 DEF RegistryHeld, RegistryTyped
    <3>2. CASE d # None
      <4>1. PICK at \in Records \X Labels : at = <<k.rec, d>>
        BY <1>2, <2>5, <3>2
      <4>2. labels' = [labels EXCEPT ![at] = row] /\ labels[at].at = None
        BY <2>2, <2>3, <2>4, <3>2, <4>1
      <4>. QED  BY <2>4, <4>1, <4>2 DEF RegistryHeld, RegistryTyped
    <3>. QED  BY <3>1, <3>2
  <2>7. /\ orgs' \in [Orgs -> Organization] /\ requests' \in [Requests -> Request]
        /\ \A o \in Orgs : orgs'[o] = NoOrg \/ orgs'[o].there
        /\ There' = There \cup {k.org}
        /\ \A o \in Orgs : orgs[o] = NoOrg /\ o # k.org => orgs'[o] = NoOrg
        /\ ~torn => /\ LinksHold'
                    /\ \A e \in Others(c) :
                         /\ e.pc \in {"request", "defer"} => requests'[e.req] = requests[e.req]
                         /\ e.pc = "merge" =>
                              /\ \A o \in Orgs : orgs'[o].link = e.rec => orgs[o].link = e.rec
                              /\ \A q \in Requests :
                                   /\ requests'[q].link = e.rec => requests[q].link = e.rec
                                   /\ requests[q].link # None => requests'[q].link # None
    BY <1>1, <1>2, <2>2, Relates
  <2>8. \A l \in Records \X Labels : labels'[l].live => labels'[l].at # None
    BY <1>2, <2>4, <2>6 DEF RegistryHeld, RegistryTyped
  <2>9. RegistryTyped' /\ There' = There
    BY <1>2, <2>6, <2>7, <2>8 DEF RegistryHeld, RegistryTyped
  <2>10. ASSUME ~torn, NEW e \in Others(c)
         PROVE  Left(e)
    <3>1. Known(e) /\ Fixed(e) /\ ~Clash(k, e) /\ ~Clash(e, k)
      BY <1>1, <1>2, <2>10, Alongside
    <3>2. e.pc = "merge" => k.rec \notin {e.rec, e.into} /\ None \notin {e.rec, e.into}
      BY <1>2, <3>1, NullAssumption DEF Clash, Involved, Fixed, OnRecord
    <3>3. e.pc = "label" => labels'[<<e.rec, e.label>>].at \in {e.rec, labels[<<e.rec, e.label>>].at}
      <4>1. e.pc = "label" => <<e.rec, e.label>> \in Records \X Labels
        BY <3>1 DEF Fixed, OnRecord
      <4>2. d # None => <<k.rec, d>> \in Records \X Labels
        BY <1>2, <2>5
      <4>3. \A l \in Records \X Labels : labels'[l] = labels[l] \/ (l = <<k.rec, d>> /\ labels'[l] = row)
        BY <2>2, <2>3 DEF RegistryHeld, RegistryTyped
      <4>. QED  BY <2>4, <4>1, <4>3
    <3>4. e.pc = "merge" => \A l \in Records \X Labels :
            {labels[l].at, labels'[l].at} \cap {e.rec, e.into} # {} => labels'[l] = labels[l]
      BY <2>4, <2>6, <3>2
    <3>. QED  BY <1>2, <2>7, <2>10, <3>3, <3>4 DEF Left, Live
  <2>11. RegistryHeld'
    BY <1>1, <1>2, <2>7, <2>9, <2>10, Closed
  <2>. QED  BY <2>9, <2>11
<1>. QED  BY <1>3, <1>4

--------------------------------------------------------------------------------
(* A record is made: a free row comes to life, and no edit knew of it.            *)

LEMMA Makes ==
  ASSUME RegistryHeld, NEW r \in FreeRecords, NEW name \in Names \cup {None}, NEW origin \in Orgs \cup {None},
         records' = Made(r, name, origin)
  PROVE  /\ records' \in [Records -> Record] /\ r \in Records /\ r # None /\ ~Live(r)
         /\ \A x \in Records \cup {None} : Live(x)' <=> Live(x) \/ x = r
         /\ records'[r].name = name
         /\ \A x \in Records : x # r => records'[x] = records[x]
<1>1. r \in Records /\ r # None /\ ~records[r].there /\ ~Live(r)
  BY NullAssumption DEF FreeRecords, Live
<1>2. PICK row : row = [there |-> TRUE, deleted |-> FALSE, name |-> name, origin |-> origin, into |-> None]
  OBVIOUS
<1>3. row \in Record /\ row.there /\ ~row.deleted /\ row.name = name
  BY <1>2 DEF Record
<1>4. records' = [records EXCEPT ![r] = row]
  BY <1>2 DEF Made
<1>5. /\ records' \in [Records -> Record] /\ records'[r] = row
      /\ \A x \in Records : x # r => records'[x] = records[x]
  BY <1>1, <1>3, <1>4 DEF RegistryHeld, RegistryTyped
<1>6. ASSUME NEW x \in Records \cup {None}
      PROVE  Live(x)' <=> Live(x) \/ x = r
  BY <1>1, <1>3, <1>5 DEF Live
<1>. QED  BY <1>1, <1>3, <1>5, <1>6

LEMMA MadeKeeps ==
  ASSUME RegistryHeld, NEW r \in FreeRecords, NEW name \in Names \cup {None}, NEW origin \in Orgs \cup {None},
         records' = Made(r, name, origin), UNCHANGED <<labels, relations, requests>>,
         \A o \in Orgs : orgs'[o].link = orgs[o].link
  PROVE  (LinksHold => LinksHold') /\ \A e \in Edit : Left(e)
<1>1. \A x \in Records \cup {None} : Live(x) => Live(x)'
  BY Makes
<1>2. \A x \in Records \cup {None} : Live(x) => records'[x].there /\ ~records'[x].deleted /\ x # None
  BY <1>1 DEF Live
<1>3. \A e \in Edit : Left(e)
  BY <1>1, EditFields DEF Left
<1>4. ASSUME LinksHold
      PROVE  LinksHold'
  <2>1. \A o \in Orgs : orgs[o].link \in Records \cup {None}
    BY DEF RegistryHeld, RegistryTyped, Organization
  <2>2. \A q \in Requests : requests[q].link \in Records \cup {None}
    BY DEF RegistryHeld, RegistryTyped, Request
  <2>3. \A x \in Records \X Records : relations[x].parent \in Records \cup {None} /\ relations[x].child \in Records \cup {None}
    BY DEF RegistryHeld, RegistryTyped, Relation
  <2>4. \A o \in Orgs : orgs'[o].link = None \/ Live(orgs[o].link)'
    BY <1>2, <1>4, <2>1 DEF LinksHold, Live
  <2>5. \A q \in Requests : /\ requests'[q].link = None \/ Live(requests[q].link)'
                            /\ (requests'[q].state = "resolved") = (requests'[q].link # None)
    BY <1>2, <1>4, <2>2 DEF LinksHold, Live
  <2>6. \A x \in Records \X Records : relations'[x].live => Live(relations[x].parent)' /\ Live(relations[x].child)'
    BY <1>2, <1>4, <2>3 DEF LinksHold, Live
  <2>. QED  BY <2>4, <2>5, <2>6 DEF LinksHold
<1>. QED  BY <1>3, <1>4

\* A step that makes a record for no synchronisation, or reads one: twins are not watched for.
LEMMA Turns ==
  ASSUME RegistryHeld, NEW c \in Edits, NEW next \in Edit, edit' = [edit EXCEPT ![c] = next],
         UNCHANGED <<orgs, founder>>, torn => torn', twinned => twinned', RegistryTyped',
         Fixed(next)', next.pc \notin Syncs \cup {"rename"}, next.org = None,
         ~torn' => /\ LinksHold' /\ (InProgress(next) => Known(next)')
                   /\ \A k \in Others(c) : Left(k) /\ (InProgress(next) => ~Clash(next, k) /\ ~Clash(k, next)),
         ~twinned' => UNCHANGED records
  PROVE  RegistryHeld'
<1>1. ~Creates(next) /\ next.pc # "create" /\ next.pc # "rename" /\ next.pc \notin Syncs
  BY DEF Creates, Syncs
<1>2. There \subseteq There' /\ \A o \in Orgs : orgs[o] = NoOrg /\ o # edit[c].org => orgs'[o] = NoOrg
  BY DEF There
<1>3. \A d \in Edits \ {c} : Creates(edit[d]) \/ Creates(next) => edit[d].org # next.org
  BY <1>1, NullAssumption DEF RegistryHeld, EditsIs, Fixed, Creates, OnOrg
<1>4. founder' \in [Edits -> Users \cup {None}] /\ \A d \in Edits \ {c} : founder'[d] = founder[d]
  BY DEF RegistryHeld, EditsIs
<1>5. ASSUME ~twinned'
      PROVE  /\ Apart'
             /\ \A k \in Others(c) : \A n : k.pc = "create" /\ k.new.name = n /\ Named(n)' => Named(n)
  <2>1. Apart'
    BY <1>5 DEF RegistryHeld, TwinsHold, Apart, Live
  <2>2. \A n : Named(n)' => Named(n)
    BY <1>5 DEF Named, Live
  <2>. QED  BY <2>1, <2>2
<1>6. ~twinned' =>
        /\ Apart' /\ next.pc # "rename"
        /\ next.pc \in Syncs => \A d \in Edits \ {c} : edit[d].pc \notin Syncs
        /\ next.pc = "create" => ~Named(next.new.name)'
        /\ \A k \in Others(c) : \A n : k.pc = "create" /\ k.new.name = n /\ Named(n)' => Named(n)
  BY <1>1, <1>5
<1>7. Creates(next) => founder'[c] \in Users
  BY <1>1
<1>. QED  BY <1>2, <1>3, <1>4, <1>6, <1>7, Steps, Zenon

LEMMA CreateRecordHolds ==
  ASSUME RegistryHeld, NEW c \in Edits, CreateRecord(c), UNCHANGED founder
  PROVE  RegistryHeld'
<1>1. PICK r \in FreeRecords, n \in Names : records' = Made(r, n, None)
  BY DEF CreateRecord
<1>2. PICK next \in Edit : next = Edited
  BY NoEdits
<1>3. /\ edit' = [edit EXCEPT ![c] = next] /\ torn' = torn /\ twinned'
      /\ orgs' = orgs /\ labels' = labels /\ relations' = relations /\ requests' = requests
  BY <1>2 DEF CreateRecord, Close
<1>4. next.pc = "done" /\ next.org = None /\ ~InProgress(next)
  BY <1>2, NoEdits DEF InProgress, Edited, NoEdit
<1>5. Fixed(next)'
  BY <1>4 DEF Fixed, Creates, OnOrg, OnRecord, OnRequest
<1>6. records' \in [Records -> Record]
  BY <1>1, Makes
<1>7. RegistryTyped' /\ (torn => torn') /\ (twinned => twinned')
  BY <1>3, <1>6 DEF RegistryHeld, RegistryTyped
<1>8. (LinksHold => LinksHold') /\ \A e \in Edit : Left(e)
  BY <1>1, <1>3, MadeKeeps
<1>9. ~torn' => /\ LinksHold' /\ (InProgress(next) => Known(next)')
                /\ \A k \in Others(c) : Left(k) /\ (InProgress(next) => ~Clash(next, k) /\ ~Clash(k, next))
  BY <1>3, <1>4, <1>8 DEF RegistryHeld, KnownIs, Others
<1>10. next.pc \notin Syncs \cup {"rename"}
  BY <1>4 DEF Syncs
<1>. QED  BY <1>3, <1>4, <1>5, <1>7, <1>9, <1>10, Turns

LEMMA CreateAndResolveHolds ==
  ASSUME RegistryHeld, NEW c \in Edits, CreateAndResolve(c), UNCHANGED founder
  PROVE  RegistryHeld'
<1>1. PICK q \in Requests, n \in Names, r \in FreeRecords :
        /\ records' = Made(r, n, None)
        /\ edit' = [edit EXCEPT ![c] = [NoEdit EXCEPT !.pc = "resolve", !.req = q, !.rec = r]]
        /\ torn' = (torn \/ Clashes(c, [NoEdit EXCEPT !.pc = "resolve", !.req = q, !.rec = r]))
  BY DEF CreateAndResolve
<1>2. r \in Records /\ records' \in [Records -> Record]
  BY <1>1, Makes
<1>3. PICK next : next = [NoEdit EXCEPT !.pc = "resolve", !.req = q, !.rec = r]
  OBVIOUS
<1>4. next \in Edit /\ next.pc = "resolve" /\ next.req = q /\ next.rec = r /\ next.org = None
  BY <1>2, <1>3, Blanked DEF NoEdit, Edit
<1>5. /\ edit' = [edit EXCEPT ![c] = next] /\ torn' = (torn \/ Clashes(c, next)) /\ twinned'
      /\ orgs' = orgs /\ labels' = labels /\ relations' = relations /\ requests' = requests
  BY <1>1, <1>3 DEF CreateAndResolve
<1>6. Fixed(next)' /\ Known(next)'
  BY <1>2, <1>4 DEF Fixed, Known, Creates, OnOrg, OnRecord, OnRequest
<1>7. RegistryTyped' /\ (torn => torn') /\ (twinned => twinned')
  BY <1>2, <1>5 DEF RegistryHeld, RegistryTyped
<1>8. (LinksHold => LinksHold') /\ \A e \in Edit : Left(e)
  BY <1>1, <1>5, MadeKeeps
<1>9. ~torn' => /\ LinksHold' /\ (InProgress(next) => Known(next)')
                /\ \A k \in Others(c) : Left(k) /\ (InProgress(next) => ~Clash(next, k) /\ ~Clash(k, next))
  <2>1. ~torn' => LinksHold'
    BY <1>5, <1>8 DEF RegistryHeld, KnownIs
  <2>2. ~torn' => \A k \in Others(c) : ~Clash(next, k) /\ ~Clash(k, next)
    BY <1>5 DEF Clashes, InFlight, Others, InProgress
  <2>. QED  BY <1>6, <1>8, <2>1, <2>2 DEF Others
<1>10. next.pc \notin Syncs \cup {"rename"}
  BY <1>4 DEF Syncs
<1>. QED  BY <1>4, <1>5, <1>6, <1>7, <1>9, <1>10, Turns

LEMMA ResolveCreatedHolds ==
  ASSUME RegistryHeld, NEW c \in Edits, ResolveCreated(c), UNCHANGED founder
  PROVE  RegistryHeld'
<1>1. PICK k \in Edit : k = edit[c]
  BY DEF RegistryHeld, EditsIs
<1>2. /\ k.pc = "resolve" /\ InProgress(k) /\ k.req \in Requests /\ k.rec \in Records /\ twinned' = twinned
      /\ orgs' = orgs /\ records' = records /\ labels' = labels /\ relations' = relations /\ requests' = requests
  BY <1>1 DEF ResolveCreated, InProgress, RegistryHeld, EditsIs, Fixed, OnRecord, OnRequest
<1>3. There' = There /\ (LinksHold => LinksHold') /\ \A e \in Edit : Left(e)
  BY <1>2, LeftAlone DEF There, LinksHold, Live
<1>4. CASE Live(k.rec)
  <2>1. PICK next : next = Resolving(k.req, k.rec)
    OBVIOUS
  <2>2. /\ next \in Edit /\ next.pc = "request" /\ next.org = None
        /\ Fixed(next) /\ InProgress(next) /\ ~Creates(next) /\ Known(next)
    BY <1>2, <1>4, <2>1, ResolvingFields
  <2>3. edit' = [edit EXCEPT ![c] = next] /\ torn' = (torn \/ Clashes(c, next))
    BY <1>1, <1>4, <2>1 DEF ResolveCreated
  <2>4. Fixed(next)' /\ Known(next)'
    BY <1>2, <1>3, <2>2, FixedStays, KnownStays
  <2>5. RegistryTyped' /\ (torn => torn') /\ (twinned => twinned')
    BY <1>2, <2>3 DEF RegistryHeld, RegistryTyped
  <2>6. ~torn' => /\ LinksHold' /\ (InProgress(next) => Known(next)')
                  /\ \A e \in Others(c) : Left(e) /\ (InProgress(next) => ~Clash(next, e) /\ ~Clash(e, next))
    <3>1. ~torn' => LinksHold'
      BY <1>3, <2>3 DEF RegistryHeld, KnownIs
    <3>2. ~torn' => \A e \in Others(c) : ~Clash(next, e) /\ ~Clash(e, next)
      BY <2>3 DEF Clashes, InFlight, Others, InProgress
    <3>. QED  BY <1>3, <2>4, <3>1, <3>2 DEF Others
  <2>7. next.pc \notin Syncs \cup {"rename"}
    BY <2>2 DEF Syncs
  <2>. QED  BY <1>2, <2>2, <2>3, <2>4, <2>5, <2>6, <2>7, Turns
<1>5. CASE ~Live(k.rec)
  <2>1. Close(c) /\ torn' = torn
    BY <1>1, <1>5 DEF ResolveCreated
  <2>2. RegistryTyped'
    BY <1>2, <2>1 DEF RegistryHeld, RegistryTyped
  <2>3. ~torn => LinksHold' /\ \A e \in Others(c) : Left(e)
    BY <1>3 DEF RegistryHeld, KnownIs, Others
  <2>. QED  BY <1>1, <1>2, <1>3, <2>1, <2>2, <2>3, Closed
<1>. QED  BY <1>4, <1>5

\* The synchronisation that made its record has still to link it.
LEMMA LinkingFields ==
  ASSUME NEW k \in Edit, NEW r \in Records, NEW view \in Organization
  PROVE  [k EXCEPT !.pc = "link", !.rec = r, !.view = view] \in Edit
<1>1. PICK a : a = [k EXCEPT !.pc = "link"]
  OBVIOUS
<1>2. a \in Edit
  BY <1>1 DEF Edit
<1>3. PICK b : b = [a EXCEPT !.rec = r]
  OBVIOUS
<1>4. b \in Edit
  BY <1>2, <1>3 DEF Edit
<1>5. [b EXCEPT !.view = view] \in Edit
  BY <1>4 DEF Edit
<1>6. [[[k EXCEPT !.pc = "link"] EXCEPT !.rec = r] EXCEPT !.view = view]
      = [k EXCEPT !.pc = "link", !.rec = r, !.view = view]
  BY DEF Edit
<1>. QED  BY <1>1, <1>3, <1>5, <1>6

LEMMA CommitCreatedHolds ==
  ASSUME RegistryHeld, NEW c \in Edits, CommitCreated(c),
         founder' \in [Edits -> Users \cup {None}], \A d \in Edits \ {c} : founder'[d] = founder[d]
  PROVE  RegistryHeld' /\ There' = There \cup {edit[c].org}
<1>1. PICK k \in Edit : k = edit[c]
  BY DEF RegistryHeld, EditsIs
<1>2. PICK r \in FreeRecords :
        /\ records' = Made(r, k.new.name, k.org) /\ orgs' = [orgs EXCEPT ![k.org] = Stored(k, k.view.link)]
        /\ edit' = [edit EXCEPT ![c] = [k EXCEPT !.pc = "link", !.rec = r, !.view = [k.new EXCEPT !.link = k.view.link]]]
  BY <1>1 DEF CommitCreated
<1>3. /\ k.pc = "create" /\ InProgress(k) /\ Fixed(k) /\ torn' = torn /\ twinned' = twinned
      /\ labels' = labels /\ relations' = relations /\ requests' = requests /\ k.org \in Orgs
      /\ k.view \in Organization /\ k.new \in Organization /\ k.new.there
  BY <1>1, EditFields DEF CommitCreated, InProgress, RegistryHeld, EditsIs, Fixed, OnOrg
<1>4. k.new.name \in Names \cup {None} /\ k.view.link \in Records \cup {None}
  BY <1>3 DEF Organization
<1>5. /\ records' \in [Records -> Record] /\ r \in Records /\ r # None /\ ~Live(r)
      /\ \A x \in Records \cup {None} : Live(x)' <=> Live(x) \/ x = r
      /\ records'[r].name = k.new.name
      /\ \A x \in Records : x # r => records'[x] = records[x]
  BY <1>2, <1>3, <1>4, Makes
<1>6. PICK s : s = Stored(k, k.view.link)
  OBVIOUS
<1>7. s \in Organization /\ s.there /\ s.link = orgs[k.org].link
  BY <1>3, <1>4, <1>6, StoredFields
<1>8. /\ orgs' \in [Orgs -> Organization] /\ orgs'[k.org] = s
      /\ \A o \in Orgs : o # k.org => orgs'[o] = orgs[o]
      /\ \A o \in Orgs : orgs'[o] = NoOrg \/ orgs'[o].there
  BY <1>2, <1>3, <1>6, <1>7 DEF RegistryHeld, RegistryTyped
<1>9. There' = There \cup {k.org}
  BY <1>3, <1>7, <1>8 DEF There
<1>10. RegistryTyped'
  BY <1>3, <1>5, <1>8 DEF RegistryHeld, RegistryTyped
<1>11. (LinksHold => LinksHold') /\ \A e \in Edit : Left(e)
  BY <1>2, <1>3, <1>4, <1>7, <1>8, MadeKeeps
<1>12. PICK view : view = [k.new EXCEPT !.link = k.view.link]
  OBVIOUS
<1>13. view \in Organization /\ view.there /\ view.link = k.view.link
  BY <1>3, <1>4, <1>12 DEF Organization
<1>14. PICK next : next = [k EXCEPT !.pc = "link", !.rec = r, !.view = view]
  OBVIOUS
<1>15. next \in Edit
  BY <1>5, <1>13, <1>14, LinkingFields
<1>16. /\ next.pc = "link" /\ next.rec = r /\ next.view = view /\ next.into = k.into /\ next.org = k.org
       /\ next.new = k.new /\ next.req = k.req /\ next.seen = k.seen
  BY <1>14 DEF Edit
<1>17. edit' = [edit EXCEPT ![c] = next]
  BY <1>2, <1>12, <1>14
<1>18. Fixed(next)' /\ ~Creates(next)
  BY <1>3, <1>5, <1>9, <1>13, <1>16 DEF Fixed, Creates, OnOrg, OnRecord, OnRequest
<1>19. ASSUME ~torn'
       PROVE  /\ LinksHold' /\ (InProgress(next) => Known(next)')
              /\ \A e \in Others(c) : Left(e) /\ (InProgress(next) => ~Clash(next, e) /\ ~Clash(e, next))
  <2>1. LinksHold /\ \A e \in Others(c) : Known(e) /\ Fixed(e) /\ ~Clash(k, e) /\ ~Clash(e, k)
    BY <1>1, <1>3, <1>19, Alongside
  <2>2. Known(next)'
    BY <1>5, <1>16 DEF Known
  <2>3. ASSUME NEW e \in Others(c)
        PROVE  ~Clash(next, e) /\ ~Clash(e, next)
    <3>1. e.pc = "merge" => /\ e.rec # r /\ e.into # r /\ e.seen.link = None /\ e.view.link = None
      BY <1>5, <2>1 DEF Known, Fixed
    <3>2. ~Clash(next, e)
      BY <1>3, <1>16, <2>1 DEF Clash
    <3>3. e.pc = "merge" => Involved(e) \cap Involved(k) = {}
      BY <2>1 DEF Clash
    <3>4. e.pc = "merge" => Involved(e) \cap Involved(next) = {}
      BY <1>13, <1>16, <3>1, <3>3 DEF Involved
    <3>. QED  BY <1>16, <2>1, <3>2, <3>4 DEF Clash
  <2>. QED  BY <1>11, <2>1, <2>2, <2>3 DEF Others
<1>20. ASSUME ~twinned'
       PROVE  /\ Apart' /\ next.pc # "rename"
              /\ next.pc \in Syncs => \A d \in Edits \ {c} : edit[d].pc \notin Syncs
              /\ next.pc = "create" => ~Named(next.new.name)'
              /\ \A e \in Others(c) : \A n : e.pc = "create" /\ e.new.name = n /\ Named(n)' => Named(n)
  <2>1. Apart /\ ~Named(k.new.name) /\ \A d \in Edits \ {c} : edit[d].pc \notin Syncs
    BY <1>1, <1>3, <1>20 DEF RegistryHeld, TwinsHold, Syncs
  <2>2. Apart'
    <3>1. ASSUME NEW x \in Records, NEW y \in Records, Live(x)', Live(y)', records'[x].origin # None,
                 records'[y].origin # None, records'[x].name = records'[y].name
          PROVE  x = y
      BY <1>5, <2>1, <3>1 DEF Apart, Named
    <3>. QED  BY <3>1 DEF Apart
  <2>3. \A e \in Others(c) : e.pc # "create"
    BY <2>1 DEF Others, Syncs
  <2>. QED  BY <1>16, <2>1, <2>2, <2>3
<1>21. \A d \in Edits \ {c} : Creates(edit[d]) \/ Creates(next) => edit[d].org # next.org
  BY <1>1, <1>16, <1>18 DEF RegistryHeld, EditsIs
<1>22. \A o \in Orgs : orgs[o] = NoOrg /\ o # edit[c].org => orgs'[o] = NoOrg
  BY <1>1, <1>8
<1>23. (torn => torn') /\ (twinned => twinned') /\ (Creates(next) => founder'[c] \in Users) /\ There \subseteq There'
  BY <1>3, <1>9, <1>18
<1>24. RegistryHeld'
  BY <1>10, <1>15, <1>17, <1>18, <1>19, <1>20, <1>21, <1>22, <1>23, Steps, Zenon
<1>. QED  BY <1>1, <1>9, <1>24

--------------------------------------------------------------------------------
(* A merge commits: the rows of its record go over to the one it is merged into.  *)

Merging(k) ==
  /\ orgs' = Relinked(orgs, k.orgs, k.into) /\ requests' = Relinked(requests, k.reqs, k.into)
  /\ labels' = MergedLabels(k) /\ relations' = MergedRelations(k)
  /\ records' = [records EXCEPT ![k.rec] = [records[k.rec] EXCEPT !.deleted = TRUE, !.into = k.into]]

LEMMA MergedRows ==
  ASSUME RegistryHeld, NEW k \in Edit, k.rec \in Records, k.into \in Records, Merging(k)
  PROVE  /\ orgs' \in [Orgs -> Organization] /\ requests' \in [Requests -> Request]
         /\ \A o \in Orgs : IF o \in k.orgs THEN orgs'[o].link = k.into /\ orgs'[o].there = orgs[o].there
                            ELSE orgs'[o] = orgs[o]
         /\ \A q \in Requests : IF q \in k.reqs THEN requests'[q].link = k.into /\ requests'[q].state = requests[q].state
                                ELSE requests'[q] = requests[q]
<1>1. ASSUME NEW o \in Orgs
      PROVE  /\ orgs'[o] \in Organization
             /\ IF o \in k.orgs THEN orgs'[o].link = k.into /\ orgs'[o].there = orgs[o].there
                ELSE orgs'[o] = orgs[o]
  <2>1. PICK row \in Organization : row = orgs[o]
    BY RegistryRows
  <2>2. orgs'[o] = IF o \in k.orgs THEN [row EXCEPT !.link = k.into] ELSE row
    BY <2>1 DEF Merging, Relinked, RegistryHeld, RegistryTyped
  <2>3. PICK new : new = [row EXCEPT !.link = k.into]
    OBVIOUS
  <2>4. new \in Organization /\ new.link = k.into /\ new.there = row.there
    BY <2>3 DEF Organization
  <2>. QED  BY <2>1, <2>2, <2>3, <2>4
<1>2. ASSUME NEW q \in Requests
      PROVE  /\ requests'[q] \in Request
             /\ IF q \in k.reqs THEN requests'[q].link = k.into /\ requests'[q].state = requests[q].state
                ELSE requests'[q] = requests[q]
  <2>1. PICK row \in Request : row = requests[q]
    BY RegistryRows
  <2>2. requests'[q] = IF q \in k.reqs THEN [row EXCEPT !.link = k.into] ELSE row
    BY <2>1 DEF Merging, Relinked, RegistryHeld, RegistryTyped
  <2>3. PICK new : new = [row EXCEPT !.link = k.into]
    OBVIOUS
  <2>4. new \in Request /\ new.link = k.into /\ new.state = row.state
    BY <2>3 DEF Request
  <2>. QED  BY <2>1, <2>2, <2>3, <2>4
<1>3. orgs' \in [Orgs -> Organization]
  BY <1>1 DEF Merging, Relinked, RegistryHeld, RegistryTyped
<1>4. requests' \in [Requests -> Request]
  BY <1>2 DEF Merging, Relinked, RegistryHeld, RegistryTyped
<1>. QED  BY <1>1, <1>2, <1>3, <1>4

LEMMA MergedLabelRows ==
  ASSUME RegistryHeld, NEW k \in Edit, k.rec \in Records, k.into \in Records, Merging(k),
         k.moved \cap k.dropped = {}
  PROVE  /\ labels' \in [Records \X Labels -> Label]
         /\ \A l \in Records \X Labels :
              IF l \in k.dropped THEN ~labels'[l].live /\ labels'[l].at = labels[l].at
              ELSE IF l \in k.moved
                   THEN /\ labels'[l].at = k.into /\ labels'[l].live = labels[l].live
                        /\ labels'[l].primary = (l \in k.kept /\ labels[l].primary)
                   ELSE labels'[l] = labels[l]
<1>1. ASSUME NEW l \in Records \X Labels
      PROVE  /\ labels'[l] \in Label
             /\ IF l \in k.dropped THEN ~labels'[l].live /\ labels'[l].at = labels[l].at
                ELSE IF l \in k.moved
                     THEN /\ labels'[l].at = k.into /\ labels'[l].live = labels[l].live
                          /\ labels'[l].primary = (l \in k.kept /\ labels[l].primary)
                     ELSE labels'[l] = labels[l]
  <2>1. PICK row \in Label : row = labels[l]
    BY DEF RegistryHeld, RegistryTyped
  <2>2. labels'[l] = CASE l \in k.dropped -> [row EXCEPT !.live = FALSE]
                       [] l \in k.moved -> [row EXCEPT !.at = k.into, !.primary = IF l \in k.kept THEN row.primary ELSE FALSE]
                       [] OTHER -> row
    BY <2>1 DEF Merging, MergedLabels, RegistryHeld, RegistryTyped
  <2>3. CASE l \in k.dropped
    <3>1. PICK new : new = [row EXCEPT !.live = FALSE]
      OBVIOUS
    <3>2. new \in Label /\ ~new.live /\ new.at = row.at
      BY <3>1 DEF Label
    <3>3. labels'[l] = new
      BY <2>2, <2>3, <3>1
    <3>. QED  BY <2>1, <2>3, <3>2, <3>3
  <2>4. CASE l \notin k.dropped /\ l \in k.moved
    <3>1. PICK p \in BOOLEAN : p = (l \in k.kept /\ row.primary)
      OBVIOUS
    <3>2. PICK new : new = [row EXCEPT !.at = k.into, !.primary = p]
      OBVIOUS
    <3>3. new \in Label /\ new.at = k.into /\ new.live = row.live /\ new.primary = p
      BY <3>2 DEF Label
    <3>4. (IF l \in k.kept THEN row.primary ELSE FALSE) = p
      BY <3>1 DEF Label
    <3>5. labels'[l] = [row EXCEPT !.at = k.into, !.primary = IF l \in k.kept THEN row.primary ELSE FALSE]
      BY <2>2, <2>4
    <3>6. labels'[l] = new
      BY <3>2, <3>4, <3>5
    <3>. QED  BY <2>1, <2>4, <3>1, <3>3, <3>6
  <2>5. CASE l \notin k.dropped /\ l \notin k.moved
    BY <2>1, <2>2, <2>5
  <2>. QED  BY <2>3, <2>4, <2>5
<1>2. labels' \in [Records \X Labels -> Label]
  BY <1>1 DEF Merging, MergedLabels, RegistryHeld, RegistryTyped
<1>. QED  BY <1>1, <1>2

LEMMA MergedRelationRows ==
  ASSUME RegistryHeld, NEW k \in Edit, k.rec \in Records, k.into \in Records, Merging(k)
  PROVE  /\ relations' \in [Records \X Records -> Relation]
         /\ \A x \in Records \X Records : relations'[x].live =>
              /\ relations[x].live
              /\ relations'[x].parent \in {relations[x].parent, k.into} /\ relations'[x].child \in {relations[x].child, k.into}
              /\ x \in k.ties => k.rec \notin {relations'[x].parent, relations'[x].child} \/ k.rec = k.into
<1>1. ASSUME NEW x \in Records \X Records
      PROVE  /\ relations'[x] \in Relation
             /\ relations'[x].live =>
                  /\ relations[x].live
                  /\ relations'[x].parent \in {relations[x].parent, k.into} /\ relations'[x].child \in {relations[x].child, k.into}
                  /\ x \in k.ties => k.rec \notin {relations'[x].parent, relations'[x].child} \/ k.rec = k.into
  <2>1. PICK row \in Relation : row = relations[x]
    BY DEF RegistryHeld, RegistryTyped
  <2>2. PICK p \in Records \cup {None}, q \in Records \cup {None} :
          p = Redirected(row.parent, k.rec, k.into) /\ q = Redirected(row.child, k.rec, k.into)
    BY DEF Redirected, Relation
  <2>3. /\ p \in {row.parent, k.into} /\ q \in {row.child, k.into}
        /\ k.rec \notin {p, q} \/ k.rec = k.into
    BY <2>2 DEF Redirected
  <2>4. relations'[x] = CASE x \in k.cut -> [row EXCEPT !.live = FALSE]
                          [] x \in k.ties \ k.cut -> [row EXCEPT !.parent = p, !.child = q]
                          [] OTHER -> row
    BY <2>1, <2>2 DEF Merging, MergedRelations, RegistryHeld, RegistryTyped
  <2>5. CASE x \in k.cut
    <3>1. PICK new : new = [row EXCEPT !.live = FALSE]
      OBVIOUS
    <3>2. new \in Relation /\ ~new.live
      BY <3>1 DEF Relation
    <3>3. relations'[x] = new
      BY <2>4, <2>5, <3>1
    <3>. QED  BY <3>2, <3>3
  <2>6. CASE x \in k.ties \ k.cut
    <3>1. PICK new : new = [row EXCEPT !.parent = p, !.child = q]
      OBVIOUS
    <3>2. new \in Relation /\ new.live = row.live /\ new.parent = p /\ new.child = q
      BY <3>1 DEF Relation
    <3>3. relations'[x] = new
      BY <2>4, <2>6, <3>1
    <3>. QED  BY <2>1, <2>3, <3>2, <3>3
  <2>7. CASE x \notin k.cut /\ x \notin k.ties
    BY <2>1, <2>4, <2>7
  <2>. QED  BY <2>5, <2>6, <2>7
<1>2. relations' \in [Records \X Records -> Relation]
  BY <1>1 DEF Merging, MergedRelations, RegistryHeld, RegistryTyped
<1>. QED  BY <1>1, <1>2

LEMMA MergedRecord ==
  ASSUME RegistryHeld, NEW k \in Edit, k.rec \in Records, k.into \in Records, Merging(k)
  PROVE  /\ records' \in [Records -> Record]
         /\ \A r \in Records \cup {None} : Live(r)' <=> Live(r) /\ r # k.rec
         /\ \A r \in Records : records'[r].name = records[r].name /\ records'[r].origin = records[r].origin
         /\ records'[k.rec].deleted /\ records'[k.rec].into = k.into
         /\ \A r \in Records : r # k.rec => records'[r] = records[r]
<1>1. PICK row \in Record : row = records[k.rec]
  BY RegistryRows
<1>2. PICK new : new = [row EXCEPT !.deleted = TRUE, !.into = k.into]
  OBVIOUS
<1>3. /\ new \in Record /\ new.deleted /\ new.name = row.name /\ new.origin = row.origin /\ new.into = k.into
  BY <1>2 DEF Record
<1>4. records' = [records EXCEPT ![k.rec] = new]
  BY <1>1, <1>2 DEF Merging
<1>5. /\ records' \in [Records -> Record] /\ records'[k.rec] = new
      /\ \A r \in Records : r # k.rec => records'[r] = records[r]
  BY <1>3, <1>4 DEF RegistryHeld, RegistryTyped
<1>6. None \notin Records
  BY NullAssumption
<1>. QED  BY <1>1, <1>3, <1>5, <1>6 DEF Live

LEMMA CommitMergeHolds ==
  ASSUME RegistryHeld, NEW c \in Edits, CommitMerge(c), UNCHANGED founder
  PROVE  RegistryHeld' /\ There' = There
<1>1. PICK k \in Edit : k = edit[c]
  BY DEF RegistryHeld, EditsIs
<1>2. /\ k.pc = "merge" /\ InProgress(k) /\ Fixed(k) /\ Close(c) /\ torn' = torn /\ twinned' = twinned
      /\ k.rec \in Records /\ k.into \in Records /\ k.rec # k.into /\ k.orgs \subseteq There
      /\ k.moved \cap k.dropped = {} /\ k.rec # None /\ k.into # None
  BY <1>1, NullAssumption DEF CommitMerge, RegistryHeld, EditsIs, InProgress, Fixed, OnRecord
<1>3. founder' \in [Edits -> Users \cup {None}] /\ \A d \in Edits \ {c} : founder'[d] = founder[d]
  BY DEF RegistryHeld, EditsIs
<1>4. CASE ~NoClash(k)
  <2>1. orgs' = orgs /\ records' = records /\ labels' = labels /\ relations' = relations /\ requests' = requests
    BY <1>1, <1>4 DEF CommitMerge
  <2>2. RegistryTyped' /\ There' = There
    BY <1>2, <2>1 DEF RegistryHeld, RegistryTyped, There
  <2>3. ~torn => LinksHold'
    BY <2>1 DEF RegistryHeld, KnownIs, LinksHold, Live
  <2>4. \A e \in Others(c) : Left(e)
    BY <2>1, LeftAlone
  <2>5. RegistryHeld'
    BY <1>1, <1>2, <2>1, <2>2, <2>3, <2>4, Closed
  <2>. QED  BY <2>2, <2>5
<1>5. CASE NoClash(k)
  <2>0. Merging(k)
    BY <1>1, <1>5 DEF CommitMerge, Merging
  <2>1. /\ orgs' \in [Orgs -> Organization] /\ requests' \in [Requests -> Request]
        /\ \A o \in Orgs : IF o \in k.orgs THEN orgs'[o].link = k.into /\ orgs'[o].there = orgs[o].there
                           ELSE orgs'[o] = orgs[o]
        /\ \A q \in Requests : IF q \in k.reqs THEN requests'[q].link = k.into /\ requests'[q].state = requests[q].state
                               ELSE requests'[q] = requests[q]
    BY <1>2, <2>0, MergedRows
  <2>2. /\ labels' \in [Records \X Labels -> Label]
        /\ \A l \in Records \X Labels :
             IF l \in k.dropped THEN ~labels'[l].live /\ labels'[l].at = labels[l].at
             ELSE IF l \in k.moved
                  THEN /\ labels'[l].at = k.into /\ labels'[l].live = labels[l].live
                       /\ labels'[l].primary = (l \in k.kept /\ labels[l].primary)
                  ELSE labels'[l] = labels[l]
    BY <1>2, <2>0, MergedLabelRows
  <2>3. /\ relations' \in [Records \X Records -> Relation]
        /\ \A x \in Records \X Records : relations'[x].live =>
             /\ relations[x].live
             /\ relations'[x].parent \in {relations[x].parent, k.into} /\ relations'[x].child \in {relations[x].child, k.into}
             /\ x \in k.ties => k.rec \notin {relations'[x].parent, relations'[x].child} \/ k.rec = k.into
    BY <1>2, <2>0, MergedRelationRows
  <2>4. /\ records' \in [Records -> Record]
        /\ \A r \in Records \cup {None} : Live(r)' <=> Live(r) /\ r # k.rec
        /\ \A r \in Records : records'[r].name = records[r].name /\ records'[r].origin = records[r].origin
    BY <1>2, <2>0, MergedRecord
  <2>5. \A o \in Orgs : orgs'[o] = NoOrg \/ orgs'[o].there
    BY <1>2, <2>1 DEF RegistryHeld, RegistryTyped, There
  <2>6. There \subseteq There' /\ \A o \in Orgs : orgs[o] = NoOrg => orgs'[o] = NoOrg
    BY <1>2, <2>1, NoEdits DEF There
  <2>7. \A l \in Records \X Labels : labels'[l].live => labels'[l].at # None
    BY <1>2, <2>2 DEF RegistryHeld, RegistryTyped
  <2>8. RegistryTyped'
    BY <1>2, <2>1, <2>2, <2>3, <2>4, <2>5, <2>7 DEF RegistryHeld, RegistryTyped
  <2>9. ASSUME ~torn
        PROVE  LinksHold' /\ \A e \in Others(c) : Left(e)
    <3>1. LinksHold /\ \A e \in Others(c) : Known(e) /\ Fixed(e) /\ ~Clash(k, e) /\ ~Clash(e, k)
      BY <1>1, <1>2, <2>9, Alongside
    <3>2. Live(k.rec) /\ Live(k.into) /\ MergeKnown(k)
      BY <1>1, <1>2, <2>9, Alongside DEF Known
    <3>3. /\ \A o \in Orgs : orgs[o].link = k.rec => o \in k.orgs
          /\ \A q \in Requests : (requests[q].link = k.rec => q \in k.reqs) /\ (q \in k.reqs => requests[q].link # None)
          /\ \A l \in k.moved \cup k.dropped : labels[l].at = k.rec
          /\ \A x \in Records \X Records : relations[x].live /\ k.rec \in {relations[x].parent, relations[x].child} => x \in k.ties
      BY <3>2, EditFields DEF MergeKnown
    <3>4. LinksHold'
      <4>1. \A r \in Records : Live(r) /\ r # k.rec => Live(r)'
        BY <2>4
      <4>2. \A r \in Records : Live(r) /\ r # k.rec => records'[r].there /\ ~records'[r].deleted
        BY <4>1 DEF Live
      <4>3. \A o \in Orgs : orgs'[o].link = None \/ (orgs'[o].link \in Records /\ Live(orgs'[o].link) /\ orgs'[o].link # k.rec)
        BY <1>2, <2>1, <3>1, <3>2, <3>3 DEF LinksHold, Organization
      <4>4. \A q \in Requests : /\ requests'[q].link = None \/ (requests'[q].link \in Records /\ Live(requests'[q].link) /\ requests'[q].link # k.rec)
                                /\ (requests'[q].state = "resolved") = (requests'[q].link # None)
        BY <1>2, <2>1, <3>1, <3>2, <3>3 DEF LinksHold, Request
      <4>5. ASSUME NEW x \in Records \X Records, relations'[x].live
            PROVE  /\ relations'[x].parent \in Records /\ Live(relations'[x].parent) /\ relations'[x].parent # k.rec
                   /\ relations'[x].child \in Records /\ Live(relations'[x].child) /\ relations'[x].child # k.rec
        <5>1. relations[x].live /\ Live(relations[x].parent) /\ Live(relations[x].child)
          BY <2>3, <3>1, <4>5 DEF LinksHold
        <5>2. relations'[x].parent # k.rec /\ relations'[x].child # k.rec
          BY <1>2, <2>3, <3>3, <4>5, <5>1
        <5>3. relations'[x].parent \in Records \cup {None} /\ relations'[x].child \in Records \cup {None}
          BY <2>3 DEF Relation
        <5>. QED  BY <2>3, <3>2, <4>5, <5>1, <5>2, <5>3 DEF Live
      <4>6. /\ \A o \in Orgs : orgs'[o].link = None \/ Live(orgs[o].link)'
            /\ \A q \in Requests : requests'[q].link = None \/ Live(requests[q].link)'
        BY <4>2, <4>3, <4>4, NullAssumption DEF Live
      <4>7. \A x \in Records \X Records : relations'[x].live => Live(relations[x].parent)' /\ Live(relations[x].child)'
        BY <4>2, <4>5, NullAssumption DEF Live
      <4>. QED  BY <4>4, <4>6, <4>7 DEF LinksHold
    <3>5. ASSUME NEW e \in Others(c)
          PROVE  Left(e)
      <4>1. e \in Edit /\ Known(e) /\ Fixed(e) /\ ~Clash(k, e)
        BY <3>1 DEF Others
      <4>2. /\ e.rec \in Records \cup {None} /\ e.into \in Records \cup {None}
            /\ k.rec \notin {e.rec, e.into} /\ k.into \notin {e.rec, e.into} /\ e.req \notin k.reqs
        BY <1>2, <4>1, EditFields DEF Clash, Involved
      <4>3. (Live(e.rec) => Live(e.rec)') /\ (Live(e.into) => Live(e.into)')
        BY <2>4, <4>2
      <4>4. e.pc \in {"request", "defer"} => requests'[e.req] = requests[e.req]
        BY <2>1, <4>1, <4>2 DEF Fixed, OnRequest
      <4>5. e.pc = "label" => labels'[<<e.rec, e.label>>].at \in {e.rec, labels[<<e.rec, e.label>>].at}
        <5>1. e.pc = "label" => <<e.rec, e.label>> \in Records \X Labels /\ labels[<<e.rec, e.label>>].at \in {None, e.rec}
          BY <4>1 DEF Fixed, Known, OnRecord
        <5>2. e.pc = "label" => <<e.rec, e.label>> \notin k.moved
          BY <1>2, <3>3, <4>2, <5>1
        <5>. QED  BY <2>2, <5>1, <5>2
      <4>6. ASSUME e.pc = "merge"
            PROVE  /\ \A l \in Records \X Labels :
                        {labels[l].at, labels'[l].at} \cap {e.rec, e.into} # {} => labels'[l] = labels[l]
                   /\ \A x \in Records \X Records :
                        relations'[x].live /\ e.rec \in {relations'[x].parent, relations'[x].child}
                          => relations[x].live /\ e.rec \in {relations[x].parent, relations[x].child}
                   /\ \A o \in Orgs : orgs'[o].link = e.rec => orgs[o].link = e.rec
                   /\ \A q \in Requests :
                        /\ requests'[q].link = e.rec => requests[q].link = e.rec
                        /\ q \in e.reqs /\ requests[q].link # None => requests'[q].link # None
        <5>1. ASSUME NEW l \in Records \X Labels
              PROVE  {labels[l].at, labels'[l].at} \cap {e.rec, e.into} # {} => labels'[l] = labels[l]
          <6>1. CASE l \in k.moved \cup k.dropped
            <7>1. labels[l].at = k.rec /\ labels'[l].at \in {k.rec, k.into}
              BY <2>2, <3>3, <6>1
            <7>. QED  BY <4>2, <7>1
          <6>2. CASE l \notin k.moved \cup k.dropped
            BY <2>2, <6>2
          <6>. QED  BY <6>1, <6>2
        <5>2. ASSUME NEW x \in Records \X Records, relations'[x].live, e.rec \in {relations'[x].parent, relations'[x].child}
              PROVE  relations[x].live /\ e.rec \in {relations[x].parent, relations[x].child}
          BY <2>3, <4>2, <5>2
        <5>3. \A o \in Orgs : orgs'[o].link = e.rec => orgs[o].link = e.rec
          BY <2>1, <4>2
        <5>4. \A q \in Requests :
                /\ requests'[q].link = e.rec => requests[q].link = e.rec
                /\ q \in e.reqs /\ requests[q].link # None => requests'[q].link # None
          BY <1>2, <2>1, <4>2
        <5>. QED  BY <5>1, <5>2, <5>3, <5>4
      <4>. QED  BY <4>3, <4>4, <4>5, <4>6 DEF Left
    <3>. QED  BY <3>4, <3>5
  <2>10. \A r \in Records : Live(r)' =>
           Live(r) /\ records'[r].name = records[r].name /\ records'[r].origin = records[r].origin
    BY <2>4
  <2>11. RegistryHeld'
    BY <1>1, <1>2, <1>3, <2>6, <2>8, <2>9, <2>10, Closing, Zenon
  <2>12. There' = There
    BY <2>1 DEF There
  <2>. QED  BY <2>11, <2>12
<1>. QED  BY <1>4, <1>5

--------------------------------------------------------------------------------
(* Every step keeps what is held, and the first states have it.                   *)

LEMMA RegistryNextHolds ==
  ASSUME RegistryHeld, RegistryNext, UNCHANGED founder
  PROVE  RegistryHeld' /\ There' = There
<1>1. PICK c \in Edits :
        \/ /\ Turn(c)
           /\ \/ CreateRecord(c) \/ UpdateRecord(c) \/ AddLabel(c) \/ AddRelationship(c)
              \/ MergeRecords(c) \/ ResolveOrganization(c) \/ ResolveRequest(c)
              \/ CreateAndResolve(c) \/ DeferRequest(c) \/ SyncOrganization(c)
        \/ CommitRename(c) \/ CommitLabel(c) \/ CommitRelationship(c) \/ CommitMerge(c)
        \/ CommitOrganization(c) \/ ResolveCreated(c) \/ CommitRequest(c) \/ EditCrash(c)
  BY DEF RegistryNext
<1>2. CASE CommitMerge(c)
  BY <1>2, CommitMergeHolds
<1>3. CASE CommitOrganization(c)
  BY <1>3, CommitOrganizationHolds
<1>4. CASE Turn(c) /\ (\/ CreateRecord(c) \/ UpdateRecord(c) \/ AddLabel(c) \/ AddRelationship(c)
                       \/ MergeRecords(c) \/ ResolveOrganization(c) \/ ResolveRequest(c)
                       \/ CreateAndResolve(c) \/ DeferRequest(c) \/ SyncOrganization(c))
  <2>1. RegistryHeld'
    BY <1>4, CreateRecordHolds, UpdateRecordHolds, AddLabelHolds, AddRelationshipHolds, MergeRecordsHolds,
       ResolveOrganizationHolds, ResolveRequestHolds, CreateAndResolveHolds, DeferRequestHolds, SyncOrganizationHolds
  <2>2. orgs' = orgs
    <3>1. \A next : Start(c, next) => orgs' = orgs
      BY DEF Start
    <3>2. CASE CreateRecord(c) \/ CreateAndResolve(c)
      BY <3>2 DEF CreateRecord, CreateAndResolve
    <3>3. CASE UpdateRecord(c) \/ AddLabel(c) \/ AddRelationship(c) \/ ResolveOrganization(c)
      BY <3>1, <3>3, Zenon DEF UpdateRecord, AddLabel, AddRelationship, ResolveOrganization
    <3>4. CASE MergeRecords(c)
      BY <3>1, <3>4, Zenon DEF MergeRecords
    <3>5. CASE ResolveRequest(c) \/ DeferRequest(c) \/ SyncOrganization(c)
      BY <3>1, <3>5, Zenon DEF ResolveRequest, DeferRequest, SyncOrganization, PlanSync
    <3>. QED  BY <1>4, <3>2, <3>3, <3>4, <3>5
  <2>. QED  BY <2>1, <2>2 DEF There
<1>5. CASE CommitRename(c) \/ CommitLabel(c) \/ CommitRelationship(c) \/ ResolveCreated(c) \/ CommitRequest(c) \/ EditCrash(c)
  <2>1. RegistryHeld'
    BY <1>5, CommitRenameHolds, CommitLabelHolds, CommitRelationshipHolds, ResolveCreatedHolds, CommitRequestHolds, EditCrashHolds
  <2>2. orgs' = orgs
    BY <1>5 DEF CommitRename, CommitLabel, CommitRelationship, ResolveCreated, CommitRequest, EditCrash
  <2>. QED  BY <2>1, <2>2 DEF There
<1>. QED  BY <1>1, <1>2, <1>3, <1>4, <1>5

LEMMA RegistryStays ==
  ASSUME RegistryHeld, UNCHANGED <<orgs, registryVars, edit, founder>>
  PROVE  RegistryHeld'
<1>1. /\ orgs' = orgs /\ records' = records /\ labels' = labels /\ relations' = relations
      /\ requests' = requests /\ torn' = torn /\ twinned' = twinned /\ edit' = edit /\ founder' = founder
  BY DEF registryVars
<1>2. RegistryTyped' /\ There' = There
  BY <1>1 DEF RegistryHeld, RegistryTyped, There
<1>3. \A r : Live(r)' <=> Live(r)
  BY <1>1 DEF Live
<1>4. EditsIs'
  BY <1>1, <1>2 DEF RegistryHeld, EditsIs, Fixed, Creates
<1>5. ASSUME ~torn
      PROVE  KnownIs'
  <2>1. LinksHold' /\ \A e \in Edit : Left(e)
    BY <1>1, <1>3, <1>5, LeftAlone DEF RegistryHeld, KnownIs, LinksHold, Live
  <2>2. ASSUME NEW c \in Edits, InProgress(edit'[c])
        PROVE  Known(edit[c])'
    <3>1. PICK k \in Edit : k = edit[c] /\ edit'[c] = k
      BY <1>1 DEF RegistryHeld, EditsIs
    <3>2. Known(k)'
      BY <1>5, <2>1, <2>2, <3>1, KnownStays DEF RegistryHeld, KnownIs
    <3>. QED  BY <3>1, <3>2 DEF Known, MergeKnown, Live
  <2>3. \A c, d \in Edits : c # d /\ InProgress(edit'[c]) /\ InProgress(edit'[d]) => ~Clash(edit'[c], edit'[d])
    BY <1>1, <1>5 DEF RegistryHeld, KnownIs
  <2>. QED  BY <2>1, <2>2, <2>3, Zenon DEF KnownIs, InProgress, Clash, Involved
<1>6. ~twinned => TwinsHold'
  BY <1>1 DEF RegistryHeld, TwinsHold, Apart, Named, Live
<1>. QED  BY <1>1, <1>2, <1>4, <1>5, <1>6 DEF RegistryHeld

LEMMA FoundedHolds ==
  ASSUME MembersHeld, RegistryHeld, NEW c \in Edits, Founded(c)
  PROVE  MembersHeld' /\ RegistryHeld'
<1>1. PICK k \in Edit : k = edit[c]
  BY DEF RegistryHeld, EditsIs
<1>2. k.pc \in {"sync", "create"} /\ Fixed(k) /\ k.org \in Orgs
  BY <1>1 DEF Founded, RegistryHeld, EditsIs, Fixed, OnOrg
<1>3. /\ founder' \in [Edits -> Users \cup {None}] /\ \A d \in Edits \ {c} : founder'[d] = founder[d]
  BY DEF Founded, RegistryHeld, EditsIs
<1>4. RegistryHeld' /\ There' = There \cup {k.org}
  BY <1>1, <1>3, CommitSyncHolds, CommitCreatedHolds DEF Founded
<1>5. CASE k.view.there
  <2>1. UNCHANGED membershipVars /\ k.org \in There
    BY <1>1, <1>2, <1>5 DEF Founded, Fixed, OnOrg
  <2>. QED  BY <1>4, <2>1, MembersStay
<1>6. CASE ~k.view.there
  <2>1. Creates(k) /\ founder[c] \in Users /\ k.org \in Orgs \ There
    BY <1>1, <1>2, <1>6, NoEdits DEF Creates, RegistryHeld, EditsIs, Fixed, There
  <2>2. PICK u \in Users : u = founder[c]
    BY <2>1
  <2>3. /\ Insert(k.org, u, "owner") /\ active' = [active EXCEPT ![u] = k.org]
        /\ UNCHANGED <<invites, call, contested, crossed>>
    BY <1>1, <1>6, <2>2 DEF Founded
  <2>. QED  BY <1>4, <2>1, <2>3, FoundedMembers
<1>. QED  BY <1>5, <1>6

LEMMA NextHolds ==
  ASSUME MembersHeld, RegistryHeld, [Next]_vars
  PROVE  MembersHeld' /\ RegistryHeld'
<1>1. CASE MembershipNext /\ UNCHANGED <<orgs, registryVars, edit, founder>>
  BY <1>1, MembershipNextHolds, RegistryStays
<1>2. CASE RegistryNext /\ UNCHANGED <<membershipVars, founder>>
  BY <1>2, RegistryNextHolds, MembersStay
<1>3. ASSUME NEW c \in Edits, Turn(c), CreateOrganization(c) \/ UpdateOrganization(c)
      PROVE  MembersHeld' /\ RegistryHeld'
  <2>1. UNCHANGED membershipVars /\ There' = There
    BY <1>3 DEF CreateOrganization, UpdateOrganization, PlanSync, Start, There
  <2>. QED  BY <1>3, <2>1, MembersStay, CreateOrganizationHolds, UpdateOrganizationHolds
<1>4. ASSUME NEW c \in Edits, CommitUpdate(c)
      PROVE  MembersHeld' /\ RegistryHeld'
  <2>1. UNCHANGED membershipVars /\ UNCHANGED founder
    BY <1>4 DEF CommitUpdate
  <2>. QED  BY <1>4, <2>1, MembersStay, CommitOrganizationHolds
<1>5. ASSUME NEW c \in Edits, CommitLink(c), UNCHANGED <<membershipVars, founder>>
      PROVE  MembersHeld' /\ RegistryHeld'
  BY <1>5, MembersStay, CommitLinkHolds
<1>6. CASE UNCHANGED vars
  <2>1. UNCHANGED membershipVars /\ UNCHANGED <<orgs, registryVars, edit, founder>> /\ There' = There
    BY <1>6 DEF vars, There
  <2>. QED  BY <2>1, MembersStay, RegistryStays
<1>. QED  BY <1>1, <1>2, <1>3, <1>4, <1>5, <1>6, FoundedHolds DEF Next

LEMMA InitHolds ==
  ASSUME Init
  PROVE  MembersHeld /\ RegistryHeld
<1>1. PICK s \in Starts :
        /\ orgs = s.orgs /\ members = s.members /\ active = s.active
        /\ records = s.records /\ labels = s.labels /\ requests = s.requests
        /\ call = [c \in Calls |-> IF c \in s.calls THEN Blank ELSE Done]
        /\ edit = [c \in Edits |-> IF c \in s.edits THEN NoEdit ELSE Edited]
  BY DEF Init
<1>2. InOrder(s)
  BY StartsAssumption
<1>3. /\ invites = [i \in Invites |-> NoInvite] /\ relations = [x \in Records \X Records |-> NoRelation]
      /\ contested = {} /\ crossed = {} /\ torn = FALSE /\ twinned = FALSE
      /\ founder = [c \in Edits |-> None]
  BY DEF Init
<1>4. /\ MembersTyped /\ \A c \in Calls : call[c].pc \in {"idle", "done"} /\ ~call[c].move
      /\ \A i \in Invites : invites[i] = NoInvite
  BY <1>1, <1>2, <1>3, Blanks DEF InOrder, MembersTyped, Blank, Done
<1>5. RowsIs
  BY <1>1, <1>2, <1>4 DEF InOrder, RowsIs, There
<1>6. \A c \in Calls : Static(call[c]) /\ OwnersKnown(call[c]) /\ UserKnown(call[c])
  BY <1>4 DEF Static, OwnersKnown, UserKnown, OnRow, OnInvite
<1>7. CallsIs
  BY <1>4, <1>6 DEF CallsIs, OwnerOps
<1>8. OwnersIs
  <2>1. \A o \in There : Owned(o)
    BY <1>1, <1>2 DEF InOrder, There, Owned
  <2>. QED  BY <1>6, <2>1 DEF OwnersIs
<1>9. UsersIs
  <2>1. \A u \in Users : active[u] = None \/ Usable(active[u], u)
    BY <1>1, <1>2 DEF InOrder, Usable
  <2>2. \A i \in Invites : invites[i].status = "cancelled"
    BY <1>4, Blanks
  <2>3. \A u \in Users : Placed(u)
    BY <2>1, <2>2 DEF Placed
  <2>. QED  BY <1>6, <2>3 DEF UsersIs
<1>10. /\ edit \in [Edits -> Edit] /\ founder \in [Edits -> Users \cup {None}]
       /\ \A c \in Edits : edit[c].pc \in {"idle", "done"}
  BY <1>1, <1>3, NoEdits
<1>11. RegistryTyped
  <2>1. relations \in [Records \X Records -> Relation]
    BY <1>3 DEF NoRelation, Relation
  <2>. QED  BY <1>1, <1>2, <1>3, <2>1 DEF InOrder, RegistryTyped
<1>12. EditsIs
  BY <1>10 DEF EditsIs, Fixed, Creates, OnOrg, OnRecord, OnRequest
<1>13. LinksHold
  <2>1. \A r : r \in {x \in Records : s.records[x].there /\ ~s.records[x].deleted} => Live(r)
    BY <1>1, NullAssumption DEF Live
  <2>2. \A x \in Records \X Records : ~relations[x].live
    BY <1>3 DEF NoRelation
  <2>3. PICK live : live = {x \in Records : s.records[x].there /\ ~s.records[x].deleted}
    OBVIOUS
  <2>4. /\ \A o \in Orgs : orgs[o].link \in live \cup {None}
        /\ \A q \in Requests : /\ requests[q].link \in live \cup {None}
                               /\ (requests[q].state = "resolved") = (requests[q].link # None)
    BY <1>1, <1>2, <2>3 DEF InOrder
  <2>. QED  BY <2>1, <2>2, <2>3, <2>4 DEF LinksHold
<1>14. KnownIs
  BY <1>10, <1>13 DEF KnownIs, InProgress
<1>15. TwinsHold
  <2>1. Apart
    <3>1. ASSUME NEW r \in Records, NEW x \in Records, Live(r), Live(x), records[r].origin # None,
                 records[x].origin # None, records[r].name = records[x].name
          PROVE  r = x
      <4>1. PICK live : live = {y \in Records : s.records[y].there /\ ~s.records[y].deleted}
        OBVIOUS
      <4>2. r \in live /\ x \in live
        BY <1>1, <3>1, <4>1 DEF Live
      <4>3. \A y, z \in live : s.records[y].origin # None /\ s.records[z].origin # None
                                 /\ s.records[y].name = s.records[z].name => y = z
        BY <1>2, <4>1 DEF InOrder
      <4>. QED  BY <1>1, <3>1, <4>2, <4>3
    <3>. QED  BY <3>1 DEF Apart
  <2>. QED  BY <1>10, <2>1 DEF TwinsHold, Syncs
<1>. QED  BY <1>4, <1>5, <1>7, <1>8, <1>9, <1>11, <1>12, <1>14, <1>15 DEF MembersHeld, RegistryHeld

--------------------------------------------------------------------------------
(* What follows from what is held.                                                *)

LEMMA HeldTyped ==
  ASSUME MembersHeld, RegistryHeld
  PROVE  TypeOK
BY DEF MembersHeld, MembersTyped, RegistryHeld, RegistryTyped, EditsIs, TypeOK

LEMMA HeldOwned ==
  ASSUME MembersHeld
  PROVE  SoleOwner
<1>1. ASSUME NEW o \in Orgs \ contested, orgs[o].there
      PROVE  LET owners == {r \in MembersOf(o) : members[r].role = "owner"} IN
             Cardinality(owners) = 1 /\ owners = ActiveOwners(o)
  <2>1. Owned(o)
    BY <1>1 DEF MembersHeld, OwnersIs, There
  <2>2. PICK w \in Rows : /\ members[w].there /\ members[w].org = o /\ ~members[w].suspended
                          /\ \A r \in Rows :
                               members[r].there /\ members[r].org = o /\ members[r].role = "owner" <=> r = w
    BY <2>1 DEF Owned
  <2>3. {r \in MembersOf(o) : members[r].role = "owner"} = {w}
    BY <2>2 DEF MembersOf
  <2>4. ActiveOwners(o) = {w}
    BY <2>2 DEF ActiveOwners, MembersOf
  <2>. QED  BY <2>3, <2>4, FS_Singleton
<1>. QED  BY <1>1 DEF SoleOwner

LEMMA HeldInvited ==
  ASSUME MembersHeld
  PROVE  InvitedOnce
<1>1. ASSUME NEW u \in Users \ crossed, NEW o \in Orgs
      PROVE  LET open == {i \in PendingFor(o, u) : ~invites[i].late} IN
             Cardinality(open) <= IF Membership(o, u) = {} THEN 1 ELSE 0
  <2>1. PICK open : open = {i \in PendingFor(o, u) : ~invites[i].late}
    OBVIOUS
  <2>2. Placed(u)
    BY DEF MembersHeld, UsersIs
  <2>3. \A i, j \in open : i = j
    BY <2>1, <2>2 DEF Placed, PendingFor
  <2>4. Membership(o, u) # {} => open = {}
    BY <2>1, <2>2 DEF Placed, PendingFor, Membership
  <2>5. CASE open = {}
    BY <2>1, <2>5, FS_EmptySet
  <2>6. CASE open # {}
    <3>1. PICK i : open = {i}
      BY <2>3, <2>6
    <3>2. Cardinality(open) = 1
      BY <3>1, FS_Singleton
    <3>. QED  BY <2>1, <2>4, <2>6, <3>2
  <2>. QED  BY <2>5, <2>6
<1>. QED  BY <1>1 DEF InvitedOnce

LEMMA HeldUsable ==
  ASSUME MembersHeld
  PROVE  ActiveUsable
<1>1. ASSUME NEW u \in Users \ crossed, active[u] # None
      PROVE  WorkspaceStates(u) \subseteq {"setup_incomplete", "ready"}
  <2>1. Usable(active[u], u)
    BY <1>1 DEF MembersHeld, UsersIs, Placed
  <2>2. PICK r \in Rows : /\ members[r].there /\ members[r].org = active[u] /\ members[r].user = u
                          /\ ~members[r].suspended
    BY <2>1 DEF Usable
  <2>3. Membership(active[u], u) = {r}
    BY <2>2 DEF Membership, MembersHeld, RowsIs
  <2>4. Landing(u) = {r}
    BY <1>1, <2>3 DEF Landing
  <2>5. WorkspaceStates(u) = {CASE members[x].suspended -> "membership_suspended"
                                [] ~members[x].suspended /\ ~orgs[members[x].org].setup -> "setup_incomplete"
                                [] OTHER -> "ready" : x \in {r}}
    BY <2>4 DEF WorkspaceStates
  <2>6. (CASE members[r].suspended -> "membership_suspended"
           [] ~members[r].suspended /\ ~orgs[members[r].org].setup -> "setup_incomplete"
           [] OTHER -> "ready") \in {"setup_incomplete", "ready"}
    BY <2>2
  <2>. QED  BY <2>5, <2>6
<1>. QED  BY <1>1 DEF ActiveUsable

LEMMA HeldLinked ==
  ASSUME RegistryHeld
  PROVE  RegistryLinked
<1>1. LinksLive
  <2>1. SUFFICES ASSUME ~torn
                 PROVE  /\ {o \in Orgs : orgs[o].there} = LinkedOrganizations \cup UnresolvedOrganizations
                        /\ \A q \in Requests : requests[q].link # None => Live(requests[q].link)
                        /\ \A x \in DOMAIN relations : relations[x].live => Live(relations[x].parent) /\ Live(relations[x].child)
    BY DEF LinksLive
  <2>2. LinksHold
    BY <2>1 DEF RegistryHeld, KnownIs
  <2>3. \A o \in Orgs : orgs[o].link = None \/ orgs[o].link \in LiveRecords
    BY <2>2 DEF LinksHold, LiveRecords, RegistryHeld, RegistryTyped, Organization
  <2>4. {o \in Orgs : orgs[o].there} = LinkedOrganizations \cup UnresolvedOrganizations
    BY <2>3 DEF LinkedOrganizations, UnresolvedOrganizations
  <2>. QED  BY <2>2, <2>4 DEF LinksHold, RegistryHeld, RegistryTyped
<1>2. ResolvedLinked
  BY DEF ResolvedLinked, RegistryHeld, KnownIs, LinksHold
<1>3. NoTwins
  BY DEF NoTwins, RegistryHeld, TwinsHold, Apart, LiveRecords
<1>. QED  BY <1>1, <1>2, <1>3 DEF RegistryLinked

--------------------------------------------------------------------------------
(* What a step makes of the labels: only a merge takes one away from its record.  *)

LabelsStay == \A l \in Records \X Labels : labels[l].live => labels'[l].live /\ labels'[l].at = labels[l].at
RecordsStay == \A r \in Records : Live(r) => ~records'[r].deleted

LEMMA Unwritten ==
  ASSUME RegistryHeld, UNCHANGED <<records, labels>>
  PROVE  LabelsStay /\ RecordsStay
BY DEF LabelsStay, RecordsStay, Live

LEMMA MadeStays ==
  ASSUME RegistryHeld, NEW r \in FreeRecords, NEW name \in Names \cup {None}, NEW origin \in Orgs \cup {None},
         records' = Made(r, name, origin), UNCHANGED labels
  PROVE  LabelsStay /\ RecordsStay
<1>1. \A x \in Records \cup {None} : Live(x) => Live(x)'
  BY Makes
<1>. QED  BY <1>1 DEF LabelsStay, RecordsStay, Live

LEMMA CreatedStays ==
  ASSUME RegistryHeld, NEW c \in Edits, CreateRecord(c) \/ CreateAndResolve(c) \/ CommitCreated(c)
  PROVE  LabelsStay /\ RecordsStay
<1>1. CASE CreateRecord(c)
  <2>1. PICK n \in Names, r \in FreeRecords : records' = Made(r, n, None) /\ UNCHANGED labels
    BY <1>1 DEF CreateRecord
  <2>. QED  BY <2>1, MadeStays
<1>2. CASE CreateAndResolve(c)
  <2>1. PICK n \in Names, r \in FreeRecords : records' = Made(r, n, None) /\ UNCHANGED labels
    BY <1>2 DEF CreateAndResolve
  <2>. QED  BY <2>1, MadeStays
<1>3. CASE CommitCreated(c)
  <2>1. PICK r \in FreeRecords : records' = Made(r, edit[c].new.name, edit[c].org) /\ UNCHANGED labels
    BY <1>3 DEF CommitCreated
  <2>2. edit[c].new.name \in Names \cup {None} /\ edit[c].org \in Orgs \cup {None}
    BY EditFields DEF RegistryHeld, EditsIs, Organization
  <2>. QED  BY <2>1, <2>2, MadeStays
<1>. QED  BY <1>1, <1>2, <1>3

LEMMA RenamedStays ==
  ASSUME RegistryHeld, NEW c \in Edits, CommitRename(c)
  PROVE  LabelsStay /\ RecordsStay
<1>1. PICK k \in Edit : k = edit[c] /\ k.pc = "rename" /\ k.rec \in Records
  BY DEF RegistryHeld, EditsIs, CommitRename, Fixed, OnRecord
<1>2. PICK row \in Record : row = records[k.rec]
  BY <1>1, RegistryRows
<1>3. PICK new : new = [row EXCEPT !.name = k.name]
  OBVIOUS
<1>4. new.deleted = row.deleted
  BY <1>3 DEF Record
<1>5. records' = [records EXCEPT ![k.rec] = new] /\ labels' = labels
  BY <1>1, <1>2, <1>3 DEF CommitRename
<1>6. \A r \in Records : records'[r].deleted = records[r].deleted
  BY <1>1, <1>2, <1>4, <1>5 DEF RegistryHeld, RegistryTyped
<1>. QED  BY <1>5, <1>6 DEF LabelsStay, RecordsStay, Live

\* A label's row is written anew only where no live label is.
LEMMA LabelledStays ==
  ASSUME RegistryHeld, ~torn, NEW c \in Edits, CommitLabel(c)
  PROVE  LabelsStay /\ RecordsStay
<1>1. PICK k \in Edit : k = edit[c] /\ k.pc = "label" /\ k.rec \in Records /\ k.label \in Labels /\ k.rec # None
  BY NullAssumption DEF RegistryHeld, EditsIs, CommitLabel, Fixed, OnRecord
<1>2. labels[<<k.rec, k.label>>].at \in {None, k.rec}
  BY <1>1 DEF RegistryHeld, KnownIs, InProgress, Known
<1>3. PICK at \in Records \X Labels : at = <<k.rec, k.label>>
  BY <1>1
<1>4. PICK row : row = [at |-> k.rec, primary |-> k.primary, live |-> TRUE]
  OBVIOUS
<1>5. /\ records' = records
      /\ labels' = labels \/ (~Taken(k.rec, k.label) /\ labels' = [labels EXCEPT ![at] = row])
  BY <1>1, <1>3, <1>4 DEF CommitLabel
<1>6. ~Taken(k.rec, k.label) => ~labels[at].live
  BY <1>1, <1>2, <1>3 DEF Taken, RegistryHeld, RegistryTyped
<1>7. LabelsStay
  BY <1>3, <1>5, <1>6 DEF LabelsStay, RegistryHeld, RegistryTyped
<1>. QED  BY <1>5, <1>7 DEF RecordsStay, Live

LEMMA SyncedStays ==
  ASSUME RegistryHeld, NEW c \in Edits, CommitLink(c)
  PROVE  LabelsStay /\ RecordsStay
<1>1. PICK k \in Edit : k = edit[c] /\ k.pc = "link" /\ k.rec \in Records
  BY DEF RegistryHeld, EditsIs, CommitLink, Fixed, OnRecord
<1>2. PICK d : d = k.new.domain
  OBVIOUS
<1>3. d = None \/ d \in Labels
  <2>1. k.new \in Organization
    BY EditFields
  <2>. QED  BY <1>2, <2>1, RegistryAssumption DEF Organization
<1>4. PICK row : row = [at |-> k.rec, primary |-> TRUE, live |-> TRUE]
  OBVIOUS
<1>5. /\ records' = records
      /\ \/ labels' = labels
         \/ d # None /\ labels[<<k.rec, d>>] = NoLabel /\ labels' = [labels EXCEPT ![<<k.rec, d>>] = row]
  BY <1>1, <1>2, <1>4 DEF CommitLink
<1>6. LabelsStay
  <2>1. CASE labels' = labels
    BY <2>1 DEF LabelsStay
  <2>2. CASE d # None /\ labels[<<k.rec, d>>] = NoLabel /\ labels' = [labels EXCEPT ![<<k.rec, d>>] = row]
    <3>1. PICK at \in Records \X Labels : at = <<k.rec, d>>
      BY <1>1, <1>3, <2>2
    <3>2. ~labels[at].live /\ labels' = [labels EXCEPT ![at] = row]
      BY <2>2, <3>1 DEF NoLabel
    <3>. QED  BY <3>1, <3>2 DEF LabelsStay, RegistryHeld, RegistryTyped
  <2>. QED  BY <1>5, <2>1, <2>2
<1>. QED  BY <1>5, <1>6 DEF RecordsStay, Live

LEMMA StayOrMerge ==
  ASSUME RegistryHeld, [Next]_vars, ~torn'
  PROVE  /\ ~torn
         /\ \/ LabelsStay /\ RecordsStay
            \/ \E c \in Edits : edit[c].pc = "merge" /\ Merging(edit[c])
<1>1. \A c, next : Start(c, next) => (torn => torn') /\ UNCHANGED <<records, labels>>
  BY DEF Start
<1>2. ASSUME NEW c \in Edits, CommitMerge(c)
      PROVE  /\ torn' = torn
             /\ \/ LabelsStay /\ RecordsStay
                \/ edit[c].pc = "merge" /\ Merging(edit[c])
  BY <1>2, Unwritten DEF CommitMerge, Merging
<1>3. ASSUME NEW c \in Edits, Turn(c),
             \/ CreateRecord(c) \/ UpdateRecord(c) \/ AddLabel(c) \/ AddRelationship(c)
             \/ MergeRecords(c) \/ ResolveOrganization(c) \/ ResolveRequest(c)
             \/ CreateAndResolve(c) \/ DeferRequest(c) \/ SyncOrganization(c)
             \/ CreateOrganization(c) \/ UpdateOrganization(c)
      PROVE  ~torn /\ LabelsStay /\ RecordsStay
  <2>1. CASE CreateRecord(c) \/ CreateAndResolve(c)
    <3>1. torn => torn'
      BY <2>1 DEF CreateRecord, CreateAndResolve
    <3>. QED  BY <2>1, <3>1, CreatedStays
  <2>2. CASE ~CreateRecord(c) /\ ~CreateAndResolve(c)
    <3>1. \E next : Start(c, next)
      <4>1. CASE UpdateRecord(c) \/ AddLabel(c) \/ AddRelationship(c) \/ ResolveOrganization(c)
        BY <4>1, Zenon DEF UpdateRecord, AddLabel, AddRelationship, ResolveOrganization
      <4>2. CASE MergeRecords(c)
        BY <4>2, Zenon DEF MergeRecords
      <4>3. CASE ResolveRequest(c) \/ DeferRequest(c) \/ SyncOrganization(c)
        BY <4>3, Zenon DEF ResolveRequest, DeferRequest, SyncOrganization, PlanSync
      <4>4. CASE CreateOrganization(c) \/ UpdateOrganization(c)
        BY <4>4, Zenon DEF CreateOrganization, UpdateOrganization, PlanSync
      <4>. QED  BY <1>3, <2>2, <4>1, <4>2, <4>3, <4>4
    <3>. QED  BY <1>1, <3>1, Unwritten
  <2>. QED  BY <2>1, <2>2
<1>4. ASSUME NEW c \in Edits, CommitRelationship(c) \/ CommitOrganization(c) \/ ResolveCreated(c) \/ CommitRequest(c)
                              \/ EditCrash(c) \/ CommitUpdate(c) \/ CommitSync(c)
      PROVE  ~torn /\ LabelsStay /\ RecordsStay
  <2>1. (torn => torn') /\ records' = records /\ labels' = labels
    <3>1. CASE CommitRelationship(c) \/ CommitRequest(c) \/ CommitSync(c)
      BY <3>1 DEF CommitRelationship, CommitRequest, CommitSync
    <3>2. CASE CommitOrganization(c) \/ EditCrash(c) \/ CommitUpdate(c)
      BY <3>2 DEF CommitOrganization, EditCrash, CommitUpdate, registryVars
    <3>3. CASE ResolveCreated(c)
      BY <3>3 DEF ResolveCreated
    <3>. QED  BY <1>4, <3>1, <3>2, <3>3
  <2>. QED  BY <2>1, Unwritten
<1>5. ASSUME NEW c \in Edits, CommitRename(c) \/ CommitLabel(c) \/ CommitLink(c) \/ CommitCreated(c)
      PROVE  ~torn /\ LabelsStay /\ RecordsStay
  <2>1. torn' = torn
    BY <1>5 DEF CommitRename, CommitLabel, CommitLink, CommitCreated
  <2>. QED  BY <1>5, <2>1, RenamedStays, LabelledStays, SyncedStays, CreatedStays
<1>6. CASE UNCHANGED registryVars
  BY <1>6, Unwritten DEF registryVars
<1>7. CASE RegistryNext
  BY <1>2, <1>3, <1>4, <1>5, <1>7 DEF RegistryNext
<1>8. ASSUME NEW c \in Edits, Founded(c)
      PROVE  CommitSync(c) \/ CommitCreated(c)
  BY <1>8 DEF Founded
<1>9. MembershipNext /\ UNCHANGED <<orgs, registryVars, edit, founder>> => UNCHANGED registryVars
  OBVIOUS
<1>10. UNCHANGED vars => UNCHANGED registryVars
  BY DEF vars
<1>. QED  BY <1>3, <1>4, <1>5, <1>6, <1>7, <1>8, <1>9, <1>10 DEF Next

--------------------------------------------------------------------------------
(* A merge that met no other call: nothing known of the record is lost, and the   *)
(* target gets a primary label only where it had none.                            *)

LEMMA MergeCommits ==
  ASSUME RegistryHeld, ~torn, NEW c \in Edits, NEW k \in Edit, k = edit[c], k.pc = "merge", Merging(k)
  PROVE  /\ k.rec \in Records /\ k.into \in Records /\ k.rec # k.into /\ Live(k.into) /\ MergeKnown(k)
         /\ \A l \in Records \X Labels :
              /\ l \in k.dropped => ~labels'[l].live
              /\ l \in k.moved => /\ labels'[l].at = k.into /\ labels'[l].live
                                  /\ labels'[l].primary => l \in k.kept
              /\ l \notin k.moved \cup k.dropped => labels'[l] = labels[l]
         /\ records'[k.rec].deleted /\ records'[k.rec].into = k.into
         /\ \A r \in Records : r # k.rec => records'[r] = records[r]
<1>1. k.rec \in Records /\ k.into \in Records /\ k.rec # k.into /\ k.moved \cap k.dropped = {}
  BY DEF RegistryHeld, EditsIs, Fixed, OnRecord
<1>2. Live(k.into) /\ MergeKnown(k)
  BY DEF RegistryHeld, KnownIs, InProgress, Known
<1>3. \A l \in Records \X Labels :
        IF l \in k.dropped THEN ~labels'[l].live /\ labels'[l].at = labels[l].at
        ELSE IF l \in k.moved
             THEN /\ labels'[l].at = k.into /\ labels'[l].live = labels[l].live
                  /\ labels'[l].primary = (l \in k.kept /\ labels[l].primary)
             ELSE labels'[l] = labels[l]
  BY <1>1, MergedLabelRows
<1>4. /\ records'[k.rec].deleted /\ records'[k.rec].into = k.into
      /\ \A r \in Records : r # k.rec => records'[r] = records[r]
  BY <1>1, MergedRecord
<1>5. \A l \in k.moved : labels[l].live
  BY <1>2, EditFields DEF MergeKnown
<1>6. ASSUME NEW l \in Records \X Labels
      PROVE  /\ l \in k.dropped => ~labels'[l].live
             /\ l \in k.moved => /\ labels'[l].at = k.into /\ labels'[l].live
                                 /\ labels'[l].primary => l \in k.kept
             /\ l \notin k.moved \cup k.dropped => labels'[l] = labels[l]
  BY <1>1, <1>3, <1>5
<1>. QED  BY <1>1, <1>2, <1>4, <1>6

LEMMA LabelsFollowStep ==
  ASSUME RegistryHeld, [Next]_vars, ~torn', NEW r \in LiveRecords
  PROVE  \E s \in Records :
           /\ s = IF records'[r].deleted THEN records'[r].into ELSE r
           /\ Keys(r) \subseteq Keys(s)'
<1>1. r \in Records /\ Live(r) /\ ~records[r].deleted
  BY DEF LiveRecords, Live
<1>2. CASE LabelsStay /\ RecordsStay
  <2>1. ~records'[r].deleted
    BY <1>1, <1>2 DEF RecordsStay
  <2>2. Keys(r) \subseteq Keys(r)'
    BY <1>2 DEF LabelsStay, Keys, LabelsOf
  <2>. QED  BY <1>1, <2>1, <2>2
<1>3. ASSUME NEW c \in Edits, edit[c].pc = "merge", Merging(edit[c]), ~torn
      PROVE  \E s \in Records :
               /\ s = IF records'[r].deleted THEN records'[r].into ELSE r
               /\ Keys(r) \subseteq Keys(s)'
  <2>1. PICK k \in Edit : k = edit[c] /\ k.pc = "merge" /\ Merging(k)
    BY <1>3 DEF RegistryHeld, EditsIs
  <2>2. /\ k.rec \in Records /\ k.into \in Records /\ k.rec # k.into /\ MergeKnown(k)
        /\ \A l \in Records \X Labels :
             /\ l \in k.moved => labels'[l].at = k.into /\ labels'[l].live
             /\ l \notin k.moved \cup k.dropped => labels'[l] = labels[l]
        /\ records'[k.rec].deleted /\ records'[k.rec].into = k.into
        /\ \A x \in Records : x # k.rec => records'[x] = records[x]
    BY <1>3, <2>1, MergeCommits
  <2>3. \A l \in Records \X Labels :
          /\ labels[l].live /\ labels[l].at = k.rec <=> l \in k.moved \cup k.dropped
          /\ l \in k.dropped => \E m \in Records \X Labels : labels[m].live /\ labels[m].at = k.into /\ m[2] = l[2]
    BY <2>2 DEF MergeKnown
  <2>4. CASE r = k.rec
    <3>1. ASSUME NEW l \in Records \X Labels, labels[l].live, labels[l].at = r
          PROVE  \E m \in Records \X Labels : labels'[m].live /\ labels'[m].at = k.into /\ m[2] = l[2]
      <4>1. CASE l \in k.moved
        BY <2>2, <4>1
      <4>2. CASE l \in k.dropped
        <5>1. PICK m \in Records \X Labels : labels[m].live /\ labels[m].at = k.into /\ m[2] = l[2]
          BY <2>3, <4>2
        <5>2. labels'[m] = labels[m]
          BY <2>2, <2>3, <5>1
        <5>. QED  BY <5>1, <5>2
      <4>. QED  BY <2>3, <2>4, <3>1, <4>1, <4>2
    <3>2. Keys(r) \subseteq Keys(k.into)'
      <4>1. PICK t \in Records : t = k.into
        BY <2>2
      <4>2. Keys(r) \subseteq Keys(t)'
        BY <3>1, <4>1 DEF Keys, LabelsOf
      <4>. QED  BY <4>1, <4>2 DEF Keys, LabelsOf
    <3>3. PICK s \in Records : s = k.into
      BY <2>2
    <3>4. Keys(r) \subseteq Keys(s)'
      BY <3>2, <3>3 DEF Keys, LabelsOf
    <3>. QED  BY <2>2, <2>4, <3>3, <3>4
  <2>5. CASE r # k.rec
    <3>1. ~records'[r].deleted
      BY <1>1, <2>2, <2>5
    <3>2. \A l \in Records \X Labels : labels[l].live /\ labels[l].at = r => labels'[l] = labels[l]
      BY <2>2, <2>3, <2>5
    <3>3. Keys(r) \subseteq Keys(r)'
      BY <3>2 DEF Keys, LabelsOf
    <3>. QED  BY <1>1, <3>1, <3>3
  <2>. QED  BY <2>4, <2>5
<1>. QED  BY <1>2, <1>3, StayOrMerge

LEMMA LabelsAreFinite == \A S : S \subseteq Records \X Labels => IsFiniteSet(S) /\ Cardinality(S) \in Nat
<1>1. IsFiniteSet(Records \X Labels)
  BY RegistryIsFinite, FS_Product
<1>. QED  BY <1>1, FS_Subset, FS_CardinalityType

LEMMA OnePrimaryStep ==
  ASSUME RegistryHeld, [Next]_vars, ~torn', NEW r \in LiveRecords, NEW K \in Kinds,
         \E s \in LiveRecords : records'[s].deleted
  PROVE  Cardinality(Primaries(LabelsOf(r), K)') <= IF Primaries(LabelsOf(r), K) = {} THEN 1
                                                    ELSE Cardinality(Primaries(LabelsOf(r), K))
<1>1. PICK c \in Edits : edit[c].pc = "merge" /\ Merging(edit[c]) /\ ~torn
  BY StayOrMerge DEF LiveRecords, RecordsStay
<1>2. PICK k \in Edit : k = edit[c] /\ k.pc = "merge" /\ Merging(k)
  BY <1>1 DEF RegistryHeld, EditsIs
<1>3. /\ k.rec \in Records /\ k.into \in Records /\ k.rec # k.into /\ MergeKnown(k)
      /\ \A l \in Records \X Labels :
           /\ l \in k.dropped => ~labels'[l].live
           /\ l \in k.moved => labels'[l].at = k.into /\ (labels'[l].primary => l \in k.kept)
           /\ l \notin k.moved \cup k.dropped => labels'[l] = labels[l]
  BY <1>1, <1>2, MergeCommits
<1>4. PICK old : old = {l \in Records \X Labels : labels[l].live /\ labels[l].at = r /\ l[2] \in K /\ labels[l].primary}
  OBVIOUS
<1>5. PICK new : new = {l \in Records \X Labels : labels'[l].live /\ labels'[l].at = r /\ l[2] \in K /\ labels'[l].primary}
  OBVIOUS
<1>6. PICK extra : extra = {l \in k.kept : l[2] \in K}
  OBVIOUS
<1>7. Primaries(LabelsOf(r), K) = old /\ Primaries(LabelsOf(r), K)' = new
  BY <1>4, <1>5 DEF Primaries, LabelsOf
<1>8. /\ old \subseteq Records \X Labels /\ new \subseteq Records \X Labels
      /\ extra \subseteq Records \X Labels
  BY <1>4, <1>5, <1>6, EditFields
<1>9. r # k.into => new \subseteq old
  BY <1>3, <1>4, <1>5
<1>10. r = k.into => /\ new \subseteq old \cup extra
                     /\ Cardinality(extra) <= IF old = {} THEN 1 ELSE 0
  <2>1. SUFFICES ASSUME r = k.into
                 PROVE  /\ new \subseteq old \cup extra
                        /\ Cardinality(extra) <= IF old = {} THEN 1 ELSE 0
    OBVIOUS
  <2>2. ASSUME NEW l \in new
        PROVE  l \in old \cup extra
    BY <1>3, <1>4, <1>5, <1>6, <2>1
  <2>3. LET had == {l \in Records \X Labels : labels[l].live /\ labels[l].at = k.into /\ l[2] \in K /\ labels[l].primary}
        IN  Cardinality({l \in k.kept : l[2] \in K}) <= IF had = {} THEN 1 ELSE 0
    BY <1>3, Zenon DEF MergeKnown
  <2>4. old = {l \in Records \X Labels : labels[l].live /\ labels[l].at = k.into /\ l[2] \in K /\ labels[l].primary}
    BY <1>4, <2>1
  <2>5. Cardinality(extra) <= IF old = {} THEN 1 ELSE 0
    BY <1>6, <2>3, <2>4
  <2>. QED  BY <2>2, <2>5
<1>11. IsFiniteSet(old) /\ IsFiniteSet(new) /\ IsFiniteSet(extra)
       /\ Cardinality(old) \in Nat /\ Cardinality(new) \in Nat /\ Cardinality(extra) \in Nat
  BY <1>8, LabelsAreFinite
<1>12. CASE new \subseteq old
  <2>1. Cardinality(new) <= Cardinality(old)
    BY <1>11, <1>12, FS_Subset
  <2>2. old = {} => Cardinality(old) = 0
    BY FS_EmptySet
  <2>3. Cardinality(new) <= IF old = {} THEN 1 ELSE Cardinality(old)
    BY <1>11, <2>1, <2>2
  <2>. QED  BY <1>7, <2>3
<1>13. CASE r = k.into /\ old = {}
  <2>1. new \subseteq extra /\ Cardinality(extra) <= 1
    BY <1>10, <1>13
  <2>2. Cardinality(new) <= Cardinality(extra)
    BY <1>11, <2>1, FS_Subset
  <2>3. Cardinality(new) <= 1
    BY <1>11, <2>1, <2>2
  <2>. QED  BY <1>7, <1>13, <2>3
<1>14. CASE r = k.into /\ old # {}
  <2>1. Cardinality(extra) = 0
    BY <1>10, <1>11, <1>14
  <2>2. extra = {}
    BY <1>11, <2>1, FS_EmptySet
  <2>. QED  BY <1>10, <1>12, <1>14, <2>2
<1>. QED  BY <1>9, <1>12, <1>13, <1>14

--------------------------------------------------------------------------------
(* The theorems.                                                                  *)

Held == MembersHeld /\ RegistryHeld

LEMMA AlwaysHeld == Spec => []Held
<1>1. Init => Held
  BY InitHolds DEF Held
<1>2. Held /\ [Next]_vars => Held'
  BY NextHolds DEF Held
<1>. QED  BY <1>1, <1>2, PTL DEF Spec

\* Every row, invitation, call and edit keeps its type, whatever commits between a read and a write.
THEOREM OrganizationsTyped == Spec => []TypeOK
<1>1. Held => TypeOK
  BY HeldTyped DEF Held
<1>. QED  BY <1>1, AlwaysHeld, PTL

\* For any users, organizations and calls: an organization has one owner, an active one, a user one open invitation at most, and lands where work is possible, unless two calls about the owners or the user overlapped. What a call read is still so when it commits (organization_service.py:60-97, 179-208, 408-508, 654-723).
THEOREM MembershipsKept == Spec => []MembershipsInOrder
<1>1. Held => MembershipsInOrder
  BY HeldOwned, HeldInvited, HeldUsable DEF Held, MembershipsInOrder
<1>. QED  BY <1>1, AlwaysHeld, PTL

\* For any records, requests and edits: no link leads to a record that was merged away, a request is linked exactly when resolved, and a synchronisation makes no second record for a name, unless calls met on a record, a request or a name (trust_registry_resolution_service.py:76-361, organization_registry_sync_service.py:71-328).
THEOREM RegistryKept == Spec => []RegistryLinked
<1>1. Held => RegistryLinked
  BY HeldLinked DEF Held
<1>. QED  BY <1>1, AlwaysHeld, PTL

\* A merge carries every alias, domain, identifier and capability over to the record merged into, and makes no second primary of a kind, for any partition of the labels into kinds (trust_registry_resolution_service.py:225-361).
THEOREM MergesKept == Spec => MergesKeep
<1>1. Held /\ [Next]_vars =>
        [~torn' => \A r \in LiveRecords : \E s \in Records :
           /\ s = IF records'[r].deleted THEN records'[r].into ELSE r
           /\ Keys(r) \subseteq Keys(s)']_vars
  BY LabelsFollowStep DEF Held
<1>2. Held /\ [Next]_vars =>
        [~torn' => \A r \in LiveRecords, K \in Kinds :
           (\E s \in LiveRecords : records'[s].deleted)
             => Cardinality(Primaries(LabelsOf(r), K)') <= IF Primaries(LabelsOf(r), K) = {} THEN 1
                                                       ELSE Cardinality(Primaries(LabelsOf(r), K))]_vars
  BY OnePrimaryStep DEF Held
<1>. QED  BY <1>1, <1>2, AlwaysHeld, PTL DEF Spec, MergesKeep, LabelsFollow, OnePrimary

================================================================================
