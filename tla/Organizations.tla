----------------------------- MODULE Organizations ------------------------------
(* Organizations: their creation, which makes the owner and the canonical record *)
(* in up to two commits, their update, and the workspace their members see.      *)
EXTENDS TrustRegistry

CONSTANTS Starts,   \* the rows there may be at the start, and the calls to come
          Founders  \* the users who create organizations

ASSUME FoundersAssumption == Founders \subseteq Users
ASSUME NullAssumption ==
  None \notin Orgs \cup Users \cup Rows \cup Invites \cup Records \cup Requests \cup Labels
ASSUME RegistryIsFinite == IsFiniteSet(Records) /\ IsFiniteSet(Labels)

\* Rows that calls which ended leave: an organization has one owner, who is active, a user
\* lands where they may work, and links lead to live records, one for a name.
InOrder(s) ==
  /\ s.orgs \in [Orgs -> Organization] /\ s.members \in [Rows -> Member]
  /\ s.active \in [Users -> Orgs \cup {None}] /\ s.records \in [Records -> Record]
  /\ s.labels \in [Records \X Labels -> Label] /\ s.requests \in [Requests -> Request]
  /\ \A o \in Orgs : s.orgs[o] = NoOrg \/ s.orgs[o].there
  /\ \A r \in Rows : s.members[r] # NoMember
       => s.members[r].user \in Users /\ s.members[r].org \in {o \in Orgs : s.orgs[o].there}
  /\ \A r, x \in Rows : s.members[r].there /\ s.members[x].there /\ r # x
       => <<s.members[r].org, s.members[r].user>> # <<s.members[x].org, s.members[x].user>>
  /\ \A o \in Orgs : s.orgs[o].there => \E w \in Rows :
       /\ s.members[w].there /\ s.members[w].org = o /\ ~s.members[w].suspended
       /\ \A r \in Rows :
            s.members[r].there /\ s.members[r].org = o /\ s.members[r].role = "owner" <=> r = w
  /\ \A u \in Users : s.active[u] # None => \E r \in Rows :
       /\ s.members[r].there /\ s.members[r].user = u
       /\ s.members[r].org = s.active[u] /\ ~s.members[r].suspended
  /\ \A l \in Records \X Labels : s.labels[l].live => s.labels[l].at # None
  /\ LET live == {r \in Records : s.records[r].there /\ ~s.records[r].deleted} IN
     /\ \A o \in Orgs : s.orgs[o].link \in live \cup {None}
     /\ \A q \in Requests : /\ s.requests[q].link \in live \cup {None}
                            /\ (s.requests[q].state = "resolved") = (s.requests[q].link # None)
     /\ \A r, x \in live :
          s.records[r].origin # None /\ s.records[x].origin # None
            /\ s.records[r].name = s.records[x].name => r = x
ASSUME StartsAssumption == \A s \in Starts :
  InOrder(s) /\ s.calls \subseteq Calls /\ s.edits \subseteq Edits

VARIABLE founder   \* who a creation in flight is for
vars == <<membershipVars, orgs, registryVars, edit, founder>>

Init ==
  /\ \E s \in Starts :
       /\ orgs = s.orgs /\ members = s.members /\ active = s.active
       /\ records = s.records /\ labels = s.labels /\ requests = s.requests
       /\ call = [c \in Calls |-> IF c \in s.calls THEN Blank ELSE Done]
       /\ edit = [c \in Edits |-> IF c \in s.edits THEN NoEdit ELSE Edited]
  /\ invites = [i \in Invites |-> NoInvite]
  /\ relations = [x \in Records \X Records |-> NoRelation]
  /\ contested = {} /\ crossed = {} /\ torn = FALSE /\ twinned = FALSE
  /\ founder = [c \in Edits |-> None]

\* _apply_setup_state, for an organization that gives its domain together with a work e-mail.
Completed(org) == [org EXCEPT !.setup = org.setup \/ org.domain # None]
FreeOrgs == {o \in Orgs : orgs[o] = NoOrg /\ \A c \in Edits : edit[c].org # o}

\* create_organization; complete_onboarding asks in addition that the user belongs to none.
CreateOrganization(c) ==
  \E u \in Founders, n \in Names, d \in Domains \cup {None} :
    /\ FreeOrgs # {}
    /\ PlanSync(c, CHOOSE o \in FreeOrgs : TRUE,
                Completed([there |-> TRUE, name |-> n, domain |-> d, setup |-> FALSE, link |-> None]))
    /\ founder' = [founder EXCEPT ![c] = u]
    /\ UNCHANGED membershipVars
Founded(c) ==
  /\ edit[c].pc \in {"sync", "create"}
  /\ CommitSync(c) \/ CommitCreated(c)
  /\ IF edit[c].view.there
     THEN UNCHANGED <<membershipVars, founder>>
     ELSE /\ Insert(edit[c].org, founder[c], "owner")
          /\ active' = [active EXCEPT ![founder[c]] = edit[c].org]
          /\ founder' = [founder EXCEPT ![c] = None]
          /\ UNCHANGED <<invites, call, contested, crossed>>

UpdateOrganization(c) ==
  \E o \in Orgs, n \in Names, d \in Domains :
    /\ Managed(o)
    /\ Start(c, [NoEdit EXCEPT !.pc = "update", !.org = o, !.view = orgs[o],
                   !.new = Completed([orgs[o] EXCEPT !.name = n, !.domain = d])])
    /\ UNCHANGED <<membershipVars, founder>>
CommitUpdate(c) ==
  LET k == edit[c] IN
  /\ k.pc = "update"
  /\ orgs' = [orgs EXCEPT ![k.org] = Written(orgs[k.org], k.view, k.new)]
  /\ Close(c)
  /\ UNCHANGED <<membershipVars, registryVars, founder>>

(* ---- what is shown: WorkspaceService.bootstrap, TrustRegistryAdminService.metrics ---- *)
\* The active organization's membership, or else the newest one, here any.
Landing(u) ==
  IF active[u] # None /\ Membership(active[u], u) # {} THEN Membership(active[u], u) ELSE Joined(u)
\* Organizations are neither suspended nor asked to be verified here.
WorkspaceStates(u) ==
  IF Landing(u) = {}
  THEN {IF \E i \in Invites : /\ invites[i].to = u /\ invites[i].status = "pending"
                              /\ ~invites[i].late
        THEN "invitation_pending" ELSE "no_org"}
  ELSE {CASE members[r].suspended -> "membership_suspended"
          [] ~members[r].suspended /\ ~orgs[members[r].org].setup -> "setup_incomplete"
          [] OTHER -> "ready" : r \in Landing(u)}
LinkedOrganizations == {o \in Orgs : \E r \in LiveRecords : orgs[o].there /\ orgs[o].link = r}
UnresolvedOrganizations == {o \in Orgs : orgs[o].there /\ orgs[o].link = None}

Next ==
  \/ MembershipNext /\ UNCHANGED <<orgs, registryVars, edit, founder>>
  \/ RegistryNext /\ UNCHANGED <<membershipVars, founder>>
  \/ \E c \in Edits :
       \/ Turn(c) /\ (CreateOrganization(c) \/ UpdateOrganization(c))
       \/ Founded(c) \/ CommitUpdate(c)
       \/ CommitLink(c) /\ UNCHANGED <<membershipVars, founder>>
Spec == Init /\ [][Next]_vars

TypeOK ==
  /\ members \in [Rows -> Member] /\ invites \in [Invites -> Invite]
  /\ active \in [Users -> Orgs \cup {None}] /\ call \in [Calls -> Call]
  /\ contested \subseteq Orgs /\ crossed \subseteq Users
  /\ orgs \in [Orgs -> Organization] /\ records \in [Records -> Record]
  /\ labels \in [Records \X Labels -> Label] /\ relations \in [Records \X Records -> Relation]
  /\ requests \in [Requests -> Request] /\ edit \in [Edits -> Edit]
  /\ founder \in [Edits -> Users \cup {None}] /\ {torn, twinned} \subseteq BOOLEAN

\* An organization has exactly one owner, and not a suspended one, from its first commit on: creation, transfer and the last-owner check keep it so (organization_service.py:60-97, 480-508, 654-665) unless two calls on its owners overlapped, for the owners are counted without a lock.
SoleOwner ==
  \A o \in Orgs \ contested : orgs[o].there =>
    LET owners == {r \in MembersOf(o) : members[r].role = "owner"} IN
    Cardinality(owners) = 1 /\ owners = ActiveOwners(o)

\* A user has at most one invitation to an organization that can be accepted, and none to one it belongs to (organization_service.py:179-208, 265-311; workspace_service.py:114-155), unless two calls about the user overlapped.
InvitedOnce ==
  \A u \in Users \ crossed, o \in Orgs :
    LET open == {i \in PendingFor(o, u) : ~invites[i].late} IN
    Cardinality(open) <= IF Membership(o, u) = {} THEN 1 ELSE 0

\* A user with an active organization can work there: suspension and removal move the user on, so the workspace opens neither on a suspended membership nor on none (organization_service.py:427, 474, 707-723; workspace_service.py:194-281).
ActiveUsable ==
  \A u \in Users \ crossed : active[u] # None =>
    WorkspaceStates(u) \subseteq {"setup_incomplete", "ready"}

\* No organization, request or relationship refers to a record that was merged away, and the registry's figures count every organization, unless a merge overlapped another call on its records (trust_registry_admin_service.py:142-180, trust_registry_resolution_service.py:155-223).
LinksLive ==
  ~torn =>
    /\ {o \in Orgs : orgs[o].there} = LinkedOrganizations \cup UnresolvedOrganizations
    /\ \A q \in Requests : requests[q].link # None => Live(requests[q].link)
    /\ \A x \in DOMAIN relations : relations[x].live => Live(relations[x].parent) /\ Live(relations[x].child)

\* A request is linked exactly when it is resolved: deferral, resolution, synchronisation and merging write the two columns together (trust_registry_resolution_service.py:76-153, organization_registry_sync_service.py:292-328).
ResolvedLinked ==
  ~torn => \A q \in Requests : (requests[q].state = "resolved") = (requests[q].link # None)

\* Synchronising never makes a second record for a name it made one for, also when a crash left the first one unlinked (organization_registry_sync_service.py:71-126, 187-245), unless the name was changed or two synchronisations overlapped.
NoTwins ==
  ~twinned => \A r, s \in LiveRecords :
    records[r].origin # None /\ records[s].origin # None /\ records[r].name = records[s].name => r = s

\* What the registry knows of a record it still knows after a merge, at the record merged into (trust_registry_resolution_service.py:225-361).
LabelsFollow ==
  [][~torn' => \A r \in LiveRecords : \E s \in Records :
       /\ s = IF records'[r].deleted THEN records'[r].into ELSE r
       /\ Keys(r) \subseteq Keys(s)']_vars

\* A merge gives no record a second primary domain or identifier (trust_registry_resolution_service.py:245-308).
OnePrimary ==
  [][~torn' => \A r \in LiveRecords, K \in Kinds :
       (\E s \in LiveRecords : records'[s].deleted)
         => Cardinality(Primaries(LabelsOf(r), K)') <= IF Primaries(LabelsOf(r), K) = {} THEN 1
                                                   ELSE Cardinality(Primaries(LabelsOf(r), K))]_vars

\* Who belongs to an organization, and works in it.
MembershipsInOrder == SoleOwner /\ InvitedOnce /\ ActiveUsable
\* What the organizations and the requests know of the registry.
RegistryLinked == LinksLive /\ ResolvedLinked /\ NoTwins
\* What merging keeps.
MergesKeep == LabelsFollow /\ OnePrimary
================================================================================
