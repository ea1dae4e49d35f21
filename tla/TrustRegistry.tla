----------------------------- MODULE TrustRegistry -----------------------------
(* The canonical registry: records with their names, domains, identifiers,       *)
(* capabilities and relationships, the links of organizations and verification   *)
(* requests to them, merging, and the synchronisation of an organization with    *)
(* its record. Calls read in one step and commit in another, without locks.      *)
EXTENDS Memberships

CONSTANTS Records,    \* a bound on the registry records made
          Requests,   \* verification requests
          Names, Domains,
          Labels,     \* Names (as aliases), Domains and identifiers or capabilities
          Kinds,      \* the labels by kind: a partition of Labels
          Edits       \* calls on the registry, numbered in the order they begin

ASSUME RegistryAssumption ==
  /\ Names \cup Domains \subseteq Labels
  /\ Edits \subseteq Nat
  /\ (UNION Kinds) = Labels /\ \A K, L \in Kinds : K = L \/ K \cap L = {}
  /\ Names \in Kinds

VARIABLES orgs, records,
          labels,     \* alias, domain, identifier and capability rows, by the record they were added to
          relations,  \* relationship rows, by the pair they were made for
          requests, edit,
          torn,       \* ghost: calls overlapped on a record, or the requests of a record, that one of them merged, or on a request
          twinned     \* ghost: a name was changed, or two synchronisations overlapped
registryVars == <<records, labels, relations, requests, torn, twinned>>

Organization == [there: BOOLEAN, name: Names \cup {None}, domain: Domains \cup {None},
                 setup: BOOLEAN, link: Records \cup {None}]
NoOrg == [there |-> FALSE, name |-> None, domain |-> None, setup |-> FALSE,
          link |-> None]
\* origin: the workspace organization in trust_metadata; into: the record it was merged into.
Record == [there: BOOLEAN, deleted: BOOLEAN, name: Names \cup {None}, origin: Orgs \cup {None},
           into: Records \cup {None}]
NoRecord == [there |-> FALSE, deleted |-> FALSE, name |-> None, origin |-> None, into |-> None]
Label == [at: Records \cup {None}, primary: BOOLEAN, live: BOOLEAN]
NoLabel == [at |-> None, primary |-> FALSE, live |-> FALSE]
Relation == [parent: Records \cup {None}, child: Records \cup {None}, live: BOOLEAN]
NoRelation == [parent |-> None, child |-> None, live |-> FALSE]
Request == [org: Orgs \cup {None}, link: Records \cup {None},
            state: {"unresolved", "resolved", "deferred"}]

Edit == [pc: {"idle", "done", "record", "rename", "label", "relate", "merge", "org", "request",
              "resolve", "defer", "sync", "create", "link", "update"},
         rec: Records \cup {None}, into: Records \cup {None}, org: Orgs \cup {None},
         view: Organization, new: Organization,
         req: Requests \cup {None}, seen: Request, label: Labels \cup {None}, primary: BOOLEAN,
         name: Names \cup {None}, moved: SUBSET (Records \X Labels), kept: SUBSET (Records \X Labels),
         dropped: SUBSET (Records \X Labels), ties: SUBSET (Records \X Records),
         cut: SUBSET (Records \X Records), orgs: SUBSET Orgs, reqs: SUBSET Requests]
NoEdit == [pc |-> "idle", rec |-> None, into |-> None, org |-> None, view |-> NoOrg, new |-> NoOrg,
           req |-> None, seen |-> [org |-> None, link |-> None, state |-> "unresolved"],
           label |-> None, primary |-> FALSE, name |-> None, moved |-> {}, kept |-> {},
           dropped |-> {}, ties |-> {}, cut |-> {}, orgs |-> {}, reqs |-> {}]
Edited == [NoEdit EXCEPT !.pc = "done"]
Close(c) == edit' = [edit EXCEPT ![c] = Edited]

Live(r) == r # None /\ records[r].there /\ ~records[r].deleted
LiveRecords == {r \in Records : Live(r)}
FreeRecords == {r \in Records : ~records[r].there}
LabelsOf(r) == {l \in Records \X Labels : labels[l].live /\ labels[l].at = r}
Keys(r) == {l[2] : l \in LabelsOf(r)}
Ties(r) == {x \in Records \X Records : relations[x].live /\ r \in {relations[x].parent, relations[x].child}}

(* Begin a call; the ghosts record the overlaps that matter.                     *)
InFlight(c) == {d \in Edits \ {c} : edit[d].pc \notin {"idle", "done"}}
Involved(k) == {k.rec, k.into, k.seen.link, k.view.link} \ {None}
Clash(k, j) ==
  \/ k.pc = "merge" /\ (Involved(k) \cap Involved(j) # {} \/ j.req \in k.reqs)
  \/ k.req # None /\ (j.req = k.req \/ (j.org # None /\ j.org = k.seen.org))
Clashes(c, next) == \E d \in InFlight(c) : Clash(next, edit[d]) \/ Clash(edit[d], next)
Turn(c) == edit[c].pc = "idle" /\ \A d \in Edits : d < c => edit[d].pc # "idle"
Start(c, next) ==
  /\ edit' = [edit EXCEPT ![c] = next]
  /\ torn' = (torn \/ Clashes(c, next))
  /\ twinned' = (twinned \/ next.pc \in {"rename", "merge", "update"}
                         \/ (next.pc \in {"sync", "create"}
                             /\ \E d \in InFlight(c) : edit[d].pc \in {"sync", "create", "link"}))
  /\ UNCHANGED <<orgs, records, labels, relations, requests>>

(* ---- records: TrustRegistryService ---- *)
Made(r, name, origin) ==
  [records EXCEPT ![r] = [there |-> TRUE, deleted |-> FALSE, name |-> name, origin |-> origin, into |-> None]]
CreateRecord(c) ==
  /\ FreeRecords # {}
  /\ \E n \in Names : records' = Made(CHOOSE r \in FreeRecords : TRUE, n, None)
  /\ Close(c)
  /\ twinned' = TRUE
  /\ UNCHANGED <<orgs, labels, relations, requests, torn>>
UpdateRecord(c) ==
  \E r \in LiveRecords, n \in Names :
    Start(c, [NoEdit EXCEPT !.pc = "rename", !.rec = r, !.name = n])
CommitRename(c) ==
  /\ edit[c].pc = "rename"
  /\ records' = [records EXCEPT ![edit[c].rec].name = edit[c].name]
  /\ Close(c)
  /\ UNCHANGED <<orgs, labels, relations, requests, torn, twinned>>

\* add_alias, add_domain, add_identifier, add_capability_assignment. Only domains and identifiers may be primary; none checks for another primary.
AddLabel(c) ==
  \E r \in LiveRecords, l \in Labels, p \in BOOLEAN :
    /\ labels[<<r, l>>] = NoLabel
    /\ l \in Names => ~p
    /\ Start(c, [NoEdit EXCEPT !.pc = "label", !.rec = r, !.label = l, !.primary = p])
\* The unique key refuses a second row of the label at the record.
Taken(r, l) == \E b \in Records : labels[<<b, l>>].at = r
CommitLabel(c) ==
  LET k == edit[c] IN
  /\ k.pc = "label"
  /\ labels' = IF Taken(k.rec, k.label) THEN labels
               ELSE [labels EXCEPT ![<<k.rec, k.label>>] = [at |-> k.rec, primary |-> k.primary, live |-> TRUE]]
  /\ Close(c)
  /\ UNCHANGED <<orgs, records, relations, requests, torn, twinned>>
AddRelationship(c) ==
  \E r, s \in LiveRecords :
    /\ relations[<<r, s>>] = NoRelation
    /\ Start(c, [NoEdit EXCEPT !.pc = "relate", !.rec = r, !.into = s])
Related(p, q) == \E x \in Records \X Records : relations[x].parent = p /\ relations[x].child = q
CommitRelationship(c) ==
  LET k == edit[c] IN
  /\ k.pc = "relate"
  /\ relations' = IF Related(k.rec, k.into) THEN relations
                  ELSE [relations EXCEPT ![<<k.rec, k.into>>] =
                          [parent |-> k.rec, child |-> k.into, live |-> TRUE]]
  /\ Close(c)
  /\ UNCHANGED <<orgs, records, labels, requests, torn, twinned>>

(* ---- merging: TrustRegistryResolutionService.merge_records ---- *)
\* A moved row stays primary when the target had no primary of the kind and no row moved before it had; the rows come in no set order.
Primaries(S, K) == {l \in S : l[2] \in K /\ labels[l].primary}
\* Mutant: every row that was primary stays so.
KeepsEach(s, t, moved) == {{l \in moved : labels[l].primary}}
KeptPrimary(s, t, moved) ==
  {P \in SUBSET moved :
     \A K \in Kinds :
       LET had == Primaries(LabelsOf(t), K)  offered == Primaries(moved, K) IN
       /\ {l \in P : l[2] \in K} \subseteq offered
       /\ Cardinality({l \in P : l[2] \in K}) = IF had = {} /\ offered # {} THEN 1 ELSE 0}
Redirected(x, s, t) == IF x = s THEN t ELSE x
Twice(x, s, t) ==   \* the tie would become a loop, or one the target has
  LET p == Redirected(relations[x].parent, s, t)  q == Redirected(relations[x].child, s, t) IN
  p = q \/ \E y \in Ties(t) \ {x} : relations[y].parent = p /\ relations[y].child = q

MergeRecords(c) ==
  \E s, t \in LiveRecords :
    LET moved == {l \in LabelsOf(s) : l[2] \notin Keys(t)} IN
    /\ s # t
    /\ \E kept \in KeptPrimary(s, t, moved) :
         Start(c, [NoEdit EXCEPT !.pc = "merge", !.rec = s, !.into = t,
                     !.moved = moved, !.kept = kept, !.dropped = LabelsOf(s) \ moved,
                     !.ties = Ties(s), !.cut = {x \in Ties(s) : Twice(x, s, t)},
                     !.orgs = {o \in Orgs : orgs[o].link = s},
                     !.reqs = {q \in Requests : requests[q].link = s}])

MergedLabels(k) ==
  [l \in DOMAIN labels |->
     CASE l \in k.dropped -> [labels[l] EXCEPT !.live = FALSE]
       [] l \in k.moved -> [labels[l] EXCEPT !.at = k.into,
                                             !.primary = IF l \in k.kept THEN labels[l].primary ELSE FALSE]
       [] OTHER -> labels[l]]
MergedRelations(k) ==
  [x \in DOMAIN relations |->
     CASE x \in k.cut -> [relations[x] EXCEPT !.live = FALSE]
       [] x \in k.ties \ k.cut ->
            [relations[x] EXCEPT !.parent = Redirected(relations[x].parent, k.rec, k.into),
                                 !.child = Redirected(relations[x].child, k.rec, k.into)]
       [] OTHER -> relations[x]]
\* Mutant: what was linked stays linked to the merged record.
NotRelinked(rows, S, t) == rows
Relinked(rows, S, t) == [x \in DOMAIN rows |-> IF x \in S THEN [rows[x] EXCEPT !.link = t] ELSE rows[x]]
NoClash(k) ==
  /\ \A l \in k.moved, m \in DOMAIN labels :
       m # l /\ m[2] = l[2] => MergedLabels(k)[m].at # k.into
  /\ \A x \in k.ties \ k.cut, y \in DOMAIN relations :
       x # y => <<MergedRelations(k)[x].parent, MergedRelations(k)[x].child>>
                # <<MergedRelations(k)[y].parent, MergedRelations(k)[y].child>>
CommitMerge(c) ==
  LET k == edit[c] IN
  /\ k.pc = "merge"
  /\ IF NoClash(k)
     THEN /\ orgs' = Relinked(orgs, k.orgs, k.into)
          /\ requests' = Relinked(requests, k.reqs, k.into)
          /\ labels' = MergedLabels(k)
          /\ relations' = MergedRelations(k)
          /\ records' = [records EXCEPT ![k.rec] = [records[k.rec] EXCEPT !.deleted = TRUE, !.into = k.into]]
     ELSE UNCHANGED <<orgs, requests, labels, relations, records>>
  /\ Close(c)
  /\ UNCHANGED <<torn, twinned>>

(* ---- links: TrustRegistryResolutionService ---- *)
ResolveOrganization(c) ==
  \E o \in Orgs, r \in LiveRecords :
    /\ orgs[o].there
    /\ Start(c, [NoEdit EXCEPT !.pc = "org", !.org = o, !.rec = r, !.view = orgs[o]])
CommitOrganization(c) ==
  LET k == edit[c] IN
  /\ k.pc = "org"
  /\ orgs' = [orgs EXCEPT ![k.org] = Written(orgs[k.org], k.view, [k.view EXCEPT !.link = k.rec])]
  /\ Close(c)
  /\ UNCHANGED registryVars
Resolving(q, r) == [NoEdit EXCEPT !.pc = "request", !.req = q, !.rec = r, !.seen = requests[q]]
ResolveRequest(c) ==
  \E q \in Requests, r \in LiveRecords : Start(c, Resolving(q, r))
\* create_record_and_resolve commits the record before it reads the request.
CreateAndResolve(c) ==
  \E q \in Requests, n \in Names :
    /\ FreeRecords # {}
    /\ LET r == CHOOSE x \in FreeRecords : TRUE
           next == [NoEdit EXCEPT !.pc = "resolve", !.req = q, !.rec = r] IN
       /\ records' = Made(r, n, None)
       /\ edit' = [edit EXCEPT ![c] = next]
       /\ torn' = (torn \/ Clashes(c, next))
    /\ twinned' = TRUE
    /\ UNCHANGED <<orgs, labels, relations, requests>>
ResolveCreated(c) ==
  LET k == edit[c] IN
  /\ k.pc = "resolve"
  /\ IF Live(k.rec)
     THEN /\ edit' = [edit EXCEPT ![c] = Resolving(k.req, k.rec)]
          /\ torn' = (torn \/ Clashes(c, Resolving(k.req, k.rec)))
     ELSE Close(c) /\ UNCHANGED torn
  /\ UNCHANGED <<orgs, records, labels, relations, requests, twinned>>
DeferRequest(c) ==
  \E q \in Requests : Start(c, [NoEdit EXCEPT !.pc = "defer", !.req = q, !.seen = requests[q]])
CommitRequest(c) ==
  LET k == edit[c]
      new == IF k.pc = "defer" THEN [k.seen EXCEPT !.link = None, !.state = "deferred"]
             ELSE [k.seen EXCEPT !.link = k.rec, !.state = "resolved"] IN
  /\ k.pc \in {"request", "defer"}
  /\ requests' = [requests EXCEPT ![k.req] = Written(requests[k.req], k.seen, new)]
  /\ Close(c)
  /\ UNCHANGED <<orgs, records, labels, relations, torn, twinned>>

(* ---- synchronisation: OrganizationRegistrySyncService ---- *)
NameMatches(n) == {r \in LiveRecords : records[r].name = n \/ n \in Keys(r)}
DomainMatches(o, org) ==
  {r \in LiveRecords : /\ org.domain \in Keys(r)
                       /\ records[r].origin = o \/ records[r].name = org.name}
Belongs(r, o, org) == Live(r) /\ (records[r].origin = o \/ r \in NameMatches(org.name))
\* What the organization is linked to: one record, or none and a new one is made. More than one match is a conflict.
Matches(o, org) ==
  IF Belongs(org.link, o, org) THEN {org.link}
  ELSE IF DomainMatches(o, org) # {} THEN DomainMatches(o, org)
  ELSE NameMatches(org.name)
Planned(o, org) ==
  [NoEdit EXCEPT !.pc = IF Matches(o, org) = {} THEN "create" ELSE "sync", !.org = o,
                 !.view = orgs[o], !.new = org,
                 !.rec = IF Matches(o, org) = {} THEN None ELSE CHOOSE r \in Matches(o, org) : TRUE]
PlanSync(c, o, org) ==
  /\ Cardinality(Matches(o, org)) < 2
  /\ Start(c, Planned(o, org))
SyncOrganization(c) == \E o \in Orgs : orgs[o].there /\ PlanSync(c, o, orgs[o])

\* The organization of the call as it is stored, with what the call changed.
Stored(k, link) ==
  IF k.view.there THEN Written(orgs[k.org], k.view, [k.new EXCEPT !.link = link])
  ELSE [k.new EXCEPT !.link = link]
RelatedRequests(o, r) ==
  [q \in Requests |-> IF requests[q].org = o /\ requests[q].link # r
                      THEN [requests[q] EXCEPT !.link = r, !.state = "resolved"] ELSE requests[q]]
CommitSync(c) ==
  LET k == edit[c] IN
  /\ k.pc = "sync"
  /\ orgs' = [orgs EXCEPT ![k.org] = Stored(k, k.rec)]
  /\ requests' = RelatedRequests(k.org, k.rec)
  /\ Close(c)
  /\ UNCHANGED <<records, labels, relations, torn, twinned>>
\* create_record commits what the session holds: a new organization too, not linked yet.
CommitCreated(c) ==
  LET k == edit[c] IN
  /\ k.pc = "create" /\ FreeRecords # {}
  /\ LET r == CHOOSE x \in FreeRecords : TRUE IN
     /\ records' = Made(r, k.new.name, k.org)
     /\ orgs' = [orgs EXCEPT ![k.org] = Stored(k, k.view.link)]
     /\ edit' = [edit EXCEPT ![c] = [k EXCEPT !.pc = "link", !.rec = r,
                                             !.view = [k.new EXCEPT !.link = k.view.link]]]
  /\ UNCHANGED <<labels, relations, requests, torn, twinned>>
\* A domain added to the new record meanwhile makes the last commit fail.
CommitLink(c) ==
  LET k == edit[c]  d == k.new.domain IN
  /\ k.pc = "link"
  /\ IF d # None /\ labels[<<k.rec, d>>] # NoLabel
     THEN UNCHANGED <<orgs, requests, labels>>
     ELSE /\ orgs' = [orgs EXCEPT ![k.org] = Stored(k, k.rec)]
          /\ requests' = RelatedRequests(k.org, k.rec)
          /\ labels' = IF d = None THEN labels
                       ELSE [labels EXCEPT ![<<k.rec, d>>] = [at |-> k.rec, primary |-> TRUE, live |-> TRUE]]
  /\ Close(c)
  /\ UNCHANGED <<records, relations, torn, twinned>>

EditCrash(c) ==
  /\ edit[c].pc \notin {"idle", "done"}
  /\ Close(c)
  /\ UNCHANGED <<orgs, registryVars>>

RegistryNext ==
  \E c \in Edits :
    \/ /\ Turn(c)
       /\ \/ CreateRecord(c) \/ UpdateRecord(c) \/ AddLabel(c) \/ AddRelationship(c)
          \/ MergeRecords(c) \/ ResolveOrganization(c) \/ ResolveRequest(c)
          \/ CreateAndResolve(c) \/ DeferRequest(c) \/ SyncOrganization(c)
    \/ CommitRename(c) \/ CommitLabel(c) \/ CommitRelationship(c) \/ CommitMerge(c)
    \/ CommitOrganization(c) \/ ResolveCreated(c) \/ CommitRequest(c) \/ EditCrash(c)
================================================================================
