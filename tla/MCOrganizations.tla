---------------------------- MODULE MCOrganizations -----------------------------
(* Starts with calls on the members of two organizations, and starts with calls  *)
(* on the registry: the two families meet in the creation of an organization.    *)
EXTENDS Organizations, TLC

CONSTANTS o1, o2, u1, u2, m1, m2, m3, m4, r1, r2, n1, n2, d1, d2, q1

Row(o, u, role, off) == [org |-> o, user |-> u, role |-> role, suspended |-> off, there |-> TRUE]
Org(n, d, r) == [there |-> TRUE, name |-> n, domain |-> d, setup |-> d # None, link |-> r]
Rec(n, o) == [there |-> TRUE, deleted |-> FALSE, name |-> n, origin |-> o, into |-> None]
At(r, p) == [at |-> r, primary |-> p, live |-> TRUE]
Empty == [orgs |-> [o \in Orgs |-> NoOrg], members |-> [r \in Rows |-> NoMember],
          active |-> [u \in Users |-> None], records |-> [r \in Records |-> NoRecord],
          labels |-> [l \in Records \X Labels |-> NoLabel],
          requests |-> [q \in Requests |-> [org |-> None, link |-> None, state |-> "unresolved"]],
          calls |-> {}, edits |-> {}]
\* Two organizations with an owner each; u2 an admin of the first and the owner of the second.
Staffed ==
  [Empty EXCEPT !.orgs = [o \in Orgs |-> Org(n1, None, None)],
                !.members = (m1 :> Row(o1, u1, "owner", FALSE) @@ m2 :> Row(o1, u2, "admin", FALSE)
                             @@ m3 :> Row(o2, u2, "owner", FALSE)) @@ Empty.members,
                !.active = (u1 :> o1 @@ u2 :> o1) @@ Empty.active, !.calls = Calls]
\* One organization linked to its record, another record with the same domain, and a request.
Registered ==
  [Empty EXCEPT !.orgs[o1] = Org(n1, d1, r1), !.members[m1] = Row(o1, u1, "owner", FALSE),
                !.active[u1] = o1,
                !.records = (r1 :> Rec(n1, o1) @@ r2 :> Rec(n2, None)) @@ Empty.records,
                !.labels = (<<r1, d1>> :> At(r1, TRUE) @@ <<r1, d2>> :> At(r1, TRUE)
                            @@ <<r2, d1>> :> At(r2, TRUE)) @@ Empty.labels,
                !.requests[q1] = [org |-> o1, link |-> r1, state |-> "resolved"], !.edits = Edits]
Unregistered == [Empty EXCEPT !.edits = Edits]
MCStarts == {Staffed, Registered, Unregistered}
MCKinds == {Names, Domains}
MCLabels == Names \cup Domains
================================================================================
