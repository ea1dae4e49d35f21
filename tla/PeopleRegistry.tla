----------------------------- MODULE PeopleRegistry -----------------------------
(* The people an organization knows: OrganizationPersonService resolves whoever  *)
(* an invitation or a request is about to one row of the registry, by the row it *)
(* already has, the account, the e-mail address or the phone number. A           *)
(* resolution reads in one step and commits in another; only unique keys stand   *)
(* between two of them.                                                          *)
EXTENDS Naturals, FiniteSets

CONSTANTS None,
          Users, Emails, Phones,
          EmailOf, PhoneOf,     \* of an account
          Persons,              \* rows, numbered in the order they are made: a bound on the people known
          Calls                 \* calls, numbered in the order they begin
ASSUME PeopleAssumption ==
  /\ Calls \subseteq Nat /\ Persons \subseteq Nat /\ EmailOf \in [Users -> Emails] /\ PhoneOf \in [Users -> Phones \cup {None}]
  /\ None \notin Users \cup Emails \cup Phones \cup Persons /\ Emails \cap Phones = {}
  /\ \A u, v \in Users : EmailOf[u] = EmailOf[v] => u = v      \* users.email is unique

VARIABLES persons,    \* organization_people
          ids,        \* organization_person_identifiers: <<person, address or number>>
          call,
          met,        \* ghost: people two resolutions were about at once
          byPhone     \* ghost: people found by a phone number only
registryVars == <<persons, ids, call, met, byPhone>>

Relationship == {"candidate", "future_employee", "contractor", "employee", "former_employee"}
Rank == [candidate |-> 1, future_employee |-> 2, contractor |-> 3, employee |-> 4, former_employee |-> 5]
Merge(current, incoming) == IF Rank[incoming] >= Rank[current] THEN incoming ELSE current

Person == [there: BOOLEAN, user: Users \cup {None}, email: Emails \cup {None},
           phone: Phones \cup {None}, relationship: Relationship]
NoPerson == [there |-> FALSE, user |-> None, email |-> None, phone |-> None,
             relationship |-> "candidate"]

\* Who is to be resolved: the person already linked, and what is known of the subject.
Who(person, user, email, phone, relationship) ==
  [person |-> person, user |-> user, email |-> email, phone |-> phone, relationship |-> relationship]
Subject == [person: Persons \cup {None}, user: Users \cup {None}, email: Emails,
            phone: Phones \cup {None}, relationship: Relationship]
AddressesOf(w) == {w.email, w.phone} \ {None}

(* ---- the lookups: OrganizationPersonRepository ---- *)
ByUser(u) == {p \in Persons : u # None /\ persons[p].user = u}
ByAddress(v) ==
  LET first == {p \in Persons : v # None /\ v \in {persons[p].email, persons[p].phone}}
  IN IF first # {} THEN first ELSE {p \in Persons : <<p, v>> \in ids}

Tiers(w) == <<{w.person} \ {None}, ByUser(w.user), ByAddress(w.email), ByAddress(w.phone)>>
Hit(w) == {n \in 1..4 : Tiers(w)[n] # {}}
FirstHit(w) == CHOOSE n \in Hit(w) : \A m \in Hit(w) : n <= m
Found(w) == IF Hit(w) = {} THEN {None} ELSE Tiers(w)[FirstHit(w)]

\* A resolution under way: who, the row found, that row as read, and the identifiers it lacks.
\* Mutant: only those of a new row are stored.
MissingOfNew(p, w) == {v \in AddressesOf(w) : p = None}
Missing(p, w) == {v \in AddressesOf(w) : <<p, v>> \notin ids}
Resolution(w, p) ==
  [who |-> w, found |-> p, seen |-> IF p = None THEN NoPerson ELSE persons[p], need |-> Missing(p, w)]
NoResolution == [who |-> None, found |-> None, seen |-> NoPerson, need |-> {}]

\* Columns whose value the session did not change are not written.
Filled(now, seen, value) == IF seen = None /\ value # None THEN value ELSE now
Revised(now, seen, w) ==
  [there |-> now.there, user |-> Filled(now.user, seen.user, w.user),
   email |-> Filled(now.email, seen.email, w.email), phone |-> Filled(now.phone, seen.phone, w.phone),
   relationship |-> LET merged == Merge(seen.relationship, w.relationship)
                    IN IF merged # seen.relationship THEN merged ELSE now.relationship]
\* Mutant: address and number are swapped.
Swapped(w) == [there |-> TRUE, user |-> w.user, email |-> w.phone, phone |-> w.email,
               relationship |-> w.relationship]
Made(w) == [there |-> TRUE, user |-> w.user, email |-> w.email, phone |-> w.phone,
            relationship |-> w.relationship]
Foremost(S) == {x \in S : \A y \in S : x <= y}
Fresh == Foremost({p \in Persons : ~persons[p].there})
Rows(k) == IF k.found = None THEN Fresh ELSE {k.found}
RowAfter(k, p) == IF k.found = None THEN Made(k.who) ELSE Revised(persons[p], k.seen, k.who)

\* The unique keys: an account is linked once, an identifier is somebody's once.
Linked(p, row) == row.user # None /\ \E q \in Persons \ {p} : persons[q].user = row.user
\* Mutant: only the same person's identifiers are unique.
TakenHere(p, need) == \E v \in need : <<p, v>> \in ids
Taken(p, need) == \E v \in need, q \in Persons : <<q, v>> \in ids
Refused(k, p) == Linked(p, RowAfter(k, p)) \/ Taken(p, k.need)

Resolve(k, p) ==
  /\ persons' = [persons EXCEPT ![p] = RowAfter(k, p)]
  /\ ids' = ids \cup {<<p, v>> : v \in k.need}

(* ---- calls ---- *)
\* on: the row a call is about; view: that row as the session knows it; arg: what it was asked for.
Linking(pc, on, view, arg, link) == [pc |-> pc, on |-> on, view |-> view, arg |-> arg, link |-> link]
Call(pc, on, view, arg) == Linking(pc, on, view, arg, NoResolution)
Blank == Call("idle", None, None, None)
Over == Call("done", None, None, None)
Flying == {c \in Calls : call[c].pc \notin {"idle", "done"}}
Turn(c) == call[c].pc = "idle" /\ \A d \in Calls : d < c => call[d].pc # "idle"
Finish(c) == call' = [call EXCEPT ![c] = Over]

\* Resolutions that found the same row overlap.
Meeting(c, p) ==
  met' = met \cup {q \in Persons : q = p /\ \E d \in Flying \ {c} : call[d].link.found = q}
Finding(w, p) == byPhone' = byPhone \cup {q \in Persons : q = p /\ FirstHit(w) = 4}

\* Every row but a new one's e-mail address and phone number are identifiers of that row, so lookups by address are never ambiguous; an identifier is one row's (organization_person_service.py:446-480).
PrimaryIsIdentifier ==
  /\ \A p \in Persons : \A v \in {persons[p].email, persons[p].phone} \ {None} : <<p, v>> \in ids
  /\ \A x, y \in ids : x[2] = y[2] => x = y

\* What is known of how someone relates to the organization is never replaced by less (ORGANIZATION_PERSON_REGISTRY.md "Relationship promotion is monotonic"; organization_person_service.py:1078-1093), unless two resolutions of the person overlapped.
RelationshipNeverDemoted ==
  [][\A p \in Persons : persons[p].there /\ p \notin met =>
       Rank[persons[p].relationship] <= Rank[persons'[p].relationship]]_persons
================================================================================
