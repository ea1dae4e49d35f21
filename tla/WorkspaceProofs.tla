----------------------------- MODULE WorkspaceProofs -----------------------------
(***************************************************************************)
(* Whatever is resolved with one e-mail address belongs to one person, for *)
(* any accounts, invitations, requests and calls. An identifier is one     *)
(* row's, because it is inserted under a unique key; so it is enough that  *)
(* whoever is resolved with an address gets it as identifier, and that     *)
(* what a call under way knows stays true: identifiers are never removed   *)
(* and the addresses of invitations and requests never change.             *)
(***************************************************************************)
EXTENDS Workspace, FiniteSetTheorems, TLAPS

-----------------------------------------------------------------------------
(* The registry.                                                           *)

RegistryOK ==
  /\ persons \in [Persons -> Person]
  /\ ids \subseteq Persons \X (Emails \cup Phones)
  /\ PrimaryIsIdentifier

\* What a resolution under way knows: the addresses it will not insert were the row's.
LinkOK(k, I) ==
  /\ k.who \in Subject
  /\ k.found \in Persons \cup {None} /\ k.seen \in Person
  /\ k.need \subseteq AddressesOf(k.who)
  /\ \A v \in AddressesOf(k.who) : v \in k.need \/ (k.found # None /\ <<k.found, v>> \in I)

\* Knowledge of a resolution outlives the identifiers of others.
LEMMA LinkStays ==
  ASSUME NEW k, NEW I, NEW J, I \subseteq J, LinkOK(k, I)
  PROVE  LinkOK(k, J)
BY DEF LinkOK

\* A lookup finds rows of the registry, or nobody.
LEMMA FoundIsPerson ==
  ASSUME RegistryOK, NEW w \in Subject, NEW p \in Found(w)
  PROVE  p \in Persons \cup {None}
<1>1. CASE Hit(w) = {}
  BY <1>1 DEF Found
<1>2. CASE Hit(w) # {}
  <2>1. Hit(w) \subseteq 1..4
    BY DEF Hit
  <2>2. \E n \in Hit(w) : \A m \in Hit(w) : n <= m
    <3>1. PICK h \in Hit(w) : TRUE
      BY <1>2
    <3>2. h \in 1..4
      BY <2>1
    <3>3. CASE 1 \in Hit(w)
      BY <2>1, <3>3
    <3>4. CASE 1 \notin Hit(w) /\ 2 \in Hit(w)
      BY <2>1, <3>4
    <3>5. CASE 1 \notin Hit(w) /\ 2 \notin Hit(w) /\ 3 \in Hit(w)
      BY <2>1, <3>5
    <3>6. CASE 1 \notin Hit(w) /\ 2 \notin Hit(w) /\ 3 \notin Hit(w)
      BY <2>1, <3>2, <3>1, <3>6
    <3>. QED
      BY <3>3, <3>4, <3>5, <3>6
  <2>3. FirstHit(w) \in 1..4
    BY <2>1, <2>2 DEF FirstHit
  <2>4. \A n \in 1..4 : Tiers(w)[n] \subseteq Persons
    <3>1. {w.person} \ {None} \subseteq Persons
      BY DEF Subject
    <3>2. ByUser(w.user) \subseteq Persons /\ ByAddress(w.email) \subseteq Persons
          /\ ByAddress(w.phone) \subseteq Persons
      BY DEF ByUser, ByAddress
    <3>. QED
      BY <3>1, <3>2 DEF Tiers
  <2>. QED
    BY <1>2, <2>3, <2>4 DEF Found
<1>. QED
  BY <1>1, <1>2

\* A resolution that begins knows what it needs to know.
LEMMA LinkBegins ==
  ASSUME RegistryOK, NEW w \in Subject, NEW p \in Found(w)
  PROVE  LinkOK(Resolution(w, p), ids)
<1>1. p \in Persons \cup {None}
  BY FoundIsPerson
<1>2. NoPerson \in Person
  BY DEF NoPerson, Person, Relationship
<1>3. p # None => persons[p] \in Person
  BY <1>1 DEF RegistryOK
<1>4. Missing(p, w) \subseteq AddressesOf(w)
      /\ \A v \in AddressesOf(w) : v \in Missing(p, w) \/ <<p, v>> \in ids
  BY DEF Missing
<1>5. \A v : <<None, v>> \notin ids
  BY PeopleAssumption DEF RegistryOK
<1>. QED
  BY <1>1, <1>2, <1>3, <1>4, <1>5 DEF LinkOK, Resolution

\* A resolution that commits keeps the registry in order, and its address is the row's.
LEMMA ResolveKeeps ==
  ASSUME RegistryOK, NEW k, LinkOK(k, ids), NEW p \in Rows(k), ~Refused(k, p), Resolve(k, p)
  PROVE  /\ RegistryOK'
         /\ ids \subseteq ids'
         /\ p \in Persons
         /\ \A v \in AddressesOf(k.who) : <<p, v>> \in ids'
<1>1. p \in Persons
  BY DEF Rows, Fresh, Foremost, LinkOK
<1>2. AddressesOf(k.who) \subseteq Emails \cup Phones
  BY DEF LinkOK, Subject, AddressesOf
<1>3. ids' = ids \cup {<<p, v>> : v \in k.need}
  BY DEF Resolve
<1>4. \A v \in AddressesOf(k.who) : <<p, v>> \in ids'
  BY <1>3 DEF LinkOK, Rows
<1>5. ids' \subseteq Persons \X (Emails \cup Phones)
  BY <1>1, <1>2, <1>3 DEF LinkOK, RegistryOK
<1>6. RowAfter(k, p) \in Person
  <2>1. CASE k.found = None
    BY <2>1 DEF RowAfter, Made, LinkOK, Subject, Person
  <2>2. CASE k.found # None
    BY <2>2, <1>1 DEF RowAfter, Revised, Filled, Merge, LinkOK, Subject, Person, RegistryOK
  <2>. QED
    BY <2>1, <2>2
<1>7. persons' \in [Persons -> Person]
      /\ \A q \in Persons : persons'[q] = IF q = p THEN RowAfter(k, p) ELSE persons[q]
  BY <1>1, <1>6 DEF Resolve, RegistryOK
<1>8. {RowAfter(k, p).email, RowAfter(k, p).phone} \ {None}
        \subseteq AddressesOf(k.who) \cup ({persons[p].email, persons[p].phone} \ {None})
  <2>1. CASE k.found = None
    BY <2>1 DEF RowAfter, Made, AddressesOf
  <2>2. CASE k.found # None
    BY <2>2, <1>1 DEF RowAfter, Revised, Filled, AddressesOf, RegistryOK, Person
  <2>. QED
    BY <2>1, <2>2
<1>9. \A q \in Persons : \A v \in {persons'[q].email, persons'[q].phone} \ {None} : <<q, v>> \in ids'
  BY <1>1, <1>3, <1>4, <1>7, <1>8 DEF RegistryOK, PrimaryIsIdentifier
<1>10. \A x, y \in ids' : x[2] = y[2] => x = y
  <2>1. \A v \in k.need, q \in Persons : <<q, v>> \notin ids
    BY DEF Refused, Taken
  <2>2. \A x \in ids : x[2] \notin k.need
    BY <2>1 DEF RegistryOK
  <2>. QED
    BY <1>3, <2>2 DEF RegistryOK, PrimaryIsIdentifier
<1>. QED
  BY <1>1, <1>3, <1>4, <1>5, <1>7, <1>9, <1>10 DEF RegistryOK, PrimaryIsIdentifier

-----------------------------------------------------------------------------
(* Invitations, requests and the calls about them.                         *)

Backed(x, I) == x.person # None => <<x.person, x.email>> \in I
RowsIs(inv, req, I) ==
  /\ inv \in [Invites -> Invite] /\ req \in [Requests -> Request]
  /\ \A i \in Invites : (inv[i].there => inv[i].email # None) /\ Backed(inv[i], I)
  /\ \A r \in Requests : (req[r].there => req[r].email # None) /\ Backed(req[r], I)

OnInvites == {"sync", "link", "accept", "deliver", "open", "cancel", "expire", "delete"}
\* What a call under way knows of the rows it is about.
CallIs(k, inv, req, I) ==
  /\ k.pc \in {"link", "request", "consent"} => LinkOK(k.link, I)
  /\ k.pc \in OnInvites => k.on \in Invites /\ inv[k.on].email # None
  /\ k.pc \in {"sync", "accept"} => k.view \in Invite /\ k.view.email = inv[k.on].email
  /\ k.pc = "accept" => k.arg \in Users
  /\ k.pc = "link" => k.link.who.email = inv[k.on].email
  /\ k.pc = "draft" => k.view \in Request /\ k.view.person = None /\ k.view.email # None
  /\ k.pc = "request" => k.view \in Request /\ k.view.email = k.link.who.email
  /\ k.pc = "consent" => /\ k.on \in Requests /\ req[k.on].email = k.link.who.email
                         /\ k.view.user \in Users \cup {None}

CallsIs(cs, inv, req, I) ==
  cs = [c \in Calls |-> cs[c]] /\ \A c \in Calls : CallIs(cs[c], inv, req, I)

IInv == RegistryOK /\ RowsIs(invites, requests, ids) /\ CallsIs(call, invites, requests, ids)

\* Addresses, once known, stay.
EmailsStay ==
  /\ \A i \in Invites : invites[i].email # None => invites'[i].email = invites[i].email
  /\ \A r \in Requests : requests[r].email # None => requests'[r].email = requests[r].email

\* What a call knows outlives what the others write.
LEMMA KnowledgeStays ==
  ASSUME ids \subseteq ids', EmailsStay, NEW k, CallIs(k, invites, requests, ids)
  PROVE  CallIs(k, invites', requests', ids')
<1>1. k.pc \in {"link", "request", "consent"} => LinkOK(k.link, ids')
  BY LinkStays DEF CallIs
<1>2. k.pc \in OnInvites => k.on \in Invites /\ invites'[k.on].email = invites[k.on].email
  BY DEF CallIs, EmailsStay
<1>3. k.pc = "consent" => requests'[k.on].email = requests[k.on].email
  <2>1. SUFFICES ASSUME k.pc = "consent"
                 PROVE  requests'[k.on].email = requests[k.on].email
    OBVIOUS
  <2>2. k.on \in Requests /\ requests[k.on].email = k.link.who.email
    BY <2>1 DEF CallIs
  <2>3. k.link.who.email # None
    BY <2>1, PeopleAssumption DEF CallIs, LinkOK, Subject
  <2>. QED
    BY <2>2, <2>3 DEF EmailsStay
<1>. QED
  BY <1>1, <1>2, <1>3 DEF CallIs, OnInvites

\* A step of one call: the rows stay in order, and that call knows what it should.
LEMMA StepOfCall ==
  ASSUME IInv, RegistryOK', ids \subseteq ids', EmailsStay, RowsIs(invites, requests, ids)',
         NEW c \in Calls, NEW k, call' = [call EXCEPT ![c] = k],
         CallIs(k, invites', requests', ids')
  PROVE  IInv'
<1>1. call' = [d \in Calls |-> IF d = c THEN k ELSE call[d]]
  BY DEF IInv, CallsIs
<1>2. \A d \in Calls : CallIs(call[d], invites', requests', ids')
  BY KnowledgeStays DEF IInv, CallsIs
<1>3. CallsIs(call, invites, requests, ids)'
  BY <1>1, <1>2 DEF CallsIs
<1>. QED
  BY <1>3 DEF IInv

\* Rows of which no more is claimed than before.
Conserved(old, new) ==
  new.email = old.email /\ (new.there => old.there) /\ new.person \in {None, old.person}
RowsConserved ==
  /\ invites' \in [Invites -> Invite] /\ requests' \in [Requests -> Request]
  /\ \A i \in Invites : Conserved(invites[i], invites'[i])
  /\ \A r \in Requests : Conserved(requests[r], requests'[r])

LEMMA ConservedRows ==
  ASSUME IInv, UNCHANGED <<persons, ids>>, RowsConserved
  PROVE  RegistryOK' /\ RowsIs(invites, requests, ids)' /\ ids \subseteq ids' /\ EmailsStay
<1>1. RegistryOK'
  BY DEF IInv, RegistryOK, PrimaryIsIdentifier
<1>2. EmailsStay
  BY DEF RowsConserved, Conserved, EmailsStay
<1>3. RowsIs(invites', requests', ids')
  BY DEF IInv, RowsIs, RowsConserved, Conserved, Backed
<1>. QED
  BY <1>1, <1>2, <1>3

\* A step that makes no claim, and moves its call on.
LEMMA QuietStepOfCall ==
  ASSUME IInv, UNCHANGED <<persons, ids>>, RowsConserved,
         NEW c \in Calls, NEW k, call' = [call EXCEPT ![c] = k],
         CallIs(k, invites, requests, ids)
  PROVE  IInv'
BY ConservedRows, KnowledgeStays, StepOfCall

\* A step of none.
LEMMA QuietStepOfNone ==
  ASSUME IInv, UNCHANGED <<persons, ids>>, RowsConserved, call' = call
  PROVE  IInv'
<1>1. RegistryOK' /\ RowsIs(invites, requests, ids)' /\ ids \subseteq ids' /\ EmailsStay
  BY ConservedRows
<1>2. \A d \in Calls : CallIs(call[d], invites', requests', ids')
  BY <1>1, KnowledgeStays DEF IInv, CallsIs
<1>. QED
  BY <1>1, <1>2 DEF IInv, CallsIs

\* Calls that are over, or about something else, need to know nothing.
LEMMA Ignorant ==
  ASSUME NEW k, NEW inv, NEW req, NEW I,
         k.pc \in {"idle", "done", "widen", "revoke", "page", "record"}
  PROVE  CallIs(k, inv, req, I)
BY DEF CallIs, OnInvites

LEMMA OverIsIgnorant ==
  ASSUME NEW inv, NEW req, NEW I
  PROVE  CallIs(Over, inv, req, I)
BY Ignorant DEF Over, Call, Linking

\* Nothing is claimed when the rows are left alone.
LEMMA SameRows ==
  ASSUME IInv, invites' = invites, requests' = requests
  PROVE  RowsConserved
BY DEF IInv, RowsIs, RowsConserved, Conserved

\* Deleted invitations leave their requests alone but for the reference.
LEMMA UnreferencedRequests ==
  ASSUME IInv, requests' = Unreferenced
  PROVE  /\ requests' \in [Requests -> Request]
         /\ \A r \in Requests : Conserved(requests[r], requests'[r])
<1>1. \A r \in Requests : requests[r] \in Request
  BY DEF IInv, RowsIs
<1>2. ASSUME NEW r \in Requests
      PROVE  requests'[r] \in Request /\ Conserved(requests[r], requests'[r])
  <2>1. PICK v \in Invites \cup {None} : requests'[r] = [requests[r] EXCEPT !.invite = v]
    <3>1. requests[r].invite \in Invites \cup {None}
      BY <1>1 DEF Request
    <3>2. requests'[r] = [requests[r] EXCEPT !.invite =
                            IF requests[r].invite # None /\ ~invites'[requests[r].invite].there
                            THEN None ELSE requests[r].invite]
      BY DEF Unreferenced
    <3>. QED
      BY <3>1, <3>2
  <2>2. requests'[r] \in Request
    BY <1>1, <2>1 DEF Request
  <2>3. requests'[r].email = requests[r].email /\ requests'[r].there = requests[r].there
        /\ requests'[r].person = requests[r].person
    BY <1>1, <2>1 DEF Request
  <2>. QED
    BY <2>2, <2>3 DEF Conserved
<1>. QED
  BY <1>2 DEF Unreferenced

-----------------------------------------------------------------------------
(* The actions on invitations.                                             *)

LEMMA InvitesUntouched ==
  ASSUME IInv, requests' = Unreferenced, invites' = invites
  PROVE  RowsConserved
<1>1. \A j \in Invites : Conserved(invites[j], invites'[j])
  BY DEF Conserved
<1>2. invites' \in [Invites -> Invite]
  BY DEF IInv, RowsIs
<1>. QED
  BY <1>1, <1>2, UnreferencedRequests DEF RowsConserved

LEMMA Begins ==
  ASSUME IInv, UNCHANGED requests, NEW c \in Calls, NEW i \in Invites, invites[i].there,
         NEW pc \in OnInvites \ {"link"}, NEW arg, pc = "accept" => arg \in Users,
         BeginOn(c, i, pc, arg)
  PROVE  IInv'
<1>1. CallIs(Call(pc, i, invites[i], arg), invites, requests, ids)
  BY DEF CallIs, Call, Linking, OnInvites, IInv, RowsIs
<1>2. RowsConserved /\ UNCHANGED <<persons, ids>>
  BY SameRows DEF BeginOn
<1>. QED
  BY <1>1, <1>2, QuietStepOfCall DEF BeginOn

LEMMA CreateInvitationKeeps ==
  ASSUME IInv, UNCHANGED requests, NEW c \in Calls, CreateInvitation(c)
  PROVE  IInv'
<1>1. PICK i \in Foremost({j \in Invites : invites[j] = NoInvite}), e \in Emails,
           t \in Phones \cup {None}, mode \in {"draft", "send"} :
        /\ invites' = [invites EXCEPT ![i] = NewInvite(e, t, mode)]
        /\ call' = [call EXCEPT ![c] = Call("sync", i, NewInvite(e, t, mode), mode)]
  BY DEF CreateInvitation
<1> DEFINE row == NewInvite(e, t, mode)
<1>2. i \in Invites /\ invites[i] = NoInvite
  BY DEF Foremost
<1>3. row \in Invite /\ row.email = e /\ row.person = None /\ e # None
  BY PeopleAssumption DEF NewInvite, NoInvite, Invite
<1>4. invites' = [invites EXCEPT ![i] = row] /\ call' = [call EXCEPT ![c] = Call("sync", i, row, mode)]
  BY <1>1
<1> HIDE DEF row
<1>5. RegistryOK' /\ ids \subseteq ids'
  BY DEF CreateInvitation, OnlyInvites, IInv, RegistryOK, PrimaryIsIdentifier
<1>6. invites' \in [Invites -> Invite] /\ \A j \in Invites : invites'[j] = IF j = i THEN row ELSE invites[j]
  BY <1>2, <1>3, <1>4 DEF IInv, RowsIs
<1>7. EmailsStay
  BY <1>2, <1>6 DEF EmailsStay, NoInvite
<1>8. ids' = ids
  BY DEF CreateInvitation, OnlyInvites
<1>9. RowsIs(invites', requests', ids')
  BY <1>3, <1>6, <1>8 DEF IInv, RowsIs, Backed
<1>10. CallIs(Call("sync", i, row, mode), invites', requests', ids')
  BY <1>2, <1>3, <1>6 DEF CallIs, Call, Linking, OnInvites
<1>. QED
  BY <1>4, <1>5, <1>7, <1>9, <1>10, StepOfCall

LEMMA SyncKeeps ==
  ASSUME IInv, requests' = Unreferenced, NEW c \in Calls, Sync(c)
  PROVE  IInv'
<1>1. RowsConserved /\ UNCHANGED <<persons, ids>>
  BY InvitesUntouched DEF Sync, inviteVars
<1>2. CASE Finish(c)
  BY <1>1, <1>2, OverIsIgnorant, QuietStepOfCall DEF Finish
<1>3. ASSUME NEW p \in Found(Invited(call[c].view)),
             call' = [call EXCEPT ![c] = Linking("link", call[c].on, call[c].view, call[c].arg,
                                                 Resolution(Invited(call[c].view), p))]
      PROVE  IInv'
  <2> DEFINE w == Invited(call[c].view)
             k == Linking("link", call[c].on, call[c].view, call[c].arg, Resolution(w, p))
  <2>1. call[c].on \in Invites /\ invites[call[c].on].email # None /\ call[c].view \in Invite
        /\ call[c].view.email = invites[call[c].on].email
    BY DEF Sync, IInv, CallsIs, CallIs, OnInvites
  <2>2. w \in Subject /\ w.email = call[c].view.email
    BY <2>1 DEF Invited, Who, Subject, Invite, Relationship
  <2>3. LinkOK(Resolution(w, p), ids)
    BY <1>3, <2>2, LinkBegins DEF IInv
  <2>4. CallIs(k, invites, requests, ids)
    BY <2>1, <2>2, <2>3 DEF CallIs, Linking, OnInvites, Resolution
  <2>. QED
    BY <1>1, <1>3, <2>4, QuietStepOfCall
<1>. QED
  BY <1>2, <1>3 DEF Sync

LEMMA SyncFailsKeeps ==
  ASSUME IInv, requests' = Unreferenced, NEW c \in Calls, SyncFails(c)
  PROVE  IInv'
<1>1. RowsConserved /\ UNCHANGED <<persons, ids>>
  BY InvitesUntouched DEF SyncFails, inviteVars
<1>2. call[c].on \in Invites /\ invites[call[c].on].email # None
  BY DEF SyncFails, IInv, CallsIs, CallIs, OnInvites
<1>3. PICK pc \in {"deliver", "done"} :
        call' = [call EXCEPT ![c] = Call(pc, call[c].on, invites[call[c].on], call[c].arg)]
  BY DEF SyncFails, Enter, AfterLink
<1>4. CallIs(Call(pc, call[c].on, invites[call[c].on], call[c].arg), invites, requests, ids)
  BY <1>2 DEF CallIs, Call, Linking, OnInvites
<1>. QED
  BY <1>1, <1>3, <1>4, QuietStepOfCall

\* One invitation rewritten, and no more claimed of it.
LEMMA InviteRewritten ==
  ASSUME IInv, requests' = Unreferenced, NEW i \in Invites, NEW v \in Invite,
         invites' = [invites EXCEPT ![i] = v], Conserved(invites[i], v)
  PROVE  RowsConserved
<1>1. invites' \in [Invites -> Invite] /\ \A j \in Invites : invites'[j] = IF j = i THEN v ELSE invites[j]
  BY DEF IInv, RowsIs
<1>2. \A j \in Invites : Conserved(invites[j], invites'[j])
  BY <1>1 DEF Conserved
<1>. QED
  BY <1>1, <1>2, UnreferencedRequests DEF RowsConserved

LEMMA DeliverKeeps ==
  ASSUME IInv, requests' = Unreferenced, NEW c \in Calls, Deliver(c)
  PROVE  IInv'
<1>1. call[c].on \in Invites
  BY DEF Deliver, IInv, CallsIs, CallIs, OnInvites
<1>2. invites[call[c].on] \in Invite
  BY <1>1 DEF IInv, RowsIs
<1>3. PICK s \in {"pending", invites[call[c].on].status}, d \in {"queued", "failed", invites[call[c].on].delivery} :
        invites' = [invites EXCEPT ![call[c].on] = [invites[call[c].on] EXCEPT !.status = s, !.delivery = d]]
  <2>1. PICK result \in {"queued", "failed"} :
          invites' = [invites EXCEPT ![call[c].on].status = IF call[c].arg = "pending" THEN "pending" ELSE @,
                                     ![call[c].on].delivery = IF call[c].view.delivery # result THEN result ELSE @]
    BY DEF Deliver
  <2> DEFINE s == IF call[c].arg = "pending" THEN "pending" ELSE invites[call[c].on].status
             d == IF call[c].view.delivery # result THEN result ELSE invites[call[c].on].delivery
  <2>2. invites' = [invites EXCEPT ![call[c].on] = [invites[call[c].on] EXCEPT !.status = s, !.delivery = d]]
    BY <1>1, <1>2, <2>1 DEF IInv, RowsIs, Invite
  <2>. QED
    BY <2>2
<1> DEFINE v == [invites[call[c].on] EXCEPT !.status = s, !.delivery = d]
<1>4. v \in Invite
  BY <1>2 DEF Invite
<1>5. Conserved(invites[call[c].on], v)
  BY <1>2 DEF Invite, Conserved
<1>6. RowsConserved
  BY <1>1, <1>3, <1>4, <1>5, InviteRewritten
<1>. QED
  BY <1>6, OverIsIgnorant, QuietStepOfCall DEF Deliver, Finish, OnlyInvites

LEMMA ReconcileKeeps ==
  ASSUME IInv, requests' = Unreferenced, Reconcile
  PROVE  IInv'
<1>1. PICK i \in Invites, d \in {"queued", "delivered", "failed"} :
        invites' = [invites EXCEPT ![i] = [invites[i] EXCEPT !.delivery = d]]
  <2>1. PICK i \in Invites, sent \in BOOLEAN :
          invites' = [invites EXCEPT ![i].delivery =
                        IF ~invites[i].there THEN @ ELSE IF sent THEN "delivered" ELSE AfterFailure(@)]
    BY DEF Reconcile
  <2>2. invites[i] \in Invite
    BY DEF IInv, RowsIs
  <2> DEFINE d == IF ~invites[i].there THEN invites[i].delivery
                  ELSE IF sent THEN "delivered" ELSE AfterFailure(invites[i].delivery)
  <2>3. invites' = [invites EXCEPT ![i] = [invites[i] EXCEPT !.delivery = d]]
    BY <2>1, <2>2 DEF IInv, RowsIs, Invite
  <2>4. d \in {"queued", "delivered", "failed"}
    BY <2>2 DEF Invite, AfterFailure
  <2>. QED
    BY <2>3, <2>4
<1>2. invites[i] \in Invite
  BY DEF IInv, RowsIs
<1> DEFINE v == [invites[i] EXCEPT !.delivery = d]
<1>3. v \in Invite /\ Conserved(invites[i], v)
  BY <1>2 DEF Invite, Conserved
<1>4. RowsConserved
  BY <1>1, <1>3, InviteRewritten
<1>. QED
  BY <1>4, QuietStepOfNone DEF Reconcile, OnlyInvites

LEMMA DeadlinePassesKeeps ==
  ASSUME IInv, requests' = Unreferenced, DeadlinePasses
  PROVE  IInv'
<1>1. PICK i \in Invites : invites' = [invites EXCEPT ![i].lapsed = TRUE]
  BY DEF DeadlinePasses
<1>2. invites[i] \in Invite
  BY DEF IInv, RowsIs
<1> DEFINE v == [invites[i] EXCEPT !.lapsed = TRUE]
<1>3. v \in Invite /\ Conserved(invites[i], v)
  BY <1>2 DEF Invite, Conserved
<1>4. invites' = [invites EXCEPT ![i] = v]
  BY <1>1
<1>5. RowsConserved
  BY <1>4, <1>3, InviteRewritten
<1>. QED
  BY <1>5, QuietStepOfNone DEF DeadlinePasses, OnlyInvites

LEMMA CommitAcceptKeeps ==
  ASSUME IInv, requests' = Unreferenced, NEW c \in Calls, CommitAccept(c)
  PROVE  IInv'
<1>1. /\ call[c].on \in Invites /\ invites[call[c].on].email # None /\ call[c].view \in Invite
      /\ call[c].view.email = invites[call[c].on].email /\ call[c].arg \in Users
  BY DEF CommitAccept, IInv, CallsIs, CallIs, OnInvites
<1> DEFINE i == call[c].on
           v == Accepted(invites[i], call[c].arg)
           w == Accepted(call[c].view, call[c].arg)
<1>2. invites[i] \in Invite
  BY <1>1 DEF IInv, RowsIs
<1>3. v \in Invite /\ Conserved(invites[i], v)
  BY <1>1, <1>2 DEF Invite, Conserved, Accepted
<1>4. invites' = [invites EXCEPT ![i] = v]
  BY DEF CommitAccept
<1>5. RowsConserved
  BY <1>1, <1>3, <1>4, InviteRewritten
<1>6. w \in Invite /\ w.email = call[c].view.email
  BY <1>1 DEF Invite, Accepted
<1>7. CallIs(Call("sync", i, w, call[c].arg), invites, requests, ids)
  BY <1>1, <1>6 DEF CallIs, Call, Linking, OnInvites
<1>8. call' = [call EXCEPT ![c] = Call("sync", i, w, call[c].arg)]
  BY DEF CommitAccept, Enter
<1>9. UNCHANGED <<persons, ids>>
  BY DEF CommitAccept, OnlyInvites
<1> HIDE DEF w
<1>. QED
  BY <1>5, <1>7, <1>8, <1>9, QuietStepOfCall

LEMMA CommitWriteKeeps ==
  ASSUME IInv, requests' = Unreferenced, NEW c \in Calls, CommitWrite(c)
  PROVE  IInv'
<1>1. call[c].on \in Invites
  BY DEF CommitWrite, IInv, CallsIs, CallIs, OnInvites
<1>2. invites[call[c].on] \in Invite
  BY <1>1 DEF IInv, RowsIs
<1>3. Written(call[c]) \in Invite /\ Conserved(invites[call[c].on], Written(call[c]))
  <2>1. CASE call[c].pc = "open"
    BY <1>2, <2>1 DEF Written, Invite, Conserved
  <2>2. CASE call[c].pc = "cancel"
    BY <1>2, <2>2 DEF Written, Invite, Conserved
  <2>3. CASE call[c].pc = "expire"
    BY <1>2, <2>3 DEF Written, Invite, Conserved
  <2>. QED
    BY <2>1, <2>2, <2>3 DEF CommitWrite
<1>4. RowsConserved
  BY <1>1, <1>3, InviteRewritten DEF CommitWrite
<1>. QED
  BY <1>4, OverIsIgnorant, QuietStepOfCall DEF CommitWrite, Finish, OnlyInvites

LEMMA CommitDeleteInvitationKeeps ==
  ASSUME IInv, requests' = Unreferenced, NEW c \in Calls, CommitDeleteInvitation(c)
  PROVE  IInv'
<1>1. call[c].on \in Invites
  BY DEF CommitDeleteInvitation, IInv, CallsIs, CallIs, OnInvites
<1>2. invites[call[c].on] \in Invite
  BY <1>1 DEF IInv, RowsIs
<1> DEFINE v == [NoInvite EXCEPT !.email = invites[call[c].on].email]
<1>3. v \in Invite /\ Conserved(invites[call[c].on], v)
  BY <1>2 DEF Invite, NoInvite, Conserved
<1>4. invites' = [invites EXCEPT ![call[c].on] = v]
  BY DEF CommitDeleteInvitation
<1>5. RowsConserved
  BY <1>1, <1>3, <1>4, InviteRewritten
<1>. QED
  BY <1>5, OverIsIgnorant, QuietStepOfCall DEF CommitDeleteInvitation, Finish, OnlyInvites

LEMMA GoneKeeps ==
  ASSUME IInv, requests' = Unreferenced, NEW c \in Calls, Gone(c)
  PROVE  IInv'
BY InvitesUntouched, OverIsIgnorant, QuietStepOfCall DEF Gone, Finish, inviteVars

LEMMA CutShortKeeps ==
  ASSUME IInv, UNCHANGED requests, NEW c \in Calls, CutShort(c)
  PROVE  IInv'
BY SameRows, OverIsIgnorant, QuietStepOfCall DEF CutShort, Finish

LEMMA CommitSyncKeeps ==
  ASSUME IInv, requests' = Unreferenced, NEW c \in Calls, CommitSync(c)
  PROVE  IInv'
<1> DEFINE k == call[c]
<1>1. k.on \in Invites /\ invites[k.on].email # None /\ k.link.who.email = invites[k.on].email /\ LinkOK(k.link, ids)
  BY DEF CommitSync, IInv, CallsIs, CallIs, OnInvites
<1>2. PICK p \in Rows(k.link) :
        /\ ~Refused(k.link, p) /\ Resolve(k.link, p)
        /\ invites' = [invites EXCEPT ![k.on].person = IF k.view.person # p THEN p ELSE @]
        /\ Enter(c, AfterLink(k), [k.view EXCEPT !.person = p])
  BY DEF CommitSync
<1>3. RegistryOK' /\ ids \subseteq ids' /\ p \in Persons /\ <<p, invites[k.on].email>> \in ids'
  <2>1. invites[k.on].email \in AddressesOf(k.link.who)
    BY <1>1 DEF AddressesOf
  <2>. QED
    BY <1>1, <1>2, <2>1, ResolveKeeps DEF IInv
<1>4. invites[k.on] \in Invite /\ Backed(invites[k.on], ids)
  BY <1>1 DEF IInv, RowsIs
<1>5. PICK q \in {p, invites[k.on].person} :
        invites' = [invites EXCEPT ![k.on] = [invites[k.on] EXCEPT !.person = q]]
  BY <1>2
<1> DEFINE v == [invites[k.on] EXCEPT !.person = q]
<1>6. /\ v \in Invite /\ v.email = invites[k.on].email /\ v.there = invites[k.on].there
      /\ Backed(v, ids')
  BY <1>3, <1>4 DEF Invite, Backed
<1>7. invites' \in [Invites -> Invite] /\ \A j \in Invites : invites'[j] = IF j = k.on THEN v ELSE invites[j]
  BY <1>1, <1>5, <1>6 DEF IInv, RowsIs
<1>8. EmailsStay
  BY <1>6, <1>7, UnreferencedRequests DEF EmailsStay, Conserved
<1>9. \A r \in Requests : (requests'[r].there => requests'[r].email # None) /\ Backed(requests'[r], ids')
  BY <1>3, UnreferencedRequests DEF IInv, RowsIs, Backed, Conserved
<1>10. \A i \in Invites : (invites'[i].there => invites'[i].email # None) /\ Backed(invites'[i], ids')
  <2> HIDE DEF v
  <2>1. v.there => v.email # None
    BY <1>1, <1>6
  <2>2. \A i \in Invites : (invites[i].there => invites[i].email # None) /\ Backed(invites[i], ids')
    BY <1>3 DEF IInv, RowsIs, Backed
  <2>. QED
    BY <1>6, <1>7, <2>1, <2>2
<1>11. RowsIs(invites', requests', ids')
  BY <1>7, <1>9, <1>10, UnreferencedRequests DEF RowsIs
<1> DEFINE w == [k.view EXCEPT !.person = p]
<1>12. PICK pc \in {"deliver", "done"} : call' = [call EXCEPT ![c] = Call(pc, k.on, w, k.arg)]
  BY <1>2 DEF Enter, AfterLink
<1>13. invites'[k.on].email # None
  BY <1>1, <1>6, <1>7
<1>14. CallIs(Call(pc, k.on, w, k.arg), invites', requests', ids')
  BY <1>1, <1>13 DEF CallIs, Call, Linking, OnInvites
<1>. QED
  BY <1>3, <1>8, <1>11, <1>12, <1>14, StepOfCall

-----------------------------------------------------------------------------
(* The actions on requests.                                                *)

\* A resolution for a request begins.
LEMMA ResolvingKeeps ==
  ASSUME IInv, NEW c \in Calls, NEW v \in Request, v.email # None,
         NEW pc, NEW r, pc = "request" \/ (pc = "consent" /\ r \in Requests /\ requests[r].email = v.email),
         NEW p \in Found(Applicant(v)), Resolving(c, pc, r, v, p)
  PROVE  IInv'
<1>1. UNCHANGED <<persons, ids>> /\ RowsConserved
  BY SameRows DEF Resolving, inviteVars
<1> DEFINE w == Applicant(v)
           k == Linking(pc, r, v, None, Resolution(w, p))
<1>2. w \in Subject /\ w.email = v.email
  BY PeopleAssumption DEF Applicant, Who, Subject, Request, Relationship, PhoneOfSubject
<1>3. LinkOK(Resolution(w, p), ids)
  BY <1>2, LinkBegins DEF IInv
<1>4. CallIs(k, invites, requests, ids)
  BY <1>2, <1>3 DEF CallIs, Linking, OnInvites, Resolution, Request
<1>. QED
  BY <1>1, <1>4, QuietStepOfCall DEF Resolving

LEMMA DraftRequestKeeps ==
  ASSUME IInv, NEW c \in Calls, DraftRequest(c)
  PROVE  IInv'
<1>1. UNCHANGED <<persons, ids>> /\ RowsConserved
  BY SameRows DEF DraftRequest, inviteVars
<1>2. PICK x \in Claims, u \in Users :
        call' = [call EXCEPT ![c] =
          Call("draft", None, [NewRequest(u, EmailOf[u], "pending_subject_submission", FALSE)
                                 EXCEPT !.claim = x], None)]
  BY DEF DraftRequest
<1> DEFINE v == [NewRequest(u, EmailOf[u], "pending_subject_submission", FALSE) EXCEPT !.claim = x]
<1>3. v \in Request /\ v.person = None /\ v.email # None
  <2>1. EmailOf[u] \in Emails /\ EmailOf[u] # None
    BY PeopleAssumption
  <2>. QED
    BY <2>1 DEF NewRequest, NoRequest, Request
<1> HIDE DEF v
<1>4. CallIs(Call("draft", None, v, None), invites, requests, ids)
  BY <1>3 DEF CallIs, Call, Linking, OnInvites
<1>. QED
  BY <1>1, <1>2, <1>4, QuietStepOfCall DEF v

LEMMA FromInvitationKeeps ==
  ASSUME IInv, NEW c \in Calls, FromInvitation(c)
  PROVE  IInv'
<1> DEFINE V(i, u) == [NewRequest(u, invites[i].email,
                              IF invites[i].by # None THEN "pending_subject_submission"
                              ELSE "pending_subject_acceptance", TRUE)
                     EXCEPT !.invite = i, !.person = invites[i].person]
<1>1. PICK i \in Invites : /\ invites[i].there
         /\ \E u \in IF invites[i].by # None THEN {invites[i].by} ELSE SubjectsOf(invites[i].email) :
              \E p \in Found(Applicant(V(i, u))) : Resolving(c, "request", None, V(i, u), p)
  BY DEF FromInvitation
<1>2. PICK u \in IF invites[i].by # None THEN {invites[i].by} ELSE SubjectsOf(invites[i].email) :
         \E p \in Found(Applicant(V(i, u))) : Resolving(c, "request", None, V(i, u), p)
  BY <1>1
<1>3. invites[i] \in Invite /\ invites[i].email # None
  BY <1>1 DEF IInv, RowsIs
<1>4. u \in Users \cup {None}
  BY <1>3 DEF SubjectsOf, Invite
<1>5. V(i, u) \in Request /\ V(i, u).email = invites[i].email
  BY <1>3, <1>4 DEF NewRequest, NoRequest, Request, Invite
<1> HIDE DEF V
<1>6. PICK v \in Request : v.email # None /\ \E p \in Found(Applicant(v)) : Resolving(c, "request", None, v, p)
  BY <1>2, <1>3, <1>5
<1>. QED
  BY <1>6, ResolvingKeeps

LEMMA CreateRequestKeeps ==
  ASSUME IInv, NEW c \in Calls, CreateRequest(c)
  PROVE  IInv'
<1> DEFINE V(u, e) == NewRequest(u, e, "pending_subject_acceptance", TRUE)
<1>0. PICK e \in Emails : \E u \in SubjectsOf(e) :
         \E p \in Found(Applicant(V(u, e))) : Resolving(c, "request", None, V(u, e), p)
  BY DEF CreateRequest
<1>1. PICK u \in SubjectsOf(e) :
         \E p \in Found(Applicant(V(u, e))) : Resolving(c, "request", None, V(u, e), p)
  BY <1>0
<1>2. V(u, e) \in Request /\ V(u, e).email = e /\ e # None
  BY PeopleAssumption DEF NewRequest, NoRequest, Request, SubjectsOf
<1> HIDE DEF V
<1>6. PICK v \in Request : v.email # None /\ \E p \in Found(Applicant(v)) : Resolving(c, "request", None, v, p)
  BY <1>1, <1>2
<1>. QED
  BY <1>6, ResolvingKeeps

LEMMA SubjectRequestKeeps ==
  ASSUME IInv, NEW c \in Calls, SubjectRequest(c)
  PROVE  IInv'
<1> DEFINE V(u) == NewRequest(u, EmailOf[u], "pending_subject_submission", TRUE)
<1>1. PICK u \in Users : \E p \in Found(Applicant(V(u))) : Resolving(c, "request", None, V(u), p)
  BY DEF SubjectRequest
<1>2. V(u) \in Request /\ V(u).email # None
  <2>1. EmailOf[u] \in Emails /\ EmailOf[u] # None
    BY PeopleAssumption
  <2>. QED
    BY <2>1 DEF NewRequest, NoRequest, Request
<1> HIDE DEF V
<1>6. PICK v \in Request : v.email # None /\ \E p \in Found(Applicant(v)) : Resolving(c, "request", None, v, p)
  BY <1>1, <1>2
<1>. QED
  BY <1>6, ResolvingKeeps

LEMMA AcceptRequestKeeps ==
  ASSUME IInv, NEW c \in Calls, AcceptRequest(c)
  PROVE  IInv'
<1> DEFINE V(r, u) == [requests[r] EXCEPT !.user = IF @ = None THEN u ELSE @]
<1>1. PICK r \in Requests, u \in Users :
         requests[r].there /\ \E p \in Found(Applicant(V(r, u))) : Resolving(c, "consent", r, V(r, u), p)
  BY DEF AcceptRequest
<1>2. requests[r] \in Request /\ requests[r].email # None
  BY <1>1 DEF IInv, RowsIs
<1>3. V(r, u) \in Request /\ V(r, u).email = requests[r].email
  BY <1>2 DEF Request
<1> HIDE DEF V
<1>. QED
  BY <1>1, <1>2, <1>3, ResolvingKeeps

LEMMA FailsKeeps ==
  ASSUME IInv, NEW c \in Calls, Fails(c)
  PROVE  IInv'
BY SameRows, OverIsIgnorant, QuietStepOfCall DEF Fails, Finish, inviteVars

LEMMA DecideKeeps ==
  ASSUME IInv, Decide
  PROVE  IInv'
<1>1. PICK r \in Requests, s \in {"verified", "rejected"} : requests' = [requests EXCEPT ![r].status = s]
  BY DEF Decide
<1>2. requests[r] \in Request
  BY DEF IInv, RowsIs
<1> DEFINE v == [requests[r] EXCEPT !.status = s]
<1>3. v \in Request /\ Conserved(requests[r], v)
  BY <1>2 DEF Request, Conserved
<1>4. requests' \in [Requests -> Request] /\ \A q \in Requests : requests'[q] = IF q = r THEN v ELSE requests[q]
  BY <1>1, <1>3 DEF IInv, RowsIs
<1>5. invites' = invites /\ UNCHANGED <<persons, ids, call>>
  BY DEF Decide, inviteVars
<1>6. RowsConserved
  BY <1>3, <1>4, <1>5 DEF RowsConserved, Conserved, IInv, RowsIs
<1>. QED
  BY <1>5, <1>6, QuietStepOfNone

\* One request written, with an address and a person that has it.
LEMMA RequestWritten ==
  ASSUME IInv, RegistryOK', ids \subseteq ids', invites' = invites,
         NEW r \in Requests, NEW v \in Request, v.email # None, Backed(v, ids'),
         requests[r].email \in {None, v.email}, requests' = [requests EXCEPT ![r] = v]
  PROVE  RowsIs(invites, requests, ids)' /\ EmailsStay
<1>1. requests' \in [Requests -> Request] /\ \A q \in Requests : requests'[q] = IF q = r THEN v ELSE requests[q]
  BY DEF IInv, RowsIs
<1>2. \A i \in Invites : (invites'[i].there => invites'[i].email # None) /\ Backed(invites'[i], ids')
  BY DEF IInv, RowsIs, Backed
<1>3. \A q \in Requests : (requests'[q].there => requests'[q].email # None) /\ Backed(requests'[q], ids')
  <2>1. \A q \in Requests : (requests[q].there => requests[q].email # None) /\ Backed(requests[q], ids')
    BY DEF IInv, RowsIs, Backed
  <2>. QED
    BY <1>1, <2>1
<1>4. RowsIs(invites', requests', ids')
  BY <1>1, <1>2, <1>3 DEF IInv, RowsIs
<1>. QED
  BY <1>1, <1>4 DEF EmailsStay

LEMMA CommitDraftKeeps ==
  ASSUME IInv, NEW c \in Calls, CommitDraft(c)
  PROVE  IInv'
<1> DEFINE v == call[c].view
<1>1. v \in Request /\ v.person = None /\ v.email # None
  BY DEF CommitDraft, IInv, CallsIs, CallIs
<1>2. PICK r \in Requests : requests[r] = NoRequest /\ requests' = [requests EXCEPT ![r] = v]
  BY DEF CommitDraft, Free, Foremost
<1>3. RegistryOK' /\ ids \subseteq ids' /\ invites' = invites
  BY DEF CommitDraft, inviteVars, IInv, RegistryOK, PrimaryIsIdentifier
<1>4. Backed(v, ids')
  BY <1>1 DEF Backed
<1>5. requests[r].email = None
  BY <1>2 DEF NoRequest
<1> HIDE DEF v
<1>6. RowsIs(invites, requests, ids)' /\ EmailsStay
  BY <1>1, <1>2, <1>3, <1>4, <1>5, RequestWritten
<1>. QED
  BY <1>3, <1>6, OverIsIgnorant, StepOfCall DEF CommitDraft, Finish

LEMMA CommitRequestKeeps ==
  ASSUME IInv, NEW c \in Calls, CommitRequest(c)
  PROVE  IInv'
<1> DEFINE k == call[c]
<1>1. k.view \in Request /\ k.view.email = k.link.who.email /\ LinkOK(k.link, ids)
  BY DEF CommitRequest, IInv, CallsIs, CallIs
<1>2. PICK p \in Rows(k.link), r \in Free :
        /\ ~Refused(k.link, p) /\ Resolve(k.link, p)
        /\ requests' = [requests EXCEPT ![r] = [k.view EXCEPT !.person = p]]
  BY DEF CommitRequest
<1>3. k.link.who.email \in AddressesOf(k.link.who) /\ k.link.who.email # None
  BY <1>1, PeopleAssumption DEF LinkOK, Subject, AddressesOf
<1>4. RegistryOK' /\ ids \subseteq ids' /\ p \in Persons /\ <<p, k.link.who.email>> \in ids'
  BY <1>1, <1>2, <1>3, ResolveKeeps DEF IInv
<1> DEFINE v == [k.view EXCEPT !.person = p]
<1>5. v \in Request /\ v.email = k.link.who.email /\ Backed(v, ids')
  BY <1>1, <1>4 DEF Request, Backed
<1>6. r \in Requests /\ requests[r].email = None
  BY DEF Free, Foremost, NoRequest
<1> HIDE DEF v
<1>7. RowsIs(invites, requests, ids)' /\ EmailsStay
  <2>1. invites' = invites /\ requests' = [requests EXCEPT ![r] = v]
    BY <1>2 DEF CommitRequest, inviteVars, v
  <2>. QED
    BY <1>3, <1>4, <1>5, <1>6, <2>1, RequestWritten
<1>. QED
  BY <1>4, <1>7, OverIsIgnorant, StepOfCall DEF CommitRequest, Finish

LEMMA CommitConsentKeeps ==
  ASSUME IInv, NEW c \in Calls, CommitConsent(c)
  PROVE  IInv'
<1> DEFINE k == call[c]
           r == k.on
<1>1. /\ r \in Requests /\ requests[r].email = k.link.who.email /\ LinkOK(k.link, ids)
      /\ k.view.user \in Users \cup {None}
  BY DEF CommitConsent, IInv, CallsIs, CallIs
<1>2. PICK p \in Rows(k.link) :
        /\ ~Refused(k.link, p) /\ Resolve(k.link, p)
        /\ requests' = [requests EXCEPT ![r].status = "pending_subject_submission",
                                         ![r].user = k.view.user, ![r].person = p]
  BY DEF CommitConsent
<1>3. k.link.who.email \in AddressesOf(k.link.who) /\ k.link.who.email # None
  BY <1>1, PeopleAssumption DEF LinkOK, Subject, AddressesOf
<1>4. RegistryOK' /\ ids \subseteq ids' /\ p \in Persons /\ <<p, k.link.who.email>> \in ids'
  BY <1>1, <1>2, <1>3, ResolveKeeps DEF IInv
<1>5. requests[r] \in Request
  BY <1>1 DEF IInv, RowsIs
<1> DEFINE v == [requests[r] EXCEPT !.status = "pending_subject_submission",
                                    !.user = k.view.user, !.person = p]
<1>6. requests' = [requests EXCEPT ![r] = v]
  BY <1>1, <1>2, <1>5 DEF IInv, RowsIs, Request
<1>7. v \in Request /\ v.email = k.link.who.email /\ Backed(v, ids')
  BY <1>1, <1>4, <1>5 DEF Request, Backed
<1> HIDE DEF v
<1>8. RowsIs(invites, requests, ids)' /\ EmailsStay
  <2>1. invites' = invites
    BY DEF CommitConsent, inviteVars
  <2>. QED
    BY <1>1, <1>3, <1>4, <1>6, <1>7, <2>1, RequestWritten
<1>. QED
  BY <1>4, <1>8, OverIsIgnorant, StepOfCall DEF CommitConsent, Finish

-----------------------------------------------------------------------------
(* The whole.                                                              *)

LEMMA SharesLeaveRows ==
  ASSUME IInv, UNCHANGED beforeShares
  PROVE  RowsConserved /\ UNCHANGED <<persons, ids>>
BY SameRows DEF beforeShares, inviteVars

Elsewhere == {"done", "widen", "revoke", "page", "record"}
LEMMA StepOfShares ==
  ASSUME IInv, UNCHANGED beforeShares, NEW c \in Calls, NEW k,
         k.pc \in Elsewhere, call' = [call EXCEPT ![c] = k]
  PROVE  IInv'
<1>1. CallIs(k, invites, requests, ids)
  BY DEF CallIs, OnInvites, Elsewhere
<1>. QED
  BY <1>1, SharesLeaveRows, QuietStepOfCall

LEMMA SharesKeep ==
  ASSUME IInv, SharesNext
  PROVE  IInv'
<1>1. ASSUME NEW c \in Calls, UNCHANGED beforeShares, Finish(c)
      PROVE  IInv'
  <2> DEFINE k == Over
  <2>1. k.pc = "done"
    BY DEF Over, Call, Linking
  <2>2. call' = [call EXCEPT ![c] = k]
    BY <1>1 DEF Finish
  <2>3. k.pc \in Elsewhere
    BY <2>1 DEF Elsewhere
  <2> HIDE DEF k
  <2>. QED
    BY <1>1, <2>2, <2>3, StepOfShares
<1>2. ASSUME NEW c \in Calls, CreateShare(c) \/ CommitShare(c) \/ CommitView(c)
      PROVE  IInv'
  BY <1>1, <1>2 DEF CreateShare, CommitShare, CommitView
<1>3. ASSUME NEW c \in Calls, NEW s, NEW m, NEW pc \in {"widen", "revoke"}, Change(c, s, pc, m)
      PROVE  IInv'
  <2> DEFINE k == Call(pc, s, shares[s], m)
  <2>1. k.pc \in Elsewhere
    BY DEF Call, Linking, Elsewhere
  <2>2. call' = [call EXCEPT ![c] = k] /\ UNCHANGED beforeShares
    BY <1>3 DEF Change
  <2> HIDE DEF k
  <2>. QED
    BY <2>1, <2>2, StepOfShares
<1>4. ASSUME NEW c \in Calls, UpdateShare(c) \/ RevokeShare(c)
      PROVE  IInv'
  BY <1>3, <1>4 DEF UpdateShare, RevokeShare
<1>5. ASSUME NEW c \in Calls, OpenPassport(c)
      PROVE  IInv'
  <2>1. PICK s \in Shares, w \in Viewers : call' = [call EXCEPT ![c] = Call("page", s, shares[s], w)]
    BY <1>5 DEF OpenPassport
  <2> DEFINE k == Call("page", s, shares[s], w)
  <2>2. k.pc \in Elsewhere
    BY DEF Call, Linking, Elsewhere
  <2>3. call' = [call EXCEPT ![c] = k] /\ UNCHANGED beforeShares
    BY <1>5, <2>1 DEF OpenPassport
  <2> HIDE DEF k
  <2>. QED
    BY <2>2, <2>3, StepOfShares
<1>6. ASSUME NEW c \in Calls, CountView(c)
      PROVE  IInv'
  <2> DEFINE k == Call("record", call[c].on, RecentViews(call[c].on, call[c].arg) = {}, call[c].arg)
  <2>1. call' = [call EXCEPT ![c] = k]
    BY <1>6 DEF CountView
  <2>2. k.pc \in Elsewhere
    BY DEF Call, Linking, Elsewhere
  <2> HIDE DEF k
  <2>. QED
    BY <1>6, <2>1, <2>2, StepOfShares DEF CountView
<1>7. ASSUME ShareLapses \/ WindowPasses
      PROVE  IInv'
  BY <1>7, SharesLeaveRows, QuietStepOfNone DEF ShareLapses, WindowPasses
<1>. QED
  BY <1>2, <1>4, <1>5, <1>6, <1>7 DEF SharesNext

LEMMA IntakeKeeps ==
  ASSUME IInv, IntakeNext
  PROVE  IInv'
BY DraftRequestKeeps, FromInvitationKeeps, CreateRequestKeeps, SubjectRequestKeeps, AcceptRequestKeeps,
   CommitDraftKeeps, CommitRequestKeeps, CommitConsentKeeps, FailsKeeps, DecideKeeps DEF IntakeNext

LEMMA InvitationStepsKeep ==
  ASSUME IInv, InvitationSteps, requests' = Unreferenced
  PROVE  IInv'
BY SyncKeeps, CommitSyncKeeps, DeliverKeeps, CommitAcceptKeeps, CommitWriteKeeps, SyncFailsKeeps,
   CommitDeleteInvitationKeeps, GoneKeeps, ReconcileKeeps, DeadlinePassesKeeps DEF InvitationSteps

\* Members and the invited begin calls.
LEMMA BeginningsKeep ==
  ASSUME IInv, Issuing \/ Answering, UNCHANGED requests
  PROVE  IInv'
<1>1. ASSUME NEW c \in Calls, SendInvitation(c) \/ Resend(c) \/ CancelInvitation(c) \/ DeleteInvitation(c)
                              \/ NoticeLapse(c) \/ OpenInvitation(c) \/ AcceptAgain(c)
      PROVE  IInv'
  <2>1. PICK i \in Invites, pc \in OnInvites \ {"link", "accept"}, arg \in {"pending", None} :
          invites[i].there /\ BeginOn(c, i, pc, arg)
    BY <1>1 DEF SendInvitation, Resend, CancelInvitation, DeleteInvitation, NoticeLapse, OpenInvitation,
                AcceptAgain, OnInvites
  <2>. QED
    BY <2>1, Begins
<1>2. ASSUME NEW c \in Calls, Accept(c)
      PROVE  IInv'
  BY <1>2, Begins DEF Accept, OnInvites
<1>. QED
  BY <1>1, <1>2, CreateInvitationKeeps DEF Issuing, Answering

\* The start: whatever was resolved before is backed, and no call is under way.
LEMMA InitIInv == Init => IInv
<1> SUFFICES ASSUME Init
             PROVE  IInv
  OBVIOUS
<1>1. PICK s \in Starts :
        /\ persons = s.persons /\ ids = Identifiers(s.persons) /\ invites = s.invites
        /\ requests = s.requests /\ call = [c \in Calls |-> IF c \in s.calls THEN Blank ELSE Over]
  BY DEF Init
<1>2. RegistryOK
  <2>1. persons \in [Persons -> Person]
    BY <1>1, StartsAssumption
  <2>2. ids \subseteq Persons \X (Emails \cup Phones)
    BY <1>1 DEF Identifiers
  <2>3. \A p \in Persons : \A v \in {persons[p].email, persons[p].phone} \ {None} : <<p, v>> \in ids
    BY <1>1, <2>1 DEF Identifiers, Person
  <2>4. \A x, y \in ids : x[2] = y[2] => x = y
    BY <1>1, StartsAssumption
  <2>. QED
    BY <2>1, <2>2, <2>3, <2>4 DEF RegistryOK, PrimaryIsIdentifier
<1>3. RowsIs(invites, requests, ids)
  <2>1. \A i \in Invites : (invites[i].there => invites[i].email # None) /\ Backed(invites[i], ids)
    BY <1>1, StartsAssumption DEF InviteAtStart, Backed
  <2>2. \A r \in Requests : (requests[r].there => requests[r].email # None) /\ Backed(requests[r], ids)
    BY <1>1, StartsAssumption DEF RequestAtStart, Backed
  <2>. QED
    BY <1>1, <2>1, <2>2, StartsAssumption DEF RowsIs
<1>4. CallsIs(call, invites, requests, ids)
  <2>1. \A c \in Calls : call[c] \in {Blank, Over}
    BY <1>1
  <2>2. Blank.pc = "idle" /\ Over.pc = "done"
    BY DEF Blank, Over, Call, Linking
  <2>3. \A c \in Calls : CallIs(call[c], invites, requests, ids)
    BY <2>1, <2>2, Ignorant
  <2>4. call = [c \in Calls |-> call[c]]
    BY <1>1
  <2>. QED
    BY <2>3, <2>4 DEF CallsIs
<1>. QED
  BY <1>2, <1>3, <1>4 DEF IInv

LEMMA IInvStays ==
  ASSUME IInv, [Next]_vars
  PROVE  IInv'
<1>1. CASE UNCHANGED vars
  BY <1>1, SameRows, QuietStepOfNone DEF vars, registryVars, inviteVars, intakeVars
<1>2. CASE (Issuing \/ Answering) /\ UNCHANGED requests
  BY <1>2, BeginningsKeep
<1>3. CASE InvitationSteps /\ requests' = Unreferenced
  BY <1>3, InvitationStepsKeep
<1>4. CASE IntakeNext
  BY <1>4, IntakeKeeps
<1>5. CASE SharesNext
  BY <1>5, SharesKeep
<1>6. ASSUME NEW c \in Calls, CutShort(c), UNCHANGED requests
      PROVE  IInv'
  BY <1>6, CutShortKeeps
<1>. QED
  BY <1>1, <1>2, <1>3, <1>4, <1>5, <1>6 DEF Next

THEOREM InductiveInvariant == Spec => []IInv
BY IInvStays, InitIInv, PTL DEF Spec

\* However calls overlap, fail or are cut short, an identifier is one row's and every row's addresses are its identifiers.
THEOREM RegistryInOrder == Spec => []PrimaryIsIdentifier
<1>1. IInv => PrimaryIsIdentifier
  BY DEF IInv, RegistryOK
<1>. QED
  BY <1>1, InductiveInvariant, PTL

\* Whatever was resolved with one e-mail address belongs to one person (OrganizationPersonService).
THEOREM OnePersonPerAddressAlways == Spec => []OnePersonPerAddress
<1>1. IInv => OnePersonPerAddress
  <2> SUFFICES ASSUME IInv
               PROVE  OnePersonPerAddress
    OBVIOUS
  <2> DEFINE resolved == {<<invites[i].email, invites[i].person>> : i \in {j \in Invites : invites[j].person # None}}
                  \cup {<<requests[r].email, requests[r].person>> : r \in {q \in Requests : requests[q].person # None}}
  <2>1. \A x \in resolved : <<x[2], x[1]>> \in ids
    BY DEF IInv, RowsIs, Backed
  <2>2. \A x, y \in ids : x[2] = y[2] => x = y
    BY DEF IInv, RegistryOK, PrimaryIsIdentifier
  <2>3. \A x, y \in resolved : x[1] = y[1] => x[2] = y[2]
    <3> SUFFICES ASSUME NEW x \in resolved, NEW y \in resolved, x[1] = y[1]
                 PROVE  x[2] = y[2]
      OBVIOUS
    <3>1. <<x[2], x[1]>> \in ids /\ <<y[2], y[1]>> \in ids
      BY <2>1
    <3> HIDE DEF resolved
    <3>2. <<x[2], x[1]>> = <<y[2], y[1]>>
      BY <2>2, <3>1
    <3>. QED
      BY <3>2
  <2>. QED
    BY <2>3 DEF OnePersonPerAddress
<1>. QED
  BY <1>1, InductiveInvariant, PTL

-----------------------------------------------------------------------------
(***************************************************************************)
(* The rest of what a workspace promises, for any accounts, invitations,   *)
(* requests, links and calls: types, invitations that are waited for have  *)
(* a notification under way, who accepted is who is linked, a claim has    *)
(* one open request, a view counts once, the directory shows what there    *)
(* is, and what is never taken back. Each rests on what a call under way   *)
(* knows of its row as long as no other call on that row overlapped it.    *)
(***************************************************************************)
(* Calls.                                                                  *)

Resolvings == {"link", "request", "consent"}

LEMMA LinkingFields ==
  ASSUME NEW pc, NEW on, NEW view, NEW arg, NEW link
  PROVE  /\ Linking(pc, on, view, arg, link).pc = pc /\ Linking(pc, on, view, arg, link).on = on
         /\ Linking(pc, on, view, arg, link).view = view /\ Linking(pc, on, view, arg, link).arg = arg
         /\ Linking(pc, on, view, arg, link).link = link
BY DEF Linking

LEMMA CallFields ==
  ASSUME NEW pc, NEW on, NEW view, NEW arg
  PROVE  /\ Call(pc, on, view, arg).pc = pc /\ Call(pc, on, view, arg).on = on
         /\ Call(pc, on, view, arg).view = view /\ Call(pc, on, view, arg).arg = arg
         /\ Call(pc, on, view, arg).link = NoResolution
BY DEF Call, Linking

LEMMA OverFields == Over.pc = "done" /\ Over.link = NoResolution /\ Over.on = None
BY CallFields DEF Over

LEMMA CallsAre ==
  ASSUME IInv, NEW c \in Calls, NEW k, call' = [call EXCEPT ![c] = k]
  PROVE  call'[c] = k /\ \A d \in Calls : d # c => call'[d] = call[d]
BY DEF IInv, CallsIs

-----------------------------------------------------------------------------
(* The registry: rows, identifiers, and what resolutions under way know.   *)

\* Rows that are not there are empty, identifiers are of rows that are, a linked account's address is the row's, and a row never found by a number has one e-mail address.
Registered ==
  /\ \A p \in Persons : ~persons[p].there => persons[p] = NoPerson
  /\ \A x \in ids : persons[x[1]].there
  /\ \A p \in Persons : persons[p].user # None => <<p, EmailOf[persons[p].user]>> \in ids
  /\ \A p \in Persons \ byPhone : \A v, w \in Emails : <<p, v>> \in ids /\ <<p, w>> \in ids => v = w

\* An account is known by its address.
AccountHas(u, e) == u # None => EmailOf[u] = e
LinkKnows(c) ==
  LET k == call[c].link IN
  /\ AccountHas(k.who.user, k.who.email)
  /\ k.found # None =>
       /\ persons[k.found].there
       /\ k.found \notin met => k.seen = persons[k.found]
       /\ k.found \notin byPhone => <<k.found, k.who.email>> \in ids
LinksKnow ==
  /\ \A c \in Calls : call[c].link.found # None => call[c].pc \in Resolvings
  /\ \A c \in Calls : call[c].pc \in Resolvings => LinkKnows(c)
  /\ \A c, d \in Calls : c # d /\ call[c].link.found # None /\ call[c].link.found = call[d].link.found
       => call[c].link.found \in met
RInv == Registered /\ LinksKnow

\* The three kinds of step.
Plain(k) == k.link = NoResolution /\ k.pc \notin Resolvings
Leaves(c) == Plain(call'[c]) /\ \A d \in Calls : d # c => call'[d] = call[d]
Quiet ==
  /\ UNCHANGED <<persons, ids, met, byPhone>>
  /\ call' = call \/ \E c \in Calls : Leaves(c)
Begun(c, w, p) ==
  /\ call[c].pc \notin Resolvings
  /\ w \in Subject /\ AccountHas(w.user, w.email) /\ p \in Found(w)
  /\ w.person # None => <<w.person, w.email>> \in ids
  /\ UNCHANGED <<persons, ids>> /\ Meeting(c, p)
  /\ IF p = None THEN UNCHANGED byPhone ELSE Finding(w, p)
  /\ call'[c].link = Resolution(w, p) /\ call'[c].pc \in Resolvings
  /\ \A d \in Calls : d # c => call'[d] = call[d]
Ended(c, p) ==
  /\ call[c].pc \in Resolvings /\ LinkOK(call[c].link, ids)
  /\ p \in Rows(call[c].link) /\ ~Refused(call[c].link, p) /\ Resolve(call[c].link, p)
  /\ UNCHANGED <<met, byPhone>> /\ Leaves(c)

LEMMA QuietRInv ==
  ASSUME RInv, Quiet
  PROVE  RInv'
<1>1. CASE call' = call
  BY <1>1 DEF RInv, Quiet, Registered, LinksKnow, LinkKnows
<1>2. ASSUME NEW c \in Calls, Leaves(c)
      PROVE  RInv'
  <2>1. call'[c].link.found = None /\ call'[c].pc \notin Resolvings
    BY <1>2 DEF Leaves, Plain, NoResolution
  <2>2. \A d \in Calls : d # c => call'[d] = call[d]
    BY <1>2 DEF Leaves
  <2>3. Registered'
    BY DEF RInv, Quiet, Registered
  <2>4. LinksKnow'
    BY <2>1, <2>2 DEF RInv, Quiet, LinksKnow, LinkKnows
  <2>. QED
    BY <2>3, <2>4 DEF RInv
<1>. QED
  BY <1>1, <1>2 DEF Quiet

\* Whoever is found is there, and has the address, or was found by a number.
LEMMA FoundHas ==
  ASSUME RegistryOK, Registered, NEW w \in Subject, NEW p \in Found(w), p # None,
         AccountHas(w.user, w.email), w.person # None => <<w.person, w.email>> \in ids
  PROVE  /\ p \in Persons /\ persons[p].there
         /\ <<p, w.email>> \in ids \/ FirstHit(w) = 4
         /\ w.person # None => p = w.person
<1>1. p \in Persons
  BY FoundIsPerson
<1>2. Hit(w) # {} /\ p \in Tiers(w)[FirstHit(w)]
  BY DEF Found
<1>3. FirstHit(w) \in Hit(w) /\ \A m \in Hit(w) : FirstHit(w) <= m
  <2>1. \E n \in Hit(w) : \A m \in Hit(w) : n <= m
    <3>1. Hit(w) \subseteq 1..4
      BY DEF Hit
    <3>3. CASE 1 \in Hit(w)
      BY <3>1, <3>3
    <3>4. CASE 1 \notin Hit(w) /\ 2 \in Hit(w)
      BY <3>1, <3>4
    <3>5. CASE 1 \notin Hit(w) /\ 2 \notin Hit(w) /\ 3 \in Hit(w)
      BY <3>1, <3>5
    <3>6. CASE 1 \notin Hit(w) /\ 2 \notin Hit(w) /\ 3 \notin Hit(w)
      BY <3>1, <1>2, <3>6
    <3>. QED
      BY <3>3, <3>4, <3>5, <3>6
  <2>. QED
    BY <2>1 DEF FirstHit
<1>4. FirstHit(w) \in 1..4
  BY <1>3 DEF Hit
<1>5. \A v : p \in ByAddress(v) => <<p, v>> \in ids
  <2>1. \A v : v # None /\ v \in {persons[p].email, persons[p].phone} => <<p, v>> \in ids
    BY <1>1 DEF RegistryOK, PrimaryIsIdentifier
  <2>. QED
    BY <2>1 DEF ByAddress
<1>6. CASE FirstHit(w) = 1
  BY <1>1, <1>2, <1>6 DEF Tiers, Registered
<1>7. CASE FirstHit(w) = 2
  <2>1. w.user # None /\ persons[p].user = w.user
    BY <1>2, <1>7 DEF Tiers, ByUser
  <2>2. <<p, w.email>> \in ids
    BY <2>1, <1>1 DEF Registered, AccountHas
  <2>. QED
    BY <1>1, <2>2, <1>3, <1>7 DEF Registered, Hit, Tiers
<1>8. CASE FirstHit(w) = 3
  <2>1. <<p, w.email>> \in ids
    BY <1>2, <1>5, <1>8 DEF Tiers
  <2>. QED
    BY <1>1, <2>1, <1>3, <1>8 DEF Registered, Hit, Tiers
<1>9. CASE FirstHit(w) = 4
  <2>1. <<p, w.phone>> \in ids
    BY <1>2, <1>5, <1>9 DEF Tiers
  <2>. QED
    BY <1>1, <2>1, <1>3, <1>9 DEF Registered, Hit, Tiers
<1>. QED
  BY <1>4, <1>6, <1>7, <1>8, <1>9

LEMMA BegunRInv ==
  ASSUME RegistryOK, RInv, NEW c \in Calls, NEW w, NEW p, Begun(c, w, p)
  PROVE  RInv'
<1>1. Registered'
  BY DEF RInv, Begun, Registered, Finding
<1>2. /\ call'[c].link.who = w /\ call'[c].link.found = p /\ call'[c].pc \in Resolvings
      /\ p # None => call'[c].link.seen = persons[p]
  BY DEF Begun, Resolution
<1>3. \A d \in Calls : d # c => call'[d] = call[d]
  BY DEF Begun
<1>4. met \subseteq met' /\ byPhone \subseteq byPhone' /\ UNCHANGED <<persons, ids>>
  BY DEF Begun, Meeting, Finding
<1>5. p # None => p \in Persons /\ persons[p].there /\ (p \notin byPhone' => <<p, w.email>> \in ids)
  <2>. SUFFICES ASSUME p # None
                PROVE  p \in Persons /\ persons[p].there /\ (p \notin byPhone' => <<p, w.email>> \in ids)
    OBVIOUS
  <2>1. p \in Persons /\ persons[p].there /\ (<<p, w.email>> \in ids \/ FirstHit(w) = 4)
    BY FoundHas DEF Begun, RInv
  <2>. QED
    BY <2>1 DEF Begun, Finding
<1>6. \A d \in Calls : d # c /\ p # None /\ call[d].link.found = p => p \in met'
  <2>. SUFFICES ASSUME NEW d \in Calls, d # c, p # None, call[d].link.found = p
                PROVE  p \in met'
    OBVIOUS
  <2>1. call[d].pc \in Resolvings
    BY DEF RInv, LinksKnow
  <2>2. d \in Flying \ {c}
    BY <2>1 DEF Flying, Resolvings
  <2>3. p \in {q \in Persons : q = p /\ \E e \in Flying \ {c} : call[e].link.found = q}
    BY <1>5, <2>2
  <2>. QED
    BY <2>3 DEF Begun, Meeting
<1>7. LinksKnow'
  <2>1. \A d \in Calls : call'[d].link.found # None => call'[d].pc \in Resolvings
    BY <1>2, <1>3 DEF RInv, LinksKnow
  <2>2. \A d \in Calls : call'[d].pc \in Resolvings => LinkKnows(d)'
    <3>1. LinkKnows(c)'
      <4>1. AccountHas(w.user, w.email)
        BY DEF Begun
      <4>2. p # None => /\ persons'[p].there /\ call'[c].link.seen = persons'[p]
                        /\ (p \notin byPhone' => <<p, w.email>> \in ids')
        BY <1>2, <1>4, <1>5
      <4>. QED
        BY <1>2, <4>1, <4>2 DEF LinkKnows, AccountHas
    <3>2. ASSUME NEW d \in Calls, d # c, call'[d].pc \in Resolvings
          PROVE  LinkKnows(d)'
      <4>1. LinkKnows(d) /\ call'[d] = call[d]
        BY <1>3, <3>2 DEF RInv, LinksKnow
      <4>. QED
        BY <1>4, <4>1 DEF LinkKnows, AccountHas
    <3>. QED
      BY <3>1, <3>2
  <2>3. \A d, e \in Calls : d # e /\ call'[d].link.found # None /\ call'[d].link.found = call'[e].link.found
          => call'[d].link.found \in met'
    BY <1>2, <1>3, <1>4, <1>6 DEF RInv, LinksKnow
  <2>. QED
    BY <2>1, <2>2, <2>3 DEF LinksKnow
<1>. QED
  BY <1>1, <1>7 DEF RInv


LEMMA EndedRInv ==
  ASSUME RegistryOK, RInv, \A d \in Calls : call[d].pc \in Resolvings => LinkOK(call[d].link, ids),
         NEW c \in Calls, NEW p, Ended(c, p)
  PROVE  RInv'
<1>. DEFINE k == call[c].link
<1>1. /\ RegistryOK' /\ ids \subseteq ids' /\ p \in Persons
      /\ \A v \in AddressesOf(k.who) : <<p, v>> \in ids'
  <2>1. LinkOK(k, ids) /\ p \in Rows(k) /\ ~Refused(k, p) /\ Resolve(k, p)
    BY DEF Ended
  <2>. HIDE DEF k
  <2>. QED
    BY <2>1, ResolveKeeps
<1>2. /\ k.who \in Subject /\ k.found \in Persons \cup {None} /\ k.need \subseteq AddressesOf(k.who)
      /\ AccountHas(k.who.user, k.who.email)
  BY DEF Ended, LinkOK, RInv, LinksKnow, LinkKnows
<1>3. ids' = ids \cup {<<p, v>> : v \in k.need}
  BY DEF Ended, Resolve
<1>4. \A q \in Persons : persons'[q] = IF q = p THEN RowAfter(k, p) ELSE persons[q]
  BY <1>1 DEF Ended, Resolve, RegistryOK
<1>5. k.found # None => /\ p = k.found /\ persons[p].there
                        /\ (p \notin met => k.seen = persons[p])
                        /\ (p \notin byPhone => <<p, k.who.email>> \in ids)
  BY DEF Ended, Rows, RInv, LinksKnow, LinkKnows
<1>6. k.found = None => ~persons[p].there
  BY DEF Ended, Rows, Fresh, Foremost
<1>7. persons[p] \in Person /\ None \notin Emails /\ EmailOf \in [Users -> Emails]
  BY <1>1, PeopleAssumption DEF RegistryOK
<1>8. k.who.email \in AddressesOf(k.who)
  BY <1>2, <1>7 DEF AddressesOf, Subject
<1>9. RowAfter(k, p).there
  BY <1>5 DEF RowAfter, Made, Revised
<1>10. RowAfter(k, p).user # None => RowAfter(k, p).user \in {k.who.user, persons[p].user}
  BY DEF RowAfter, Made, Revised, Filled
<1>11. RowAfter(k, p).user # None => <<p, EmailOf[RowAfter(k, p).user]>> \in ids'
  <2>1. CASE RowAfter(k, p).user = k.who.user
    BY <2>1, <1>1, <1>2, <1>8 DEF AccountHas
  <2>2. CASE RowAfter(k, p).user = persons[p].user
    BY <2>2, <1>1 DEF RInv, Registered
  <2>. QED
    BY <2>1, <2>2, <1>10
<1>12. ASSUME p \notin byPhone, NEW v \in Emails, NEW w \in Emails, <<p, v>> \in ids', <<p, w>> \in ids'
       PROVE  v = w
  <2>1. AddressesOf(k.who) \cap Emails = {k.who.email}
    BY <1>2, <1>7, PeopleAssumption DEF AddressesOf, Subject
  <2>2. \A u \in Emails : <<p, u>> \in ids' => <<p, u>> \in ids \/ u = k.who.email
    BY <1>2, <1>3, <2>1
  <2>3. CASE k.found # None
    <3>1. k.who.email \in Emails /\ <<p, k.who.email>> \in ids
      BY <2>3, <1>2, <1>5, <1>12 DEF Subject
    <3>2. \A u \in Emails : <<p, u>> \in ids => u = k.who.email
      BY <3>1, <1>1, <1>12 DEF RInv, Registered
    <3>. QED
      BY <2>2, <3>2, <1>12
  <2>4. CASE k.found = None
    <3>1. \A u : <<p, u>> \notin ids
      <4>1. \A x \in ids : persons[x[1]].there
        BY DEF RInv, Registered
      <4>. QED
        BY <4>1, <2>4, <1>6
    <3>. QED
      BY <2>2, <3>1, <1>12
  <2>. QED
    BY <2>3, <2>4
<1>13. Registered'
  <2>1. \A q \in Persons : ~persons'[q].there => persons'[q] = NoPerson
    BY <1>4, <1>9 DEF RInv, Registered
  <2>2. \A x \in ids' : persons'[x[1]].there
    <3>1. \A x \in ids : x[1] \in Persons /\ persons[x[1]].there
      BY DEF RInv, Registered, RegistryOK
    <3>2. \A x \in ids' : x \in ids \/ x[1] = p
      BY <1>3
    <3>. QED
      BY <3>1, <3>2, <1>1, <1>4, <1>9
  <2>3. \A q \in Persons : persons'[q].user # None => <<q, EmailOf[persons'[q].user]>> \in ids'
    BY <1>1, <1>4, <1>11 DEF RInv, Registered
  <2>4. \A q \in Persons \ byPhone' : \A v, w \in Emails : <<q, v>> \in ids' /\ <<q, w>> \in ids' => v = w
    <3>1. \A q \in Persons : q # p => \A v : <<q, v>> \in ids' => <<q, v>> \in ids
      BY <1>3
    <3>2. byPhone' = byPhone
      BY DEF Ended
    <3>. QED
      BY <3>1, <3>2, <1>12 DEF RInv, Registered
  <2>. QED
    BY <2>1, <2>2, <2>3, <2>4 DEF Registered
<1>14. LinksKnow'
  <2>1. call'[c].link.found = None /\ call'[c].pc \notin Resolvings /\ \A d \in Calls : d # c => call'[d] = call[d]
    BY DEF Ended, Leaves, Plain, NoResolution
  <2>2. UNCHANGED <<met, byPhone>>
    BY DEF Ended
  <2>3. ASSUME NEW d \in Calls, d # c, call'[d].pc \in Resolvings
        PROVE  LinkKnows(d)'
    <3>1. call'[d] = call[d] /\ LinkKnows(d)
      BY <2>1, <2>3 DEF RInv, LinksKnow
    <3>. DEFINE q == call[d].link.found
    <3>2. q # None => q \in Persons
      BY <2>3, <3>1 DEF LinkOK
    <3>3. q # None => persons'[q].there
      BY <3>1, <3>2, <1>4, <1>9 DEF LinkKnows
    <3>4. q # None /\ q \notin met => q # p
      BY <2>3, <3>1, <1>5, <1>6 DEF RInv, LinksKnow, LinkKnows
    <3>5. q # None /\ q \notin met => call[d].link.seen = persons'[q]
      BY <3>1, <3>2, <3>4, <1>4 DEF LinkKnows
    <3>6. q # None /\ q \notin byPhone => <<q, call[d].link.who.email>> \in ids'
      BY <3>1, <1>1 DEF LinkKnows
    <3>. QED
      BY <2>2, <3>1, <3>3, <3>5, <3>6 DEF LinkKnows, AccountHas
  <2>. QED
    BY <2>1, <2>2, <2>3 DEF RInv, LinksKnow
<1>. QED
  BY <1>13, <1>14 DEF RInv


-----------------------------------------------------------------------------
(* Who is known by which address, and what was resolved.                   *)

AddressesIn(v) == {v.email, v.phone} \ {None}
BackedFully(v, I) == v.person # None => \A a \in AddressesIn(v) : <<v.person, a>> \in I
\* The invitation a call loaded is the row's, but for what others may write.
ViewKnows(k, inv, I) ==
  /\ k.view \in Invite /\ AccountHas(k.view.by, k.view.email) /\ BackedFully(k.view, I)
  /\ k.view.email = inv[k.on].email
  /\ inv[k.on].there => inv[k.on].phone = k.view.phone
CallKnows(k, inv, req, I) ==
  /\ k.pc \in {"sync", "link", "accept"} => ViewKnows(k, inv, I)
  /\ k.pc = "accept" => EmailOf[k.arg] = k.view.email
  /\ k.pc = "link" => k.link.who = Invited(k.view)
  /\ k.pc \in {"draft", "request"} => AccountHas(k.view.user, k.view.email)
  /\ k.pc = "consent" => AccountHas(k.view.user, req[k.on].email)
Addressed ==
  /\ \A i \in Invites : AccountHas(invites[i].by, invites[i].email) /\ BackedFully(invites[i], ids)
  /\ \A r \in Requests : AccountHas(requests[r].user, requests[r].email)
  /\ \A c \in Calls : CallKnows(call[c], invites, requests, ids)

\* A resolution for a request begins.
Asked(c, pc, r, v, p) ==
  /\ v \in Request /\ v.there /\ v.email # None /\ AccountHas(v.user, v.email) /\ Backed(v, ids)
  /\ \/ pc = "request" /\ r = None /\ v.claim = None
     \/ pc = "consent" /\ r \in Requests /\ requests[r].there /\ requests[r].email = v.email
        /\ requests[r].status = "pending_subject_acceptance"
  /\ p \in Found(Applicant(v)) /\ Resolving(c, pc, r, v, p)
Asks(c) == \E pc \in {"request", "consent"}, r \in Requests \cup {None}, v \in Request, p \in Persons \cup {None} : Asked(c, pc, r, v, p)

LEMMA ApplicantIs ==
  ASSUME NEW v \in Request, v.email # None
  PROVE  /\ Applicant(v) \in Subject /\ Applicant(v).email = v.email
         /\ Applicant(v).user = v.user /\ Applicant(v).person = v.person
BY PeopleAssumption DEF Applicant, Who, Subject, Request, Relationship, PhoneOfSubject

LEMMA RequestsAsk ==
  ASSUME IInv, Addressed, NEW c \in Calls,
         FromInvitation(c) \/ CreateRequest(c) \/ SubjectRequest(c) \/ AcceptRequest(c)
  PROVE  Asks(c)
<1>0. ASSUME NEW pc \in {"request", "consent"}, NEW r \in Requests \cup {None}, NEW v \in Request, NEW p,
             v.email # None, Asked(c, pc, r, v, p)
      PROVE  Asks(c)
  <2>1. p \in Persons \cup {None}
    BY <1>0, ApplicantIs, FoundIsPerson DEF IInv, Asked
  <2>. QED
    BY <1>0, <2>1 DEF Asks
<1>1. CASE FromInvitation(c)
  <2>. DEFINE V(i, u) == [NewRequest(u, invites[i].email,
                              IF invites[i].by # None THEN "pending_subject_submission"
                              ELSE "pending_subject_acceptance", TRUE)
                     EXCEPT !.invite = i, !.person = invites[i].person]
  <2>1. PICK i \in Invites : /\ invites[i].there
           /\ \E u \in IF invites[i].by # None THEN {invites[i].by} ELSE SubjectsOf(invites[i].email) :
                \E p \in Found(Applicant(V(i, u))) : Resolving(c, "request", None, V(i, u), p)
    BY <1>1 DEF FromInvitation
  <2>2. PICK u \in IF invites[i].by # None THEN {invites[i].by} ELSE SubjectsOf(invites[i].email) :
           \E p \in Found(Applicant(V(i, u))) : Resolving(c, "request", None, V(i, u), p)
    BY <2>1
  <2>3. invites[i] \in Invite /\ invites[i].email # None /\ Backed(invites[i], ids)
    BY <2>1 DEF IInv, RowsIs
  <2>4. u \in Users \cup {None} /\ AccountHas(u, invites[i].email)
    BY <2>3 DEF SubjectsOf, Invite, AccountHas, Addressed
  <2>5. /\ V(i, u) \in Request /\ V(i, u).email = invites[i].email /\ V(i, u).user = u /\ V(i, u).there
        /\ V(i, u).person = invites[i].person /\ V(i, u).claim = None
    BY <2>3, <2>4 DEF NewRequest, NoRequest, Request, Invite
  <2>. DEFINE v == V(i, u)
  <2>. HIDE DEF V
  <2>6. PICK p \in Found(Applicant(v)) : Resolving(c, "request", None, v, p)
    BY <2>2
  <2>7. Asked(c, "request", None, v, p)
    BY <2>3, <2>4, <2>5, <2>6 DEF Asked, Backed
  <2>. QED
    BY <1>0, <2>3, <2>5, <2>7
<1>2. CASE CreateRequest(c)
  <2>. DEFINE V(u, e) == NewRequest(u, e, "pending_subject_acceptance", TRUE)
  <2>1. PICK e \in Emails : \E u \in SubjectsOf(e) :
           \E p \in Found(Applicant(V(u, e))) : Resolving(c, "request", None, V(u, e), p)
    BY <1>2 DEF CreateRequest
  <2>2. PICK u \in SubjectsOf(e) :
           \E p \in Found(Applicant(V(u, e))) : Resolving(c, "request", None, V(u, e), p)
    BY <2>1
  <2>3. e # None /\ AccountHas(u, e)
    BY PeopleAssumption DEF SubjectsOf, AccountHas
  <2>4. /\ V(u, e) \in Request /\ V(u, e).email = e /\ V(u, e).user = u /\ V(u, e).there
        /\ V(u, e).person = None /\ V(u, e).claim = None
    BY DEF NewRequest, NoRequest, Request, SubjectsOf
  <2>. DEFINE v == V(u, e)
  <2>. HIDE DEF V
  <2>6. PICK p \in Found(Applicant(v)) : Resolving(c, "request", None, v, p)
    BY <2>2
  <2>7. Asked(c, "request", None, v, p)
    BY <2>3, <2>4, <2>6 DEF Asked, Backed
  <2>. QED
    BY <1>0, <2>3, <2>4, <2>7
<1>3. CASE SubjectRequest(c)
  <2>. DEFINE V(u) == NewRequest(u, EmailOf[u], "pending_subject_submission", TRUE)
  <2>2. PICK u \in Users : \E p \in Found(Applicant(V(u))) : Resolving(c, "request", None, V(u), p)
    BY <1>3 DEF SubjectRequest
  <2>3. EmailOf[u] \in Emails /\ EmailOf[u] # None
    BY PeopleAssumption
  <2>4. /\ V(u) \in Request /\ V(u).email = EmailOf[u] /\ V(u).user = u /\ V(u).there
        /\ V(u).person = None /\ V(u).claim = None
    BY <2>3 DEF NewRequest, NoRequest, Request
  <2>. DEFINE v == V(u)
  <2>. HIDE DEF V
  <2>6. PICK p \in Found(Applicant(v)) : Resolving(c, "request", None, v, p)
    BY <2>2
  <2>7. Asked(c, "request", None, v, p)
    BY <2>3, <2>4, <2>6 DEF Asked, Backed, AccountHas
  <2>. QED
    BY <1>0, <2>3, <2>4, <2>7
<1>4. CASE AcceptRequest(c)
  <2>. DEFINE V(r, u) == [requests[r] EXCEPT !.user = IF @ = None THEN u ELSE @]
  <2>1. PICK r \in Requests, u \in Users :
           /\ requests[r].there /\ requests[r].status = "pending_subject_acceptance" /\ IsSubject(r, u)
           /\ \E p \in Found(Applicant(V(r, u))) : Resolving(c, "consent", r, V(r, u), p)
    BY <1>4 DEF AcceptRequest
  <2>3. requests[r] \in Request /\ requests[r].email # None /\ Backed(requests[r], ids)
    BY <2>1 DEF IInv, RowsIs
  <2>4. /\ V(r, u) \in Request /\ V(r, u).email = requests[r].email /\ V(r, u).there
        /\ V(r, u).user = IF requests[r].user = None THEN u ELSE requests[r].user
        /\ V(r, u).person = requests[r].person
    BY <2>1, <2>3 DEF Request
  <2>5. AccountHas(V(r, u).user, requests[r].email)
    BY <2>1, <2>4, PeopleAssumption DEF IsSubject, Addressed, AccountHas
  <2>. DEFINE v == V(r, u)
  <2>. HIDE DEF V
  <2>6. PICK p \in Found(Applicant(v)) : Resolving(c, "consent", r, v, p)
    BY <2>1
  <2>7. Asked(c, "consent", r, v, p)
    BY <2>1, <2>3, <2>4, <2>5, <2>6 DEF Asked, Backed
  <2>. QED
    BY <1>0, <2>3, <2>4, <2>7
<1>. QED
  BY <1>1, <1>2, <1>3, <1>4


-----------------------------------------------------------------------------
(* Every step is one of the three kinds.                                   *)

LEMMA CallLeaves ==
  ASSUME IInv, NEW c \in Calls, NEW pc, pc \notin Resolvings, NEW on, NEW view, NEW arg,
         call' = [call EXCEPT ![c] = Call(pc, on, view, arg)]
  PROVE  Leaves(c)
<1>. DEFINE k == Call(pc, on, view, arg)
<1>1. Plain(k) /\ call' = [call EXCEPT ![c] = k]
  BY CallFields DEF Plain
<1>. HIDE DEF k
<1>. QED
  BY <1>1, CallsAre DEF Leaves

LEMMA FinishLeaves ==
  ASSUME IInv, NEW c \in Calls, Finish(c)
  PROVE  Leaves(c)
BY CallLeaves DEF Finish, Over, Resolvings

LEMMA RequestBegun ==
  ASSUME IInv, NEW c \in Calls, call[c].pc = "idle", Asks(c)
  PROVE  \E w, p : Begun(c, w, p)
<1>1. PICK pc \in {"request", "consent"}, r \in Requests \cup {None}, v \in Request, p \in Persons \cup {None} : Asked(c, pc, r, v, p)
  BY DEF Asks
<1>. DEFINE w == Applicant(v)
            k == Linking(pc, r, v, None, Resolution(w, p))
<1>2. /\ w \in Subject /\ AccountHas(w.user, w.email) /\ p \in Found(w)
      /\ w.person # None => <<w.person, w.email>> \in ids
  BY <1>1, ApplicantIs DEF Asked, Backed
<1>3. k.link = Resolution(w, p) /\ k.pc \in Resolvings
  BY LinkingFields DEF Resolvings
<1>4. /\ UNCHANGED <<persons, ids>> /\ Meeting(c, p)
      /\ IF p = None THEN UNCHANGED byPhone ELSE Finding(w, p)
      /\ call' = [call EXCEPT ![c] = k]
  BY <1>1 DEF Asked, Resolving
<1>. HIDE DEF k, w
<1>5. Begun(c, w, p)
  BY <1>2, <1>3, <1>4, CallsAre DEF Begun, Resolvings
<1>. QED
  BY <1>5

LEMMA SyncBegun ==
  ASSUME IInv, Addressed, NEW c \in Calls, Sync(c)
  PROVE  \/ Leaves(c) /\ UNCHANGED <<persons, ids, met, byPhone>>
         \/ \E w, p : Begun(c, w, p)
<1>1. CASE Finish(c) /\ UNCHANGED <<met, byPhone>>
  BY <1>1, FinishLeaves DEF Sync
<1>2. ASSUME NEW p \in Found(Invited(call[c].view)),
             call' = [call EXCEPT ![c] = Linking("link", call[c].on, call[c].view, call[c].arg,
                                                 Resolution(Invited(call[c].view), p))],
             Meeting(c, p), IF p = None THEN UNCHANGED byPhone ELSE Finding(Invited(call[c].view), p)
      PROVE  \E w, q : Begun(c, w, q)
  <2>. DEFINE w == Invited(call[c].view)
              k == Linking("link", call[c].on, call[c].view, call[c].arg, Resolution(w, p))
  <2>1. call[c].pc = "sync" /\ UNCHANGED <<persons, ids>>
    BY DEF Sync
  <2>2. ViewKnows(call[c], invites, ids) /\ call[c].view \in Invite /\ call[c].view.email # None
    BY <2>1 DEF Addressed, CallKnows, ViewKnows, IInv, CallsIs, CallIs, OnInvites
  <2>3. /\ w \in Subject /\ w.email = call[c].view.email /\ w.user = call[c].view.by
        /\ w.person = call[c].view.person
    BY <2>2 DEF Invited, Who, Subject, Invite, Relationship
  <2>4. AccountHas(w.user, w.email) /\ (w.person # None => <<w.person, w.email>> \in ids)
    BY <2>2, <2>3 DEF ViewKnows, BackedFully, AddressesIn
  <2>5. k.link = Resolution(w, p) /\ k.pc \in Resolvings /\ call' = [call EXCEPT ![c] = k]
    BY <1>2, LinkingFields DEF Resolvings
  <2>6. Meeting(c, p) /\ (IF p = None THEN UNCHANGED byPhone ELSE Finding(w, p)) /\ p \in Found(w)
    BY <1>2
  <2>. HIDE DEF k, w
  <2>7. Begun(c, w, p)
    BY <2>1, <2>3, <2>4, <2>5, <2>6, CallsAre DEF Begun, Resolvings
  <2>. QED
    BY <2>7
<1>. QED
  BY <1>1, <1>2 DEF Sync

LEMMA CommitEnded ==
  ASSUME IInv, NEW c \in Calls, CommitSync(c) \/ CommitRequest(c) \/ CommitConsent(c)
  PROVE  \E p : Ended(c, p)
<1>1. call[c].pc \in Resolvings /\ LinkOK(call[c].link, ids) /\ UNCHANGED <<met, byPhone>>
  BY DEF CommitSync, CommitRequest, CommitConsent, IInv, CallsIs, CallIs, Resolvings
<1>2. PICK p \in Rows(call[c].link) : ~Refused(call[c].link, p) /\ Resolve(call[c].link, p)
        /\ (CommitSync(c) => Enter(c, AfterLink(call[c]), [call[c].view EXCEPT !.person = p]))
  <2>1. CASE CommitSync(c)
    BY <2>1 DEF CommitSync
  <2>2. CASE CommitRequest(c) /\ ~CommitSync(c)
    BY <2>2 DEF CommitRequest
  <2>3. CASE CommitConsent(c) /\ ~CommitSync(c)
    BY <2>3 DEF CommitConsent
  <2>. QED
    BY <2>1, <2>2, <2>3
<1>3. Leaves(c)
  <2>1. CASE CommitSync(c)
    <3>1. AfterLink(call[c]) \notin Resolvings
      BY DEF AfterLink, Resolvings
    <3>. QED
      BY <2>1, <1>2, <3>1, CallLeaves DEF Enter
  <2>2. CASE CommitRequest(c) \/ CommitConsent(c)
    BY <2>2, FinishLeaves DEF CommitRequest, CommitConsent
  <2>. QED
    BY <2>1, <2>2
<1>4. Ended(c, p)
  BY <1>1, <1>2, <1>3 DEF Ended
<1>. QED
  BY <1>4


LEMMA SharesQuiet ==
  ASSUME IInv, SharesNext
  PROVE  Quiet
<1>1. UNCHANGED <<persons, ids, met, byPhone>>
  BY DEF SharesNext, CreateShare, UpdateShare, RevokeShare, Change, OpenPassport, CommitShare, CountView,
         CommitView, ShareLapses, WindowPasses, beforeShares
<1>2. CASE ShareLapses \/ WindowPasses
  BY <1>1, <1>2 DEF ShareLapses, WindowPasses, Quiet
<1>3. ASSUME NEW c \in Calls, CreateShare(c) \/ CommitShare(c) \/ CommitView(c)
      PROVE  Leaves(c)
  BY <1>3, FinishLeaves DEF CreateShare, CommitShare, CommitView
<1>4. ASSUME NEW c \in Calls, UpdateShare(c) \/ RevokeShare(c) \/ OpenPassport(c) \/ CountView(c)
      PROVE  Leaves(c)
  <2>1. \E pc \in Elsewhere : \E on, view, arg : call' = [call EXCEPT ![c] = Call(pc, on, view, arg)]
    BY <1>4 DEF UpdateShare, RevokeShare, Change, OpenPassport, CountView, Elsewhere
  <2>2. \A pc \in Elsewhere : pc \notin Resolvings
    BY DEF Elsewhere, Resolvings
  <2>. QED
    BY <2>1, <2>2, CallLeaves
<1>. QED
  BY <1>1, <1>2, <1>3, <1>4 DEF SharesNext, Quiet

LEMMA InvitationsQuiet ==
  ASSUME IInv, NEW c \in Calls,
         \/ CreateInvitation(c) \/ SendInvitation(c) \/ Resend(c) \/ CancelInvitation(c)
         \/ DeleteInvitation(c) \/ NoticeLapse(c) \/ OpenInvitation(c) \/ Accept(c) \/ AcceptAgain(c)
         \/ SyncFails(c) \/ Deliver(c) \/ CommitAccept(c) \/ CommitWrite(c) \/ CommitDeleteInvitation(c)
         \/ Gone(c) \/ CutShort(c) \/ DraftRequest(c) \/ CommitDraft(c) \/ Fails(c)
  PROVE  Quiet
<1>1. UNCHANGED <<persons, ids, met, byPhone>>
  BY DEF CreateInvitation, SendInvitation, Resend, CancelInvitation, DeleteInvitation, NoticeLapse,
         OpenInvitation, Accept, AcceptAgain, SyncFails, Deliver, CommitAccept, CommitWrite,
         CommitDeleteInvitation, Gone, CutShort, DraftRequest, CommitDraft, Fails, BeginOn, OnlyInvites
<1>2. CASE \/ Deliver(c) \/ CommitWrite(c) \/ CommitDeleteInvitation(c) \/ Gone(c) \/ CutShort(c)
           \/ CommitDraft(c) \/ Fails(c)
  BY <1>1, <1>2, FinishLeaves
     DEF Deliver, CommitWrite, CommitDeleteInvitation, Gone, CutShort, CommitDraft, Fails, Quiet
<1>3. CASE \/ CreateInvitation(c) \/ SendInvitation(c) \/ Resend(c) \/ CancelInvitation(c)
           \/ DeleteInvitation(c) \/ NoticeLapse(c) \/ OpenInvitation(c) \/ Accept(c) \/ AcceptAgain(c)
           \/ SyncFails(c) \/ CommitAccept(c) \/ DraftRequest(c)
  <2>. DEFINE Steps == (OnInvites \ {"link"}) \cup {"draft", "done"}
  <2>1. \E pc \in Steps : \E on, view, arg : call' = [call EXCEPT ![c] = Call(pc, on, view, arg)]
    <3>1. CASE \/ SendInvitation(c) \/ Resend(c) \/ CancelInvitation(c) \/ DeleteInvitation(c)
               \/ NoticeLapse(c) \/ OpenInvitation(c) \/ Accept(c) \/ AcceptAgain(c)
      <4>1. \E pc \in Steps : \E i, arg : BeginOn(c, i, pc, arg)
        BY <3>1 DEF SendInvitation, Resend, CancelInvitation, DeleteInvitation, NoticeLapse, OpenInvitation,
                    Accept, AcceptAgain, OnInvites
      <4>. QED
        BY <4>1 DEF BeginOn
    <3>2. CASE CreateInvitation(c)
      <4>1. \E i, v, mode : call' = [call EXCEPT ![c] = Call("sync", i, v, mode)]
        BY <3>2 DEF CreateInvitation
      <4>. QED
        BY <4>1 DEF OnInvites
    <3>3. CASE SyncFails(c)
      BY <3>3 DEF SyncFails, Enter, AfterLink, OnInvites
    <3>4. CASE CommitAccept(c)
      BY <3>4 DEF CommitAccept, Enter, OnInvites
    <3>5. CASE DraftRequest(c)
      <4>1. \E v : call' = [call EXCEPT ![c] = Call("draft", None, v, None)]
        BY <3>5 DEF DraftRequest
      <4>. QED
        BY <4>1
    <3>. QED
      BY <1>3, <3>1, <3>2, <3>3, <3>4, <3>5
  <2>2. \A pc \in Steps : pc \notin Resolvings
    BY DEF OnInvites, Resolvings
  <2>. QED
    BY <1>1, <2>1, <2>2, CallLeaves DEF Quiet
<1>. QED
  BY <1>2, <1>3

LEMMA RegistrySteps ==
  ASSUME IInv, Addressed, [Next]_vars
  PROVE  \/ Quiet
         \/ \E c \in Calls : \E w, p : Begun(c, w, p)
         \/ \E c \in Calls : \E p : Ended(c, p)
<1>1. CASE UNCHANGED vars
  BY <1>1 DEF vars, registryVars, Quiet
<1>2. CASE Issuing \/ Answering
  BY <1>2, InvitationsQuiet DEF Issuing, Answering
<1>3. CASE InvitationSteps
  <2>1. CASE Reconcile \/ DeadlinePasses
    BY <2>1 DEF Reconcile, DeadlinePasses, OnlyInvites, Quiet
  <2>2. ASSUME NEW c \in Calls, Sync(c)
        PROVE  Quiet \/ \E w, p : Begun(c, w, p)
    BY <2>2, SyncBegun DEF Quiet
  <2>. QED
    BY <1>3, <2>1, <2>2, CommitEnded, InvitationsQuiet DEF InvitationSteps
<1>4. CASE IntakeNext
  <2>1. CASE Decide
    BY <2>1 DEF Decide, Quiet
  <2>2. ASSUME NEW c \in Calls, Turn(c),
               FromInvitation(c) \/ CreateRequest(c) \/ SubjectRequest(c) \/ AcceptRequest(c)
        PROVE  \E w, p : Begun(c, w, p)
    BY <2>2, RequestsAsk, RequestBegun DEF Turn
  <2>. QED
    BY <1>4, <2>1, <2>2, CommitEnded, InvitationsQuiet DEF IntakeNext
<1>5. CASE SharesNext
  BY <1>5, SharesQuiet
<1>6. ASSUME NEW c \in Calls, CutShort(c)
      PROVE  Quiet
  BY <1>6, InvitationsQuiet
<1>. QED
  BY <1>1, <1>2, <1>3, <1>4, <1>5, <1>6 DEF Next

LEMMA RInvKept ==
  ASSUME IInv, Addressed, RInv, [Next]_vars
  PROVE  RInv'
<1>1. \A d \in Calls : call[d].pc \in Resolvings => LinkOK(call[d].link, ids)
  BY DEF IInv, CallsIs, CallIs, Resolvings
<1>. QED
  BY <1>1, RegistrySteps, QuietRInv, BegunRInv, EndedRInv DEF IInv


-----------------------------------------------------------------------------
(* What each action writes into the row of an invitation.                  *)

Row(i, v) ==
  /\ i \in Invites /\ v \in Invite /\ invites[i] \in Invite
  /\ \A j \in Invites : invites'[j] = IF j = i THEN v ELSE invites[j]
Kept(old, new) ==
  /\ new.there = old.there /\ new.email = old.email /\ new.phone = old.phone
  /\ new.by = old.by /\ new.person = old.person

LEMMA RowIs ==
  ASSUME IInv, NEW i \in Invites, NEW v \in Invite, invites' = [invites EXCEPT ![i] = v]
  PROVE  Row(i, v)
BY DEF Row, IInv, RowsIs

LEMMA OnInvite ==
  ASSUME IInv, NEW c \in Calls, call[c].pc \in OnInvites
  PROVE  call[c].on \in Invites /\ invites[call[c].on] \in Invite /\ invites[call[c].on].email # None
BY DEF IInv, CallsIs, CallIs, RowsIs

LEMMA DeliverRow ==
  ASSUME IInv, NEW c \in Calls, Deliver(c)
  PROVE  \E v \in Invite, result \in {"queued", "failed"} :
           /\ Row(call[c].on, v) /\ Kept(invites[call[c].on], v)
           /\ v.status = IF call[c].arg = "pending" THEN "pending" ELSE invites[call[c].on].status
           /\ v.delivery = IF call[c].view.delivery # result THEN result ELSE invites[call[c].on].delivery
           /\ mails' = [mails EXCEPT ![call[c].on] = @ + IF result = "queued" THEN 1 ELSE 0]
<1>. DEFINE i == call[c].on
<1>1. i \in Invites /\ invites[i] \in Invite
  BY OnInvite DEF Deliver, OnInvites
<1>2. PICK result \in {"queued", "failed"} :
        /\ invites' = [invites EXCEPT ![i].status = IF call[c].arg = "pending" THEN "pending" ELSE @,
                                      ![i].delivery = IF call[c].view.delivery # result THEN result ELSE @]
        /\ mails' = [mails EXCEPT ![i] = @ + IF result = "queued" THEN 1 ELSE 0]
  BY DEF Deliver
<1>. DEFINE s == IF call[c].arg = "pending" THEN "pending" ELSE invites[i].status
            d == IF call[c].view.delivery # result THEN result ELSE invites[i].delivery
            v == [invites[i] EXCEPT !.status = s, !.delivery = d]
<1>3. invites' = [invites EXCEPT ![i] = v]
  BY <1>1, <1>2 DEF IInv, RowsIs, Invite
<1>4. v \in Invite /\ Kept(invites[i], v) /\ v.status = s /\ v.delivery = d
  BY <1>1 DEF Invite, Kept
<1>. HIDE DEF v
<1>5. Row(i, v)
  BY <1>1, <1>3, <1>4, RowIs
<1>. QED
  BY <1>2, <1>4, <1>5

LEMMA ReconcileRow ==
  ASSUME IInv, Reconcile
  PROVE  \E i \in Invites, v \in Invite :
           /\ Row(i, v) /\ Kept(invites[i], v) /\ v.status = invites[i].status
           /\ invites[i].there => v.delivery \in {"delivered", "failed"}
           /\ mails[i] > 0 /\ mails' = [mails EXCEPT ![i] = @ - 1]
<1>1. PICK i \in Invites, sent \in BOOLEAN :
        /\ mails[i] > 0 /\ mails' = [mails EXCEPT ![i] = @ - 1]
        /\ invites' = [invites EXCEPT ![i].delivery =
                     IF ~invites[i].there THEN @ ELSE IF sent THEN "delivered" ELSE AfterFailure(@)]
  BY DEF Reconcile
<1>2. invites[i] \in Invite
  BY DEF IInv, RowsIs
<1>. DEFINE d == IF ~invites[i].there THEN invites[i].delivery
                 ELSE IF sent THEN "delivered" ELSE AfterFailure(invites[i].delivery)
            v == [invites[i] EXCEPT !.delivery = d]
<1>3. d \in {"queued", "delivered", "failed"} /\ (invites[i].there => d \in {"delivered", "failed"})
  BY <1>2 DEF Invite, AfterFailure
<1>4. invites' = [invites EXCEPT ![i] = v]
  BY <1>1, <1>2 DEF IInv, RowsIs, Invite
<1>5. v \in Invite /\ Kept(invites[i], v) /\ v.status = invites[i].status /\ v.delivery = d
  BY <1>2, <1>3 DEF Invite, Kept
<1>. HIDE DEF v, d
<1>6. Row(i, v)
  BY <1>4, <1>5, RowIs
<1>. QED
  BY <1>1, <1>3, <1>5, <1>6

LEMMA LapseRow ==
  ASSUME IInv, DeadlinePasses
  PROVE  \E i \in Invites, v \in Invite :
           /\ Row(i, v) /\ Kept(invites[i], v)
           /\ v.status = invites[i].status /\ v.delivery = invites[i].delivery
<1>1. PICK i \in Invites : invites' = [invites EXCEPT ![i].lapsed = TRUE]
  BY DEF DeadlinePasses
<1>2. invites[i] \in Invite
  BY DEF IInv, RowsIs
<1>. DEFINE v == [invites[i] EXCEPT !.lapsed = TRUE]
<1>3. invites' = [invites EXCEPT ![i] = v]
  BY <1>1
<1>4. /\ v \in Invite /\ Kept(invites[i], v) /\ v.status = invites[i].status
      /\ v.delivery = invites[i].delivery
  BY <1>2 DEF Invite, Kept
<1>. HIDE DEF v
<1>. QED
  BY <1>3, <1>4, RowIs

LEMMA AcceptRow ==
  ASSUME IInv, NEW c \in Calls, CommitAccept(c)
  PROVE  \E v \in Invite :
           /\ Row(call[c].on, v) /\ v.by = call[c].arg /\ v.there /\ v.status = "accepted"
           /\ v.email = invites[call[c].on].email /\ v.phone = invites[call[c].on].phone
           /\ v.person = invites[call[c].on].person /\ v.delivery = invites[call[c].on].delivery
<1>. DEFINE i == call[c].on
            v == Accepted(invites[i], call[c].arg)
<1>1. i \in Invites /\ invites[i] \in Invite /\ invites[i].there /\ call[c].arg \in Users
  BY OnInvite DEF CommitAccept, OnInvites, IInv, CallsIs, CallIs
<1>2. invites' = [invites EXCEPT ![i] = v]
  BY DEF CommitAccept
<1>3. /\ v \in Invite /\ v.by = call[c].arg /\ v.there /\ v.status = "accepted" /\ v.email = invites[i].email
      /\ v.phone = invites[i].phone /\ v.person = invites[i].person /\ v.delivery = invites[i].delivery
  BY <1>1 DEF Accepted, Invite
<1>. HIDE DEF v
<1>. QED
  BY <1>1, <1>2, <1>3, RowIs

LEMMA WriteRow ==
  ASSUME IInv, NEW c \in Calls, CommitWrite(c)
  PROVE  \E v \in Invite :
           /\ Row(call[c].on, v) /\ Kept(invites[call[c].on], v)
           /\ v.delivery = invites[call[c].on].delivery
           /\ \/ call[c].pc = "open" /\ v.status = invites[call[c].on].status
              \/ call[c].pc \in {"cancel", "expire"} /\ v.status \in {"cancelled", "expired"}
<1>. DEFINE i == call[c].on
            v == Written(call[c])
<1>1. i \in Invites /\ invites[i] \in Invite
  BY OnInvite DEF CommitWrite, OnInvites
<1>2. invites' = [invites EXCEPT ![i] = v] /\ call[c].pc \in {"open", "cancel", "expire"}
  BY DEF CommitWrite
<1>3. /\ v \in Invite /\ Kept(invites[i], v) /\ v.delivery = invites[i].delivery
      /\ \/ call[c].pc = "open" /\ v.status = invites[i].status
         \/ call[c].pc \in {"cancel", "expire"} /\ v.status \in {"cancelled", "expired"}
  <2>1. CASE call[c].pc = "open"
    BY <1>1, <2>1 DEF Written, Invite, Kept
  <2>2. CASE call[c].pc = "cancel"
    BY <1>1, <2>2 DEF Written, Invite, Kept
  <2>3. CASE call[c].pc = "expire"
    BY <1>1, <2>3 DEF Written, Invite, Kept
  <2>. QED
    BY <1>2, <2>1, <2>2, <2>3
<1>. HIDE DEF v
<1>. QED
  BY <1>1, <1>2, <1>3, RowIs

LEMMA DeleteRow ==
  ASSUME IInv, NEW c \in Calls, CommitDeleteInvitation(c)
  PROVE  \E v \in Invite :
           /\ Row(call[c].on, v) /\ ~v.there /\ v.email = invites[call[c].on].email
           /\ v.by = None /\ v.person = None
<1>. DEFINE i == call[c].on
            v == [NoInvite EXCEPT !.email = invites[i].email]
<1>1. i \in Invites /\ invites[i] \in Invite
  BY OnInvite DEF CommitDeleteInvitation, OnInvites
<1>2. invites' = [invites EXCEPT ![i] = v]
  BY DEF CommitDeleteInvitation
<1>3. v \in Invite /\ ~v.there /\ v.email = invites[i].email /\ v.by = None /\ v.person = None
  BY <1>1 DEF NoInvite, Invite
<1>. HIDE DEF v
<1>. QED
  BY <1>1, <1>2, <1>3, RowIs

LEMMA CreateRow ==
  ASSUME IInv, NEW c \in Calls, CreateInvitation(c)
  PROVE  \E i \in Invites, v \in Invite, mode \in {"draft", "send"} :
           /\ Row(i, v) /\ invites[i] = NoInvite /\ v.there /\ v.email # None /\ v.by = None /\ v.person = None
           /\ v.delivery = "queued" /\ v.status = IF mode = "draft" THEN "draft" ELSE "pending"
           /\ call' = [call EXCEPT ![c] = Call("sync", i, v, mode)]
<1>1. PICK i \in Foremost({j \in Invites : invites[j] = NoInvite}), e \in Emails,
           t \in Phones \cup {None}, mode \in {"draft", "send"} :
        /\ invites' = [invites EXCEPT ![i] = NewInvite(e, t, mode)]
        /\ call' = [call EXCEPT ![c] = Call("sync", i, NewInvite(e, t, mode), mode)]
  BY DEF CreateInvitation
<1>. DEFINE v == NewInvite(e, t, mode)
<1>2. i \in Invites /\ invites[i] = NoInvite
  BY DEF Foremost
<1>3. /\ v \in Invite /\ v.there /\ v.email # None /\ v.by = None /\ v.person = None /\ v.delivery = "queued"
      /\ v.status = IF mode = "draft" THEN "draft" ELSE "pending"
  BY PeopleAssumption DEF NewInvite, NoInvite, Invite
<1>. HIDE DEF v
<1>4. invites' = [invites EXCEPT ![i] = v] /\ call' = [call EXCEPT ![c] = Call("sync", i, v, mode)]
  BY <1>1 DEF v
<1>. QED
  BY <1>2, <1>3, <1>4, RowIs

LEMMA SyncRow ==
  ASSUME IInv, NEW c \in Calls, CommitSync(c)
  PROVE  \E p \in Rows(call[c].link), v \in Invite :
           /\ ~Refused(call[c].link, p) /\ Resolve(call[c].link, p)
           /\ Row(call[c].on, v) /\ v.there = invites[call[c].on].there
           /\ v.there \/ call[c].view.person = p
           /\ v.email = invites[call[c].on].email /\ v.phone = invites[call[c].on].phone
           /\ v.by = invites[call[c].on].by /\ v.status = invites[call[c].on].status
           /\ v.delivery = invites[call[c].on].delivery
           /\ v.person = IF call[c].view.person # p THEN p ELSE invites[call[c].on].person
           /\ call' = [call EXCEPT ![c] = Call(AfterLink(call[c]), call[c].on,
                                               [call[c].view EXCEPT !.person = p], call[c].arg)]
<1>. DEFINE i == call[c].on
<1>1. i \in Invites /\ invites[i] \in Invite /\ LinkOK(call[c].link, ids)
  BY OnInvite DEF CommitSync, OnInvites, IInv, CallsIs, CallIs
<1>2. PICK p \in Rows(call[c].link) :
        /\ ~Refused(call[c].link, p) /\ Writable(call[c], p) /\ Resolve(call[c].link, p)
        /\ invites' = [invites EXCEPT ![i].person = IF call[c].view.person # p THEN p ELSE @]
        /\ Enter(c, AfterLink(call[c]), [call[c].view EXCEPT !.person = p])
  BY DEF CommitSync
<1>3. p \in Persons
  BY <1>1 DEF Rows, Fresh, Foremost, LinkOK
<1>. DEFINE q == IF call[c].view.person # p THEN p ELSE invites[i].person
            v == [invites[i] EXCEPT !.person = q]
<1>4. invites' = [invites EXCEPT ![i] = v]
  BY <1>2
<1>5. /\ v \in Invite /\ v.there = invites[i].there /\ v.email = invites[i].email /\ v.phone = invites[i].phone
      /\ v.by = invites[i].by /\ v.status = invites[i].status /\ v.delivery = invites[i].delivery /\ v.person = q
  BY <1>1, <1>3 DEF Invite
<1>6. v.there \/ call[c].view.person = p
  BY <1>2, <1>5 DEF Writable
<1>7. call' = [call EXCEPT ![c] = Call(AfterLink(call[c]), call[c].on,
                                       [call[c].view EXCEPT !.person = p], call[c].arg)]
  BY <1>2 DEF Enter
<1>. HIDE DEF v
<1>8. Row(i, v)
  BY <1>1, <1>4, <1>5, RowIs
<1>. QED
  BY <1>2, <1>5, <1>6, <1>7, <1>8


-----------------------------------------------------------------------------
(* What each action writes into the row of a request.                      *)

ReqRow(r, v) ==
  /\ r \in Requests /\ v \in Request /\ requests[r] \in Request
  /\ \A q \in Requests : requests'[q] = IF q = r THEN v ELSE requests[q]
\* Nothing of a request changed but the reference to its invitation.
ReqKept(old, new) ==
  /\ new.there = old.there /\ new.status = old.status /\ new.claim = old.claim /\ new.org = old.org
  /\ new.user = old.user /\ new.email = old.email /\ new.person = old.person
ReqsKept == \A r \in Requests : ReqKept(requests[r], requests'[r])

LEMMA ReqRowIs ==
  ASSUME IInv, NEW r \in Requests, NEW v \in Request, requests' = [requests EXCEPT ![r] = v]
  PROVE  ReqRow(r, v)
BY DEF ReqRow, IInv, RowsIs

LEMMA UnreferencedKept ==
  ASSUME IInv, requests' = Unreferenced
  PROVE  ReqsKept
<1>1. \A r \in Requests : requests[r] \in Request
  BY DEF IInv, RowsIs
<1>2. ASSUME NEW r \in Requests
      PROVE  ReqKept(requests[r], requests'[r])
  <2>1. requests'[r] = [requests[r] EXCEPT !.invite =
                          IF requests[r].invite # None /\ ~invites'[requests[r].invite].there
                          THEN None ELSE requests[r].invite]
    BY DEF Unreferenced
  <2>. QED
    BY <1>1, <2>1 DEF Request, ReqKept
<1>. QED
  BY <1>2 DEF ReqsKept

LEMMA DecideRow ==
  ASSUME IInv, Decide
  PROVE  \E r \in Requests, v \in Request :
           /\ ReqRow(r, v) /\ requests[r].there /\ v.there /\ requests[r].status = "pending_subject_submission"
           /\ v.status \in {"verified", "rejected"} /\ v.claim = requests[r].claim /\ v.org = requests[r].org
           /\ v.user = requests[r].user /\ v.email = requests[r].email /\ v.person = requests[r].person
<1>1. PICK r \in Requests, s \in {"verified", "rejected"} :
        /\ requests[r].there /\ requests[r].status = "pending_subject_submission"
        /\ requests' = [requests EXCEPT ![r].status = s]
  BY DEF Decide
<1>2. requests[r] \in Request
  BY DEF IInv, RowsIs
<1>. DEFINE v == [requests[r] EXCEPT !.status = s]
<1>3. requests' = [requests EXCEPT ![r] = v]
  BY <1>1
<1>4. /\ v \in Request /\ v.there /\ v.status = s /\ v.claim = requests[r].claim /\ v.org = requests[r].org
      /\ v.user = requests[r].user /\ v.email = requests[r].email /\ v.person = requests[r].person
  BY <1>1, <1>2 DEF Request
<1>. HIDE DEF v
<1>. QED
  BY <1>1, <1>3, <1>4, ReqRowIs

LEMMA DraftRow ==
  ASSUME IInv, NEW c \in Calls, CommitDraft(c)
  PROVE  call[c].view \in Request /\ \E r \in Requests : ReqRow(r, call[c].view) /\ requests[r] = NoRequest
<1>1. call[c].view \in Request
  BY DEF CommitDraft, IInv, CallsIs, CallIs
<1>2. PICK r \in Requests : requests[r] = NoRequest /\ requests' = [requests EXCEPT ![r] = call[c].view]
  BY DEF CommitDraft, Free, Foremost
<1>. QED
  BY <1>1, <1>2, ReqRowIs

LEMMA RequestRow ==
  ASSUME IInv, NEW c \in Calls, CommitRequest(c)
  PROVE  \E p \in Persons, r \in Requests, v \in Request :
           /\ ReqRow(r, v) /\ requests[r] = NoRequest /\ v.person = p /\ call[c].view \in Request
           /\ v.there = call[c].view.there /\ v.status = call[c].view.status /\ v.claim = call[c].view.claim
           /\ v.org = call[c].view.org /\ v.user = call[c].view.user /\ v.email = call[c].view.email
<1>1. call[c].view \in Request /\ LinkOK(call[c].link, ids)
  BY DEF CommitRequest, IInv, CallsIs, CallIs
<1>2. PICK p \in Rows(call[c].link), r \in Requests :
        requests[r] = NoRequest /\ requests' = [requests EXCEPT ![r] = [call[c].view EXCEPT !.person = p]]
  BY DEF CommitRequest, Free, Foremost
<1>3. p \in Persons
  BY <1>1 DEF Rows, Fresh, Foremost, LinkOK
<1>. DEFINE v == [call[c].view EXCEPT !.person = p]
<1>4. /\ v \in Request /\ v.person = p
      /\ v.there = call[c].view.there /\ v.status = call[c].view.status /\ v.claim = call[c].view.claim
      /\ v.org = call[c].view.org /\ v.user = call[c].view.user /\ v.email = call[c].view.email
  BY <1>1, <1>3 DEF Request
<1>5. requests' = [requests EXCEPT ![r] = v]
  BY <1>2
<1>. HIDE DEF v
<1>. QED
  BY <1>1, <1>2, <1>3, <1>4, <1>5, ReqRowIs

LEMMA ConsentRow ==
  ASSUME IInv, NEW c \in Calls, CommitConsent(c)
  PROVE  \E p \in Persons, v \in Request :
           /\ ReqRow(call[c].on, v) /\ v.person = p /\ v.user = call[c].view.user
           /\ v.there = requests[call[c].on].there /\ v.status = "pending_subject_submission"
           /\ v.claim = requests[call[c].on].claim /\ v.org = requests[call[c].on].org
           /\ v.email = requests[call[c].on].email
<1>. DEFINE r == call[c].on
<1>1. r \in Requests /\ requests[r] \in Request /\ LinkOK(call[c].link, ids) /\ call[c].view.user \in Users \cup {None}
  BY DEF CommitConsent, IInv, CallsIs, CallIs, RowsIs
<1>2. PICK p \in Rows(call[c].link) :
        requests' = [requests EXCEPT ![r].status = "pending_subject_submission",
                                     ![r].user = call[c].view.user, ![r].person = p]
  BY DEF CommitConsent
<1>3. p \in Persons
  BY <1>1 DEF Rows, Fresh, Foremost, LinkOK
<1>. DEFINE v == [requests[r] EXCEPT !.status = "pending_subject_submission",
                                     !.user = call[c].view.user, !.person = p]
<1>4. requests' = [requests EXCEPT ![r] = v]
  BY <1>1, <1>2 DEF IInv, RowsIs, Request
<1>5. /\ v \in Request /\ v.person = p /\ v.user = call[c].view.user
      /\ v.there = requests[r].there /\ v.status = "pending_subject_submission"
      /\ v.claim = requests[r].claim /\ v.org = requests[r].org /\ v.email = requests[r].email
  BY <1>1, <1>3 DEF Request
<1>. HIDE DEF v
<1>6. ReqRow(r, v)
  BY <1>1, <1>4, <1>5, ReqRowIs
<1>. QED
  BY <1>3, <1>5, <1>6


-----------------------------------------------------------------------------
(* Addresses are kept.                                                     *)

\* Addresses and numbers, once known, stay while the row is there.
AddressesStay ==
  /\ \A i \in Invites : invites[i].email # None =>
       /\ invites'[i].email = invites[i].email
       /\ invites'[i].there => invites[i].there /\ invites'[i].phone = invites[i].phone
  /\ \A r \in Requests : requests[r].email # None => requests'[r].email = requests[r].email

LEMMA CallKnowledgeStays ==
  ASSUME IInv, Addressed, ids \subseteq ids', AddressesStay, NEW d \in Calls
  PROVE  CallKnows(call[d], invites', requests', ids')
<1>. DEFINE k == call[d]
<1>1. CallKnows(k, invites, requests, ids) /\ CallIs(k, invites, requests, ids)
  BY DEF Addressed, IInv, CallsIs
<1>2. ASSUME k.pc \in {"sync", "link", "accept"}
      PROVE  ViewKnows(k, invites', ids')
  <2>1. ViewKnows(k, invites, ids) /\ k.on \in Invites /\ invites[k.on].email # None
    BY <1>1, <1>2 DEF CallKnows, CallIs, OnInvites
  <2>2. /\ invites'[k.on].email = invites[k.on].email
        /\ invites'[k.on].there => invites[k.on].there /\ invites'[k.on].phone = invites[k.on].phone
    BY <2>1 DEF AddressesStay
  <2>. QED
    BY <2>1, <2>2 DEF ViewKnows, BackedFully
<1>3. ASSUME k.pc = "consent"
      PROVE  requests'[k.on].email = requests[k.on].email
  <2>1. k.on \in Requests /\ requests[k.on].email = k.link.who.email /\ k.link.who \in Subject
    BY <1>1, <1>3 DEF CallIs, LinkOK
  <2>2. requests[k.on].email # None
    BY <2>1, PeopleAssumption DEF Subject
  <2>. QED
    BY <2>1, <2>2 DEF AddressesStay
<1>4. k.pc = "consent" => AccountHas(k.view.user, requests'[k.on].email)
  BY <1>1, <1>3 DEF CallKnows
<1>5. /\ k.pc = "accept" => EmailOf[k.arg] = k.view.email
      /\ k.pc = "link" => k.link.who = Invited(k.view)
      /\ k.pc \in {"draft", "request"} => AccountHas(k.view.user, k.view.email)
  BY <1>1 DEF CallKnows
<1>. QED
  BY <1>2, <1>4, <1>5 DEF CallKnows

LEMMA AddressedStep ==
  ASSUME IInv, Addressed, ids \subseteq ids', AddressesStay,
         \A i \in Invites : AccountHas(invites'[i].by, invites'[i].email) /\ BackedFully(invites'[i], ids'),
         \A r \in Requests : AccountHas(requests'[r].user, requests'[r].email),
         \A d \in Calls : call'[d] = call[d] \/ CallKnows(call'[d], invites', requests', ids')
  PROVE  Addressed'
<1>1. \A d \in Calls : CallKnows(call'[d], invites', requests', ids')
  BY CallKnowledgeStays
<1>. QED
  BY <1>1 DEF Addressed

\* Requests that keep who they are about.
ReqsAddressed ==
  /\ \A r \in Requests : requests[r].email # None => requests'[r].email = requests[r].email
  /\ \A r \in Requests : AccountHas(requests'[r].user, requests'[r].email)

LEMMA KeptAddressed ==
  ASSUME Addressed, ReqsKept
  PROVE  ReqsAddressed
BY DEF Addressed, ReqsKept, ReqKept, ReqsAddressed

LEMMA SameAddressed ==
  ASSUME Addressed, requests' = requests
  PROVE  ReqsAddressed
BY DEF Addressed, ReqsAddressed

\* Calls that need to know nothing.
Unknowing(k) == k.pc \notin {"sync", "link", "accept", "draft", "request", "consent"}
LEMMA UnknowingKnows ==
  ASSUME NEW k, Unknowing(k), NEW inv, NEW req, NEW I
  PROVE  CallKnows(k, inv, req, I)
BY DEF Unknowing, CallKnows

LEMMA AddressedInvitesSame ==
  ASSUME IInv, Addressed, ids \subseteq ids', invites' = invites, ReqsAddressed,
         \A d \in Calls : call'[d] = call[d] \/ CallKnows(call'[d], invites', requests', ids')
  PROVE  Addressed'
<1>1. AddressesStay
  BY DEF AddressesStay, ReqsAddressed
<1>2. \A i \in Invites : AccountHas(invites'[i].by, invites'[i].email) /\ BackedFully(invites'[i], ids')
  BY DEF Addressed, BackedFully
<1>. QED
  BY <1>1, <1>2, AddressedStep DEF ReqsAddressed

\* One row written that keeps its address, with an accepter and a person that have it.
LEMMA AddressedRow ==
  ASSUME IInv, Addressed, ids \subseteq ids', ReqsAddressed, NEW i, NEW v, Row(i, v),
         v.email = invites[i].email \/ invites[i].email = None,
         v.there => invites[i].email = None \/ (invites[i].there /\ v.phone = invites[i].phone),
         AccountHas(v.by, v.email), BackedFully(v, ids'),
         \A d \in Calls : call'[d] = call[d] \/ CallKnows(call'[d], invites', requests', ids')
  PROVE  Addressed'
<1>1. AddressesStay
  BY DEF AddressesStay, ReqsAddressed, Row
<1>2. \A j \in Invites : AccountHas(invites'[j].by, invites'[j].email) /\ BackedFully(invites'[j], ids')
  <2>1. \A j \in Invites : AccountHas(invites[j].by, invites[j].email) /\ BackedFully(invites[j], ids')
    BY DEF Addressed, BackedFully
  <2>. QED
    BY <2>1 DEF Row
<1>. QED
  BY <1>1, <1>2, AddressedStep DEF ReqsAddressed

LEMMA AddressedKept ==
  ASSUME IInv, Addressed, ids \subseteq ids', ReqsAddressed, NEW i, NEW v, Row(i, v), Kept(invites[i], v),
         \A d \in Calls : call'[d] = call[d] \/ CallKnows(call'[d], invites', requests', ids')
  PROVE  Addressed'
<1>1. i \in Invites /\ AccountHas(invites[i].by, invites[i].email) /\ BackedFully(invites[i], ids)
  BY DEF Addressed, Row
<1>2. AccountHas(v.by, v.email) /\ BackedFully(v, ids')
  BY <1>1 DEF Kept, BackedFully, AddressesIn
<1>3. v.email = invites[i].email /\ v.there = invites[i].there /\ v.phone = invites[i].phone
  BY DEF Kept
<1>. QED
  BY <1>2, <1>3, AddressedRow


\* A call on an invitation begins with the row as it is.
LEMMA BeginIs ==
  ASSUME NEW c \in Calls,
         \/ SendInvitation(c) \/ Resend(c) \/ CancelInvitation(c) \/ DeleteInvitation(c)
         \/ NoticeLapse(c) \/ OpenInvitation(c) \/ Accept(c) \/ AcceptAgain(c)
  PROVE  \E i \in Invites, pc \in OnInvites \ {"link"}, arg \in Users \cup {None, "pending"} :
           /\ invites[i].there /\ BeginOn(c, i, pc, arg)
           /\ pc = "accept" => arg \in Users /\ EmailOf[arg] = invites[i].email /\ Open(invites[i])
           /\ pc \in {"cancel", "expire"} => Live(invites[i])
           /\ pc = "delete" \/ (pc = "deliver" /\ arg = "pending") => invites[i].status = "draft"
           /\ pc = "sync" => arg = None
<1>1. CASE SendInvitation(c)
  <2>1. PICK i \in Invites : invites[i].there /\ Sendable(invites[i]) /\ BeginOn(c, i, "deliver", "pending")
    BY <1>1 DEF SendInvitation
  <2>. QED
    BY <2>1 DEF Sendable, OnInvites
<1>2. CASE Resend(c)
  <2>1. PICK i \in Invites : invites[i].there /\ BeginOn(c, i, "deliver", None)
    BY <1>2 DEF Resend
  <2>. QED
    BY <2>1, InvitesAssumption DEF OnInvites
<1>3. CASE CancelInvitation(c)
  <2>1. PICK i \in Invites : invites[i].there /\ Live(invites[i]) /\ BeginOn(c, i, "cancel", None)
    BY <1>3 DEF CancelInvitation
  <2>. QED
    BY <2>1 DEF OnInvites
<1>4. CASE DeleteInvitation(c)
  <2>1. PICK i \in Invites : invites[i].there /\ invites[i].status = "draft" /\ BeginOn(c, i, "delete", None)
    BY <1>4 DEF DeleteInvitation
  <2>. QED
    BY <2>1 DEF OnInvites
<1>5. CASE NoticeLapse(c)
  <2>1. PICK i \in Invites : invites[i].there /\ Live(invites[i]) /\ BeginOn(c, i, "expire", None)
    BY <1>5 DEF NoticeLapse, Lapsed
  <2>. QED
    BY <2>1 DEF OnInvites
<1>6. CASE OpenInvitation(c)
  <2>1. PICK i \in Invites : invites[i].there /\ BeginOn(c, i, "open", None)
    BY <1>6 DEF OpenInvitation
  <2>. QED
    BY <2>1 DEF OnInvites
<1>7. CASE Accept(c)
  <2>1. PICK u \in Users, i \in Invites :
          invites[i].there /\ Open(invites[i]) /\ Addressee(i, u) /\ BeginOn(c, i, "accept", u)
    BY <1>7 DEF Accept
  <2>. QED
    BY <2>1 DEF OnInvites, Addressee
<1>8. CASE AcceptAgain(c)
  <2>1. PICK i \in Invites : invites[i].there /\ BeginOn(c, i, "sync", None)
    BY <1>8 DEF AcceptAgain
  <2>. QED
    BY <2>1 DEF OnInvites
<1>. QED
  BY <1>1, <1>2, <1>3, <1>4, <1>5, <1>6, <1>7, <1>8

LEMMA FinishUnknowing ==
  ASSUME IInv, NEW c \in Calls, Finish(c)
  PROVE  \A d \in Calls : call'[d] = call[d] \/ Unknowing(call'[d])
BY CallsAre, OverFields DEF Finish, Unknowing

LEMMA CallUnknowing ==
  ASSUME IInv, NEW c \in Calls, NEW pc, pc \notin {"sync", "link", "accept", "draft", "request", "consent"},
         NEW on, NEW view, NEW arg, call' = [call EXCEPT ![c] = Call(pc, on, view, arg)]
  PROVE  \A d \in Calls : call'[d] = call[d] \/ Unknowing(call'[d])
<1>. DEFINE k == Call(pc, on, view, arg)
<1>1. k.pc = pc /\ call' = [call EXCEPT ![c] = k]
  BY CallFields
<1>. HIDE DEF k
<1>. QED
  BY <1>1, CallsAre DEF Unknowing

\* Steps that leave invitations and addresses alone and end or begin calls that know nothing.
LEMMA UnknowingAddressed ==
  ASSUME IInv, Addressed, ids \subseteq ids', invites' = invites, ReqsAddressed,
         \A d \in Calls : call'[d] = call[d] \/ Unknowing(call'[d])
  PROVE  Addressed'
BY AddressedInvitesSame, UnknowingKnows

LEMMA BeginAddressed ==
  ASSUME IInv, Addressed, UNCHANGED requests, NEW c \in Calls,
         \/ SendInvitation(c) \/ Resend(c) \/ CancelInvitation(c) \/ DeleteInvitation(c)
         \/ NoticeLapse(c) \/ OpenInvitation(c) \/ Accept(c) \/ AcceptAgain(c)
  PROVE  Addressed'
<1>1. PICK i \in Invites, pc \in OnInvites \ {"link"}, arg \in Users \cup {None, "pending"} :
        /\ invites[i].there /\ BeginOn(c, i, pc, arg)
        /\ pc = "accept" => arg \in Users /\ EmailOf[arg] = invites[i].email
  BY BeginIs
<1>. DEFINE k == Call(pc, i, invites[i], arg)
<1>2. k.pc = pc /\ k.on = i /\ k.view = invites[i] /\ k.arg = arg
  BY CallFields
<1>3. invites' = invites /\ ids' = ids /\ call' = [call EXCEPT ![c] = k]
  BY <1>1 DEF BeginOn
<1>4. invites[i] \in Invite /\ AccountHas(invites[i].by, invites[i].email) /\ BackedFully(invites[i], ids)
  BY DEF IInv, RowsIs, Addressed
<1>. HIDE DEF k
<1>5. ViewKnows(k, invites, ids)
  BY <1>2, <1>4 DEF ViewKnows
<1>6. CallKnows(k, invites', requests', ids')
  BY <1>1, <1>2, <1>3, <1>5 DEF CallKnows, OnInvites
<1>7. call'[c] = k /\ \A d \in Calls : d # c => call'[d] = call[d]
  BY <1>3, CallsAre
<1>. QED
  BY <1>3, <1>6, <1>7, SameAddressed, AddressedInvitesSame

LEMMA CreateAddressed ==
  ASSUME IInv, Addressed, UNCHANGED requests, NEW c \in Calls, CreateInvitation(c)
  PROVE  Addressed'
<1>1. PICK i \in Invites, v \in Invite, mode \in {"draft", "send"} :
        /\ Row(i, v) /\ invites[i] = NoInvite /\ v.there /\ v.email # None /\ v.by = None /\ v.person = None
        /\ call' = [call EXCEPT ![c] = Call("sync", i, v, mode)]
  BY CreateRow
<1>. DEFINE k == Call("sync", i, v, mode)
<1>2. k.pc = "sync" /\ k.on = i /\ k.view = v /\ call' = [call EXCEPT ![c] = k]
  BY <1>1, CallFields
<1>3. invites[i].email = None /\ ids' = ids /\ invites'[i] = v
  BY <1>1 DEF NoInvite, CreateInvitation, OnlyInvites, Row
<1>4. AccountHas(v.by, v.email) /\ BackedFully(v, ids')
  BY <1>1 DEF AccountHas, BackedFully
<1>. HIDE DEF k
<1>5. CallKnows(k, invites', requests', ids')
  BY <1>2, <1>3, <1>4 DEF CallKnows, ViewKnows
<1>6. \A d \in Calls : call'[d] = call[d] \/ CallKnows(call'[d], invites', requests', ids')
  BY <1>2, <1>5, CallsAre
<1>7. v.there => invites[i].email = None \/ (invites[i].there /\ v.phone = invites[i].phone)
  BY <1>3
<1>. QED
  BY <1>1, <1>3, <1>4, <1>6, <1>7, SameAddressed, AddressedRow

LEMMA SyncAddressed ==
  ASSUME IInv, Addressed, requests' = Unreferenced, NEW c \in Calls, Sync(c)
  PROVE  Addressed'
<1>0. ReqsAddressed /\ invites' = invites /\ ids' = ids
  BY UnreferencedKept, KeptAddressed DEF Sync, inviteVars
<1>1. CASE Finish(c)
  BY <1>0, <1>1, FinishUnknowing, UnknowingAddressed
<1>2. ASSUME NEW p,
             call' = [call EXCEPT ![c] = Linking("link", call[c].on, call[c].view, call[c].arg,
                                                 Resolution(Invited(call[c].view), p))]
      PROVE  Addressed'
  <2>. DEFINE k == Linking("link", call[c].on, call[c].view, call[c].arg, Resolution(Invited(call[c].view), p))
  <2>1. /\ k.pc = "link" /\ k.on = call[c].on /\ k.view = call[c].view /\ k.link.who = Invited(k.view)
        /\ call' = [call EXCEPT ![c] = k]
    BY <1>2 DEF Linking, Resolution
  <2>2. ViewKnows(call[c], invites, ids)
    BY DEF Sync, Addressed, CallKnows
  <2>. HIDE DEF k
  <2>3. CallKnows(k, invites', requests', ids')
    BY <1>0, <2>1, <2>2 DEF CallKnows, ViewKnows
  <2>4. call'[c] = k /\ \A d \in Calls : d # c => call'[d] = call[d]
    BY <2>1, CallsAre
  <2>. QED
    BY <1>0, <2>3, <2>4, AddressedInvitesSame
<1>. QED
  BY <1>1, <1>2 DEF Sync


LEMMA RowsAddressed ==
  ASSUME IInv, Addressed, requests' = Unreferenced, NEW c \in Calls,
         Deliver(c) \/ CommitWrite(c) \/ CommitDeleteInvitation(c) \/ Gone(c) \/ SyncFails(c)
  PROVE  Addressed'
<1>1. ReqsAddressed /\ ids \subseteq ids'
  BY UnreferencedKept, KeptAddressed
     DEF Deliver, CommitWrite, CommitDeleteInvitation, Gone, SyncFails, OnlyInvites
<1>2. \A d \in Calls : call'[d] = call[d] \/ Unknowing(call'[d])
  <2>1. CASE SyncFails(c)
    <3>1. PICK pc \in {"deliver", "done"} : call' = [call EXCEPT ![c] = Call(pc, call[c].on, invites[call[c].on], call[c].arg)]
      BY <2>1 DEF SyncFails, Enter, AfterLink
    <3>. QED
      BY <3>1, CallUnknowing
  <2>2. CASE Finish(c)
    BY <2>2, FinishUnknowing
  <2>. QED
    BY <2>1, <2>2 DEF Deliver, CommitWrite, CommitDeleteInvitation, Gone
<1>3. \A d \in Calls : call'[d] = call[d] \/ CallKnows(call'[d], invites', requests', ids')
  BY <1>2, UnknowingKnows
<1>4. CASE Gone(c) \/ SyncFails(c)
  BY <1>1, <1>2, <1>4, UnknowingAddressed DEF Gone, SyncFails, inviteVars
<1>5. CASE Deliver(c)
  BY <1>1, <1>3, <1>5, DeliverRow, AddressedKept
<1>6. CASE CommitWrite(c)
  BY <1>1, <1>3, <1>6, WriteRow, AddressedKept
<1>7. CASE CommitDeleteInvitation(c)
  <2>1. PICK v \in Invite : Row(call[c].on, v) /\ ~v.there /\ v.email = invites[call[c].on].email /\ v.by = None /\ v.person = None
    BY <1>7, DeleteRow
  <2>2. AccountHas(v.by, v.email) /\ BackedFully(v, ids')
    BY <2>1 DEF AccountHas, BackedFully
  <2>. QED
    BY <1>1, <1>3, <2>1, <2>2, AddressedRow
<1>. QED
  BY <1>4, <1>5, <1>6, <1>7

LEMMA TimeAddressed ==
  ASSUME IInv, Addressed, requests' = Unreferenced, Reconcile \/ DeadlinePasses
  PROVE  Addressed'
<1>1. ReqsAddressed /\ ids' = ids /\ call' = call
  BY UnreferencedKept, KeptAddressed DEF Reconcile, DeadlinePasses, OnlyInvites
<1>2. PICK i \in Invites, v \in Invite : Row(i, v) /\ Kept(invites[i], v)
  BY ReconcileRow, LapseRow
<1>. QED
  BY <1>1, <1>2, AddressedKept

LEMMA CommitAcceptAddressed ==
  ASSUME IInv, Addressed, requests' = Unreferenced, NEW c \in Calls, CommitAccept(c)
  PROVE  Addressed'
<1>. DEFINE i == call[c].on
            w == Accepted(call[c].view, call[c].arg)
            k == Call("sync", i, w, call[c].arg)
<1>1. ReqsAddressed /\ ids' = ids /\ call[c].pc = "accept" /\ call' = [call EXCEPT ![c] = k] /\ invites[i].there
  BY UnreferencedKept, KeptAddressed DEF CommitAccept, OnlyInvites, Enter
<1>2. PICK v \in Invite :
        /\ Row(i, v) /\ v.by = call[c].arg /\ v.there /\ v.email = invites[i].email /\ v.phone = invites[i].phone
        /\ v.person = invites[i].person
  BY AcceptRow
<1>3. /\ ViewKnows(call[c], invites, ids) /\ EmailOf[call[c].arg] = call[c].view.email
      /\ call[c].arg \in Users /\ i \in Invites
  BY <1>1 DEF Addressed, CallKnows, IInv, CallsIs, CallIs, OnInvites
<1>4. /\ w \in Invite /\ w.by = call[c].arg /\ w.email = call[c].view.email /\ w.phone = call[c].view.phone
      /\ w.person = call[c].view.person
  BY <1>3 DEF ViewKnows, Accepted, Invite
<1>5. AccountHas(v.by, v.email) /\ BackedFully(v, ids') /\ invites'[i] = v
  BY <1>1, <1>2, <1>3 DEF AccountHas, BackedFully, AddressesIn, Addressed, ViewKnows, Row
<1>6. k.pc = "sync" /\ k.on = i /\ k.view = w
  BY CallFields
<1>. HIDE DEF w, k
<1>7. CallKnows(k, invites', requests', ids')
  BY <1>1, <1>2, <1>3, <1>4, <1>5, <1>6 DEF CallKnows, ViewKnows, AccountHas, BackedFully, AddressesIn
<1>8. \A d \in Calls : call'[d] = call[d] \/ CallKnows(call'[d], invites', requests', ids')
  BY <1>1, <1>7, CallsAre
<1>. QED
  BY <1>1, <1>2, <1>5, <1>8, AddressedRow

LEMMA CommitSyncAddressed ==
  ASSUME IInv, Addressed, requests' = Unreferenced, NEW c \in Calls, CommitSync(c)
  PROVE  Addressed'
<1>. DEFINE i == call[c].on
<1>1. ReqsAddressed /\ call[c].pc = "link"
  BY UnreferencedKept, KeptAddressed DEF CommitSync
<1>2. PICK p \in Rows(call[c].link), v \in Invite :
        /\ ~Refused(call[c].link, p) /\ Resolve(call[c].link, p)
        /\ Row(i, v) /\ v.there = invites[i].there
        /\ v.there \/ call[c].view.person = p
        /\ v.email = invites[i].email /\ v.phone = invites[i].phone /\ v.by = invites[i].by
        /\ v.person = IF call[c].view.person # p THEN p ELSE invites[i].person
        /\ call' = [call EXCEPT ![c] = Call(AfterLink(call[c]), i, [call[c].view EXCEPT !.person = p], call[c].arg)]
  BY SyncRow
<1>3. /\ LinkOK(call[c].link, ids) /\ ViewKnows(call[c], invites, ids) /\ call[c].link.who = Invited(call[c].view)
  BY <1>1 DEF Addressed, CallKnows, IInv, CallsIs, CallIs
<1>4. ids \subseteq ids' /\ \A a \in AddressesOf(call[c].link.who) : <<p, a>> \in ids'
  BY <1>2, <1>3, ResolveKeeps DEF IInv
<1>5. i \in Invites /\ AccountHas(invites[i].by, invites[i].email) /\ BackedFully(invites[i], ids)
  BY <1>2 DEF Addressed, Row
<1>6. AccountHas(v.by, v.email) /\ BackedFully(v, ids')
  <2>1. CASE call[c].view.person = p
    BY <1>2, <1>4, <1>5, <2>1 DEF BackedFully, AddressesIn
  <2>2. CASE call[c].view.person # p
    <3>1. v.email = call[c].view.email /\ v.phone = call[c].view.phone
      BY <1>2, <1>3, <2>2 DEF ViewKnows
    <3>2. AddressesIn(v) = AddressesOf(call[c].link.who)
      BY <1>3, <3>1 DEF AddressesIn, AddressesOf, Invited, Who
    <3>. QED
      BY <1>2, <1>4, <1>5, <2>2, <3>2 DEF BackedFully
  <2>. QED
    BY <2>1, <2>2
<1>7. \A d \in Calls : call'[d] = call[d] \/ Unknowing(call'[d])
  <2>1. AfterLink(call[c]) \in {"deliver", "done"}
    BY DEF AfterLink
  <2>. QED
    BY <1>2, <2>1, CallUnknowing
<1>8. \A d \in Calls : call'[d] = call[d] \/ CallKnows(call'[d], invites', requests', ids')
  BY <1>7, UnknowingKnows
<1>. QED
  BY <1>1, <1>2, <1>4, <1>6, <1>8, AddressedRow


\* Requests rewritten by one of its calls.
LEMMA OneReqAddressed ==
  ASSUME Addressed, NEW r, NEW v, ReqRow(r, v), requests[r].email \in {None, v.email},
         AccountHas(v.user, v.email)
  PROVE  ReqsAddressed
BY DEF Addressed, ReqRow, ReqsAddressed

LEMMA IntakeAddressed ==
  ASSUME IInv, Addressed, IntakeNext
  PROVE  Addressed'
<1>1. ASSUME NEW c \in Calls, CommitDraft(c) \/ CommitRequest(c) \/ CommitConsent(c) \/ Fails(c)
      PROVE  Addressed'
  <2>1. invites' = invites /\ \A d \in Calls : call'[d] = call[d] \/ Unknowing(call'[d])
    BY <1>1, FinishUnknowing DEF CommitDraft, CommitRequest, CommitConsent, Fails, inviteVars
  <2>2. ids \subseteq ids'
    BY <1>1 DEF CommitDraft, CommitRequest, CommitConsent, Fails, Resolve
  <2>3. CallKnows(call[c], invites, requests, ids)
    BY DEF Addressed
  <2>4. CASE CommitDraft(c)
    <3>1. AccountHas(call[c].view.user, call[c].view.email)
      BY <2>3, <2>4 DEF CommitDraft, CallKnows
    <3>2. PICK r \in Requests : ReqRow(r, call[c].view) /\ requests[r] = NoRequest
      BY <2>4, DraftRow
    <3>3. ReqsAddressed
      BY <3>1, <3>2, OneReqAddressed DEF NoRequest
    <3>. QED
      BY <2>1, <2>2, <3>3, UnknowingAddressed
  <2>5. CASE CommitRequest(c)
    <3>1. AccountHas(call[c].view.user, call[c].view.email)
      BY <2>3, <2>5 DEF CommitRequest, CallKnows
    <3>2. PICK r \in Requests, v \in Request :
            /\ ReqRow(r, v) /\ requests[r] = NoRequest
            /\ v.user = call[c].view.user /\ v.email = call[c].view.email
      BY <2>5, RequestRow
    <3>3. ReqsAddressed
      BY <3>1, <3>2, OneReqAddressed DEF NoRequest
    <3>. QED
      BY <2>1, <2>2, <3>3, UnknowingAddressed
  <2>6. CASE CommitConsent(c)
    <3>1. AccountHas(call[c].view.user, requests[call[c].on].email)
      BY <2>3, <2>6 DEF CommitConsent, CallKnows
    <3>2. PICK v \in Request :
            /\ ReqRow(call[c].on, v) /\ v.user = call[c].view.user /\ v.email = requests[call[c].on].email
      BY <2>6, ConsentRow
    <3>3. ReqsAddressed
      BY <3>1, <3>2, OneReqAddressed
    <3>. QED
      BY <2>1, <2>2, <3>3, UnknowingAddressed
  <2>7. CASE Fails(c)
    BY <2>1, <2>2, <2>7, SameAddressed, UnknowingAddressed DEF Fails
  <2>. QED
    BY <1>1, <2>4, <2>5, <2>6, <2>7
<1>2. ASSUME NEW c \in Calls, DraftRequest(c)
      PROVE  Addressed'
  <2>1. PICK x \in Claims, u \in Users :
          call' = [call EXCEPT ![c] =
            Call("draft", None, [NewRequest(u, EmailOf[u], "pending_subject_submission", FALSE)
                                   EXCEPT !.claim = x], None)]
    BY <1>2 DEF DraftRequest
  <2>. DEFINE v == [NewRequest(u, EmailOf[u], "pending_subject_submission", FALSE) EXCEPT !.claim = x]
              k == Call("draft", None, v, None)
  <2>2. v.user = u /\ v.email = EmailOf[u]
    BY DEF NewRequest, NoRequest
  <2>3. k.pc = "draft" /\ k.view = v /\ call' = [call EXCEPT ![c] = k]
    BY <2>1, CallFields
  <2>. HIDE DEF v, k
  <2>4. CallKnows(k, invites', requests', ids')
    BY <2>2, <2>3 DEF CallKnows, AccountHas
  <2>5. \A d \in Calls : call'[d] = call[d] \/ CallKnows(call'[d], invites', requests', ids')
    BY <2>3, <2>4, CallsAre
  <2>. QED
    BY <1>2, <2>5, SameAddressed, AddressedInvitesSame DEF DraftRequest, inviteVars
<1>3. ASSUME NEW c \in Calls, FromInvitation(c) \/ CreateRequest(c) \/ SubjectRequest(c) \/ AcceptRequest(c)
      PROVE  Addressed'
  <2>1. PICK pc \in {"request", "consent"}, r \in Requests \cup {None}, v \in Request, p \in Persons \cup {None} :
          Asked(c, pc, r, v, p)
    BY <1>3, RequestsAsk DEF Asks
  <2>. DEFINE k == Linking(pc, r, v, None, Resolution(Applicant(v), p))
  <2>2. k.pc = pc /\ k.on = r /\ k.view = v
    BY LinkingFields
  <2>3. /\ call' = [call EXCEPT ![c] = k] /\ invites' = invites /\ requests' = requests /\ ids' = ids
        /\ AccountHas(v.user, v.email)
        /\ (pc = "consent" => requests[r].email = v.email)
    BY <2>1 DEF Asked, Resolving, inviteVars
  <2>. HIDE DEF k
  <2>4. CallKnows(k, invites', requests', ids')
    BY <2>2, <2>3 DEF CallKnows
  <2>5. \A d \in Calls : call'[d] = call[d] \/ CallKnows(call'[d], invites', requests', ids')
    BY <2>3, <2>4, CallsAre
  <2>. QED
    BY <2>3, <2>5, SameAddressed, AddressedInvitesSame
<1>4. CASE Decide
  <2>1. PICK r \in Requests, v \in Request :
          ReqRow(r, v) /\ v.user = requests[r].user /\ v.email = requests[r].email
    BY <1>4, DecideRow
  <2>2. AccountHas(v.user, v.email) /\ requests[r].email \in {None, v.email}
    BY <2>1 DEF Addressed
  <2>3. ReqsAddressed
    BY <2>1, <2>2, OneReqAddressed
  <2>. QED
    BY <1>4, <2>3, AddressedInvitesSame DEF Decide, inviteVars
<1>. QED
  BY <1>1, <1>2, <1>3, <1>4 DEF IntakeNext

LEMMA SharesAddressed ==
  ASSUME IInv, Addressed, SharesNext
  PROVE  Addressed'
<1>1. UNCHANGED <<invites, ids, requests>>
  BY DEF SharesNext, CreateShare, UpdateShare, RevokeShare, Change, OpenPassport, CommitShare, CountView,
         CommitView, ShareLapses, WindowPasses, beforeShares, inviteVars
<1>2. \A d \in Calls : call'[d] = call[d] \/ Unknowing(call'[d])
  <2>1. CASE ShareLapses \/ WindowPasses
    BY <2>1 DEF ShareLapses, WindowPasses
  <2>2. ASSUME NEW c \in Calls, CreateShare(c) \/ CommitShare(c) \/ CommitView(c)
        PROVE  \A d \in Calls : call'[d] = call[d] \/ Unknowing(call'[d])
    BY <2>2, FinishUnknowing DEF CreateShare, CommitShare, CommitView
  <2>3. ASSUME NEW c \in Calls, UpdateShare(c) \/ RevokeShare(c) \/ OpenPassport(c) \/ CountView(c)
        PROVE  \A d \in Calls : call'[d] = call[d] \/ Unknowing(call'[d])
    <3>1. \E pc \in Elsewhere : \E on, view, arg : call' = [call EXCEPT ![c] = Call(pc, on, view, arg)]
      BY <2>3 DEF UpdateShare, RevokeShare, Change, OpenPassport, CountView, Elsewhere
    <3>2. \A pc \in Elsewhere : pc \notin {"sync", "link", "accept", "draft", "request", "consent"}
      BY DEF Elsewhere
    <3>. QED
      BY <3>1, <3>2, CallUnknowing
  <2>. QED
    BY <2>1, <2>2, <2>3 DEF SharesNext
<1>. QED
  BY <1>1, <1>2, SameAddressed, UnknowingAddressed

LEMMA AddressedStays ==
  ASSUME IInv, Addressed, [Next]_vars
  PROVE  Addressed'
<1>1. CASE UNCHANGED vars
  BY <1>1, SameAddressed, AddressedInvitesSame DEF vars, registryVars, inviteVars, intakeVars
<1>2. CASE (Issuing \/ Answering) /\ UNCHANGED requests
  BY <1>2, BeginAddressed, CreateAddressed DEF Issuing, Answering
<1>3. CASE InvitationSteps /\ requests' = Unreferenced
  BY <1>3, SyncAddressed, CommitSyncAddressed, RowsAddressed, TimeAddressed, CommitAcceptAddressed
     DEF InvitationSteps
<1>4. CASE IntakeNext
  BY <1>4, IntakeAddressed
<1>5. CASE SharesNext
  BY <1>5, SharesAddressed
<1>6. ASSUME NEW c \in Calls, CutShort(c), UNCHANGED requests
      PROVE  Addressed'
  BY <1>6, FinishUnknowing, SameAddressed, UnknowingAddressed DEF CutShort
<1>. QED
  BY <1>1, <1>2, <1>3, <1>4, <1>5, <1>6 DEF Next



-----------------------------------------------------------------------------
(* What a call knows of its invitation while no other call is about it.    *)

Deciding == {"accept", "cancel", "expire", "delete"}
Decides(k) == k.pc \in Deciding \/ (k.pc = "deliver" /\ k.arg = "pending")
\* Nobody has accepted what is about to be decided, and accepter and person are the row's.
Knows(k, v) ==
  /\ Decides(k) => v.by = None
  /\ k.pc \in {"sync", "link"} => k.view.by = v.by
  /\ k.pc \in {"sync", "link", "accept"} => k.view.person = v.person
AcceptedIs(v) == v.by # None => v.there /\ v.status = "accepted"
Sole ==
  /\ \A i \in Invites \ raced : AcceptedIs(invites[i])
  /\ \A c, d \in Calls : c # d /\ call[c].pc \in OnInvites /\ call[d].pc \in OnInvites /\ call[c].on = call[d].on
       => call[c].on \in raced
  /\ \A c \in Calls : call[c].pc \in OnInvites /\ call[c].on \notin raced => Knows(call[c], invites[call[c].on])

\* Only one call changes, and it stays with its invitation if it goes on about one.
OnlyCall(c) ==
  /\ \A d \in Calls : d # c => call'[d] = call[d]
  /\ call'[c].pc \in OnInvites => call[c].pc \in OnInvites /\ call'[c].on = call[c].on

\* A call writes its row.
LEMMA SoleWrites ==
  ASSUME IInv, Sole, raced' = raced, NEW c \in Calls, call[c].pc \in OnInvites, OnlyCall(c),
         NEW v, Row(call[c].on, v),
         call[c].on \notin raced => AcceptedIs(v) /\ (call'[c].pc \in OnInvites => Knows(call'[c], v))
  PROVE  Sole'
<1>. DEFINE i == call[c].on
<1>1. i \in Invites /\ invites'[i] = v /\ \A j \in Invites : j # i => invites'[j] = invites[j]
  BY DEF Row
<1>2. \A j \in Invites \ raced' : AcceptedIs(invites'[j])
  BY <1>1 DEF Sole
<1>3. ASSUME NEW d \in Calls, NEW e \in Calls, d # e, call'[d].pc \in OnInvites, call'[e].pc \in OnInvites,
             call'[d].on = call'[e].on
      PROVE  call'[d].on \in raced'
  BY <1>3 DEF Sole, OnlyCall
<1>4. ASSUME NEW d \in Calls, call'[d].pc \in OnInvites, call'[d].on \notin raced'
      PROVE  Knows(call'[d], invites'[call'[d].on])
  <2>1. CASE d = c
    BY <1>1, <1>4, <2>1 DEF OnlyCall
  <2>2. CASE d # c
    <3>1. call'[d] = call[d] /\ call[d].on # i /\ call[d].on \in Invites
      BY <1>4, <2>2, OnInvite DEF OnlyCall, Sole
    <3>. QED
      BY <1>1, <1>4, <3>1 DEF Sole
  <2>. QED
    BY <2>1, <2>2
<1>. QED
  BY <1>2, <1>3, <1>4 DEF Sole

\* Invitations stay as they are.
LEMMA SoleAside ==
  ASSUME IInv, Sole, raced' = raced, invites' = invites, NEW c \in Calls, OnlyCall(c),
         call'[c].pc \in OnInvites /\ call[c].on \notin raced => Knows(call'[c], invites[call[c].on])
  PROVE  Sole'
<1>1. \A d, e \in Calls : d # e /\ call'[d].pc \in OnInvites /\ call'[e].pc \in OnInvites /\ call'[d].on = call'[e].on
        => call'[d].on \in raced'
  BY DEF Sole, OnlyCall
<1>2. \A d \in Calls : call'[d].pc \in OnInvites /\ call'[d].on \notin raced' => Knows(call'[d], invites'[call'[d].on])
  BY DEF Sole, OnlyCall
<1>. QED
  BY <1>1, <1>2 DEF Sole

LEMMA SoleSame ==
  ASSUME Sole, UNCHANGED <<raced, invites, call>>
  PROVE  Sole'
BY DEF Sole

LEMMA FinishOnly ==
  ASSUME IInv, NEW c \in Calls, Finish(c)
  PROVE  OnlyCall(c) /\ call'[c].pc = "done" /\ call'[c].pc \notin OnInvites
BY CallsAre, OverFields DEF Finish, OnlyCall, OnInvites

LEMMA CallOnly ==
  ASSUME IInv, NEW c \in Calls, NEW pc, NEW on, NEW view, NEW arg, call' = [call EXCEPT ![c] = Call(pc, on, view, arg)]
  PROVE  /\ call'[c].pc = pc /\ call'[c].on = on /\ call'[c].view = view /\ call'[c].arg = arg
         /\ \A d \in Calls : d # c => call'[d] = call[d]
<1>. DEFINE k == Call(pc, on, view, arg)
<1>1. k.pc = pc /\ k.on = on /\ k.view = view /\ k.arg = arg /\ call' = [call EXCEPT ![c] = k]
  BY CallFields
<1>. HIDE DEF k
<1>. QED
  BY <1>1, CallsAre

LEMMA LinkingOnly ==
  ASSUME IInv, NEW c \in Calls, NEW pc, NEW on, NEW view, NEW arg, NEW link,
         call' = [call EXCEPT ![c] = Linking(pc, on, view, arg, link)]
  PROVE  /\ call'[c].pc = pc /\ call'[c].on = on /\ call'[c].view = view /\ call'[c].arg = arg
         /\ call'[c].link = link
         /\ \A d \in Calls : d # c => call'[d] = call[d]
<1>. DEFINE k == Linking(pc, on, view, arg, link)
<1>1. k.pc = pc /\ k.on = on /\ k.view = view /\ k.arg = arg /\ k.link = link /\ call' = [call EXCEPT ![c] = k]
  BY LinkingFields
<1>. HIDE DEF k
<1>. QED
  BY <1>1, CallsAre

LEMMA BeginSole ==
  ASSUME IInv, Sole, NEW c \in Calls, call[c].pc = "idle",
         \/ SendInvitation(c) \/ Resend(c) \/ CancelInvitation(c) \/ DeleteInvitation(c)
         \/ NoticeLapse(c) \/ OpenInvitation(c) \/ Accept(c) \/ AcceptAgain(c)
  PROVE  Sole'
<1>1. PICK i \in Invites, pc \in OnInvites \ {"link"}, arg \in Users \cup {None, "pending"} :
        /\ invites[i].there /\ BeginOn(c, i, pc, arg)
        /\ pc = "accept" => Open(invites[i])
        /\ pc \in {"cancel", "expire"} => Live(invites[i])
        /\ pc = "delete" \/ (pc = "deliver" /\ arg = "pending") => invites[i].status = "draft"
  BY BeginIs
<1>2. /\ call'[c].pc = pc /\ call'[c].on = i /\ call'[c].view = invites[i] /\ call'[c].arg = arg
      /\ \A d \in Calls : d # c => call'[d] = call[d]
  BY <1>1, CallOnly DEF BeginOn
<1>3. invites' = invites /\ raced' = raced \cup {j \in Invites : j = i /\ About(j) # {}}
  BY <1>1 DEF BeginOn
<1>4. raced \subseteq raced' /\ (i \in raced' \/ About(i) = {})
  BY <1>3
<1>5. ASSUME NEW d \in Calls, d # c, call[d].pc \in OnInvites, call[d].on = i
      PROVE  i \in raced'
  BY <1>4, <1>5 DEF About, Flying, OnInvites
<1>6. ASSUME i \notin raced
      PROVE  Knows(call'[c], invites[i])
  <2>1. invites[i].by # None => invites[i].status = "accepted"
    BY <1>6 DEF Sole, AcceptedIs
  <2>2. Decides(call'[c]) => invites[i].by = None
    BY <1>1, <1>2, <2>1 DEF Decides, Deciding, Open, Live
  <2>. QED
    BY <1>2, <2>2 DEF Knows
<1>7. \A j \in Invites \ raced' : AcceptedIs(invites'[j])
  BY <1>3, <1>4 DEF Sole
<1>8. \A d, e \in Calls : d # e /\ call'[d].pc \in OnInvites /\ call'[e].pc \in OnInvites /\ call'[d].on = call'[e].on
        => call'[d].on \in raced'
  BY <1>2, <1>4, <1>5 DEF Sole
<1>9. \A d \in Calls : call'[d].pc \in OnInvites /\ call'[d].on \notin raced' => Knows(call'[d], invites'[call'[d].on])
  BY <1>2, <1>3, <1>4, <1>6 DEF Sole
<1>. QED
  BY <1>7, <1>8, <1>9 DEF Sole

\* Nobody is about a row that was never made.
LEMMA CreateSole ==
  ASSUME IInv, Sole, NEW c \in Calls, CreateInvitation(c)
  PROVE  Sole'
<1>1. PICK i \in Invites, v \in Invite, mode \in {"draft", "send"} :
        /\ Row(i, v) /\ invites[i] = NoInvite /\ v.by = None /\ v.person = None
        /\ call' = [call EXCEPT ![c] = Call("sync", i, v, mode)]
  BY CreateRow
<1>2. /\ call'[c].pc = "sync" /\ call'[c].on = i /\ call'[c].view = v
      /\ \A d \in Calls : d # c => call'[d] = call[d]
  <2>. DEFINE k == Call("sync", i, v, mode)
  <2>1. k.pc = "sync" /\ k.on = i /\ k.view = v
    BY CallFields
  <2>2. call' = [call EXCEPT ![c] = k]
    BY <1>1
  <2>. HIDE DEF k
  <2>. QED
    BY <2>1, <2>2, CallsAre
<1>3. raced' = raced /\ invites'[i] = v /\ \A j \in Invites : j # i => invites'[j] = invites[j]
  BY <1>1 DEF CreateInvitation, OnlyInvites, Row
<1>4. \A d \in Calls : call[d].pc \in OnInvites => call[d].on \in Invites /\ call[d].on # i
  BY <1>1, OnInvite DEF NoInvite
<1>5. Knows(call'[c], v) /\ AcceptedIs(v)
  BY <1>1, <1>2 DEF Knows, AcceptedIs, Decides, Deciding
<1>6. \A j \in Invites \ raced' : AcceptedIs(invites'[j])
  BY <1>3, <1>5 DEF Sole
<1>7. \A d, e \in Calls : d # e /\ call'[d].pc \in OnInvites /\ call'[e].pc \in OnInvites /\ call'[d].on = call'[e].on
        => call'[d].on \in raced'
  BY <1>2, <1>3, <1>4 DEF Sole
<1>8. \A d \in Calls : call'[d].pc \in OnInvites /\ call'[d].on \notin raced' => Knows(call'[d], invites'[call'[d].on])
  BY <1>2, <1>3, <1>4, <1>5 DEF Sole
<1>. QED
  BY <1>6, <1>7, <1>8 DEF Sole


LEMMA SyncSole ==
  ASSUME IInv, Sole, NEW c \in Calls, Sync(c)
  PROVE  Sole'
<1>1. /\ raced' = raced /\ invites' = invites /\ call[c].pc = "sync" /\ call[c].pc \in OnInvites
  BY DEF Sync, inviteVars, OnInvites
<1>2. CASE Finish(c)
  BY <1>1, <1>2, FinishOnly, SoleAside
<1>3. ASSUME NEW p, call' = [call EXCEPT ![c] = Linking("link", call[c].on, call[c].view, call[c].arg,
                                                        Resolution(Invited(call[c].view), p))]
      PROVE  Sole'
  <2>1. /\ call'[c].pc = "link" /\ call'[c].on = call[c].on /\ call'[c].view = call[c].view
        /\ \A d \in Calls : d # c => call'[d] = call[d]
    <3>. DEFINE k == Linking("link", call[c].on, call[c].view, call[c].arg, Resolution(Invited(call[c].view), p))
    <3>1. k.pc = "link" /\ k.on = call[c].on /\ k.view = call[c].view
      BY LinkingFields
    <3>2. call' = [call EXCEPT ![c] = k]
      BY <1>3
    <3>. HIDE DEF k
    <3>. QED
      BY <3>1, <3>2, CallsAre
  <2>2. OnlyCall(c)
    BY <1>1, <2>1 DEF OnlyCall
  <2>3. call[c].on \notin raced => Knows(call'[c], invites[call[c].on])
    BY <1>1, <2>1 DEF Sole, Knows, Decides, Deciding
  <2>. QED
    BY <1>1, <2>2, <2>3, SoleAside
<1>. QED
  BY <1>2, <1>3 DEF Sync

LEMMA CommitSyncSole ==
  ASSUME IInv, Sole, NEW c \in Calls, CommitSync(c)
  PROVE  Sole'
<1>1. raced' = raced /\ call[c].pc = "link" /\ call[c].pc \in OnInvites
  BY DEF CommitSync, OnInvites
<1>2. PICK p \in Rows(call[c].link), v \in Invite :
        /\ Row(call[c].on, v) /\ v.there = invites[call[c].on].there
        /\ v.by = invites[call[c].on].by /\ v.status = invites[call[c].on].status
        /\ call' = [call EXCEPT ![c] = Call(AfterLink(call[c]), call[c].on,
                                            [call[c].view EXCEPT !.person = p], call[c].arg)]
  BY SyncRow
<1>3. /\ call'[c].pc = AfterLink(call[c]) /\ call'[c].on = call[c].on /\ call'[c].arg = call[c].arg
      /\ \A d \in Calls : d # c => call'[d] = call[d]
  <2>. DEFINE k == Call(AfterLink(call[c]), call[c].on, [call[c].view EXCEPT !.person = p], call[c].arg)
  <2>1. k.pc = AfterLink(call[c]) /\ k.on = call[c].on /\ k.arg = call[c].arg
    BY CallFields
  <2>2. call' = [call EXCEPT ![c] = k]
    BY <1>2
  <2>. HIDE DEF k
  <2>. QED
    BY <2>1, <2>2, CallsAre
<1>4. OnlyCall(c)
  BY <1>1, <1>3 DEF OnlyCall
<1>5. Knows(call'[c], v)
  BY <1>3 DEF Knows, Decides, Deciding, AfterLink
<1>6. call[c].on \notin raced => AcceptedIs(v)
  BY <1>2 DEF Row, Sole, AcceptedIs
<1>. QED
  BY <1>1, <1>2, <1>4, <1>5, <1>6, SoleWrites

LEMMA SyncFailsSole ==
  ASSUME IInv, Sole, NEW c \in Calls, SyncFails(c)
  PROVE  Sole'
<1>1. raced' = raced /\ invites' = invites /\ call[c].pc = "link" /\ call[c].pc \in OnInvites
  BY DEF SyncFails, OnInvites, inviteVars
<1>2. PICK pc \in {"deliver", "done"} :
        /\ call' = [call EXCEPT ![c] = Call(pc, call[c].on, invites[call[c].on], call[c].arg)]
        /\ pc = "deliver" => call[c].arg = "send"
  BY DEF SyncFails, Enter, AfterLink
<1>3. /\ call'[c].pc = pc /\ call'[c].on = call[c].on /\ call'[c].arg = call[c].arg
      /\ \A d \in Calls : d # c => call'[d] = call[d]
  <2>. DEFINE k == Call(pc, call[c].on, invites[call[c].on], call[c].arg)
  <2>1. k.pc = pc /\ k.on = call[c].on /\ k.arg = call[c].arg
    BY CallFields
  <2>2. call' = [call EXCEPT ![c] = k]
    BY <1>2
  <2>. HIDE DEF k
  <2>. QED
    BY <2>1, <2>2, CallsAre
<1>4. OnlyCall(c)
  BY <1>1, <1>3 DEF OnlyCall
<1>5. Knows(call'[c], invites[call[c].on])
  BY <1>2, <1>3 DEF Knows, Decides, Deciding
<1>. QED
  BY <1>1, <1>4, <1>5, SoleAside

LEMMA DeliverSole ==
  ASSUME IInv, Sole, NEW c \in Calls, Deliver(c)
  PROVE  Sole'
<1>1. raced' = raced /\ call[c].pc = "deliver" /\ call[c].pc \in OnInvites
  BY DEF Deliver, OnlyInvites, OnInvites
<1>2. PICK v \in Invite :
        /\ Row(call[c].on, v) /\ Kept(invites[call[c].on], v)
        /\ v.status = IF call[c].arg = "pending" THEN "pending" ELSE invites[call[c].on].status
  BY DeliverRow
<1>3. OnlyCall(c) /\ call'[c].pc \notin OnInvites
  BY FinishOnly DEF Deliver
<1>4. call[c].on \notin raced => AcceptedIs(v)
  <2> SUFFICES ASSUME call[c].on \notin raced
               PROVE  AcceptedIs(v)
    OBVIOUS
  <2>1. AcceptedIs(invites[call[c].on]) /\ Knows(call[c], invites[call[c].on])
    BY <1>1, <1>2 DEF Sole, Row
  <2>. QED
    BY <1>1, <1>2, <2>1 DEF AcceptedIs, Kept, Knows, Decides
<1>. QED
  BY <1>1, <1>2, <1>3, <1>4, SoleWrites

LEMMA TimeSole ==
  ASSUME IInv, Sole, Reconcile \/ DeadlinePasses
  PROVE  Sole'
<1>1. raced' = raced /\ call' = call
  BY DEF Reconcile, DeadlinePasses, OnlyInvites
<1>2. PICK i \in Invites, v \in Invite : Row(i, v) /\ Kept(invites[i], v) /\ v.status = invites[i].status
  BY ReconcileRow, LapseRow
<1>3. invites'[i] = v /\ \A j \in Invites : j # i => invites'[j] = invites[j]
  BY <1>2 DEF Row
<1>4. \A j \in Invites \ raced' : AcceptedIs(invites'[j])
  BY <1>1, <1>2, <1>3 DEF Sole, AcceptedIs, Kept
<1>5. \A k : Knows(k, invites[i]) => Knows(k, v)
  BY <1>2 DEF Knows, Kept
<1>6. ASSUME NEW d \in Calls, call[d].pc \in OnInvites, call[d].on \notin raced
      PROVE  Knows(call[d], invites'[call[d].on])
  <2>1. call[d].on \in Invites /\ Knows(call[d], invites[call[d].on])
    BY <1>6, OnInvite DEF Sole
  <2>2. CASE call[d].on = i
    BY <1>3, <1>5, <2>1, <2>2
  <2>3. CASE call[d].on # i
    BY <1>3, <2>1, <2>3
  <2>. QED
    BY <2>2, <2>3
<1>. QED
  BY <1>1, <1>4, <1>6 DEF Sole

LEMMA AcceptSole ==
  ASSUME IInv, Sole, NEW c \in Calls, CommitAccept(c)
  PROVE  Sole'
<1>. DEFINE i == call[c].on
            w == Accepted(call[c].view, call[c].arg)
<1>1. /\ raced' = raced /\ call[c].pc = "accept" /\ call[c].pc \in OnInvites
      /\ call' = [call EXCEPT ![c] = Call("sync", i, w, call[c].arg)]
  BY DEF CommitAccept, OnlyInvites, OnInvites, Enter
<1>2. PICK v \in Invite :
        /\ Row(i, v) /\ v.by = call[c].arg /\ v.there /\ v.status = "accepted" /\ v.person = invites[i].person
  BY AcceptRow
<1>3. call[c].view \in Invite /\ call[c].arg \in Users
  BY <1>1 DEF IInv, CallsIs, CallIs
<1>4. w.by = call[c].arg /\ w.person = call[c].view.person
  BY <1>3 DEF Accepted, Invite
<1>. HIDE DEF w
<1>5. /\ call'[c].pc = "sync" /\ call'[c].on = i /\ call'[c].view = w
      /\ \A d \in Calls : d # c => call'[d] = call[d]
  <2>. DEFINE k == Call("sync", i, w, call[c].arg)
  <2>1. k.pc = "sync" /\ k.on = i /\ k.view = w
    BY CallFields
  <2>2. call' = [call EXCEPT ![c] = k]
    BY <1>1
  <2>. HIDE DEF k
  <2>. QED
    BY <2>1, <2>2, CallsAre
<1>6. OnlyCall(c) /\ AcceptedIs(v)
  BY <1>1, <1>2, <1>5 DEF OnlyCall, AcceptedIs
<1>7. i \notin raced => Knows(call'[c], v)
  BY <1>1, <1>2, <1>4, <1>5 DEF Sole, Knows, Decides, Deciding
<1>. QED
  BY <1>1, <1>2, <1>6, <1>7, SoleWrites

LEMMA WriteSole ==
  ASSUME IInv, Sole, NEW c \in Calls, CommitWrite(c) \/ CommitDeleteInvitation(c)
  PROVE  Sole'
<1>1. raced' = raced /\ call[c].pc \in OnInvites /\ OnlyCall(c) /\ call'[c].pc \notin OnInvites
  BY FinishOnly DEF CommitWrite, CommitDeleteInvitation, OnlyInvites, OnInvites
<1>2. CASE CommitWrite(c)
  <2>1. PICK v \in Invite :
          /\ Row(call[c].on, v) /\ Kept(invites[call[c].on], v)
          /\ \/ call[c].pc = "open" /\ v.status = invites[call[c].on].status
             \/ call[c].pc \in {"cancel", "expire"}
    BY <1>2, WriteRow
  <2>2. call[c].on \notin raced => AcceptedIs(v)
    BY <1>1, <2>1 DEF Sole, Row, Kept, AcceptedIs, Knows, Decides, Deciding
  <2>. QED
    BY <1>1, <2>1, <2>2, SoleWrites
<1>3. CASE CommitDeleteInvitation(c)
  <2>1. PICK v \in Invite : Row(call[c].on, v) /\ v.by = None
    BY <1>3, DeleteRow
  <2>. QED
    BY <1>1, <2>1, SoleWrites DEF AcceptedIs
<1>. QED
  BY <1>2, <1>3

\* Calls of the candidates' and of the requests are about no invitation.
Elsewhere2 == Elsewhere \cup {"draft", "request", "consent"}
LEMMA OthersOnly ==
  ASSUME IInv, Addressed, SharesNext \/ IntakeNext
  PROVE  /\ invites' = invites /\ mails' = mails /\ raced' = raced /\ cut' = cut
         /\ call' = call \/ \E c \in Calls : OnlyCall(c) /\ call'[c].pc \notin OnInvites /\ call[c].pc \notin OnInvites
<1>1. invites' = invites /\ mails' = mails /\ raced' = raced /\ cut' = cut
  <2>1. UNCHANGED inviteVars
    <3>1. CASE SharesNext
      BY <3>1 DEF SharesNext, CreateShare, UpdateShare, RevokeShare, Change, OpenPassport, CommitShare, CountView,
                  CommitView, ShareLapses, WindowPasses, beforeShares
    <3>2. CASE IntakeNext
      <4>1. ASSUME NEW c \in Calls, FromInvitation(c) \/ CreateRequest(c) \/ SubjectRequest(c) \/ AcceptRequest(c)
            PROVE  UNCHANGED inviteVars
        BY <4>1, RequestsAsk DEF Asks, Asked, Resolving
      <4>. QED
        BY <3>2, <4>1 DEF IntakeNext, DraftRequest, CommitDraft, CommitRequest, CommitConsent, Fails, Decide
    <3>. QED
      BY <3>1, <3>2
  <2>. QED
    BY <2>1 DEF inviteVars
<1>2. \A pc \in Elsewhere2 \cup {"idle"} : pc \notin OnInvites
  BY DEF Elsewhere2, Elsewhere, OnInvites
<1>3. ASSUME NEW c \in Calls, Finish(c), call[c].pc \in Elsewhere2 \cup {"idle"}
      PROVE  OnlyCall(c) /\ call'[c].pc \notin OnInvites /\ call[c].pc \notin OnInvites
  BY <1>2, <1>3, FinishOnly
<1>4. ASSUME NEW c \in Calls, call[c].pc \in Elsewhere2 \cup {"idle"}, NEW pc \in Elsewhere2, NEW on, NEW view, NEW arg,
             NEW link, call' = [call EXCEPT ![c] = Linking(pc, on, view, arg, link)]
      PROVE  OnlyCall(c) /\ call'[c].pc \notin OnInvites /\ call[c].pc \notin OnInvites
  <2>1. call'[c].pc = pc /\ \A d \in Calls : d # c => call'[d] = call[d]
    BY <1>4, LinkingOnly
  <2>. QED
    BY <1>2, <1>4, <2>1 DEF OnlyCall
<1>5. CASE Decide \/ ShareLapses \/ WindowPasses
  BY <1>1, <1>5 DEF Decide, ShareLapses, WindowPasses
<1>6. ASSUME NEW c \in Calls, CommitDraft(c) \/ CommitRequest(c) \/ CommitConsent(c) \/ Fails(c) \/ CommitShare(c) \/ CommitView(c)
      PROVE  Finish(c) /\ call[c].pc \in Elsewhere2
  BY <1>6 DEF CommitDraft, CommitRequest, CommitConsent, Fails, CommitShare, CommitView, Elsewhere2, Elsewhere
<1>7. ASSUME NEW c \in Calls, Turn(c), CreateShare(c)
      PROVE  Finish(c) /\ call[c].pc = "idle"
  BY <1>7 DEF CreateShare, Turn
<1>8. ASSUME NEW c \in Calls, (Turn(c) /\ (UpdateShare(c) \/ RevokeShare(c) \/ OpenPassport(c) \/ DraftRequest(c))) \/ CountView(c)
      PROVE  OnlyCall(c) /\ call'[c].pc \notin OnInvites /\ call[c].pc \notin OnInvites
  <2>0. {"widen", "revoke", "page", "record", "draft"} \subseteq Elsewhere2
    BY DEF Elsewhere, Elsewhere2
  <2>1. \E pc \in Elsewhere2 : \E on, view, arg : call' = [call EXCEPT ![c] = Linking(pc, on, view, arg, NoResolution)]
    <3>1. CASE UpdateShare(c) \/ RevokeShare(c)
      BY <2>0, <3>1 DEF UpdateShare, RevokeShare, Change, Call
    <3>2. CASE OpenPassport(c)
      BY <2>0, <3>2 DEF OpenPassport, Call
    <3>3. CASE DraftRequest(c)
      BY <2>0, <3>3 DEF DraftRequest, Call
    <3>4. CASE CountView(c)
      BY <2>0, <3>4 DEF CountView, Call
    <3>. QED
      BY <1>8, <3>1, <3>2, <3>3, <3>4
  <2>2. call[c].pc \in Elsewhere2 \cup {"idle"}
    BY <1>8 DEF Turn, CountView, Elsewhere2, Elsewhere
  <2>3. PICK pc \in Elsewhere2 : \E on, view, arg : call' = [call EXCEPT ![c] = Linking(pc, on, view, arg, NoResolution)]
    BY <2>1
  <2>4. PICK on, view, arg : call' = [call EXCEPT ![c] = Linking(pc, on, view, arg, NoResolution)]
    BY <2>3
  <2>. QED
    BY <1>4, <2>2, <2>4
<1>9. ASSUME NEW c \in Calls, Turn(c), FromInvitation(c) \/ CreateRequest(c) \/ SubjectRequest(c) \/ AcceptRequest(c)
      PROVE  OnlyCall(c) /\ call'[c].pc \notin OnInvites /\ call[c].pc \notin OnInvites
  <2>1. PICK pc \in {"request", "consent"}, r \in Requests \cup {None}, v \in Request, p \in Persons \cup {None} :
          Asked(c, pc, r, v, p)
    BY <1>9, RequestsAsk DEF Asks
  <2>2. call' = [call EXCEPT ![c] = Linking(pc, r, v, None, Resolution(Applicant(v), p))]
    BY <2>1 DEF Asked, Resolving
  <2>3. pc \in Elsewhere2 /\ call[c].pc \in Elsewhere2 \cup {"idle"}
    BY <1>9 DEF Elsewhere2, Turn
  <2>. QED
    BY <1>4, <2>2, <2>3
<1>. QED
  BY <1>1, <1>3, <1>5, <1>6, <1>7, <1>8, <1>9 DEF SharesNext, IntakeNext


LEMMA SoleStays ==
  ASSUME IInv, Addressed, Sole, [Next]_vars
  PROVE  Sole'
<1>1. CASE UNCHANGED vars
  BY <1>1, SoleSame DEF vars, registryVars, inviteVars
<1>2. CASE Issuing \/ Answering
  BY <1>2, BeginSole, CreateSole DEF Issuing, Answering, Turn
<1>3. CASE InvitationSteps
  <2>1. ASSUME NEW c \in Calls, Gone(c)
        PROVE  Sole'
    BY <2>1, FinishOnly, SoleAside DEF Gone, inviteVars
  <2>. QED
    BY <1>3, <2>1, SyncSole, CommitSyncSole, SyncFailsSole, DeliverSole, TimeSole, AcceptSole, WriteSole
       DEF InvitationSteps
<1>4. CASE IntakeNext \/ SharesNext
  <2>1. CASE call' = call
    BY <1>4, <2>1, OthersOnly, SoleSame
  <2>2. ASSUME NEW c \in Calls, OnlyCall(c), call'[c].pc \notin OnInvites
        PROVE  Sole'
    BY <1>4, <2>2, OthersOnly, SoleAside
  <2>. QED
    BY <1>4, <2>1, <2>2, OthersOnly
<1>5. ASSUME NEW c \in Calls, CutShort(c)
      PROVE  Sole'
  BY <1>5, FinishOnly, SoleAside DEF CutShort
<1>. QED
  BY <1>1, <1>2, <1>3, <1>4, <1>5 DEF Next



-----------------------------------------------------------------------------
(* Who waits for a delivery has somebody sending.                          *)

Waiting(v, m) == v.there /\ v.delivery = "queued" /\ m = 0
Sending(k) == k.pc = "deliver" \/ (k.pc \in {"sync", "link"} /\ k.arg = "send")
Sent(i) == \E c \in Calls : call[c].on = i /\ Sending(call[c])
Mailed ==
  /\ mails \in [Invites -> Nat]
  /\ \A c \in Calls : call[c].pc \in OnInvites /\ Waiting(invites[call[c].on], mails[call[c].on])
       => call[c].view.delivery = "queued"
  /\ \A i \in Invites \ cut : Waiting(invites[i], mails[i]) /\ invites[i].status = "pending" => Sent(i)

\* A call that goes on with what it read, or that ends.
LEMMA MailedWrites ==
  ASSUME IInv, Mailed, cut' = cut, NEW c \in Calls, call[c].pc \in OnInvites, OnlyCall(c),
         NEW v, Row(call[c].on, v), mails' = mails,
         Waiting(v, mails[call[c].on]) => Waiting(invites[call[c].on], mails[call[c].on]),
         call'[c].pc \in OnInvites => call'[c].view.delivery \in {call[c].view.delivery, v.delivery},
         Sending(call[c]) /\ v.there => Sending(call'[c]),
         v.status = "pending" => invites[call[c].on].status = "pending"
  PROVE  Mailed'
<1>. DEFINE i == call[c].on
<1>1. i \in Invites /\ invites'[i] = v /\ \A j \in Invites : j # i => invites'[j] = invites[j]
  BY DEF Row
<1>2. ASSUME NEW d \in Calls, call'[d].pc \in OnInvites, Waiting(invites'[call'[d].on], mails'[call'[d].on])
      PROVE  call'[d].view.delivery = "queued"
  <2>1. call[d].pc \in OnInvites /\ call'[d].on = call[d].on /\ call[d].on \in Invites
    BY <1>2, OnInvite DEF OnlyCall
  <2>2. Waiting(invites[call[d].on], mails[call[d].on])
    BY <1>1, <1>2, <2>1
  <2>3. call[d].view.delivery = "queued"
    BY <2>1, <2>2 DEF Mailed
  <2>4. CASE d = c
    BY <1>1, <1>2, <2>1, <2>3, <2>4 DEF Waiting
  <2>. QED
    BY <2>3, <2>4 DEF OnlyCall
<1>3. ASSUME NEW j \in Invites \ cut', Waiting(invites'[j], mails'[j]), invites'[j].status = "pending"
      PROVE  Sent(j)'
  <2>1. Waiting(invites[j], mails[j]) /\ invites[j].status = "pending"
    BY <1>1, <1>3
  <2>2. PICK d \in Calls : call[d].on = j /\ Sending(call[d])
    BY <1>3, <2>1 DEF Mailed, Sent
  <2>3. CASE d = c
    <3>1. Sending(call'[c])
      BY <1>1, <1>3, <2>2, <2>3 DEF Waiting
    <3>2. call'[c].on = j
      BY <2>2, <2>3, <3>1 DEF OnlyCall, Sending, OnInvites
    <3>. QED
      BY <3>1, <3>2 DEF Sent
  <2>4. CASE d # c
    BY <2>2, <2>4 DEF Sent, OnlyCall
  <2>. QED
    BY <2>3, <2>4
<1>. QED
  BY <1>2, <1>3 DEF Mailed

\* Whoever steps aside was not sending, or there is nobody to send to, or it was cut short.
LEMMA MailedAside ==
  ASSUME IInv, Mailed, cut \subseteq cut', invites' = invites, mails' = mails, NEW c \in Calls, OnlyCall(c),
         call'[c].pc \in OnInvites => call'[c].view.delivery \in {call[c].view.delivery, invites[call[c].on].delivery},
         \/ ~Sending(call[c]) \/ Sending(call'[c])
         \/ ~invites[call[c].on].there \/ call[c].on \in cut'
  PROVE  Mailed'
<1>1. ASSUME NEW d \in Calls, call'[d].pc \in OnInvites, Waiting(invites'[call'[d].on], mails'[call'[d].on])
      PROVE  call'[d].view.delivery = "queued"
  <2>1. call[d].pc \in OnInvites /\ call'[d].on = call[d].on /\ call[d].view.delivery = "queued"
    BY <1>1 DEF OnlyCall, Mailed
  <2>2. CASE d = c
    BY <1>1, <2>1, <2>2 DEF Waiting
  <2>. QED
    BY <2>1, <2>2 DEF OnlyCall
<1>2. ASSUME NEW j \in Invites \ cut', Waiting(invites'[j], mails'[j]), invites'[j].status = "pending"
      PROVE  Sent(j)'
  <2>1. PICK d \in Calls : call[d].on = j /\ Sending(call[d])
    BY <1>2 DEF Mailed, Sent
  <2>2. CASE d = c
    <3>1. Sending(call'[c])
      BY <1>2, <2>1, <2>2 DEF Waiting
    <3>2. call'[c].on = j
      BY <2>1, <2>2, <3>1 DEF OnlyCall, Sending, OnInvites
    <3>. QED
      BY <3>1, <3>2 DEF Sent
  <2>3. CASE d # c
    BY <2>1, <2>3 DEF Sent, OnlyCall
  <2>. QED
    BY <2>2, <2>3
<1>. QED
  BY <1>1, <1>2 DEF Mailed

LEMMA MailedSame ==
  ASSUME Mailed, UNCHANGED <<mails, cut, invites, call>>
  PROVE  Mailed'
BY DEF Mailed, Sent

LEMMA BeginMailed ==
  ASSUME IInv, Mailed, NEW c \in Calls, call[c].pc = "idle",
         \/ SendInvitation(c) \/ Resend(c) \/ CancelInvitation(c) \/ DeleteInvitation(c)
         \/ NoticeLapse(c) \/ OpenInvitation(c) \/ Accept(c) \/ AcceptAgain(c)
  PROVE  Mailed'
<1>1. PICK i \in Invites, pc \in OnInvites \ {"link"}, arg \in Users \cup {None, "pending"} : BeginOn(c, i, pc, arg)
  BY BeginIs
<1>2. /\ call'[c].pc = pc /\ call'[c].on = i /\ call'[c].view = invites[i] /\ call'[c].arg = arg
      /\ \A d \in Calls : d # c => call'[d] = call[d]
  BY <1>1, CallOnly DEF BeginOn
<1>3. invites' = invites /\ mails' = mails /\ cut' = cut
  BY <1>1 DEF BeginOn
<1>4. \A d \in Calls : call'[d].pc \in OnInvites /\ Waiting(invites'[call'[d].on], mails'[call'[d].on])
         => call'[d].view.delivery = "queued"
  BY <1>2, <1>3 DEF Mailed, Waiting
<1>5. \A j \in Invites : Sent(j) => Sent(j)'
  BY <1>2 DEF Sent, Sending
<1>. QED
  BY <1>3, <1>4, <1>5 DEF Mailed

LEMMA CreateMailed ==
  ASSUME IInv, Mailed, NEW c \in Calls, call[c].pc = "idle", CreateInvitation(c)
  PROVE  Mailed'
<1>1. PICK i \in Invites, v \in Invite, mode \in {"draft", "send"} :
        /\ Row(i, v) /\ invites[i] = NoInvite /\ v.delivery = "queued"
        /\ v.status = IF mode = "draft" THEN "draft" ELSE "pending"
        /\ call' = [call EXCEPT ![c] = Call("sync", i, v, mode)]
  BY CreateRow
<1>2. /\ call'[c].pc = "sync" /\ call'[c].on = i /\ call'[c].view = v /\ call'[c].arg = mode
      /\ \A d \in Calls : d # c => call'[d] = call[d]
  <2>. DEFINE k == Call("sync", i, v, mode)
  <2>1. k.pc = "sync" /\ k.on = i /\ k.view = v /\ k.arg = mode
    BY CallFields
  <2>2. call' = [call EXCEPT ![c] = k]
    BY <1>1
  <2>. HIDE DEF k
  <2>. QED
    BY <2>1, <2>2, CallsAre
<1>3. mails' = mails /\ cut' = cut /\ invites'[i] = v /\ \A j \in Invites : j # i => invites'[j] = invites[j]
  BY <1>1 DEF CreateInvitation, OnlyInvites, Row
<1>4. \A d \in Calls : call[d].pc \in OnInvites => call[d].on \in Invites /\ call[d].on # i
  BY <1>1, OnInvite DEF NoInvite
<1>5. \A d \in Calls : call'[d].pc \in OnInvites /\ Waiting(invites'[call'[d].on], mails'[call'[d].on])
         => call'[d].view.delivery = "queued"
  BY <1>1, <1>2, <1>3, <1>4 DEF Mailed
<1>6. \A j \in Invites : Sent(j) => Sent(j)'
  BY <1>2 DEF Sent, Sending
<1>7. v.status = "pending" => Sent(i)'
  BY <1>1, <1>2 DEF Sent, Sending
<1>. QED
  BY <1>1, <1>3, <1>5, <1>6, <1>7 DEF Mailed


LEMMA SyncMailed ==
  ASSUME IInv, Mailed, NEW c \in Calls, Sync(c)
  PROVE  Mailed'
<1>1. /\ cut' = cut /\ mails' = mails /\ invites' = invites /\ call[c].pc = "sync" /\ call[c].pc \in OnInvites
  BY DEF Sync, inviteVars, OnInvites
<1>2. CASE Finish(c) /\ ~invites[call[c].on].there
  BY <1>1, <1>2, FinishOnly, MailedAside
<1>3. ASSUME NEW p, call' = [call EXCEPT ![c] = Linking("link", call[c].on, call[c].view, call[c].arg,
                                                        Resolution(Invited(call[c].view), p))]
      PROVE  Mailed'
  <2>. DEFINE k == Linking("link", call[c].on, call[c].view, call[c].arg, Resolution(Invited(call[c].view), p))
  <2>1. k.pc = "link" /\ k.on = call[c].on /\ k.view = call[c].view /\ k.arg = call[c].arg
    BY LinkingFields
  <2>2. call' = [call EXCEPT ![c] = k]
    BY <1>3
  <2>. HIDE DEF k
  <2>3. call'[c] = k /\ \A d \in Calls : d # c => call'[d] = call[d]
    BY <2>2, CallsAre
  <2>4. OnlyCall(c)
    BY <1>1, <2>1, <2>3 DEF OnlyCall
  <2>5. ~Sending(call[c]) \/ Sending(call'[c])
    BY <1>1, <2>1, <2>3 DEF Sending
  <2>. QED
    BY <1>1, <2>1, <2>3, <2>4, <2>5, MailedAside
<1>. QED
  BY <1>2, <1>3 DEF Sync

LEMMA CommitSyncMailed ==
  ASSUME IInv, Addressed, Mailed, NEW c \in Calls, CommitSync(c)
  PROVE  Mailed'
<1>. DEFINE i == call[c].on
<1>1. cut' = cut /\ mails' = mails /\ call[c].pc = "link" /\ call[c].pc \in OnInvites
  BY DEF CommitSync, OnInvites
<1>2. PICK p \in Rows(call[c].link), v \in Invite :
        /\ Row(i, v) /\ v.there = invites[i].there
        /\ v.status = invites[i].status /\ v.delivery = invites[i].delivery
        /\ call' = [call EXCEPT ![c] = Call(AfterLink(call[c]), i, [call[c].view EXCEPT !.person = p], call[c].arg)]
  BY SyncRow
<1>3. call[c].view \in Invite
  BY <1>1 DEF Addressed, CallKnows, ViewKnows
<1>. DEFINE w == [call[c].view EXCEPT !.person = p]
            k == Call(AfterLink(call[c]), i, w, call[c].arg)
<1>4. w.delivery = call[c].view.delivery
  BY <1>3 DEF Invite
<1>5. k.pc = AfterLink(call[c]) /\ k.on = i /\ k.view = w /\ k.arg = call[c].arg
  BY CallFields
<1>6. call' = [call EXCEPT ![c] = k]
  BY <1>2
<1>. HIDE DEF k, w
<1>7. call'[c] = k /\ \A d \in Calls : d # c => call'[d] = call[d]
  BY <1>6, CallsAre
<1>8. OnlyCall(c)
  BY <1>1, <1>5, <1>7 DEF OnlyCall
<1>9. Sending(call[c]) => Sending(call'[c])
  BY <1>1, <1>5, <1>7 DEF Sending, AfterLink
<1>10. Waiting(v, mails[i]) => Waiting(invites[i], mails[i])
  BY <1>2 DEF Waiting
<1>. QED
  BY <1>1, <1>2, <1>4, <1>5, <1>7, <1>8, <1>9, <1>10, MailedWrites

LEMMA SyncFailsMailed ==
  ASSUME IInv, Mailed, NEW c \in Calls, SyncFails(c)
  PROVE  Mailed'
<1>. DEFINE i == call[c].on
            pc == IF invites[i].there THEN AfterLink(call[c]) ELSE "done"
            k == Call(pc, i, invites[i], call[c].arg)
<1>1. /\ cut' = cut /\ mails' = mails /\ invites' = invites /\ call[c].pc = "link" /\ call[c].pc \in OnInvites
      /\ call' = [call EXCEPT ![c] = k]
  BY DEF SyncFails, OnInvites, inviteVars, Enter
<1>2. k.pc = pc /\ k.on = i /\ k.view = invites[i] /\ k.arg = call[c].arg
  BY CallFields
<1>. HIDE DEF k
<1>3. call'[c] = k /\ \A d \in Calls : d # c => call'[d] = call[d]
  BY <1>1, CallsAre
<1>4. OnlyCall(c)
  BY <1>1, <1>2, <1>3 DEF OnlyCall
<1>5. ~Sending(call[c]) \/ Sending(call'[c]) \/ ~invites[i].there
  BY <1>1, <1>2, <1>3 DEF Sending, AfterLink
<1>. QED
  BY <1>1, <1>2, <1>3, <1>4, <1>5, MailedAside

\* A delivery ends the waiting: either there is a notification now, or the failure is recorded.
LEMMA DeliverMailed ==
  ASSUME IInv, Mailed, NEW c \in Calls, Deliver(c)
  PROVE  Mailed'
<1>. DEFINE i == call[c].on
<1>1. cut' = cut /\ call[c].pc = "deliver" /\ call[c].pc \in OnInvites /\ invites[i].there
  BY DEF Deliver, OnlyInvites, OnInvites
<1>2. PICK v \in Invite, result \in {"queued", "failed"} :
        /\ Row(i, v) /\ Kept(invites[i], v)
        /\ v.delivery = IF call[c].view.delivery # result THEN result ELSE invites[i].delivery
        /\ mails' = [mails EXCEPT ![i] = @ + IF result = "queued" THEN 1 ELSE 0]
  BY DeliverRow
<1>3. OnlyCall(c) /\ call'[c].pc \notin OnInvites
  BY FinishOnly DEF Deliver
<1>4. /\ i \in Invites /\ invites'[i] = v /\ mails[i] \in Nat
      /\ \A j \in Invites : j # i => invites'[j] = invites[j] /\ mails'[j] = mails[j]
      /\ mails'[i] = mails[i] + IF result = "queued" THEN 1 ELSE 0
  BY <1>2 DEF Row, Mailed
<1>5. mails' \in [Invites -> Nat]
  <2>1. mails[i] + (IF result = "queued" THEN 1 ELSE 0) \in Nat
    BY <1>4
  <2>. QED
    BY <1>2, <2>1 DEF Mailed
<1>6. ~Waiting(v, mails'[i])
  <2> SUFFICES ASSUME v.delivery = "queued", mails'[i] = 0
               PROVE  FALSE
    BY DEF Waiting
  <2>1. result = "failed" /\ mails[i] = 0
    BY <1>2, <1>4
  <2>2. call[c].view.delivery = "failed" /\ invites[i].delivery = "queued"
    BY <1>2, <2>1
  <2>. QED
    BY <1>1, <2>1, <2>2 DEF Mailed, Waiting
<1>7. \A d \in Calls : call'[d].pc \in OnInvites /\ Waiting(invites'[call'[d].on], mails'[call'[d].on])
         => call'[d].view.delivery = "queued"
  <2> SUFFICES ASSUME NEW d \in Calls, call'[d].pc \in OnInvites, Waiting(invites'[call'[d].on], mails'[call'[d].on])
               PROVE  call'[d].view.delivery = "queued"
    OBVIOUS
  <2>1. d # c /\ call'[d] = call[d] /\ call[d].on \in Invites /\ call[d].on # i
    BY <1>3, <1>4, <1>6, OnInvite DEF OnlyCall
  <2>. QED
    BY <1>4, <2>1 DEF Mailed
<1>8. \A j \in Invites \ cut' : Waiting(invites'[j], mails'[j]) /\ invites'[j].status = "pending" => Sent(j)'
  BY <1>1, <1>3, <1>4, <1>6 DEF Mailed, Sent, OnlyCall
<1>. QED
  BY <1>5, <1>7, <1>8 DEF Mailed

LEMMA ReconcileMailed ==
  ASSUME IInv, Mailed, Reconcile
  PROVE  Mailed'
<1>1. cut' = cut /\ call' = call
  BY DEF Reconcile, OnlyInvites
<1>2. PICK i \in Invites, v \in Invite :
        /\ Row(i, v) /\ Kept(invites[i], v)
        /\ invites[i].there => v.delivery \in {"delivered", "failed"}
        /\ mails[i] > 0 /\ mails' = [mails EXCEPT ![i] = @ - 1]
  BY ReconcileRow
<1>3. invites'[i] = v /\ \A j \in Invites : j # i => invites'[j] = invites[j] /\ mails'[j] = mails[j]
  BY <1>2 DEF Row, Mailed
<1>4. mails' \in [Invites -> Nat]
  BY <1>2 DEF Mailed
<1>5. ~Waiting(v, mails'[i])
  BY <1>2 DEF Waiting, Kept
<1>6. \A j \in Invites : Waiting(invites'[j], mails'[j]) => j # i
  BY <1>3, <1>5
<1>7. \A d \in Calls : call[d].pc \in OnInvites => call[d].on \in Invites
  BY OnInvite
<1>8. \A d \in Calls : call'[d].pc \in OnInvites /\ Waiting(invites'[call'[d].on], mails'[call'[d].on])
         => call'[d].view.delivery = "queued"
  BY <1>1, <1>3, <1>6, <1>7 DEF Mailed
<1>9. \A j \in Invites \ cut' : Waiting(invites'[j], mails'[j]) /\ invites'[j].status = "pending" => Sent(j)'
  BY <1>1, <1>3, <1>6 DEF Mailed, Sent
<1>. QED
  BY <1>4, <1>8, <1>9 DEF Mailed

LEMMA LapseMailed ==
  ASSUME IInv, Mailed, DeadlinePasses
  PROVE  Mailed'
<1>1. cut' = cut /\ call' = call /\ mails' = mails
  BY DEF DeadlinePasses, OnlyInvites
<1>2. PICK i \in Invites, v \in Invite :
        /\ Row(i, v) /\ Kept(invites[i], v) /\ v.status = invites[i].status /\ v.delivery = invites[i].delivery
  BY LapseRow
<1>3. /\ i \in Invites /\ invites'[i] = v /\ \A j \in Invites : j # i => invites'[j] = invites[j]
      /\ \A m : Waiting(v, m) => Waiting(invites[i], m)
  BY <1>2 DEF Row, Waiting, Kept
<1>4. \A j \in Invites : /\ Waiting(invites'[j], mails[j]) => Waiting(invites[j], mails[j])
                         /\ invites'[j].status = invites[j].status
  BY <1>2, <1>3
<1>5. \A d \in Calls : call[d].pc \in OnInvites => call[d].on \in Invites
  BY OnInvite
<1>6. \A d \in Calls : call'[d].pc \in OnInvites /\ Waiting(invites'[call'[d].on], mails'[call'[d].on])
         => call'[d].view.delivery = "queued"
  BY <1>1, <1>4, <1>5 DEF Mailed
<1>7. \A j \in Invites \ cut' : Waiting(invites'[j], mails'[j]) /\ invites'[j].status = "pending" => Sent(j)'
  BY <1>1, <1>4 DEF Mailed, Sent
<1>. QED
  BY <1>1, <1>6, <1>7 DEF Mailed

LEMMA AcceptMailed ==
  ASSUME IInv, Mailed, NEW c \in Calls, CommitAccept(c)
  PROVE  Mailed'
<1>. DEFINE i == call[c].on
            w == Accepted(call[c].view, call[c].arg)
            k == Call("sync", i, w, call[c].arg)
<1>1. /\ cut' = cut /\ mails' = mails /\ call[c].pc = "accept" /\ call[c].pc \in OnInvites
      /\ call' = [call EXCEPT ![c] = k] /\ invites[i].there
  BY DEF CommitAccept, OnlyInvites, OnInvites, Enter
<1>2. PICK v \in Invite : Row(i, v) /\ v.status = "accepted" /\ v.delivery = invites[i].delivery
  BY AcceptRow
<1>3. call[c].view \in Invite
  BY <1>1 DEF IInv, CallsIs, CallIs
<1>4. w.delivery = call[c].view.delivery
  BY <1>3 DEF Accepted, Invite
<1>5. k.pc = "sync" /\ k.on = i /\ k.view = w
  BY CallFields
<1>. HIDE DEF k, w
<1>6. call'[c] = k /\ \A d \in Calls : d # c => call'[d] = call[d]
  BY <1>1, CallsAre
<1>7. OnlyCall(c) /\ ~Sending(call[c])
  BY <1>1, <1>5, <1>6 DEF OnlyCall, Sending
<1>8. Waiting(v, mails[i]) => Waiting(invites[i], mails[i])
  BY <1>1, <1>2 DEF Waiting
<1>. QED
  BY <1>1, <1>2, <1>4, <1>5, <1>6, <1>7, <1>8, MailedWrites

LEMMA WriteMailed ==
  ASSUME IInv, Mailed, NEW c \in Calls, CommitWrite(c) \/ CommitDeleteInvitation(c)
  PROVE  Mailed'
<1>. DEFINE i == call[c].on
<1>1. /\ cut' = cut /\ mails' = mails /\ call[c].pc \in OnInvites /\ OnlyCall(c) /\ call'[c].pc \notin OnInvites
      /\ ~Sending(call[c])
  BY FinishOnly DEF CommitWrite, CommitDeleteInvitation, OnlyInvites, OnInvites, Sending
<1>2. CASE CommitWrite(c)
  <2>1. PICK v \in Invite :
          /\ Row(i, v) /\ Kept(invites[i], v) /\ v.delivery = invites[i].delivery
          /\ v.status = invites[i].status \/ v.status \in {"cancelled", "expired"}
    BY <1>2, WriteRow
  <2>2. Waiting(v, mails[i]) => Waiting(invites[i], mails[i])
    BY <2>1 DEF Waiting, Kept
  <2>. QED
    BY <1>1, <2>1, <2>2, MailedWrites
<1>3. CASE CommitDeleteInvitation(c)
  <2>. DEFINE v == [NoInvite EXCEPT !.email = invites[i].email]
  <2>1. i \in Invites /\ invites[i] \in Invite
    BY <1>1, OnInvite
  <2>2. v \in Invite /\ ~v.there /\ v.status = "draft"
    BY <2>1 DEF NoInvite, Invite
  <2>3. invites' = [invites EXCEPT ![i] = v]
    BY <1>3 DEF CommitDeleteInvitation
  <2>. HIDE DEF v
  <2>4. Row(i, v)
    BY <2>1, <2>2, <2>3, RowIs
  <2>5. ~Waiting(v, mails[i])
    BY <2>2 DEF Waiting
  <2>. QED
    BY <1>1, <2>2, <2>4, <2>5, MailedWrites
<1>. QED
  BY <1>2, <1>3

LEMMA MailedStays ==
  ASSUME IInv, Addressed, Mailed, [Next]_vars
  PROVE  Mailed'
<1>1. CASE UNCHANGED vars
  BY <1>1, MailedSame DEF vars, registryVars, inviteVars
<1>2. CASE Issuing \/ Answering
  BY <1>2, BeginMailed, CreateMailed DEF Issuing, Answering, Turn
<1>3. CASE InvitationSteps
  <2>1. ASSUME NEW c \in Calls, Gone(c)
        PROVE  Mailed'
    BY <2>1, FinishOnly, MailedAside DEF Gone, inviteVars
  <2>. QED
    BY <1>3, <2>1, SyncMailed, CommitSyncMailed, SyncFailsMailed, DeliverMailed, ReconcileMailed, LapseMailed,
       AcceptMailed, WriteMailed DEF InvitationSteps
<1>4. CASE IntakeNext \/ SharesNext
  <2>1. CASE call' = call
    BY <1>4, <2>1, OthersOnly, MailedSame
  <2>2. ASSUME NEW c \in Calls, OnlyCall(c), call'[c].pc \notin OnInvites, call[c].pc \notin OnInvites
        PROVE  Mailed'
    <3>1. ~Sending(call[c])
      BY <2>2 DEF Sending, OnInvites
    <3>. QED
      BY <1>4, <2>2, <3>1, OthersOnly, MailedAside
  <2>. QED
    BY <1>4, <2>1, <2>2, OthersOnly
<1>5. ASSUME NEW c \in Calls, CutShort(c)
      PROVE  Mailed'
  <2>1. OnlyCall(c) /\ call'[c].pc \notin OnInvites /\ cut \subseteq cut' /\ UNCHANGED <<invites, mails>>
    BY <1>5, FinishOnly DEF CutShort
  <2>2. ~Sending(call[c]) \/ call[c].on \in cut'
    <3>1. Sending(call[c]) => call[c].on \in Invites
      BY OnInvite DEF Sending, OnInvites
    <3>. QED
      BY <1>5, <3>1 DEF CutShort
  <2>. QED
    BY <2>1, <2>2, MailedAside
<1>. QED
  BY <1>1, <1>2, <1>3, <1>4, <1>5 DEF Next

LEMMA MailedIsWaitedFor ==
  ASSUME Mailed
  PROVE  QueuedHasMail
<1> SUFFICES ASSUME NEW i \in Invites \ cut,
                    invites[i].there, invites[i].status = "pending", invites[i].delivery = "queued", ~(mails[i] > 0)
             PROVE  About(i) # {}
  BY DEF QueuedHasMail
<1>1. mails[i] = 0
  BY DEF Mailed
<1>2. PICK c \in Calls : call[c].on = i /\ Sending(call[c])
  BY <1>1 DEF Mailed, Waiting, Sent
<1>. QED
  BY <1>2 DEF About, Flying, Sending

-----------------------------------------------------------------------------
(* What a workspace shows can be trusted: who accepted is who is linked,   *)
(* the directory shows what there is, a claim has one open request, a view *)
(* of a passport counts once, and what is known of a person, an acceptance *)
(* or a closed link is never taken back. Rests on what a call under way    *)
(* knows of its row, from the parts above.                                 *)

-----------------------------------------------------------------------------
(* A person of the registry keeps the account and the relationship.        *)

LEMMA RanksAre == \A x \in Relationship : Rank[x] \in 1..5
BY DEF Relationship, Rank

LEMMA RevisedKeeps ==
  ASSUME NEW now \in Person, NEW w \in Subject
  PROVE  /\ now.user # None => Revised(now, now, w).user = now.user
         /\ Rank[now.relationship] <= Rank[Revised(now, now, w).relationship]
<1>1. now.relationship \in Relationship /\ w.relationship \in Relationship
  BY DEF Person, Subject
<1>2. Revised(now, now, w).relationship \in {now.relationship, Merge(now.relationship, w.relationship)}
  BY DEF Revised
<1>3. Rank[now.relationship] \in 1..5 /\ Rank[w.relationship] \in 1..5
  BY <1>1, RanksAre
<1>4. Rank[now.relationship] <= Rank[Merge(now.relationship, w.relationship)]
  BY <1>3 DEF Merge
<1>5. Rank[now.relationship] <= Rank[Revised(now, now, w).relationship]
  BY <1>2, <1>3, <1>4
<1>. QED
  BY <1>5 DEF Revised, Filled

\* However resolutions overlap, a person two of them were not about at once keeps the account, and only rises.
PersonStays(p) ==
  /\ persons[p].user # None => persons'[p].user = persons[p].user
  /\ persons[p].there => Rank[persons[p].relationship] <= Rank[persons'[p].relationship]

LEMMA PersonsStay ==
  ASSUME IInv, Addressed, RInv, [Next]_vars
  PROVE  /\ met \subseteq met' /\ byPhone \subseteq byPhone'
         /\ \A p \in Persons \ met : PersonStays(p)
<1>1. \A p \in Persons : persons[p] \in Person /\ persons[p].relationship \in Relationship
  BY DEF IInv, RegistryOK, Person
<1>2. ASSUME persons' = persons
      PROVE  \A p \in Persons : PersonStays(p)
  BY <1>1, <1>2, RanksAre DEF PersonStays
<1>3. CASE Quiet
  BY <1>2, <1>3 DEF Quiet
<1>4. ASSUME NEW c \in Calls, NEW w, NEW p, Begun(c, w, p)
      PROVE  /\ met \subseteq met' /\ byPhone \subseteq byPhone'
             /\ \A q \in Persons \ met : PersonStays(q)
  BY <1>2, <1>4 DEF Begun, Meeting, Finding
<1>5. ASSUME NEW c \in Calls, NEW p, Ended(c, p)
      PROVE  /\ met \subseteq met' /\ byPhone \subseteq byPhone'
             /\ \A q \in Persons \ met : PersonStays(q)
  <2>. DEFINE k == call[c].link
  <2>1. /\ k.who \in Subject /\ k.found \in Persons \cup {None} /\ p \in Rows(k)
        /\ persons' = [persons EXCEPT ![p] = RowAfter(k, p)] /\ UNCHANGED <<met, byPhone>>
    BY <1>5 DEF Ended, LinkOK, Resolve
  <2>2. ASSUME NEW q \in Persons \ met
        PROVE  PersonStays(q)
    <3>1. CASE q # p
      <4>1. persons'[q] = persons[q]
        BY <2>1, <3>1 DEF IInv, RegistryOK
      <4>. QED
        BY <1>1, <4>1, RanksAre DEF PersonStays
    <3>2. CASE q = p /\ k.found = None
      <4>1. ~persons[p].there /\ persons[p] = NoPerson
        BY <2>1, <2>2, <3>2 DEF Rows, Fresh, Foremost, RInv, Registered
      <4>. QED
        BY <3>2, <4>1 DEF PersonStays, NoPerson
    <3>3. CASE q = p /\ k.found # None
      <4>1. k.found = p /\ k.seen = persons[p]
        BY <1>5, <2>1, <2>2, <3>3 DEF Rows, Ended, RInv, LinksKnow, LinkKnows
      <4>2. persons'[p] = Revised(persons[p], persons[p], k.who)
        BY <1>1, <2>1, <2>2, <3>3, <4>1 DEF IInv, RegistryOK, RowAfter
      <4>. HIDE DEF k
      <4>. QED
        BY <1>1, <2>1, <3>3, <4>2, RevisedKeeps DEF PersonStays
    <3>. QED
      BY <3>1, <3>2, <3>3
  <2>. QED
    BY <2>1, <2>2
<1>. QED
  BY <1>3, <1>4, <1>5, RegistrySteps

-----------------------------------------------------------------------------
(* Who accepted an invitation is linked to the person of it.               *)

Direct(k) == k.who.person # None => k.found = k.who.person /\ k.need = {}
Syncing(i) == \E c \in Calls : call[c].on = i /\ call[c].pc \in {"sync", "link"}
Followed(i) ==
  LET p == invites[i].person IN
  invites[i].by # None /\ p # None /\ p \notin met \cup byPhone => persons[p].user = invites[i].by \/ Syncing(i)
Directed ==
  /\ \A i \in Invites \ (raced \cup cut) : Followed(i)
  /\ \A c \in Calls : call[c].pc = "link" => Direct(call[c].link)

\* Whose row is known is found by it.
LEMMA FoundSelf ==
  ASSUME NEW w, w.person # None
  PROVE  Found(w) = {w.person}
<1>1. Hit(w) \subseteq 1..4 /\ 1 \in Hit(w)
  BY DEF Hit, Tiers
<1>2. FirstHit(w) \in Hit(w) /\ \A m \in Hit(w) : FirstHit(w) <= m
  <2>1. \E n \in Hit(w) : \A m \in Hit(w) : n <= m
    BY <1>1
  <2>. QED
    BY <2>1 DEF FirstHit
<1>3. FirstHit(w) = 1
  BY <1>1, <1>2
<1>. QED
  BY <1>1, <1>3 DEF Found, Tiers

LEMMA LinksDirect ==
  ASSUME IInv, Addressed, Addressed', Directed, [Next]_vars
  PROVE  \A c \in Calls : call'[c].pc = "link" => Direct(call'[c].link)
<1>1. ASSUME NEW c \in Calls, NEW w, NEW p, Begun(c, w, p), call'[c].pc = "link"
      PROVE  Direct(call'[c].link)
  <2>1. p \in Found(w) /\ call'[c].link = Resolution(w, p) /\ ids' = ids
    BY <1>1 DEF Begun
  <2>2. call'[c].link.who = w /\ call'[c].link.found = p /\ call'[c].link.need = Missing(p, w)
    BY <2>1 DEF Resolution
  <2>3. /\ w = Invited(call'[c].view) /\ BackedFully(call'[c].view, ids')
    BY <1>1, <2>2 DEF Addressed, CallKnows, ViewKnows
  <2>4. AddressesOf(w) = AddressesIn(call'[c].view) /\ w.person = call'[c].view.person
    BY <2>3 DEF AddressesOf, AddressesIn, Invited, Who
  <2>5. ASSUME w.person # None
        PROVE  p = w.person /\ Missing(p, w) = {}
    BY <2>1, <2>3, <2>4, <2>5, FoundSelf DEF BackedFully, Missing
  <2>. QED
    BY <2>2, <2>5 DEF Direct
<1>2. "link" \in Resolvings
  BY DEF Resolvings
<1>3. ASSUME NEW c \in Calls, Leaves(c)
      PROVE  \A d \in Calls : call'[d].pc = "link" => Direct(call'[d].link)
  BY <1>2, <1>3 DEF Leaves, Plain, Directed
<1>4. CASE Quiet
  BY <1>3, <1>4 DEF Quiet, Directed
<1>5. ASSUME NEW c \in Calls, NEW w, NEW p, Begun(c, w, p)
      PROVE  \A d \in Calls : call'[d].pc = "link" => Direct(call'[d].link)
  BY <1>1, <1>5 DEF Begun, Directed
<1>. QED
  BY <1>3, <1>4, <1>5, RegistrySteps DEF Ended


LEMMA FollowedStays ==
  ASSUME IInv, Addressed, RInv, Directed, [Next]_vars,
         NEW i \in Invites, i \notin raced \cup cut,
         invites'[i].by = None \/ (invites'[i].by = invites[i].by /\ invites'[i].person = invites[i].person),
         Syncing(i) => Syncing(i)'
  PROVE  Followed(i)'
<1>1. invites[i].person \in Persons \cup {None}
  BY DEF IInv, RowsIs, Invite
<1>2. Followed(i)
  BY DEF Directed
<1>. QED
  BY <1>1, <1>2, PersonsStay DEF Followed, PersonStays

LEMMA GhostsGrow ==
  ASSUME IInv, Addressed, [Next]_vars
  PROVE  raced \subseteq raced' /\ cut \subseteq cut'
<1>1. CASE UNCHANGED vars
  BY <1>1 DEF vars, inviteVars
<1>2. ASSUME NEW c \in Calls,
             \/ SendInvitation(c) \/ Resend(c) \/ CancelInvitation(c) \/ DeleteInvitation(c)
             \/ NoticeLapse(c) \/ OpenInvitation(c) \/ Accept(c) \/ AcceptAgain(c)
      PROVE  raced \subseteq raced' /\ cut \subseteq cut'
  <2>1. PICK i \in Invites, pc \in OnInvites \ {"link"}, arg \in Users \cup {None, "pending"} : BeginOn(c, i, pc, arg)
    BY <1>2, BeginIs
  <2>. QED
    BY <2>1 DEF BeginOn
<1>3. CASE Issuing \/ Answering
  BY <1>2, <1>3 DEF Issuing, Answering, CreateInvitation, OnlyInvites
<1>4. CASE InvitationSteps
  BY <1>4 DEF InvitationSteps, Sync, CommitSync, SyncFails, Deliver, CommitAccept, CommitWrite, CommitDeleteInvitation,
              Gone, Reconcile, DeadlinePasses, OnlyInvites, inviteVars
<1>5. CASE IntakeNext \/ SharesNext
  BY <1>5, OthersOnly
<1>6. CASE \E c \in Calls : CutShort(c)
  BY <1>6 DEF CutShort
<1>. QED
  BY <1>1, <1>3, <1>4, <1>5, <1>6 DEF Next

\* Whoever is known by an address alone is linked to the account with that address, or to none.
LEMMA LinkedUser ==
  ASSUME IInv, RInv, NEW c \in Calls, call[c].pc \in Resolvings, call[c].link.who.user # None,
         call[c].link.found # None, call[c].link.found \notin met \cup byPhone
  PROVE  /\ persons[call[c].link.found].user \in {None, call[c].link.who.user}
         /\ RowAfter(call[c].link, call[c].link.found).user = call[c].link.who.user
<1>. DEFINE k == call[c].link
            p == k.found
            u == k.who.user
<1>1. /\ LinkOK(k, ids) /\ EmailOf[u] = k.who.email /\ k.seen = persons[p] /\ <<p, k.who.email>> \in ids
  BY DEF RInv, LinksKnow, LinkKnows, AccountHas, IInv, CallsIs, CallIs, Resolvings
<1>2. p \in Persons /\ persons[p] \in Person /\ u \in Users
  BY <1>1 DEF LinkOK, Subject, IInv, RegistryOK
<1>3. ASSUME persons[p].user # None
      PROVE  persons[p].user = u
  <2>1. persons[p].user \in Users
    BY <1>2, <1>3 DEF Person
  <2>2. <<p, EmailOf[persons[p].user]>> \in ids
    BY <1>2, <1>3 DEF RInv, Registered
  <2>3. EmailOf[u] \in Emails /\ EmailOf[persons[p].user] \in Emails
    BY <1>2, <2>1, PeopleAssumption
  <2>4. EmailOf[u] = EmailOf[persons[p].user]
    BY <1>1, <1>2, <2>2, <2>3 DEF RInv, Registered
  <2>. QED
    BY <1>2, <2>1, <2>4, PeopleAssumption
<1>4. RowAfter(k, p).user = u
  <2>1. RowAfter(k, p) = Revised(persons[p], persons[p], k.who)
    BY <1>1 DEF RowAfter
  <2>. QED
    BY <1>3, <2>1 DEF Revised, Filled
<1>. QED
  BY <1>3, <1>4

LEMMA CommitSyncFollows ==
  ASSUME IInv, Addressed, RInv, Sole, Directed, NEW c \in Calls, CommitSync(c),
         NEW i \in Invites \ raced, call[c].on = i
  PROVE  Followed(i)'
<1>. DEFINE k == call[c].link
<1>1. call[c].pc = "link" /\ call[c].pc \in OnInvites /\ call[c].pc \in Resolvings /\ UNCHANGED <<met, byPhone>>
  BY DEF CommitSync, OnInvites, Resolvings
<1>2. PICK p \in Rows(k), v \in Invite :
        /\ Resolve(k, p) /\ Row(i, v) /\ v.by = invites[i].by
        /\ v.person = IF call[c].view.person # p THEN p ELSE invites[i].person
  BY SyncRow
<1>3. call[c].view.by = v.by /\ v.person = p
  BY <1>1, <1>2 DEF Sole, Knows
<1>4. k.who = Invited(call[c].view) /\ k.who.user = v.by /\ LinkOK(k, ids)
  BY <1>1, <1>3 DEF Addressed, CallKnows, Invited, Who, IInv, CallsIs, CallIs
<1>5. p \in Persons /\ persons'[p] = RowAfter(k, p)
  BY <1>2, <1>4 DEF Rows, Fresh, Foremost, LinkOK, Resolve, IInv, RegistryOK
<1>6. ASSUME v.by # None, p \notin met \cup byPhone
      PROVE  RowAfter(k, p).user = v.by
  <2>1. CASE k.found = None
    BY <1>4, <2>1 DEF RowAfter, Made
  <2>2. CASE k.found # None
    <3>1. k.found = p
      BY <2>2, <1>2 DEF Rows
    <3>. QED
      BY <1>1, <1>4, <1>6, <2>2, <3>1, LinkedUser
  <2>. QED
    BY <2>1, <2>2
<1>7. invites'[i] = v
  BY <1>2 DEF Row
<1>. QED
  BY <1>1, <1>3, <1>5, <1>6, <1>7 DEF Followed

\* The link of an accepted invitation to its person is never refused, unless resolutions met.
LEMMA SyncFailsFollows ==
  ASSUME IInv, Addressed, RInv, Sole, Directed, NEW c \in Calls, SyncFails(c),
         NEW i \in Invites \ raced, call[c].on = i
  PROVE  Followed(i)'
<1>. DEFINE k == call[c].link
            p == invites[i].person
<1>1. /\ call[c].pc = "link" /\ call[c].pc \in OnInvites /\ call[c].pc \in Resolvings
      /\ UNCHANGED <<met, byPhone, invites, persons>>
      /\ \A q \in Rows(k) : Refused(k, q) \/ ~Writable(call[c], q)
  BY DEF SyncFails, OnInvites, Resolvings, inviteVars
<1>2. SUFFICES ASSUME invites[i].by # None, p # None, p \notin met \cup byPhone
               PROVE  FALSE
  BY <1>1 DEF Followed
<1>3. i \in Invites /\ invites[i] \in Invite
  BY <1>1, OnInvite
<1>4. invites[i].there /\ call[c].view.by = invites[i].by /\ call[c].view.person = p
  BY <1>1, <1>2, <1>3 DEF Sole, AcceptedIs, Knows
<1>5. k.who = Invited(call[c].view) /\ k.who.user = invites[i].by /\ k.who.person = p
  BY <1>1, <1>4 DEF Addressed, CallKnows, Invited, Who
<1>6. k.found = p /\ k.need = {}
  BY <1>1, <1>2, <1>5 DEF Directed, Direct
<1>7. p \in Rows(k) /\ p \in Persons
  BY <1>2, <1>3, <1>6 DEF Rows, Invite
<1>8. RowAfter(k, p).user = invites[i].by
  BY <1>1, <1>2, <1>5, <1>6, LinkedUser
<1>9. Linked(p, RowAfter(k, p))
  BY <1>1, <1>4, <1>6, <1>7 DEF Refused, Taken, Writable
<1>10. PICK q \in Persons \ {p} : persons[q].user = invites[i].by
  BY <1>8, <1>9 DEF Linked
<1>11. <<q, EmailOf[invites[i].by]>> \in ids
  BY <1>2, <1>10 DEF RInv, Registered
<1>12. <<p, k.who.email>> \in ids /\ EmailOf[k.who.user] = k.who.email
  BY <1>1, <1>2, <1>5, <1>6 DEF RInv, LinksKnow, LinkKnows, AccountHas
<1>13. \A x, y \in ids : x[2] = y[2] => x = y
  BY DEF IInv, RegistryOK, PrimaryIsIdentifier
<1>14. <<q, EmailOf[invites[i].by]>> = <<p, EmailOf[invites[i].by]>>
  BY <1>5, <1>11, <1>12, <1>13
<1>. QED
  BY <1>10, <1>14

\* A call leaves every other invitation's as they were.
LEMMA SyncingStays ==
  ASSUME NEW c \in Calls, \A d \in Calls : d # c => call'[d] = call[d],
         NEW i, call[c].on # i \/ call[c].pc \notin {"sync", "link"} \/ (call'[c].on = i /\ call'[c].pc \in {"sync", "link"}),
         Syncing(i)
  PROVE  Syncing(i)'
<1>1. PICK d \in Calls : call[d].on = i /\ call[d].pc \in {"sync", "link"}
  BY DEF Syncing
<1>2. CASE d = c
  BY <1>1, <1>2 DEF Syncing
<1>3. CASE d # c
  BY <1>1, <1>3 DEF Syncing
<1>. QED
  BY <1>2, <1>3


LEMMA BeginFollows ==
  ASSUME IInv, Addressed, RInv, Directed, [Next]_vars, NEW c \in Calls, call[c].pc = "idle",
         \/ SendInvitation(c) \/ Resend(c) \/ CancelInvitation(c) \/ DeleteInvitation(c)
         \/ NoticeLapse(c) \/ OpenInvitation(c) \/ Accept(c) \/ AcceptAgain(c) \/ CreateInvitation(c),
         NEW i \in Invites, i \notin raced \cup cut
  PROVE  Followed(i)'
<1>1. \A d \in Calls : d # c => call'[d] = call[d]
  <2>1. CASE CreateInvitation(c)
    <3>1. PICK k : call' = [call EXCEPT ![c] = k]
      BY <2>1 DEF CreateInvitation
    <3>. QED
      BY <3>1, CallsAre
  <2>2. ASSUME NEW j, NEW pc, NEW arg, BeginOn(c, j, pc, arg)
        PROVE  \A d \in Calls : d # c => call'[d] = call[d]
    <3>1. PICK k : call' = [call EXCEPT ![c] = k]
      BY <2>2 DEF BeginOn
    <3>. QED
      BY <3>1, CallsAre
  <2>. QED
    BY <2>1, <2>2, BeginIs
<1>2. Syncing(i) => Syncing(i)'
  BY <1>1, SyncingStays
<1>3. CASE CreateInvitation(c)
  <2>1. PICK j \in Invites, v \in Invite : Row(j, v) /\ v.by = None
    BY <1>3, CreateRow
  <2>2. invites'[i].by = None \/ (invites'[i].by = invites[i].by /\ invites'[i].person = invites[i].person)
    BY <2>1 DEF Row
  <2>. QED
    BY <1>2, <2>2, FollowedStays
<1>4. CASE ~CreateInvitation(c)
  <2>1. PICK j \in Invites, pc \in OnInvites \ {"link"}, arg \in Users \cup {None, "pending"} : BeginOn(c, j, pc, arg)
    BY <1>4, BeginIs
  <2>2. invites' = invites
    BY <2>1 DEF BeginOn
  <2>. QED
    BY <1>2, <2>2, FollowedStays
<1>. QED
  BY <1>3, <1>4

LEMMA InvitationFollows ==
  ASSUME IInv, Addressed, RInv, Sole, Directed, [Next]_vars, NEW c \in Calls,
         NEW i \in Invites, i \notin raced \cup cut,
         \/ Sync(c) \/ CommitSync(c) \/ SyncFails(c) \/ Deliver(c) \/ CommitAccept(c)
         \/ CommitWrite(c) \/ CommitDeleteInvitation(c) \/ Gone(c)
  PROVE  Followed(i)'
<1>. DEFINE Same == invites'[i].by = None \/ (invites'[i].by = invites[i].by /\ invites'[i].person = invites[i].person)
<1>1. \A d \in Calls : d # c => call'[d] = call[d]
  <2>1. ASSUME Finish(c)
        PROVE  \A d \in Calls : d # c => call'[d] = call[d]
    BY <2>1, CallsAre DEF Finish
  <2>2. ASSUME NEW pc, NEW view, Enter(c, pc, view)
        PROVE  \A d \in Calls : d # c => call'[d] = call[d]
    <3>1. PICK k : call' = [call EXCEPT ![c] = k]
      BY <2>2 DEF Enter
    <3>. QED
      BY <3>1, CallsAre
  <2>3. CASE Sync(c)
    <3>1. PICK k : call' = [call EXCEPT ![c] = k]
      BY <2>3 DEF Sync, Finish
    <3>. QED
      BY <3>1, CallsAre
  <2>4. CASE CommitSync(c) \/ SyncFails(c) \/ CommitAccept(c)
    BY <2>2, <2>4 DEF CommitSync, SyncFails, CommitAccept
  <2>. QED
    BY <2>1, <2>3, <2>4 DEF Deliver, CommitWrite, CommitDeleteInvitation, Gone
<1>2. ASSUME call[c].on # i, \E v : Row(call[c].on, v)
      PROVE  Followed(i)'
  <2>1. Same
    BY <1>2 DEF Row
  <2>. QED
    BY <1>1, <1>2, <2>1, SyncingStays, FollowedStays
<1>3. ASSUME call[c].pc \notin {"sync", "link"}, Same
      PROVE  Followed(i)'
  BY <1>1, <1>3, SyncingStays, FollowedStays
<1>4. ASSUME call[c].pc \notin {"sync", "link"}, NEW v, Row(call[c].on, v), v.by = None \/ Kept(invites[call[c].on], v)
      PROVE  Followed(i)'
  <2>1. Same
    BY <1>4 DEF Row, Kept
  <2>. QED
    BY <1>3, <1>4, <2>1
<1>5. CASE Sync(c)
  <2>1. invites' = invites /\ call[c].pc = "sync" /\ call[c].pc \in OnInvites
    BY <1>5 DEF Sync, inviteVars, OnInvites
  <2>2. CASE call[c].on = i /\ ~invites[i].there
    <3>1. invites'[i].by = None
      BY <2>1, <2>2 DEF Sole, AcceptedIs
    <3>. QED
      BY <3>1 DEF Followed
  <2>3. ASSUME NEW p, call' = [call EXCEPT ![c] = Linking("link", call[c].on, call[c].view, call[c].arg,
                                                          Resolution(Invited(call[c].view), p))]
        PROVE  Followed(i)'
    <3>. DEFINE k == Linking("link", call[c].on, call[c].view, call[c].arg, Resolution(Invited(call[c].view), p))
    <3>1. k.pc = "link" /\ k.on = call[c].on /\ call' = [call EXCEPT ![c] = k]
      BY <2>3, LinkingFields
    <3>. HIDE DEF k
    <3>2. call'[c] = k
      BY <3>1, CallsAre
    <3>3. Syncing(i) => Syncing(i)'
      BY <1>1, <2>1, <3>1, <3>2, SyncingStays
    <3>. QED
      BY <2>1, <3>3, FollowedStays
  <2>4. CASE call[c].on # i
    BY <1>1, <2>1, <2>4, SyncingStays, FollowedStays
  <2>. QED
    BY <1>5, <2>2, <2>3, <2>4 DEF Sync
<1>6. CASE CommitSync(c)
  BY <1>2, <1>6, CommitSyncFollows, SyncRow
<1>7. CASE SyncFails(c)
  <2>1. CASE call[c].on # i
    BY <1>1, <1>7, <2>1, SyncingStays, FollowedStays DEF SyncFails, inviteVars
  <2>. QED
    BY <1>7, <2>1, SyncFailsFollows
<1>8. CASE Deliver(c)
  BY <1>4, <1>8, DeliverRow DEF Deliver
<1>9. CASE CommitAccept(c)
  <2>1. call[c].pc \notin {"sync", "link"}
    BY <1>9 DEF CommitAccept
  <2>2. CASE call[c].on = i
    <3>. DEFINE k == Call("sync", call[c].on, Accepted(call[c].view, call[c].arg), call[c].arg)
    <3>1. k.pc = "sync" /\ k.on = i /\ call' = [call EXCEPT ![c] = k]
      BY <1>9, <2>2, CallFields DEF CommitAccept, Enter
    <3>. HIDE DEF k
    <3>2. Syncing(i)'
      BY <3>1, CallsAre DEF Syncing
    <3>. QED
      BY <3>2 DEF Followed
  <2>. QED
    BY <1>2, <1>9, <2>2, AcceptRow
<1>10. CASE CommitWrite(c)
  BY <1>4, <1>10, WriteRow DEF CommitWrite
<1>11. CASE CommitDeleteInvitation(c)
  BY <1>4, <1>11, DeleteRow DEF CommitDeleteInvitation
<1>12. CASE Gone(c)
  BY <1>3, <1>12 DEF Gone, inviteVars
<1>. QED
  BY <1>5, <1>6, <1>7, <1>8, <1>9, <1>10, <1>11, <1>12

LEMMA DirectedStays ==
  ASSUME IInv, Addressed, Addressed', RInv, Sole, Directed, [Next]_vars
  PROVE  Directed'
<1>1. ASSUME NEW i \in Invites, i \notin raced' \cup cut'
      PROVE  Followed(i)'
  <2>1. i \notin raced \cup cut
    BY <1>1, GhostsGrow
  <2>2. CASE UNCHANGED vars
    BY <2>1, <2>2, FollowedStays DEF vars, registryVars, inviteVars, Syncing
  <2>3. CASE Issuing \/ Answering
    BY <2>1, <2>3, BeginFollows DEF Issuing, Answering, Turn
  <2>4. CASE InvitationSteps
    <3>1. CASE Reconcile \/ DeadlinePasses
      <4>1. PICK j \in Invites, v \in Invite : Row(j, v) /\ Kept(invites[j], v)
        BY <3>1, ReconcileRow, LapseRow
      <4>2. invites'[i].by = invites[i].by /\ invites'[i].person = invites[i].person
        BY <4>1 DEF Row, Kept
      <4>3. call' = call
        BY <3>1 DEF Reconcile, DeadlinePasses, OnlyInvites
      <4>. QED
        BY <2>1, <4>2, <4>3, FollowedStays DEF Syncing
    <3>. QED
      BY <2>1, <2>4, <3>1, InvitationFollows DEF InvitationSteps
  <2>5. CASE IntakeNext \/ SharesNext
    <3>1. Syncing(i) => Syncing(i)'
      BY <2>5, OthersOnly, SyncingStays DEF OnlyCall, OnInvites, Syncing
    <3>. QED
      BY <2>1, <2>5, <3>1, OthersOnly, FollowedStays
  <2>6. ASSUME NEW c \in Calls, CutShort(c)
        PROVE  Followed(i)'
    <3>1. call[c].on # i /\ invites' = invites
      BY <1>1, <2>6 DEF CutShort
    <3>2. Syncing(i) => Syncing(i)'
      BY <2>6, <3>1, FinishOnly, SyncingStays DEF CutShort, OnlyCall
    <3>. QED
      BY <2>1, <3>1, <3>2, FollowedStays
  <2>. QED
    BY <2>2, <2>3, <2>4, <2>5, <2>6 DEF Next
<1>. QED
  BY <1>1, LinksDirect DEF Directed



-----------------------------------------------------------------------------
(* Requests: a claim's open one, and who an organization's are about.      *)

Asking == {"draft", "request", "consent"}
AskKnows(k, req) ==
  /\ k.pc = "draft" => /\ k.view.claim # None /\ k.view.status = "pending_subject_submission" /\ ~k.view.org
                       /\ \A r \in Requests : OpenRequest(req[r]) => req[r].claim # k.view.claim
  /\ k.pc = "request" => k.view.claim = None
  /\ k.pc = "consent" => k.on \in Requests /\ req[k.on].claim = None
Intake ==
  /\ \A r \in Requests : requests[r].there /\ requests[r].org => requests[r].person # None
  /\ \A r \in Requests : requests[r].status = "pending_subject_acceptance" => requests[r].claim = None
  /\ \A r, q \in Requests : OpenRequest(requests[r]) /\ OpenRequest(requests[q])
       /\ requests[r].claim = requests[q].claim /\ requests[r].claim # None => r = q
  /\ \A c \in Calls : AskKnows(call[c], requests)
  /\ \A c, d \in Calls : c # d /\ call[c].pc = "draft" /\ call[d].pc = "draft" => call[c].view.claim # call[d].view.claim

\* Requests keep their claim and are not opened again.
ReqStays(r) ==
  /\ requests'[r].claim = requests[r].claim
  /\ OpenRequest(requests'[r]) => OpenRequest(requests[r])
  /\ requests'[r].there /\ requests'[r].org => requests[r].there /\ requests[r].org
  /\ requests'[r].person = None => requests[r].person = None
  /\ requests'[r].status = "pending_subject_acceptance" => requests[r].status = "pending_subject_acceptance"

LEMMA AskStays ==
  ASSUME NEW k, AskKnows(k, requests), \A r \in Requests : ReqStays(r)
  PROVE  AskKnows(k, requests')
BY DEF AskKnows, ReqStays

LEMMA IntakeStep ==
  ASSUME Intake, \A r \in Requests : ReqStays(r),
         \A d \in Calls : call'[d] = call[d] \/ call'[d].pc \notin Asking
  PROVE  Intake'
<1>1. \A d \in Calls : AskKnows(call'[d], requests')
  <2>1. \A d \in Calls : call'[d].pc \notin Asking => AskKnows(call'[d], requests')
    BY DEF AskKnows, Asking
  <2>. QED
    BY <2>1, AskStays DEF Intake
<1>2. \A c, d \in Calls : c # d /\ call'[c].pc = "draft" /\ call'[d].pc = "draft" => call'[c].view.claim # call'[d].view.claim
  BY DEF Intake, Asking
<1>. QED
  BY <1>1, <1>2 DEF Intake, ReqStays

LEMMA KeptReqStays ==
  ASSUME ReqsKept
  PROVE  \A r \in Requests : ReqStays(r)
BY DEF ReqsKept, ReqKept, ReqStays, OpenRequest

LEMMA SameReqStays ==
  ASSUME requests' = requests
  PROVE  \A r \in Requests : ReqStays(r)
BY DEF ReqStays

\* Calls go on to these steps, or are over.
GoTo(S) == \A d \in Calls : call'[d] = call[d] \/ call'[d].pc \in S \cup {"done"}

LEMMA LinkingGoes ==
  ASSUME IInv, NEW c \in Calls, NEW S, NEW pc \in S \cup {"done"}, NEW on, NEW view, NEW arg, NEW link,
         call' = [call EXCEPT ![c] = Linking(pc, on, view, arg, link)]
  PROVE  GoTo(S)
<1>. DEFINE k == Linking(pc, on, view, arg, link)
<1>1. k.pc = pc /\ call' = [call EXCEPT ![c] = k]
  BY LinkingFields
<1>. HIDE DEF k
<1>. QED
  BY <1>1, CallsAre DEF GoTo

LEMMA FinishGoes ==
  ASSUME IInv, NEW c \in Calls, Finish(c), NEW S
  PROVE  GoTo(S)
BY FinishOnly DEF OnlyCall, GoTo

LEMMA InvitationsGo ==
  ASSUME IInv, Issuing \/ Answering \/ InvitationSteps
  PROVE  GoTo(OnInvites)
<1>2. ASSUME NEW c \in Calls, NEW pc \in OnInvites \cup {"done"}, NEW on, NEW view, NEW arg,
             call' = [call EXCEPT ![c] = Call(pc, on, view, arg)]
      PROVE  GoTo(OnInvites)
  <2>1. call' = [call EXCEPT ![c] = Linking(pc, on, view, arg, NoResolution)]
    BY <1>2 DEF Call
  <2>. QED
    BY <2>1, LinkingGoes
<1>3. ASSUME NEW c \in Calls,
             \/ SendInvitation(c) \/ Resend(c) \/ CancelInvitation(c) \/ DeleteInvitation(c)
             \/ NoticeLapse(c) \/ OpenInvitation(c) \/ Accept(c) \/ AcceptAgain(c)
      PROVE  GoTo(OnInvites)
  <2>1. PICK i \in Invites, pc \in OnInvites \ {"link"}, arg \in Users \cup {None, "pending"} : BeginOn(c, i, pc, arg)
    BY <1>3, BeginIs
  <2>2. call' = [call EXCEPT ![c] = Call(pc, i, invites[i], arg)]
    BY <2>1 DEF BeginOn
  <2>. QED
    BY <1>2, <2>2
<1>4. ASSUME NEW c \in Calls, CreateInvitation(c)
      PROVE  GoTo(OnInvites)
  <2>1. PICK i \in Invites, v \in Invite, mode \in {"draft", "send"} : call' = [call EXCEPT ![c] = Call("sync", i, v, mode)]
    BY <1>4, CreateRow
  <2>2. "sync" \in OnInvites
    BY DEF OnInvites
  <2>3. PICK pc \in OnInvites : call' = [call EXCEPT ![c] = Call(pc, i, v, mode)]
    BY <2>1, <2>2
  <2>. QED
    BY <1>2, <2>3
<1>5. ASSUME NEW c \in Calls, NEW pc \in OnInvites \cup {"done"}, NEW view, Enter(c, pc, view)
      PROVE  GoTo(OnInvites)
  <2>1. call' = [call EXCEPT ![c] = Call(pc, call[c].on, view, call[c].arg)]
    BY <1>5 DEF Enter
  <2>. QED
    BY <1>2, <2>1
<1>6. ASSUME NEW c \in Calls, CommitSync(c) \/ SyncFails(c) \/ CommitAccept(c)
      PROVE  GoTo(OnInvites)
  <2>1. AfterLink(call[c]) \in OnInvites \cup {"done"} /\ "sync" \in OnInvites
    BY DEF AfterLink, OnInvites
  <2>2. \E pc \in OnInvites \cup {"done"} : \E view : Enter(c, pc, view)
    BY <1>6, <2>1 DEF CommitSync, SyncFails, CommitAccept
  <2>. QED
    BY <1>5, <2>2
<1>7. ASSUME NEW c \in Calls, Sync(c)
      PROVE  GoTo(OnInvites)
  <2>1. ASSUME NEW p, call' = [call EXCEPT ![c] = Linking("link", call[c].on, call[c].view, call[c].arg,
                                                          Resolution(Invited(call[c].view), p))]
        PROVE  GoTo(OnInvites)
    <3>. DEFINE k == Linking("link", call[c].on, call[c].view, call[c].arg, Resolution(Invited(call[c].view), p))
    <3>1. k.pc = "link" /\ call' = [call EXCEPT ![c] = k]
      BY <2>1, LinkingFields
    <3>. HIDE DEF k
    <3>. QED
      BY <3>1, CallsAre DEF GoTo, OnInvites
  <2>. QED
    BY <1>7, <2>1, FinishGoes DEF Sync
<1>8. CASE Reconcile \/ DeadlinePasses
  BY <1>8 DEF Reconcile, DeadlinePasses, OnlyInvites, GoTo
<1>9. ASSUME NEW c \in Calls, Deliver(c) \/ CommitWrite(c) \/ CommitDeleteInvitation(c) \/ Gone(c)
      PROVE  GoTo(OnInvites)
  BY <1>9, FinishGoes DEF Deliver, CommitWrite, CommitDeleteInvitation, Gone
<1>. QED
  BY <1>3, <1>4, <1>6, <1>7, <1>8, <1>9 DEF Issuing, Answering, InvitationSteps

LEMMA SharesGo ==
  ASSUME IInv, SharesNext
  PROVE  UNCHANGED requests /\ GoTo(Elsewhere)
<1>1. UNCHANGED requests
  BY DEF SharesNext, CreateShare, UpdateShare, RevokeShare, Change, OpenPassport, CommitShare, CountView,
         CommitView, ShareLapses, WindowPasses, beforeShares
<1>3. CASE ShareLapses \/ WindowPasses
  BY <1>1, <1>3 DEF ShareLapses, WindowPasses, GoTo
<1>4. ASSUME NEW c \in Calls, CreateShare(c) \/ CommitShare(c) \/ CommitView(c)
      PROVE  GoTo(Elsewhere)
  BY <1>4, FinishGoes DEF CreateShare, CommitShare, CommitView
<1>5. ASSUME NEW c \in Calls, UpdateShare(c) \/ RevokeShare(c) \/ OpenPassport(c) \/ CountView(c)
      PROVE  GoTo(Elsewhere)
  <2>1. PICK pc \in Elsewhere : \E on, view, arg : call' = [call EXCEPT ![c] = Linking(pc, on, view, arg, NoResolution)]
    BY <1>5 DEF UpdateShare, RevokeShare, Change, OpenPassport, CountView, Elsewhere, Call
  <2>2. PICK on, view, arg : call' = [call EXCEPT ![c] = Linking(pc, on, view, arg, NoResolution)]
    BY <2>1
  <2>. QED
    BY <2>2, LinkingGoes
<1>. QED
  BY <1>1, <1>3, <1>4, <1>5 DEF SharesNext


LEMMA DraftIntake ==
  ASSUME IInv, Intake, NEW c \in Calls, Turn(c), DraftRequest(c)
  PROVE  Intake'
<1>1. PICK x \in Claims, u \in Users :
        /\ Unlocked(x) /\ ActiveFor(x) = {} /\ requests' = requests
        /\ call' = [call EXCEPT ![c] =
             Call("draft", None, [NewRequest(u, EmailOf[u], "pending_subject_submission", FALSE) EXCEPT !.claim = x], None)]
  BY DEF DraftRequest
<1>. DEFINE v == [NewRequest(u, EmailOf[u], "pending_subject_submission", FALSE) EXCEPT !.claim = x]
            k == Call("draft", None, v, None)
<1>2. v.claim = x /\ v.status = "pending_subject_submission" /\ ~v.org
  BY DEF NewRequest, NoRequest
<1>3. k.pc = "draft" /\ k.view = v /\ call' = [call EXCEPT ![c] = k]
  BY <1>1, CallFields
<1>. HIDE DEF k, v
<1>4. call'[c] = k /\ \A d \in Calls : d # c => call'[d] = call[d]
  BY <1>3, CallsAre
<1>5. AskKnows(k, requests')
  BY <1>1, <1>2, <1>3, RequestsAssumption DEF AskKnows, ActiveFor
<1>6. \A d \in Calls : call[d].pc = "draft" => call[d].view.claim # x
  BY <1>1 DEF Unlocked, Flying
<1>7. \A d \in Calls : AskKnows(call'[d], requests')
  BY <1>1, <1>4, <1>5 DEF Intake
<1>8. \A d, e \in Calls : d # e /\ call'[d].pc = "draft" /\ call'[e].pc = "draft" => call'[d].view.claim # call'[e].view.claim
  BY <1>2, <1>3, <1>4, <1>6 DEF Intake
<1>. QED
  BY <1>1, <1>7, <1>8 DEF Intake

LEMMA AskedIntake ==
  ASSUME IInv, Addressed, Intake, NEW c \in Calls,
         FromInvitation(c) \/ CreateRequest(c) \/ SubjectRequest(c) \/ AcceptRequest(c)
  PROVE  Intake'
<1>1. PICK pc \in {"request", "consent"}, r \in Requests \cup {None}, v \in Request, p \in Persons \cup {None} :
        Asked(c, pc, r, v, p)
  BY RequestsAsk DEF Asks
<1>. DEFINE k == Linking(pc, r, v, None, Resolution(Applicant(v), p))
<1>2. k.pc = pc /\ k.on = r /\ k.view = v
  BY LinkingFields
<1>3. /\ call' = [call EXCEPT ![c] = k] /\ requests' = requests
      /\ pc = "request" => v.claim = None
      /\ pc = "consent" => r \in Requests /\ requests[r].status = "pending_subject_acceptance"
  BY <1>1 DEF Asked, Resolving
<1>. HIDE DEF k
<1>4. call'[c] = k /\ \A d \in Calls : d # c => call'[d] = call[d]
  BY <1>3, CallsAre
<1>5. AskKnows(k, requests')
  BY <1>1, <1>2, <1>3 DEF AskKnows, Intake
<1>6. \A d \in Calls : AskKnows(call'[d], requests')
  BY <1>3, <1>4, <1>5 DEF Intake
<1>7. \A d, e \in Calls : d # e /\ call'[d].pc = "draft" /\ call'[e].pc = "draft" => call'[d].view.claim # call'[e].view.claim
  BY <1>1, <1>2, <1>4 DEF Intake
<1>. QED
  BY <1>3, <1>6, <1>7 DEF Intake

\* A request is written by a call that ends, for a claim nobody else has an open request or a draft for.
LEMMA WrittenIntake ==
  ASSUME IInv, Intake, NEW c \in Calls, Finish(c), NEW r, NEW v, ReqRow(r, v),
         v.there /\ v.org => v.person # None,
         v.status = "pending_subject_acceptance" => v.claim = None,
         v.claim # None => call[c].pc = "draft" /\ call[c].view.claim = v.claim,
         requests[r].email # None => v.claim = None
  PROVE  Intake'
<1>1. r \in Requests /\ requests'[r] = v /\ \A q \in Requests : q # r => requests'[q] = requests[q]
  BY DEF ReqRow
<1>2. OnlyCall(c) /\ call'[c].pc = "done"
  BY FinishOnly
<1>3. ASSUME v.claim # None
      PROVE  \A q \in Requests : OpenRequest(requests[q]) => requests[q].claim # v.claim
  BY <1>3 DEF Intake, AskKnows
<1>4. \A x, y \in Requests : OpenRequest(requests'[x]) /\ OpenRequest(requests'[y])
        /\ requests'[x].claim = requests'[y].claim /\ requests'[x].claim # None => x = y
  BY <1>1, <1>3 DEF Intake
<1>5. ASSUME NEW d \in Calls
      PROVE  AskKnows(call'[d], requests')
  <2>1. CASE d = c
    BY <1>2, <2>1 DEF AskKnows
  <2>2. CASE d # c
    <3>1. call'[d] = call[d] /\ AskKnows(call[d], requests) /\ CallIs(call[d], invites, requests, ids)
      BY <1>2, <2>2 DEF OnlyCall, Intake, IInv, CallsIs
    <3>2. call[d].pc = "draft" => v.claim # call[d].view.claim
      BY <2>2, <3>1 DEF AskKnows, Intake
    <3>3. call[d].pc = "consent" /\ call[d].on = r => v.claim = None
      <4>1. ASSUME call[d].pc = "consent", call[d].on = r
            PROVE  requests[r].email # None
        BY <3>1, <4>1, PeopleAssumption DEF CallIs, LinkOK, Subject
      <4>. QED
        BY <4>1
    <3>. QED
      BY <1>1, <3>1, <3>2, <3>3 DEF AskKnows
  <2>. QED
    BY <2>1, <2>2
<1>6. \A d, e \in Calls : d # e /\ call'[d].pc = "draft" /\ call'[e].pc = "draft" => call'[d].view.claim # call'[e].view.claim
  BY <1>2 DEF Intake, OnlyCall
<1>. QED
  BY <1>1, <1>4, <1>5, <1>6 DEF Intake

LEMMA IntakeWrites ==
  ASSUME IInv, Intake, NEW c \in Calls, CommitDraft(c) \/ CommitRequest(c) \/ CommitConsent(c)
  PROVE  Intake'
<1>1. Finish(c) /\ AskKnows(call[c], requests)
  BY DEF CommitDraft, CommitRequest, CommitConsent, Intake
<1>2. CASE CommitDraft(c)
  <2>1. PICK r \in Requests : ReqRow(r, call[c].view) /\ requests[r] = NoRequest
    BY <1>2, DraftRow
  <2>2. /\ call[c].pc = "draft" /\ call[c].view.claim # None /\ ~call[c].view.org
        /\ call[c].view.status = "pending_subject_submission"
    BY <1>1, <1>2 DEF CommitDraft, AskKnows
  <2>3. requests[r].email = None
    BY <2>1 DEF NoRequest
  <2>. QED
    BY <1>1, <2>1, <2>2, <2>3, WrittenIntake
<1>3. CASE CommitRequest(c)
  <2>1. PICK p \in Persons, r \in Requests, v \in Request :
          ReqRow(r, v) /\ v.person = p /\ v.claim = call[c].view.claim
    BY <1>3, RequestRow
  <2>2. v.claim = None /\ v.person # None
    BY <1>1, <1>3, <2>1, PeopleAssumption DEF CommitRequest, AskKnows
  <2>. QED
    BY <1>1, <2>1, <2>2, WrittenIntake
<1>4. CASE CommitConsent(c)
  <2>1. PICK p \in Persons, v \in Request :
          ReqRow(call[c].on, v) /\ v.person = p /\ v.claim = requests[call[c].on].claim
    BY <1>4, ConsentRow
  <2>2. v.claim = None /\ v.person # None
    BY <1>1, <1>4, <2>1, PeopleAssumption DEF CommitConsent, AskKnows
  <2>. QED
    BY <1>1, <2>1, <2>2, WrittenIntake
<1>. QED
  BY <1>2, <1>3, <1>4

LEMMA GoElsewhere ==
  ASSUME GoTo(OnInvites) \/ GoTo(Elsewhere)
  PROVE  \A d \in Calls : call'[d] = call[d] \/ call'[d].pc \notin Asking
BY DEF GoTo, OnInvites, Elsewhere, Asking

LEMMA IntakeStays ==
  ASSUME IInv, Addressed, Intake, [Next]_vars
  PROVE  Intake'
<1>1. CASE UNCHANGED vars
  BY <1>1, SameReqStays, IntakeStep DEF vars, registryVars, intakeVars
<1>2. CASE (Issuing \/ Answering) /\ UNCHANGED requests
  BY <1>2, SameReqStays, InvitationsGo, GoElsewhere, IntakeStep
<1>3. CASE InvitationSteps /\ requests' = Unreferenced
  BY <1>3, UnreferencedKept, KeptReqStays, InvitationsGo, GoElsewhere, IntakeStep
<1>4. CASE SharesNext
  BY <1>4, SharesGo, GoElsewhere, SameReqStays, IntakeStep
<1>5. ASSUME NEW c \in Calls, CutShort(c), UNCHANGED requests
      PROVE  Intake'
  BY <1>5, FinishGoes, GoElsewhere, SameReqStays, IntakeStep DEF CutShort
<1>6. CASE IntakeNext
  <2>1. ASSUME NEW c \in Calls, Fails(c)
        PROVE  Intake'
    BY <2>1, FinishGoes, GoElsewhere, SameReqStays, IntakeStep DEF Fails
  <2>2. CASE Decide
    <3>1. PICK r \in Requests, v \in Request :
             /\ ReqRow(r, v) /\ requests[r].there /\ v.there /\ requests[r].status = "pending_subject_submission"
             /\ v.status \in {"verified", "rejected"} /\ v.claim = requests[r].claim /\ v.org = requests[r].org
             /\ v.person = requests[r].person
      BY <2>2, DecideRow
    <3>2. \A q \in Requests : ReqStays(q)
      BY <3>1 DEF ReqRow, ReqStays, OpenRequest
    <3>. QED
      BY <2>2, <3>2, IntakeStep DEF Decide
  <2>. QED
    BY <1>6, <2>1, <2>2, DraftIntake, AskedIntake, IntakeWrites DEF IntakeNext
<1>. QED
  BY <1>1, <1>2, <1>3, <1>4, <1>5, <1>6 DEF Next

LEMMA OneOpenEach ==
  ASSUME Intake
  PROVE  OneOpenRequestPerClaim
<1> SUFFICES ASSUME NEW x \in Claims
             PROVE  Cardinality(ActiveFor(x)) <= 1
  BY DEF OneOpenRequestPerClaim
<1>1. CASE ActiveFor(x) = {}
  BY <1>1, FS_EmptySet
<1>2. ASSUME NEW r \in ActiveFor(x)
      PROVE  Cardinality(ActiveFor(x)) <= 1
  <2>1. ActiveFor(x) = {r}
    BY <1>2, RequestsAssumption DEF ActiveFor, Intake
  <2>. QED
    BY <2>1, FS_Singleton
<1>. QED
  BY <1>1, <1>2


-----------------------------------------------------------------------------
(* What the directory shows follows.                                       *)

LEMMA AcceptersArePersons ==
  ASSUME IInv, Addressed, RInv
  PROVE  AccepterIsPerson
<1> SUFFICES ASSUME NEW i \in Invites, invites[i].by # None, invites[i].person # None, invites[i].person \notin byPhone
             PROVE  persons[invites[i].person].user \in {None, invites[i].by}
  BY DEF AccepterIsPerson
<1>. DEFINE p == invites[i].person
            u == invites[i].by
<1>1. invites[i] \in Invite /\ p \in Persons /\ u \in Users /\ persons[p] \in Person
  BY DEF IInv, RowsIs, RegistryOK, Invite
<1>2. EmailOf[u] = invites[i].email /\ EmailOf[u] \in Emails
  BY <1>1, PeopleAssumption DEF Addressed, AccountHas
<1>3. <<p, EmailOf[u]>> \in ids
  BY <1>2, PeopleAssumption DEF Addressed, BackedFully, AddressesIn
<1>4. ASSUME persons[p].user # None
      PROVE  persons[p].user = u
  <2>1. persons[p].user \in Users /\ EmailOf[persons[p].user] \in Emails /\ <<p, EmailOf[persons[p].user]>> \in ids
    BY <1>1, <1>4, PeopleAssumption DEF Person, RInv, Registered
  <2>2. EmailOf[persons[p].user] = EmailOf[u]
    BY <1>1, <1>2, <1>3, <2>1 DEF RInv, Registered
  <2>. QED
    BY <1>1, <2>1, <2>2, PeopleAssumption
<1>. QED
  BY <1>4

LEMMA CountsAreFinite ==
  ASSUME NEW p
  PROVE  /\ IsFiniteSet(RequestsOf(p))
         /\ \A S : /\ IsFiniteSet({r \in RequestsOf(p) : VerificationSummary(requests[r]) \in S})
                   /\ Cardinality({r \in RequestsOf(p) : VerificationSummary(requests[r]) \in S}) \in Nat
<1>1. IsFiniteSet(RequestsOf(p))
  <2>1. RequestsOf(p) \subseteq Requests
    BY DEF RequestsOf
  <2>. QED
    BY <2>1, RequestsAssumption, FS_Subset
<1>2. ASSUME NEW S
      PROVE  LET T == {r \in RequestsOf(p) : VerificationSummary(requests[r]) \in S}
             IN IsFiniteSet(T) /\ Cardinality(T) \in Nat
  <2>. DEFINE T == {r \in RequestsOf(p) : VerificationSummary(requests[r]) \in S}
  <2>1. T \subseteq RequestsOf(p)
    OBVIOUS
  <2>2. IsFiniteSet(T)
    BY <1>1, <2>1, FS_Subset
  <2>3. Cardinality(T) \in Nat
    BY <2>2, FS_CardinalityType
  <2>. QED
    BY <2>2, <2>3
<1>. QED
  BY <1>1, <1>2

LEMMA ItemsAre ==
  ASSUME NEW p, NEW i, NEW v
  PROVE  /\ DirectoryItem(p, i, v).trust = TrustState(i, v, "not_shared")
         /\ TrustState(i, v, "not_shared") = "verified" <=> v = "completed"
         /\ TrustState(i, v, "not_shared") = "unknown" => v # "completed" /\ v \notin ActiveVerification
BY DEF DirectoryItem, TrustState, PassportStatus


LEMMA StatusesThere ==
  ASSUME NEW p
  PROVE  InvitationStatuses(p) # {} /\ VerificationStatuses(p) # {}
BY DEF InvitationStatuses, VerificationStatuses

\* Who is surely verified has a completed request.
LEMMA VerifiedHave ==
  ASSUME NEW p \in SurelyListedAs("verified")
  PROVE  VerificationCounts(p).completed > 0
<1>1. PICK i \in InvitationStatuses(p) : TRUE
  BY StatusesThere
<1>2. PICK v \in VerificationStatuses(p) : TRUE
  BY StatusesThere
<1>3. DirectoryItem(p, i, v) \in DirectoryItems(p)
  BY DEF DirectoryItems
<1>4. DirectoryItem(p, i, v).trust = "verified"
  BY <1>3 DEF SurelyListedAs
<1>5. v = "completed"
  BY <1>4, ItemsAre
<1>6. PICK r \in RequestsOf(p) : VerificationSummary(requests[r]) = "completed"
  BY <1>2, <1>5 DEF VerificationStatuses
<1>. DEFINE T == {q \in RequestsOf(p) : VerificationSummary(requests[q]) \in {"completed"}}
<1>7. r \in T
  BY <1>6
<1>8. IsFiniteSet(T) /\ Cardinality(T) \in Nat
  BY CountsAreFinite
<1>9. Cardinality(T) # 0
  BY <1>7, <1>8, FS_EmptySet
<1>. QED
  BY <1>8, <1>9 DEF VerificationCounts

\* Who may be unknown has a request that is no longer active, or none.
LEMMA UnknownHave ==
  ASSUME NEW p \in ListedAs("unknown")
  PROVE  VerificationCounts(p).active < VerificationCounts(p).total \/ VerificationCounts(p).total = 0
<1>1. PICK x \in DirectoryItems(p) : x.trust = "unknown"
  BY DEF ListedAs
<1>2. PICK i \in InvitationStatuses(p), v \in VerificationStatuses(p) : x = DirectoryItem(p, i, v)
  BY DEF DirectoryItems
<1>3. v \notin ActiveVerification
  BY <1>1, <1>2, ItemsAre
<1>. DEFINE T == {q \in RequestsOf(p) : VerificationSummary(requests[q]) \in ActiveVerification}
<1>4. VerificationCounts(p).active = Cardinality(T) /\ VerificationCounts(p).total = Cardinality(RequestsOf(p))
  BY DEF VerificationCounts
<1>5. CASE RequestsOf(p) = {}
  BY <1>4, <1>5, FS_EmptySet
<1>6. CASE RequestsOf(p) # {}
  <2>1. PICK r \in RequestsOf(p) : VerificationSummary(requests[r]) = v
    BY <1>6 DEF VerificationStatuses
  <2>2. T \subseteq RequestsOf(p) /\ T # RequestsOf(p)
    BY <1>3, <2>1
  <2>3. IsFiniteSet(RequestsOf(p))
    BY CountsAreFinite
  <2>. HIDE DEF T
  <2>4. /\ IsFiniteSet(T) /\ Cardinality(T) <= Cardinality(RequestsOf(p))
        /\ Cardinality(T) # Cardinality(RequestsOf(p))
    BY <2>2, <2>3, FS_Subset
  <2>5. Cardinality(T) \in Nat /\ Cardinality(RequestsOf(p)) \in Nat
    BY <2>3, <2>4, FS_CardinalityType
  <2>. QED
    BY <1>4, <2>4, <2>5
<1>. QED
  BY <1>5, <1>6

LEMMA DirectoryIsShown ==
  ASSUME IInv, Addressed, RInv, Directed, Intake
  PROVE  DirectoryShows
<1>1. ASSUME NEW r \in Requests, requests[r].there, requests[r].org
      PROVE  \E p \in Directory : /\ r \in RequestsOf(p) /\ <<p, requests[r].email>> \in ids
                                  /\ \A q \in Directory \ {p} : r \notin RequestsOf(q)
  <2>. DEFINE p == requests[r].person
  <2>1. p \in Persons /\ <<p, requests[r].email>> \in ids
    BY <1>1 DEF Intake, IInv, RowsIs, Backed, Request
  <2>2. p \in Directory
    BY <2>1 DEF Directory, RInv, Registered
  <2>. QED
    BY <1>1, <2>1, <2>2 DEF RequestsOf
<1>2. ASSUME NEW i \in Invites \ (raced \cup cut), invites[i].by # None, invites[i].person # None,
             invites[i].person \notin met \cup byPhone, About(i) = {}
      PROVE  persons[invites[i].person].user = invites[i].by
  <2>1. ~Syncing(i)
    BY <1>2 DEF Syncing, About, Flying
  <2>. QED
    BY <1>2, <2>1 DEF Directed, Followed
<1>. QED
  BY <1>1, <1>2, VerifiedHave, UnknownHave DEF DirectoryShows


-----------------------------------------------------------------------------
(* What is never taken back.                                               *)

LEMMA NeverDemoted ==
  ASSUME IInv, Addressed, RInv, [Next]_vars
  PROVE  \A p \in Persons : persons[p].there /\ p \notin met => Rank[persons[p].relationship] <= Rank[persons'[p].relationship]
BY PersonsStay DEF PersonStays

\* An acceptance is written over by nobody who is alone with its row.
LEMMA AcceptanceStays ==
  ASSUME IInv, Addressed, Sole, [Next]_vars,
         NEW i \in Invites \ raced, invites[i].by # None
  PROVE  invites'[i].there /\ invites'[i].status = "accepted" /\ invites'[i].by = invites[i].by
<1>1. invites[i].there /\ invites[i].status = "accepted"
  BY DEF Sole, AcceptedIs
<1>. DEFINE Stays == invites'[i].there /\ invites'[i].status = "accepted" /\ invites'[i].by = invites[i].by
<1>2. ASSUME invites' = invites
      PROVE  Stays
  BY <1>1, <1>2
<1>3. ASSUME NEW j, NEW v, Row(j, v), j # i \/ (v.there /\ v.status = "accepted" /\ v.by = invites[i].by)
      PROVE  Stays
  BY <1>1, <1>3 DEF Row
<1>4. ASSUME NEW c \in Calls, call[c].pc \in OnInvites, call[c].on = i
      PROVE  ~Decides(call[c])
  BY <1>4 DEF Sole, Knows
<1>5. ASSUME NEW c \in Calls, Deliver(c)
      PROVE  Stays
  <2>1. PICK v \in Invite : /\ Row(call[c].on, v) /\ Kept(invites[call[c].on], v)
                            /\ v.status = IF call[c].arg = "pending" THEN "pending" ELSE invites[call[c].on].status
    BY <1>5, DeliverRow
  <2>2. call[c].pc = "deliver" /\ call[c].pc \in OnInvites
    BY <1>5 DEF Deliver, OnInvites
  <2>3. call[c].on = i => call[c].arg # "pending"
    BY <1>4, <2>2 DEF Decides
  <2>. QED
    BY <1>1, <1>3, <2>1, <2>3 DEF Kept
<1>6. ASSUME NEW c \in Calls, CommitWrite(c)
      PROVE  Stays
  <2>1. PICK v \in Invite : /\ Row(call[c].on, v) /\ Kept(invites[call[c].on], v)
                            /\ \/ call[c].pc = "open" /\ v.status = invites[call[c].on].status
                               \/ call[c].pc \in {"cancel", "expire"}
    BY <1>6, WriteRow
  <2>2. call[c].on = i => call[c].pc \notin {"cancel", "expire"}
    BY <1>4 DEF Decides, Deciding, OnInvites
  <2>. QED
    BY <1>1, <1>3, <2>1, <2>2 DEF Kept
<1>7. ASSUME NEW c \in Calls, CommitDeleteInvitation(c)
      PROVE  Stays
  <2>1. call[c].on # i
    BY <1>4, <1>7 DEF Decides, Deciding, OnInvites, CommitDeleteInvitation
  <2>. QED
    BY <1>3, <1>7, <2>1, DeleteRow
<1>8. ASSUME NEW c \in Calls, CommitAccept(c)
      PROVE  Stays
  <2>1. call[c].on # i
    BY <1>4, <1>8 DEF Decides, Deciding, OnInvites, CommitAccept
  <2>. QED
    BY <1>3, <1>8, <2>1, AcceptRow
<1>9. ASSUME NEW c \in Calls, CommitSync(c)
      PROVE  Stays
  <2>1. PICK p \in Rows(call[c].link), v \in Invite :
          Row(call[c].on, v) /\ v.there = invites[call[c].on].there /\ v.by = invites[call[c].on].by
          /\ v.status = invites[call[c].on].status
    BY <1>9, SyncRow
  <2>. QED
    BY <1>1, <1>3, <2>1
<1>10. CASE Reconcile \/ DeadlinePasses
  BY <1>1, <1>3, <1>10, ReconcileRow, LapseRow DEF Kept
<1>11. ASSUME NEW c \in Calls, CreateInvitation(c)
       PROVE  Stays
  <2>1. PICK j \in Invites, v \in Invite : Row(j, v) /\ invites[j] = NoInvite
    BY <1>11, CreateRow
  <2>. QED
    BY <1>1, <1>3, <2>1 DEF NoInvite
<1>12. ASSUME NEW c \in Calls,
             \/ SendInvitation(c) \/ Resend(c) \/ CancelInvitation(c) \/ DeleteInvitation(c)
             \/ NoticeLapse(c) \/ OpenInvitation(c) \/ Accept(c) \/ AcceptAgain(c)
      PROVE  Stays
  BY <1>2, <1>12, BeginIs DEF BeginOn
<1>13. ASSUME NEW c \in Calls, Sync(c) \/ SyncFails(c) \/ Gone(c) \/ CutShort(c)
       PROVE  Stays
  BY <1>2, <1>13 DEF Sync, SyncFails, Gone, CutShort, inviteVars
<1>14. CASE IntakeNext \/ SharesNext
  BY <1>2, <1>14, OthersOnly
<1>15. CASE UNCHANGED vars
  BY <1>2, <1>15 DEF vars, inviteVars
<1>. QED
  BY <1>5, <1>6, <1>7, <1>8, <1>9, <1>10, <1>11, <1>12, <1>13, <1>14, <1>15
     DEF Next, Issuing, Answering, InvitationSteps



-----------------------------------------------------------------------------
(* Links to a passport.                                                    *)

LEMMA IntakeGoes ==
  ASSUME IInv, Addressed, IntakeNext
  PROVE  GoTo(Asking)
<1>1. CASE Decide
  BY <1>1 DEF Decide, GoTo
<1>2. ASSUME NEW c \in Calls, DraftRequest(c)
      PROVE  GoTo(Asking)
  <2>1. PICK view : call' = [call EXCEPT ![c] = Linking("draft", None, view, None, NoResolution)]
    BY <1>2 DEF DraftRequest, Call
  <2>2. PICK pc \in Asking : call' = [call EXCEPT ![c] = Linking(pc, None, view, None, NoResolution)]
    BY <2>1 DEF Asking
  <2>. QED
    BY <2>2, LinkingGoes
<1>3. ASSUME NEW c \in Calls, FromInvitation(c) \/ CreateRequest(c) \/ SubjectRequest(c) \/ AcceptRequest(c)
      PROVE  GoTo(Asking)
  <2>1. PICK pc \in {"request", "consent"}, r \in Requests \cup {None}, v \in Request, p \in Persons \cup {None} :
          Asked(c, pc, r, v, p)
    BY <1>3, RequestsAsk DEF Asks
  <2>2. pc \in Asking /\ call' = [call EXCEPT ![c] = Linking(pc, r, v, None, Resolution(Applicant(v), p))]
    BY <2>1 DEF Asked, Resolving, Asking
  <2>. QED
    BY <2>2, LinkingGoes
<1>4. ASSUME NEW c \in Calls, CommitDraft(c) \/ CommitRequest(c) \/ CommitConsent(c) \/ Fails(c)
      PROVE  GoTo(Asking)
  BY <1>4, FinishGoes DEF CommitDraft, CommitRequest, CommitConsent, Fails
<1>. QED
  BY <1>1, <1>2, <1>3, <1>4 DEF IntakeNext

Owners == {"widen", "revoke"}
Openings == {"page", "record"}
SharesTyped ==
  /\ shares \in [Shares -> Share] /\ views \in [Views -> View]
  /\ contested \subseteq Shares /\ crowded \subseteq Shares \X Viewers
Counted(s, w) == {x \in Views : views[x].share = s /\ views[x].viewer = w /\ views[x].recent /\ views[x].unique}
\* What a call knows of its link, and of the views counted before.
ShareKnows(c) ==
  LET k == call[c] IN
  /\ k.pc \in Owners => k.on \in Shares /\ (k.on \notin contested => ~shares[k.on].revoked)
  /\ k.pc = "widen" => k.arg \in SUBSET Sections
  /\ k.pc \in Openings => k.on \in Shares /\ k.arg \in Viewers
  /\ k.pc = "record" => /\ k.view \in BOOLEAN
                        /\ k.view /\ <<k.on, k.arg>> \notin crowded => Counted(k.on, k.arg) = {}
SharesKnow ==
  /\ \A c \in Calls : ShareKnows(c)
  /\ \A c, d \in Calls : c # d /\ call[c].pc \in Owners /\ call[d].pc \in Owners /\ call[c].on = call[d].on
       => call[c].on \in contested
  /\ \A c, d \in Calls : /\ c # d /\ call[c].pc \in Openings /\ call[d].pc \in Openings
                         /\ call[c].on = call[d].on /\ call[c].arg = call[d].arg
       => <<call[c].on, call[c].arg>> \in crowded
UniqueOnce ==
  \A s \in Shares, w \in Viewers : <<s, w>> \notin crowded => \A x, y \in Counted(s, w) : x = y
ShInv == SharesTyped /\ SharesKnow /\ UniqueOnce

\* Nothing of the links changes, and calls leave them.
LEMMA SharesAside ==
  ASSUME ShInv, UNCHANGED shareVars,
         \A d \in Calls : call'[d] = call[d] \/ call'[d].pc \notin Owners \cup Openings
  PROVE  ShInv'
<1>1. UNCHANGED <<shares, views, contested, crowded>>
  BY DEF shareVars
<1>2. \A s, w : Counted(s, w)' = Counted(s, w)
  BY <1>1 DEF Counted
<1>3. SharesTyped' /\ UniqueOnce'
  BY <1>1, <1>2 DEF ShInv, SharesTyped, UniqueOnce
<1>4. ASSUME NEW d \in Calls
      PROVE  ShareKnows(d)'
  <2>1. CASE call'[d] = call[d]
    BY <1>1, <1>2, <2>1 DEF ShInv, SharesKnow, ShareKnows
  <2>2. CASE call'[d].pc \notin Owners \cup Openings
    BY <2>2 DEF ShareKnows, Owners, Openings
  <2>. QED
    BY <2>1, <2>2
<1>5. SharesKnow'
  BY <1>1, <1>4 DEF ShInv, SharesKnow
<1>. QED
  BY <1>3, <1>5 DEF ShInv

LEMMA CreateShareKeeps ==
  ASSUME IInv, ShInv, NEW c \in Calls, CreateShare(c)
  PROVE  ShInv'
<1>1. PICK s \in Shares, m \in SUBSET Sections :
        shares[s] = NoShare /\ shares' = [shares EXCEPT ![s] = [NoShare EXCEPT !.there = TRUE, !.permissions = m]]
  BY DEF CreateShare
<1>2. UNCHANGED <<views, contested, crowded>> /\ Finish(c)
  BY DEF CreateShare
<1>3. shares' \in [Shares -> Share] /\ \A t \in Shares : shares'[t].revoked = shares[t].revoked
  BY <1>1 DEF ShInv, SharesTyped, Share, NoShare
<1>4. OnlyCall(c) /\ call'[c].pc = "done"
  BY <1>2, FinishOnly
<1>5. \A t, w : Counted(t, w)' = Counted(t, w)
  BY <1>2 DEF Counted
<1>6. SharesTyped' /\ UniqueOnce'
  BY <1>2, <1>3, <1>5 DEF ShInv, SharesTyped, UniqueOnce
<1>7. \A d \in Calls : ShareKnows(d)'
  <2>1. ShareKnows(c)'
    BY <1>4 DEF ShareKnows, Owners, Openings
  <2>2. \A d \in Calls \ {c} : ShareKnows(d)'
    BY <1>2, <1>3, <1>4, <1>5 DEF ShInv, SharesKnow, ShareKnows, OnlyCall
  <2>. QED
    BY <2>1, <2>2
<1>8. call'[c].pc \notin Owners \cup Openings
  BY <1>4 DEF Owners, Openings
<1>9. SharesKnow'
  BY <1>2, <1>4, <1>7, <1>8 DEF ShInv, SharesKnow, OnlyCall
<1>. QED
  BY <1>6, <1>9 DEF ShInv

LEMMA ChangeKeeps ==
  ASSUME IInv, ShInv, NEW c \in Calls, Turn(c), UpdateShare(c) \/ RevokeShare(c)
  PROVE  ShInv'
<1>1. PICK s \in Shares, pc \in Owners, arg \in (SUBSET Sections) \cup {None} :
        ~shares[s].revoked /\ Change(c, s, pc, arg) /\ (pc = "widen" => arg \in SUBSET Sections)
  BY DEF UpdateShare, RevokeShare, Mutable, Owners
<1>2. /\ call'[c].pc = pc /\ call'[c].on = s /\ call'[c].arg = arg
      /\ \A d \in Calls : d # c => call'[d] = call[d]
  <2>. DEFINE k == Call(pc, s, shares[s], arg)
  <2>1. k.pc = pc /\ k.on = s /\ k.arg = arg
    BY CallFields
  <2>2. call' = [call EXCEPT ![c] = k]
    BY <1>1 DEF Change
  <2>. HIDE DEF k
  <2>. QED
    BY <2>1, <2>2, CallsAre
<1>3. /\ contested' = contested \cup {x \in Shares : x = s /\ \E d \in Flying : call[d].pc \in {"widen", "revoke"} /\ call[d].on = x}
      /\ UNCHANGED <<shares, views, crowded>>
  BY <1>1 DEF Change
<1>4. ASSUME NEW d \in Calls, call[d].pc \in Owners, call[d].on = s
      PROVE  s \in contested'
  BY <1>3, <1>4 DEF Owners, Flying
<1>5. \A t, w : Counted(t, w)' = Counted(t, w)
  BY <1>3 DEF Counted
<1>6. SharesTyped' /\ UniqueOnce' /\ contested \subseteq contested'
  BY <1>3, <1>5 DEF ShInv, SharesTyped, UniqueOnce
<1>7. pc \notin Openings
  BY DEF Owners, Openings
<1>8. \A d \in Calls : ShareKnows(d)'
  <2>1. ShareKnows(c)'
    BY <1>1, <1>2, <1>3, <1>7 DEF ShareKnows, Openings
  <2>2. \A d \in Calls \ {c} : ShareKnows(d)'
    BY <1>2, <1>3, <1>5, <1>6 DEF ShInv, SharesKnow, ShareKnows
  <2>. QED
    BY <2>1, <2>2
<1>9. \A d, e \in Calls : d # e /\ call'[d].pc \in Owners /\ call'[e].pc \in Owners /\ call'[d].on = call'[e].on
       => call'[d].on \in contested'
  BY <1>2, <1>4, <1>6 DEF ShInv, SharesKnow
<1>10. SharesKnow'
  BY <1>2, <1>3, <1>7, <1>8, <1>9 DEF ShInv, SharesKnow
<1>. QED
  BY <1>6, <1>10 DEF ShInv

LEMMA CommitShareKeeps ==
  ASSUME IInv, ShInv, NEW c \in Calls, CommitShare(c)
  PROVE  /\ ShInv'
         /\ \A s \in Shares \ contested : shares[s].revoked
              => shares'[s].revoked /\ shares'[s].permissions = shares[s].permissions
<1>. DEFINE s == call[c].on
            m == IF call[c].pc = "widen" THEN call[c].arg ELSE shares[s].permissions
            x == [shares[s] EXCEPT !.permissions = m, !.revoked = shares[s].revoked \/ call[c].pc = "revoke"]
<1>1. /\ call[c].pc \in Owners /\ UNCHANGED <<views, contested, crowded>> /\ Finish(c)
      /\ shares' = [shares EXCEPT ![s].permissions = IF call[c].pc = "widen" THEN call[c].arg ELSE @,
                                  ![s].revoked = @ \/ call[c].pc = "revoke"]
  BY DEF CommitShare, Owners
<1>2. /\ s \in Shares /\ shares[s] \in Share /\ (call[c].pc = "widen" => call[c].arg \in SUBSET Sections)
      /\ s \notin contested => ~shares[s].revoked
  BY <1>1 DEF ShInv, SharesTyped, SharesKnow, ShareKnows
<1>3. shares' = [shares EXCEPT ![s] = x]
  BY <1>1, <1>2 DEF ShInv, SharesTyped, Share
<1>4. x \in Share
  BY <1>2 DEF Share
<1>. HIDE DEF x
<1>5. shares' \in [Shares -> Share] /\ \A t \in Shares : t # s => shares'[t] = shares[t]
  BY <1>3, <1>4 DEF ShInv, SharesTyped
<1>6. OnlyCall(c) /\ call'[c].pc = "done" /\ call'[c].pc \notin Owners \cup Openings
  BY <1>1, FinishOnly DEF Owners, Openings
<1>7. \A t, w : Counted(t, w)' = Counted(t, w)
  BY <1>1 DEF Counted
<1>8. SharesTyped' /\ UniqueOnce'
  BY <1>1, <1>5, <1>7 DEF ShInv, SharesTyped, UniqueOnce
<1>9. ASSUME NEW d \in Calls
      PROVE  ShareKnows(d)'
  <2>1. CASE d = c
    BY <1>6, <2>1 DEF ShareKnows, Owners, Openings
  <2>2. CASE d # c
    <3>1. call'[d] = call[d] /\ ShareKnows(d)
      BY <1>6, <2>2 DEF OnlyCall, ShInv, SharesKnow
    <3>2. call[d].pc \in Owners /\ call[d].on \notin contested => call[d].on # s
      BY <1>1, <2>2 DEF ShInv, SharesKnow
    <3>. QED
      BY <1>1, <1>5, <1>7, <3>1, <3>2 DEF ShareKnows
  <2>. QED
    BY <2>1, <2>2
<1>10. SharesKnow'
  BY <1>1, <1>6, <1>9 DEF ShInv, SharesKnow, OnlyCall
<1>. QED
  BY <1>2, <1>5, <1>8, <1>10 DEF ShInv


LEMMA OpenKeeps ==
  ASSUME IInv, ShInv, NEW c \in Calls, Turn(c), OpenPassport(c)
  PROVE  ShInv'
<1>1. PICK s \in Shares, w \in Viewers :
        /\ call' = [call EXCEPT ![c] = Call("page", s, shares[s], w)]
        /\ crowded' = crowded \cup {x \in Shares \X Viewers : x = <<s, w>> /\
                        \E d \in Flying : call[d].pc \in {"page", "record"} /\ <<call[d].on, call[d].arg>> = x}
        /\ UNCHANGED <<shares, views, contested>>
  BY DEF OpenPassport
<1>2. /\ call'[c].pc = "page" /\ call'[c].on = s /\ call'[c].arg = w
      /\ \A d \in Calls : d # c => call'[d] = call[d]
  <2>. DEFINE k == Call("page", s, shares[s], w)
  <2>1. k.pc = "page" /\ k.on = s /\ k.arg = w
    BY CallFields
  <2>2. call' = [call EXCEPT ![c] = k]
    BY <1>1
  <2>. HIDE DEF k
  <2>. QED
    BY <2>1, <2>2, CallsAre
<1>3. ASSUME NEW d \in Calls, call[d].pc \in Openings, call[d].on = s, call[d].arg = w
      PROVE  <<s, w>> \in crowded'
  <2>1. d \in Flying /\ call[d].pc \in {"page", "record"} /\ <<call[d].on, call[d].arg>> = <<s, w>>
    BY <1>3 DEF Openings, Flying
  <2>. QED
    BY <1>1, <2>1
<1>4. \A t, u : Counted(t, u)' = Counted(t, u)
  BY <1>1 DEF Counted
<1>5. SharesTyped' /\ UniqueOnce' /\ crowded \subseteq crowded'
  BY <1>1, <1>4 DEF ShInv, SharesTyped, UniqueOnce
<1>6. \A d \in Calls : ShareKnows(d)'
  <2>1. ShareKnows(c)'
    BY <1>2 DEF ShareKnows, Owners
  <2>2. \A d \in Calls \ {c} : ShareKnows(d)'
    BY <1>1, <1>2, <1>4, <1>5 DEF ShInv, SharesKnow, ShareKnows
  <2>. QED
    BY <2>1, <2>2
<1>7. \A d, e \in Calls : d # e /\ call'[d].pc \in Owners /\ call'[e].pc \in Owners /\ call'[d].on = call'[e].on
       => call'[d].on \in contested'
  BY <1>1, <1>2 DEF ShInv, SharesKnow, Owners
<1>8. \A d, e \in Calls : /\ d # e /\ call'[d].pc \in Openings /\ call'[e].pc \in Openings
                          /\ call'[d].on = call'[e].on /\ call'[d].arg = call'[e].arg
       => <<call'[d].on, call'[d].arg>> \in crowded'
  BY <1>2, <1>3, <1>5 DEF ShInv, SharesKnow
<1>. QED
  BY <1>5, <1>6, <1>7, <1>8 DEF ShInv, SharesKnow

LEMMA CountKeeps ==
  ASSUME IInv, ShInv, NEW c \in Calls, CountView(c)
  PROVE  ShInv'
<1>. DEFINE s == call[c].on
            w == call[c].arg
            new == RecentViews(s, w) = {}
<1>1. call[c].pc = "page" /\ call' = [call EXCEPT ![c] = Call("record", s, new, w)] /\ UNCHANGED shareVars
  BY DEF CountView
<1>2. /\ call'[c].pc = "record" /\ call'[c].on = s /\ call'[c].arg = w /\ call'[c].view = new
      /\ \A d \in Calls : d # c => call'[d] = call[d]
  <2>. DEFINE k == Call("record", s, new, w)
  <2>1. k.pc = "record" /\ k.on = s /\ k.arg = w /\ k.view = new
    BY CallFields
  <2>2. call' = [call EXCEPT ![c] = k]
    BY <1>1
  <2>. HIDE DEF k, new
  <2>. QED
    BY <2>1, <2>2, CallsAre
<1>3. UNCHANGED <<shares, views, contested, crowded>>
  BY <1>1 DEF shareVars
<1>4. \A t, u : Counted(t, u)' = Counted(t, u)
  BY <1>3 DEF Counted
<1>5. SharesTyped' /\ UniqueOnce'
  BY <1>3, <1>4 DEF ShInv, SharesTyped, UniqueOnce
<1>6. s \in Shares /\ w \in Viewers /\ (new => Counted(s, w) = {})
  BY <1>1 DEF ShInv, SharesKnow, ShareKnows, Openings, Counted, RecentViews
<1>7. new \in BOOLEAN
  OBVIOUS
<1>. HIDE DEF new
<1>8. \A d \in Calls : ShareKnows(d)'
  <2>1. ShareKnows(c)'
    BY <1>2, <1>4, <1>6, <1>7 DEF ShareKnows, Owners
  <2>2. \A d \in Calls \ {c} : ShareKnows(d)'
    BY <1>2, <1>3, <1>4 DEF ShInv, SharesKnow, ShareKnows
  <2>. QED
    BY <2>1, <2>2
<1>9. SharesKnow'
  BY <1>1, <1>2, <1>3, <1>8 DEF ShInv, SharesKnow, Owners, Openings
<1>. QED
  BY <1>5, <1>9 DEF ShInv

LEMMA CommitViewKeeps ==
  ASSUME IInv, ShInv, NEW c \in Calls, CommitView(c)
  PROVE  ShInv'
<1>. DEFINE s == call[c].on
            w == call[c].arg
<1>1. PICK x \in Views :
        views' = [views EXCEPT ![x] = [share |-> s, viewer |-> w, unique |-> call[c].view, recent |-> TRUE]]
  BY DEF CommitView, Foremost
<1>2. call[c].pc = "record" /\ call[c].pc \in Openings /\ UNCHANGED <<shares, contested, crowded>> /\ Finish(c)
  BY DEF CommitView, Openings
<1>3. /\ s \in Shares /\ w \in Viewers /\ call[c].view \in BOOLEAN
      /\ call[c].view /\ <<s, w>> \notin crowded => Counted(s, w) = {}
  BY <1>2 DEF ShInv, SharesKnow, ShareKnows
<1>. DEFINE y == [share |-> s, viewer |-> w, unique |-> call[c].view, recent |-> TRUE]
<1>4. y \in View /\ y.share = s /\ y.viewer = w /\ y.unique = call[c].view
  BY <1>3 DEF View
<1>5. views' = [views EXCEPT ![x] = y]
  BY <1>1
<1>. HIDE DEF y
<1>6. views' \in [Views -> View] /\ views'[x] = y /\ \A z \in Views : z # x => views'[z] = views[z]
  BY <1>4, <1>5 DEF ShInv, SharesTyped
<1>7. SharesTyped'
  BY <1>2, <1>6 DEF ShInv, SharesTyped
<1>8. \A t, u : Counted(t, u)' \subseteq Counted(t, u) \cup {x}
  BY <1>6 DEF Counted
<1>9. \A t, u : (t # s \/ u # w \/ ~call[c].view) => Counted(t, u)' \subseteq Counted(t, u)
  BY <1>4, <1>6 DEF Counted
<1>10. UniqueOnce'
  <2> SUFFICES ASSUME NEW t \in Shares, NEW u \in Viewers, <<t, u>> \notin crowded
               PROVE  \A z, a \in Counted(t, u)' : z = a
    BY <1>2 DEF UniqueOnce
  <2>1. \A z, a \in Counted(t, u) : z = a
    BY DEF ShInv, UniqueOnce
  <2>2. CASE t = s /\ u = w /\ call[c].view
    BY <1>3, <1>8, <2>2
  <2>3. CASE ~(t = s /\ u = w /\ call[c].view)
    BY <1>9, <2>1, <2>3
  <2>. QED
    BY <2>2, <2>3
<1>11. OnlyCall(c) /\ call'[c].pc = "done" /\ call'[c].pc \notin Owners \cup Openings
  BY <1>2, FinishOnly DEF Owners, Openings
<1>12. ASSUME NEW d \in Calls
       PROVE  ShareKnows(d)'
  <2>1. CASE d = c
    BY <1>11, <2>1 DEF ShareKnows, Owners, Openings
  <2>2. CASE d # c
    <3>1. call'[d] = call[d] /\ ShareKnows(d)
      BY <1>11, <2>2 DEF OnlyCall, ShInv, SharesKnow
    <3>2. call[d].pc = "record" /\ <<call[d].on, call[d].arg>> \notin crowded => call[d].on # s \/ call[d].arg # w
      BY <1>2, <2>2 DEF ShInv, SharesKnow, Openings
    <3>3. ASSUME NEW t, NEW u, t = call[d].on, u = call[d].arg,
                 call[d].pc = "record", call[d].view, <<call[d].on, call[d].arg>> \notin crowded
          PROVE  Counted(t, u)' = {}
      <4>1. t = call[d].on /\ u = call[d].arg /\ call[d].pc = "record" /\ call[d].view /\ <<t, u>> \notin crowded
        BY <3>3
      <4>2. Counted(t, u) = {} /\ Counted(t, u)' \subseteq Counted(t, u)
        BY <1>9, <3>1, <3>2, <4>1 DEF ShareKnows
      <4>. QED
        BY <4>1, <4>2
    <3>. QED
      BY <1>2, <3>1, <3>3 DEF ShareKnows
  <2>. QED
    BY <2>1, <2>2
<1>13. SharesKnow'
  BY <1>2, <1>11, <1>12 DEF ShInv, SharesKnow, OnlyCall
<1>. QED
  BY <1>7, <1>10, <1>13 DEF ShInv

LEMMA LapseKeeps ==
  ASSUME IInv, ShInv, ShareLapses \/ WindowPasses
  PROVE  ShInv'
<1>1. call' = call /\ UNCHANGED <<contested, crowded>>
  BY DEF ShareLapses, WindowPasses
<1>2. shares' \in [Shares -> Share] /\ \A t \in Shares : shares'[t].revoked = shares[t].revoked
  <2>1. CASE ShareLapses
    <3>1. PICK s \in Shares : shares' = [shares EXCEPT ![s].lapsed = TRUE]
      BY <2>1 DEF ShareLapses
    <3>. QED
      BY <3>1 DEF ShInv, SharesTyped, Share
  <2>2. CASE WindowPasses
    BY <2>2 DEF WindowPasses, ShInv, SharesTyped
  <2>. QED
    BY <2>1, <2>2
<1>3. views' \in [Views -> View] /\ \A t, u : Counted(t, u)' \subseteq Counted(t, u)
  <2>1. CASE ShareLapses
    BY <2>1 DEF ShareLapses, ShInv, SharesTyped, Counted
  <2>2. CASE WindowPasses
    <3>1. PICK x \in Views : views' = [views EXCEPT ![x].recent = FALSE]
      BY <2>2 DEF WindowPasses, Foremost
    <3>2. /\ views' \in [Views -> View] /\ ~views'[x].recent
          /\ \A z \in Views : z # x => views'[z] = views[z]
      BY <3>1 DEF ShInv, SharesTyped, View
    <3>. QED
      BY <3>2 DEF Counted
  <2>. QED
    BY <2>1, <2>2
<1>4. SharesTyped' /\ UniqueOnce'
  BY <1>1, <1>2, <1>3 DEF ShInv, SharesTyped, UniqueOnce
<1>5. ASSUME NEW d \in Calls
      PROVE  ShareKnows(d)'
  <2>1. ShareKnows(d) /\ call'[d] = call[d]
    BY <1>1 DEF ShInv, SharesKnow
  <2>2. Counted(call[d].on, call[d].arg) = {} => Counted(call[d].on, call[d].arg)' = {}
    <3>1. PICK t, u : t = call[d].on /\ u = call[d].arg
      OBVIOUS
    <3>. QED
      BY <1>1, <1>3, <3>1
  <2>. QED
    BY <1>1, <1>2, <2>1, <2>2 DEF ShareKnows
<1>6. SharesKnow'
  BY <1>1, <1>5 DEF ShInv, SharesKnow
<1>. QED
  BY <1>4, <1>6 DEF ShInv


LEMMA ShInvStays ==
  ASSUME IInv, Addressed, ShInv, [Next]_vars
  PROVE  ShInv'
<1>1. CASE SharesNext
  BY <1>1, CreateShareKeeps, ChangeKeeps, CommitShareKeeps, OpenKeeps, CountKeeps, CommitViewKeeps, LapseKeeps
     DEF SharesNext
<1>2. ASSUME UNCHANGED shareVars, GoTo(OnInvites) \/ GoTo(Asking)
      PROVE  ShInv'
  <2>1. \A d \in Calls : call'[d] = call[d] \/ call'[d].pc \notin Owners \cup Openings
    BY <1>2 DEF GoTo, OnInvites, Asking, Owners, Openings
  <2>. QED
    BY <1>2, <2>1, SharesAside
<1>3. CASE UNCHANGED vars
  BY <1>3, SharesAside DEF vars, registryVars
<1>4. ASSUME NEW c \in Calls, CutShort(c), UNCHANGED shareVars
      PROVE  ShInv'
  BY <1>2, <1>4, FinishGoes DEF CutShort
<1>. QED
  BY <1>1, <1>2, <1>3, <1>4, InvitationsGo, IntakeGoes DEF Next

\* A closed link is opened or widened by nobody who is alone with it.
LEMMA ClosedStays ==
  ASSUME IInv, ShInv, [Next]_vars, NEW s \in Shares \ contested, shares[s].revoked
  PROVE  shares'[s].revoked /\ shares'[s].permissions = shares[s].permissions
<1>. DEFINE Stays == shares'[s].revoked /\ shares'[s].permissions = shares[s].permissions
<1>1. ASSUME shares' = shares
      PROVE  Stays
  BY <1>1
<1>2. ASSUME NEW c \in Calls, CreateShare(c)
      PROVE  Stays
  <2>1. PICK t \in Shares, m \in SUBSET Sections :
          shares[t] = NoShare /\ shares' = [shares EXCEPT ![t] = [NoShare EXCEPT !.there = TRUE, !.permissions = m]]
    BY <1>2 DEF CreateShare
  <2>2. t # s
    BY <2>1 DEF NoShare
  <2>3. shares'[s] = shares[s]
    BY <2>1, <2>2 DEF ShInv, SharesTyped
  <2>. QED
    BY <2>3
<1>3. ASSUME NEW c \in Calls, CommitShare(c)
      PROVE  Stays
  BY <1>3, CommitShareKeeps
<1>4. ASSUME NEW c \in Calls, UpdateShare(c) \/ RevokeShare(c) \/ OpenPassport(c) \/ CountView(c) \/ CommitView(c)
      PROVE  Stays
  BY <1>1, <1>4 DEF UpdateShare, RevokeShare, Change, OpenPassport, CountView, CommitView, shareVars
<1>5. CASE ShareLapses
  BY <1>5 DEF ShareLapses, ShInv, SharesTyped, Share
<1>6. CASE WindowPasses
  BY <1>1, <1>6 DEF WindowPasses
<1>7. CASE UNCHANGED shareVars
  BY <1>1, <1>7 DEF shareVars
<1>8. CASE UNCHANGED vars
  BY <1>7, <1>8 DEF vars
<1>. QED
  BY <1>2, <1>3, <1>4, <1>5, <1>6, <1>7, <1>8 DEF Next, SharesNext

LEMMA CountedOnce ==
  ASSUME ShInv
  PROVE  OneUniqueView
<1> SUFFICES ASSUME NEW s \in Shares, NEW w \in Viewers, <<s, w>> \notin crowded
             PROVE  Cardinality(Counted(s, w)) <= 1
  BY DEF OneUniqueView, Counted
<1>1. CASE Counted(s, w) = {}
  BY <1>1, FS_EmptySet
<1>2. ASSUME NEW x \in Counted(s, w)
      PROVE  Cardinality(Counted(s, w)) <= 1
  <2>1. Counted(s, w) = {x}
    BY <1>2 DEF ShInv, UniqueOnce
  <2>. QED
    BY <2>1, FS_Singleton
<1>. QED
  BY <1>1, <1>2

-----------------------------------------------------------------------------
(* The whole.                                                              *)

Ghosts == met \subseteq Persons /\ byPhone \subseteq Persons /\ raced \subseteq Invites /\ cut \subseteq Invites

LEMMA GhostsStay ==
  ASSUME IInv, Addressed, Ghosts, [Next]_vars
  PROVE  Ghosts'
<1>1. ASSUME NEW c \in Calls, NEW p, Meeting(c, p) \/ UNCHANGED met
      PROVE  met' \subseteq Persons
  BY <1>1 DEF Ghosts, Meeting
<1>2. ASSUME NEW w, NEW p, Finding(w, p) \/ UNCHANGED byPhone
      PROVE  byPhone' \subseteq Persons
  BY <1>2 DEF Ghosts, Finding
<1>3. ASSUME UNCHANGED <<met, byPhone, raced, cut>>
      PROVE  Ghosts'
  BY <1>3 DEF Ghosts
<1>4. ASSUME NEW c \in Calls, NEW i, NEW pc, NEW arg, BeginOn(c, i, pc, arg)
      PROVE  Ghosts'
  BY <1>4 DEF Ghosts, BeginOn
<1>5. CASE Issuing \/ Answering
  BY <1>3, <1>4, <1>5 DEF Issuing, Answering, CreateInvitation, OnlyInvites, SendInvitation, Resend, CancelInvitation,
     DeleteInvitation, NoticeLapse, OpenInvitation, Accept, AcceptAgain
<1>6. ASSUME NEW c \in Calls, Sync(c)
      PROVE  Ghosts'
  <2>1. UNCHANGED <<raced, cut>>
    BY <1>6 DEF Sync, inviteVars
  <2>2. met' \subseteq Persons /\ byPhone' \subseteq Persons
    BY <1>1, <1>2, <1>6 DEF Sync
  <2>. QED
    BY <2>1, <2>2 DEF Ghosts
<1>7. ASSUME NEW c \in Calls, \/ CommitSync(c) \/ SyncFails(c) \/ Deliver(c) \/ CommitAccept(c)
                              \/ CommitWrite(c) \/ CommitDeleteInvitation(c) \/ Gone(c)
      PROVE  Ghosts'
  BY <1>3, <1>7 DEF CommitSync, SyncFails, Deliver, CommitAccept, CommitWrite, CommitDeleteInvitation, Gone, OnlyInvites,
     inviteVars
<1>8. CASE Reconcile \/ DeadlinePasses
  BY <1>3, <1>8 DEF Reconcile, DeadlinePasses, OnlyInvites
<1>9. CASE IntakeNext
  <2>1. ASSUME NEW c \in Calls, FromInvitation(c) \/ CreateRequest(c) \/ SubjectRequest(c) \/ AcceptRequest(c)
        PROVE  Ghosts'
    <3>1. PICK pc, r, v, p : Resolving(c, pc, r, v, p)
      BY <2>1, RequestsAsk DEF Asks, Asked
    <3>2. met' \subseteq Persons /\ byPhone' \subseteq Persons
      BY <1>1, <1>2, <3>1 DEF Resolving
    <3>. QED
      BY <3>1, <3>2 DEF Resolving, inviteVars, Ghosts
  <2>. QED
    BY <1>3, <1>9, <2>1 DEF IntakeNext, DraftRequest, CommitDraft, CommitRequest, CommitConsent, Fails, Decide, inviteVars
<1>10. CASE SharesNext
  BY <1>3, <1>10 DEF SharesNext, CreateShare, UpdateShare, RevokeShare, Change, OpenPassport, CommitShare, CountView,
     CommitView, ShareLapses, WindowPasses, beforeShares, inviteVars
<1>11. ASSUME NEW c \in Calls, CutShort(c)
       PROVE  Ghosts'
  BY <1>11 DEF CutShort, Ghosts
<1>12. CASE UNCHANGED vars
  BY <1>3, <1>12 DEF vars, registryVars, inviteVars
<1>. QED
  BY <1>5, <1>6, <1>7, <1>8, <1>9, <1>10, <1>11, <1>12 DEF Next, InvitationSteps


\* All that a workspace keeps true at every step.
WInv ==
  /\ IInv /\ Addressed /\ RInv          \* addresses, and what a resolution knows
  /\ Sole /\ Mailed /\ Directed         \* invitations: nobody else's call, notification and accepter
  /\ Intake /\ ShInv                    \* requests and links
  /\ Ghosts

LEMMA WInvStays ==
  ASSUME WInv, [Next]_vars
  PROVE  WInv'
<1>1. IInv'
  BY IInvStays DEF WInv
<1>2. Addressed' /\ RInv'
  BY AddressedStays, RInvKept DEF WInv
<1>3. Sole' /\ Mailed' /\ Directed'
  BY <1>2, SoleStays, MailedStays, DirectedStays DEF WInv
<1>4. Intake' /\ ShInv' /\ Ghosts'
  BY IntakeStays, ShInvStays, GhostsStay DEF WInv
<1>. QED
  BY <1>1, <1>2, <1>3, <1>4 DEF WInv

\* The start: no call is under way, and the rows are in order.
LEMMA StartsInOrder ==
  ASSUME Init
  PROVE  WInv
<1>1. PICK s \in Starts :
        /\ persons = s.persons /\ ids = Identifiers(s.persons) /\ invites = s.invites
        /\ requests = s.requests /\ shares = s.shares
        /\ call = [c \in Calls |-> IF c \in s.calls THEN Blank ELSE Over]
  BY DEF Init
<1>2. IInv
  BY InitIInv
<1>3. \A c \in Calls : call[c].pc \in {"idle", "done"} /\ call[c].link = NoResolution
  BY <1>1 DEF Blank, Over, Call, Linking
<1>4. NoResolution.found = None
  BY DEF NoResolution
<1>5. Addressed
  <2>1. \A i \in Invites : AccountHas(invites[i].by, invites[i].email) /\ BackedFully(invites[i], ids)
    BY <1>1, StartsAssumption DEF InviteAtStart, AccountHas, BackedFully, AddressesIn
  <2>2. \A r \in Requests : AccountHas(requests[r].user, requests[r].email)
    BY <1>1, StartsAssumption DEF RequestAtStart, AccountHas
  <2>3. \A c \in Calls : CallKnows(call[c], invites, requests, ids)
    BY <1>3 DEF CallKnows
  <2>. QED
    BY <2>1, <2>2, <2>3 DEF Addressed
<1>6. RInv
  <2>1. LinksKnow
    BY <1>3, <1>4 DEF LinksKnow, Resolvings
  <2>2. persons \in [Persons -> Person]
    BY <1>2 DEF IInv, RegistryOK
  <2>3. \A p \in Persons : ~persons[p].there => persons[p] = NoPerson
    BY <1>1, StartsAssumption
  <2>4. ASSUME NEW x \in ids
        PROVE  x[1] \in Persons /\ persons[x[1]].there /\ x[2] \in {persons[x[1]].email, persons[x[1]].phone}
    <3>1. x[1] \in Persons /\ x[2] \in Emails \cup Phones /\ x[2] \in {persons[x[1]].email, persons[x[1]].phone}
      BY <1>1 DEF Identifiers
    <3>2. x[2] # None
      BY <3>1, PeopleAssumption
    <3>. QED
      BY <2>3, <3>1, <3>2 DEF NoPerson
  <2>5. ASSUME NEW p \in Persons, persons[p].user # None
        PROVE  <<p, EmailOf[persons[p].user]>> \in ids
    <3>1. persons[p].email = EmailOf[persons[p].user] /\ persons[p].user \in Users
      BY <1>1, <2>2, <2>5, StartsAssumption DEF Person
    <3>2. persons[p].email \in Emails
      BY <3>1, PeopleAssumption
    <3>. QED
      BY <1>1, <3>1, <3>2 DEF Identifiers
  <2>6. ASSUME NEW p \in Persons, NEW v \in Emails, NEW w \in Emails, <<p, v>> \in ids, <<p, w>> \in ids
        PROVE  v = w
    <3>1. v \in {persons[p].email, persons[p].phone} /\ w \in {persons[p].email, persons[p].phone}
      BY <2>4, <2>6
    <3>2. persons[p].phone \notin Emails
      BY <2>2, PeopleAssumption DEF Person
    <3>. QED
      BY <3>1, <3>2
  <2>. QED
    BY <2>1, <2>3, <2>4, <2>5, <2>6 DEF RInv, Registered
<1>7. Sole /\ Mailed /\ Directed
  <2>1. \A i \in Invites : InviteAtStart(invites[i], persons)
    BY <1>1, StartsAssumption
  <2>2. \A c \in Calls : call[c].pc \notin OnInvites
    BY <1>3 DEF OnInvites
  <2>3. Sole
    BY <2>1, <2>2 DEF Sole, AcceptedIs, InviteAtStart
  <2>4. Mailed
    BY <2>1, <2>2 DEF Mailed, Waiting, InviteAtStart, Init
  <2>5. Directed
    BY <1>3, <2>1 DEF Directed, Followed, InviteAtStart
  <2>. QED
    BY <2>3, <2>4, <2>5
<1>8. Intake
  <2>1. \A r \in Requests : RequestAtStart(requests[r], persons)
    BY <1>1, StartsAssumption
  <2>2. \A r, q \in Requests : OpenRequest(requests[r]) /\ OpenRequest(requests[q])
          /\ requests[r].claim = requests[q].claim /\ requests[r].claim # None => r = q
    BY <1>1, StartsAssumption
  <2>3. \A c \in Calls : AskKnows(call[c], requests)
    BY <1>3 DEF AskKnows
  <2>. QED
    BY <1>3, <2>1, <2>2, <2>3 DEF Intake, RequestAtStart
<1>9. ShInv
  <2>1. SharesTyped
    BY <1>1, StartsAssumption DEF Init, SharesTyped, View, NoView
  <2>2. SharesKnow
    BY <1>3 DEF SharesKnow, ShareKnows, Owners, Openings
  <2>3. UniqueOnce
    BY DEF Init, UniqueOnce, Counted, NoView
  <2>. QED
    BY <2>1, <2>2, <2>3 DEF ShInv
<1>10. Ghosts
  BY DEF Init, Ghosts
<1>. QED
  BY <1>2, <1>5, <1>6, <1>7, <1>8, <1>9, <1>10 DEF WInv

\* Whatever calls there are, and however they overlap, fail or are cut short.
THEOREM WorkspaceInvariant == Spec => []WInv
<1>1. Init => WInv
  BY StartsInOrder
<1>2. WInv /\ [Next]_vars => WInv'
  BY WInvStays
<1>. QED
  BY <1>1, <1>2, PTL DEF Spec

\* Rows, notifications and links keep their types.
THEOREM TypeCorrect == Spec => []TypeOK
<1>1. WInv => TypeOK
  BY DEF WInv, IInv, RegistryOK, RowsIs, Mailed, ShInv, SharesTyped, Ghosts, TypeOK
<1>. QED
  BY <1>1, WorkspaceInvariant, PTL

\* What is queued is waited for (trust_invitation_service.py), who accepted is who is linked (organization_person_service.py), a claim has one open request (verification_request_service.py), a visitor counts once (passport_share_view_service.py) and the directory shows what there is.
THEOREM WorkspaceInOrderAlways == Spec => []WorkspaceInOrder
<1>1. WInv => WorkspaceInOrder
  BY MailedIsWaitedFor, AcceptersArePersons, OneOpenEach, CountedOnce, DirectoryIsShown DEF WInv, WorkspaceInOrder
<1>. QED
  BY <1>1, WorkspaceInvariant, PTL

\* Nothing later takes back what is known of a person, an acceptance, or a link's revocation.
THEOREM NeverTakenBackAlways == Spec => NeverTakenBack
<1>1. WInv /\ [Next]_vars =>
        [\A p \in Persons : persons[p].there /\ p \notin met =>
           Rank[persons[p].relationship] <= Rank[persons'[p].relationship]]_persons
  BY NeverDemoted DEF WInv
<1>2. WInv /\ [Next]_vars =>
        [\A i \in Invites \ raced : invites[i].by # None =>
           /\ invites'[i].there /\ invites'[i].status = "accepted" /\ invites'[i].by = invites[i].by]_invites
  BY AcceptanceStays DEF WInv
<1>3. WInv /\ [Next]_vars =>
        [\A s \in Shares \ contested : shares[s].revoked =>
           shares'[s].revoked /\ shares'[s].permissions = shares[s].permissions]_shares
  BY ClosedStays DEF WInv
<1>. QED
  BY <1>1, <1>2, <1>3, WorkspaceInvariant, PTL
     DEF Spec, NeverTakenBack, RelationshipNeverDemoted, AcceptanceIsFinal, ClosedForGood
=============================================================================
