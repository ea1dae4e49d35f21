-------------------------------- MODULE Workspace --------------------------------
(* An organization's workspace: its invitations and requests and the registry of  *)
(* people they resolve to; and the candidates' passport links.                    *)
EXTENDS RequestIntake

(* ---- links to a candidate's Trust Passport: issued with permissions and a deadline, changed or revoked by ---- *)
(* ---- their owner, and opened by anybody who has the token; an opening is unique once in a window of time  ---- *)
CONSTANTS Shares, Sections, Viewers,
          Views                 \* rows, numbered in their order: a bound on the openings recorded
ASSUME ViewsAssumption == Views \subseteq Nat /\ IsFiniteSet(Views) /\ None \notin Shares \cup Viewers

VARIABLES shares,       \* passport_share_links
          views,        \* passport_share_views
          contested,    \* ghost: links two of the owner's calls were about at once
          crowded       \* ghost: <<link, viewer>> whose openings overlapped
shareVars == <<shares, views, contested, crowded>>
beforeShares == <<inviteVars, persons, ids, met, byPhone, requests>>

Share == [there: BOOLEAN, permissions: SUBSET Sections, lapsed: BOOLEAN, revoked: BOOLEAN]
NoShare == [there |-> FALSE, permissions |-> {}, lapsed |-> FALSE, revoked |-> FALSE]
\* recent: less than the window of five minutes ago.
View == [share: Shares \cup {None}, viewer: Viewers \cup {None}, unique: BOOLEAN, recent: BOOLEAN]
NoView == [share |-> None, viewer |-> None, unique |-> FALSE, recent |-> FALSE]

Active(s) == shares[s].there /\ ~shares[s].revoked /\ ~shares[s].lapsed
Mutable(s) == shares[s].there /\ ~shares[s].revoked /\ ~shares[s].lapsed

CreateShare(c) ==
  \E s \in Shares, m \in SUBSET Sections :
    /\ shares[s] = NoShare
    /\ shares' = [shares EXCEPT ![s] = [NoShare EXCEPT !.there = TRUE, !.permissions = m]]
    /\ Finish(c) /\ UNCHANGED <<views, contested, crowded, beforeShares>>
Change(c, s, pc, arg) ==
  /\ call' = [call EXCEPT ![c] = Call(pc, s, shares[s], arg)]
  /\ contested' = contested \cup {x \in Shares : x = s /\ \E d \in Flying : call[d].pc \in {"widen", "revoke"} /\ call[d].on = x}
  /\ UNCHANGED <<shares, views, crowded, beforeShares>>
UpdateShare(c) == \E s \in Shares, m \in SUBSET Sections : Mutable(s) /\ Change(c, s, "widen", m)
RevokeShare(c) == \E s \in Shares : shares[s].there /\ ~shares[s].revoked /\ Change(c, s, "revoke", None)
CommitShare(c) ==
  LET k == call[c] IN
  /\ k.pc \in {"widen", "revoke"}
  /\ shares' = [shares EXCEPT ![k.on].permissions = IF k.pc = "widen" THEN k.arg ELSE @,
                              ![k.on].revoked = @ \/ k.pc = "revoke"]
  /\ Finish(c) /\ UNCHANGED <<views, contested, crowded, beforeShares>>
ShareLapses ==
  \E s \in Shares :
    /\ shares[s].there /\ ~shares[s].lapsed
    /\ shares' = [shares EXCEPT ![s].lapsed = TRUE]
    /\ UNCHANGED <<views, contested, crowded, beforeShares, call>>

(* ---- the page: PublicPassportService.get_by_token, then record_successful_view ---- *)
OpenPassport(c) ==
  \E s \in Shares, w \in Viewers :
    /\ Active(s)
    /\ call' = [call EXCEPT ![c] = Call("page", s, shares[s], w)]
    /\ crowded' = crowded \cup {x \in Shares \X Viewers : x = <<s, w>> /\
                                 \E d \in Flying : call[d].pc \in {"page", "record"} /\ <<call[d].on, call[d].arg>> = x}
    /\ UNCHANGED <<shares, views, contested, beforeShares>>
RecentViews(s, w) == {x \in Views : views[x].share = s /\ views[x].viewer = w /\ views[x].recent}
CountView(c) ==
  LET k == call[c] IN
  /\ k.pc = "page"
  /\ call' = [call EXCEPT ![c] = Call("record", k.on, RecentViews(k.on, k.arg) = {}, k.arg)]
  /\ UNCHANGED <<shareVars, beforeShares>>
CommitView(c) ==
  LET k == call[c] IN
  /\ k.pc = "record"
  /\ \E x \in Foremost({y \in Views : views[y] = NoView}) :
       views' = [views EXCEPT ![x] = [share |-> k.on, viewer |-> k.arg, unique |-> k.view, recent |-> TRUE]]
  /\ Finish(c) /\ UNCHANGED <<shares, contested, crowded, beforeShares>>
WindowPasses ==
  \E x \in Foremost({y \in Views : views[y].recent}) :      \* the oldest leaves first
    /\ views' = [views EXCEPT ![x].recent = FALSE]
    /\ UNCHANGED <<shares, contested, crowded, beforeShares, call>>

SharesNext ==
  \/ \E c \in Calls :
       \/ Turn(c) /\ (CreateShare(c) \/ UpdateShare(c) \/ RevokeShare(c) \/ OpenPassport(c))
       \/ CommitShare(c) \/ CountView(c) \/ CommitView(c)
  \/ ShareLapses \/ WindowPasses

\* A closed link stays closed and shows what it showed (passport_share_service.py:104-129): neither a change of the owner's nor the deadline brings it back or widens it, unless two of the owner's calls on it overlapped.
ClosedForGood ==
  [][\A s \in Shares \ contested : shares[s].revoked =>
       shares'[s].revoked /\ shares'[s].permissions = shares[s].permissions]_shares

\* One person opening a link counts as one unique view in a window (passport_share_view_service.py:31-66), however often the page is loaded, unless two openings of theirs overlapped.
OneUniqueView ==
  \A s \in Shares, w \in Viewers :
    <<s, w>> \notin crowded => Cardinality({x \in Views : views[x].share = s /\ views[x].viewer = w
                                              /\ views[x].recent /\ views[x].unique}) <= 1

(* ---- the workspace ---- *)
CONSTANT Starts   \* the rows there may be at the start, and the calls to come
Identifiers(ps) == {x \in Persons \X (Emails \cup Phones) : x[2] \in {ps[x[1]].email, ps[x[1]].phone}}
\* What was resolved belongs to the person with its address and number; what was sent has been delivered, or failed; who accepted was the addressee, and is linked.
InviteAtStart(v, ps) ==
  /\ v.there => v.email # None
  /\ v.person # None => \A a \in {v.email, v.phone} \ {None} : <<v.person, a>> \in Identifiers(ps)
  /\ v.person # None => v.email # None
  /\ v.there /\ v.status = "pending" => v.delivery # "queued"
  /\ v.by # None => /\ v.there /\ v.status = "accepted" /\ EmailOf[v.by] = v.email
                    /\ v.person # None => ps[v.person].user = v.by
RequestAtStart(v, ps) ==
  /\ v.there => v.email # None
  /\ v.person # None => v.email # None /\ <<v.person, v.email>> \in Identifiers(ps)
  /\ v.there /\ v.org => v.person # None
  /\ v.user # None => v.email = EmailOf[v.user]
  /\ v.status = "pending_subject_acceptance" => v.claim = None
\* The registry is in order at the start: an address or number is one person's, a row that is not there is empty, and who is linked to an account has its address.
ASSUME StartsAssumption == \A s \in Starts :
  /\ s.persons \in [Persons -> Person] /\ s.invites \in [Invites -> Invite]
  /\ s.requests \in [Requests -> Request] /\ s.shares \in [Shares -> Share] /\ s.calls \subseteq Calls
  /\ \A x, y \in Identifiers(s.persons) : x[2] = y[2] => x = y
  /\ \A p \in Persons : ~s.persons[p].there => s.persons[p] = NoPerson
  /\ \A p \in Persons : s.persons[p].user # None => s.persons[p].email = EmailOf[s.persons[p].user]
  /\ \A i \in Invites : InviteAtStart(s.invites[i], s.persons)
  /\ \A r \in Requests : RequestAtStart(s.requests[r], s.persons)
  /\ \A r, q \in Requests : OpenRequest(s.requests[r]) /\ OpenRequest(s.requests[q])
       /\ s.requests[r].claim = s.requests[q].claim /\ s.requests[r].claim # None => r = q

VARIABLE parts    \* which of the three the calls are to: a bound of the exploration
vars == <<registryVars, inviteVars, intakeVars, shareVars, parts>>

Init ==
  /\ \E s \in Starts :
       /\ persons = s.persons /\ ids = Identifiers(s.persons) /\ invites = s.invites
       /\ requests = s.requests /\ shares = s.shares /\ parts = s.parts
       /\ call = [c \in Calls |-> IF c \in s.calls THEN Blank ELSE Over]
  /\ met = {} /\ byPhone = {} /\ raced = {} /\ cut = {} /\ contested = {} /\ crowded = {}
  /\ mails = [i \in Invites |-> 0] /\ views = [x \in Views |-> NoView]

Next ==
  /\ \/ "issuing" \in parts /\ Issuing /\ UNCHANGED <<requests, shareVars>>
     \/ "answering" \in parts /\ Answering /\ UNCHANGED <<requests, shareVars>>
     \/ "shares" \notin parts /\ InvitationSteps /\ requests' = Unreferenced /\ UNCHANGED shareVars
     \/ "intake" \in parts /\ IntakeNext /\ UNCHANGED shareVars
     \/ "shares" \in parts /\ SharesNext
     \/ \E c \in Calls : CutShort(c) /\ UNCHANGED <<requests, shareVars>>
  /\ UNCHANGED parts
Spec == Init /\ [][Next]_vars

TypeOK ==
  /\ persons \in [Persons -> Person] /\ ids \subseteq Persons \X (Emails \cup Phones)
  /\ invites \in [Invites -> Invite] /\ mails \in [Invites -> Nat] /\ requests \in [Requests -> Request]
  /\ met \subseteq Persons /\ byPhone \subseteq Persons /\ raced \subseteq Invites /\ cut \subseteq Invites
  /\ shares \in [Shares -> Share] /\ views \in [Views -> View]
  /\ contested \subseteq Shares /\ crowded \subseteq Shares \X Viewers

\* Invitations, the requests made of them, the directory of people, and the links to a passport.
WorkspaceInOrder == QueuedHasMail /\ AccepterIsPerson /\ OneOpenRequestPerClaim /\ OneUniqueView /\ DirectoryShows
\* What a later call never takes back.
NeverTakenBack == RelationshipNeverDemoted /\ AcceptanceIsFinal /\ ClosedForGood
================================================================================
