-------------------------- MODULE AdministrationProofs --------------------------
(***************************************************************************)
(* What was closed stays closed, and access, signals and notices stay in   *)
(* order, for any people, rows, calls and starts.                          *)
(***************************************************************************)
EXTENDS Administration, FiniteSetTheorems, TLAPS

-----------------------------------------------------------------------------
(* Types.  A call is a record of what it read; what the fields hold depends *)
(* on where the call is.                                                    *)

Shaped(k) == k = Call(k.pc, k.about, k.on, k.view, k.arg)
OfPeople == {"role", "deactivate", "restore", "invite", "sign_in"}
OfInvite == {"revoke", "resend", "accept"}
OfCase == {"assign", "move", "close"}
Access == OfPeople \cup OfInvite \cup {"expire"}
CallIs(k) ==
  /\ Shaped(k)
  /\ k.pc \in OfPeople => k.on \in People /\ k.about = {k.on}
  /\ k.pc \in {"role", "invite"} => k.arg \in Staff
  /\ k.pc \in OfInvite => k.on \in Invites
  /\ k.pc = "accept" => k.arg \in People
  /\ k.pc = "expire" => k.on \subseteq Invites
  /\ k.pc \in Access => k.about \subseteq People
  /\ k.pc = "investigate" => k.on \in Subjects /\ k.view.signal \in Signal
  /\ k.pc \in OfCase => k.on \in Cases /\ k.about = {"case"}
  /\ k.pc = "assign" => k.arg \in People
  /\ k.pc = "move" => k.arg \in DOMAIN Moves
  /\ k.pc = "close" => k.arg \in Closing
  /\ k.pc = "incident" => /\ k.on \in Incidents /\ k.about = {"incident"}
                          /\ k.arg \in IncidentStatus
  /\ k.pc \in {"fan", "tell", "link"} => k.on \in Keys /\ k.view \subseteq People
  /\ k.pc = "fan" => k.arg \subseteq People
  /\ k.pc = "tell" => k.arg \in [all : SUBSET People, to : People, channel : {"in_app", "email"},
                                 enabled : BOOLEAN]
  /\ k.pc = "link" => k.arg.all \subseteq People
  /\ k.pc = "again" => k.on \in Notices

\* The e-mail a call is to link is one of the notice's.
MailKnown(k, ns) ==
  k.pc \in {"link", "relink"} =>
    \E n \in Notices : \E i \in DOMAIN ns[n].mails : k.about = {<<n, i>>}

CallsTyped == /\ call = [c \in Calls |-> call[c]]
              /\ \A c \in Calls : CallIs(call[c]) /\ MailKnown(call[c], notices)
Typed == TypeOK /\ CallsTyped

\* The fields of a call.
LEMMA CallFields ==
  ASSUME NEW pc, NEW about, NEW on, NEW view, NEW arg
  PROVE  LET k == Call(pc, about, on, view, arg) IN
         /\ k.pc = pc /\ k.about = about /\ k.on = on /\ k.view = view /\ k.arg = arg
         /\ Shaped(k)
BY DEF Call, Shaped

\* A call that goes on.
LEMMA Reviewed ==
  ASSUME NEW k, Shaped(k), NEW S
  PROVE  /\ [k EXCEPT !.view = S] = Call(k.pc, k.about, k.on, S, k.arg)
         /\ [k EXCEPT !.view = S].pc = k.pc
BY DEF Shaped, Call

LEMMA OverIs == CallIs(Over) /\ Over.pc = "done" /\ \A ns : MailKnown(Over, ns)
BY DEF Over, Call, CallIs, Shaped, OfPeople, OfInvite, OfCase, Access, MailKnown

\* One call goes on, and what the others are to link is still there.
MailsGrow == \A n \in Notices : DOMAIN notices[n].mails \subseteq DOMAIN notices'[n].mails
LEMMA OneCall ==
  ASSUME CallsTyped, NEW c \in Calls, NEW k, CallIs(k), MailKnown(k, notices'),
         call' = [call EXCEPT ![c] = k], MailsGrow
  PROVE  CallsTyped'
<1>1. call' = [d \in Calls |-> IF d = c THEN k ELSE call[d]]
  BY DEF CallsTyped
<1>2. \A d \in Calls : MailKnown(call[d], notices')
  BY DEF CallsTyped, MailKnown, MailsGrow
<1>. QED
  BY <1>1, <1>2 DEF CallsTyped

LEMMA InitTyped == Init => Typed
<1> SUFFICES ASSUME Init PROVE Typed
  OBVIOUS
<1>1. PICK s \in Starts :
       /\ people = s.people /\ cases = s.cases /\ parts = s.parts /\ adverse = s.adverse
       /\ notices = s.notices /\ prefs = s.prefs
       /\ call = [c \in Calls |-> IF c \in s.calls THEN Blank ELSE Over]
  BY DEF Init
<1>2. TypeOK
  <2>1. live \in [People -> BOOLEAN]
    BY DEF Init
  <2>2. [i \in Invites |-> NoInvite] \in [Invites -> Invite]
    BY DEF NoInvite, Invite, Staff
  <2>3. [x \in Subjects |-> NoSignal] \in [Subjects -> Signal]
    BY DEF NoSignal, Signal
  <2>. QED
    BY <1>1, <2>1, <2>2, <2>3, StartsAssumption DEF Init, TypeOK
<1>3. \A c \in Calls : CallIs(call[c]) /\ MailKnown(call[c], notices)
  BY <1>1, OverIs DEF Blank, Call, CallIs, Shaped, OfPeople, OfInvite, OfCase, Access, MailKnown
<1>. QED
  BY <1>1, <1>2, <1>3 DEF Typed, CallsTyped

(* Access: roles, suspensions, invitations.                                *)
UnchangedElse == UNCHANGED <<safetyVars, noticeVars>>
LEMMA SameMails == notices' = notices => MailsGrow
BY DEF MailsGrow

LEMMA AccessBegins ==
  ASSUME Typed, NEW c \in Calls, NEW k, Begin(c, k), CallIs(k), k.pc \in Access, UnchangedElse
  PROVE  Typed'
<1>1. CallsTyped'
  BY OneCall, SameMails DEF Typed, Begin, UnchangedElse, noticeVars, MailKnown, Access, OfPeople, OfInvite
<1>2. raced' \subseteq People
  BY DEF Typed, TypeOK, Begin, CallIs
<1>3. crossed' \in BOOLEAN
  BY DEF Begin
<1>. QED
  BY <1>1, <1>2, <1>3 DEF Typed, TypeOK, Begin, UnchangedElse, safetyVars, noticeVars

LEMMA AccessMoves ==
  ASSUME Typed, NEW c \in Calls, UnchangedElse,
         \/ ChangeRole(c) \/ Deactivate(c) \/ Restore(c) \/ CreateInvitation(c)
         \/ RevokeInvitation(c) \/ ResendInvitation(c) \/ AcceptInvitation(c)
         \/ ListInvitations(c) \/ SignIn(c)
  PROVE  Typed'
<1>1. \A p \in People : \A arg : \A pc \in OfPeople :
        (pc \in {"role", "invite"} => arg \in Staff) => CallIs(Call(pc, {p}, p, people[p], arg))
  BY CallFields DEF CallIs, OfPeople, OfInvite, OfCase, Access
<1>2. \A i \in Made : invites[i].to \in People
  BY DEF Typed, TypeOK, Made, Invite
<1>3. \A i \in Made : \A pc \in {"revoke", "resend"} : CallIs(Call(pc, {invites[i].to}, i, invites[i], None))
  BY <1>2, CallFields DEF CallIs, OfPeople, OfInvite, OfCase, Access, Made
<1>4. \A i \in Made : \A v : CallIs(Call("accept", {invites[i].to}, i, v, invites[i].to))
  BY <1>2, CallFields DEF CallIs, OfPeople, OfInvite, OfCase, Access, Made
<1>5. \A S \in SUBSET Made : CallIs(Call("expire", {invites[i].to : i \in S}, S, None, None))
  BY <1>2, CallFields DEF CallIs, OfPeople, OfInvite, OfCase, Access, Made
<1>6. \A pc \in Access : \A about, on, view, arg : Call(pc, about, on, view, arg).pc \in Access
  BY CallFields
<1>7. CASE ChangeRole(c) \/ Deactivate(c) \/ Restore(c) \/ CreateInvitation(c) \/ SignIn(c)
  <2>1. \E p \in People : \E arg : \E pc \in OfPeople :
          (pc \in {"role", "invite"} => arg \in Staff) /\ Begin(c, Call(pc, {p}, p, people[p], arg))
    BY <1>7 DEF ChangeRole, Deactivate, Restore, CreateInvitation, SignIn, About, OfPeople
  <2>. QED
    BY <2>1, <1>1, <1>6, AccessBegins DEF Access
<1>8. CASE RevokeInvitation(c) \/ ResendInvitation(c)
  <2>1. \E i \in Made : \E pc \in {"revoke", "resend"} : Begin(c, Call(pc, {invites[i].to}, i, invites[i], None))
    BY <1>8 DEF RevokeInvitation, ResendInvitation, OnInvite
  <2>. QED
    BY <2>1, <1>3, <1>6, AccessBegins DEF Access, OfInvite
<1>9. CASE AcceptInvitation(c)
  <2>1. \E i \in Made : \E v : Begin(c, Call("accept", {invites[i].to}, i, v, invites[i].to))
    BY <1>9 DEF AcceptInvitation
  <2>. QED
    BY <2>1, <1>4, <1>6, AccessBegins DEF Access, OfInvite
<1>10. CASE ListInvitations(c)
  <2>1. \E S \in SUBSET Made : Begin(c, Call("expire", {invites[i].to : i \in S}, S, None, None))
    BY <1>10 DEF ListInvitations
  <2>. QED
    BY <2>1, <1>5, <1>6, AccessBegins DEF Access
<1>. QED
  BY <1>7, <1>8, <1>9, <1>10

\* A call that ends leaves the others as they were.
LEMMA Finished ==
  ASSUME CallsTyped, NEW c \in Calls, Finish(c), MailsGrow
  PROVE  CallsTyped'
BY OneCall, OverIs DEF Finish

LEMMA LapsedInvite == \A v \in Invite : \A b \in BOOLEAN : [v EXCEPT !.lapsed = b] \in Invite
BY DEF Invite

LEMMA PersonFields ==
  \A v \in Person : /\ \A b \in BOOLEAN : [v EXCEPT !.active = b] \in Person
                    /\ \A r \in Staff : [v EXCEPT !.role = r] \in Person
BY DEF Person

LEMMA AccessCommits ==
  ASSUME Typed, NEW c \in Calls, UnchangedElse,
         \/ CommitRole(c) \/ CommitDeactivation(c) \/ CommitRestore(c) \/ CommitInvitation(c)
         \/ CommitRevocation(c) \/ CommitResend(c) \/ CommitAcceptance(c) \/ RefuseAcceptance(c)
         \/ CommitExpiry(c) \/ CommitSession(c)
  PROVE  Typed'
<1>1. CallIs(call[c])
  BY DEF Typed, CallsTyped
<1>2. Finish(c) /\ UNCHANGED <<raced, crossed>>
  BY DEF CommitRole, CommitDeactivation, CommitRestore, CommitInvitation, CommitRevocation, CommitResend,
         CommitAcceptance, RefuseAcceptance, CommitExpiry, CommitSession, Doing, adminVars
<1>3. CallsTyped'
  BY <1>2, Finished, SameMails DEF Typed, UnchangedElse, noticeVars
<1>4. SUFFICES people' \in [People -> Person] /\ live' \in [People -> BOOLEAN]
               /\ invites' \in [Invites -> Invite] /\ lowered' \in BOOLEAN
  BY <1>2, <1>3 DEF Typed, TypeOK, UnchangedElse, safetyVars, noticeVars
<1>5. people \in [People -> Person] /\ live \in [People -> BOOLEAN]
      /\ invites \in [Invites -> Invite] /\ lowered \in BOOLEAN
  BY DEF Typed, TypeOK
<1>6. CASE CommitRole(c)
  BY <1>1, <1>5, <1>6, PersonFields DEF CommitRole, Doing, CallIs, OfPeople
<1>7. CASE CommitDeactivation(c)
  BY <1>1, <1>5, <1>7, PersonFields DEF CommitDeactivation, Doing, CallIs, OfPeople
<1>8. CASE CommitRestore(c)
  BY <1>1, <1>5, <1>8, PersonFields DEF CommitRestore, Doing, CallIs, OfPeople
<1>9. CASE CommitInvitation(c)
  <2>1. [NoInvite EXCEPT !.to = call[c].on, !.role = call[c].arg] \in Invite
    BY <1>1, <1>9 DEF CommitInvitation, Doing, CallIs, OfPeople, Invite, NoInvite
  <2>. QED
    BY <1>5, <1>9, <2>1 DEF CommitInvitation
<1>10. CASE CommitRevocation(c)
  BY <1>1, <1>5, <1>10 DEF CommitRevocation, Doing, CallIs, OfInvite, Invite
<1>11. CASE CommitResend(c)
  BY <1>1, <1>5, <1>11, LapsedInvite DEF CommitResend, Doing, CallIs, OfInvite
<1>12. CASE CommitAcceptance(c)
  <2>1. call[c].on \in Invites /\ call[c].arg \in People
    BY <1>1, <1>12 DEF CommitAcceptance, Doing, CallIs, OfInvite
  <2>2. Taken(call[c].view, call[c].arg, invites[call[c].on].role) \in Person
    BY <1>5, <2>1 DEF Taken, Person, Invite
  <2>3. people' \in [People -> Person] /\ live' \in [People -> BOOLEAN]
    BY <1>5, <1>12, <2>1, <2>2 DEF CommitAcceptance
  <2>4. invites' \in [Invites -> Invite]
    BY <1>5, <1>12, <2>1 DEF CommitAcceptance, Invite
  <2>5. lowered' \in BOOLEAN
    BY <1>12 DEF CommitAcceptance
  <2>. QED
    BY <2>3, <2>4, <2>5
<1>13. CASE RefuseAcceptance(c)
  BY <1>5, <1>13 DEF RefuseAcceptance, adminVars
<1>14. CASE CommitExpiry(c)
  BY <1>1, <1>5, <1>14 DEF CommitExpiry, Doing, CallIs, Invite
<1>15. CASE CommitSession(c)
  BY <1>1, <1>5, <1>15 DEF CommitSession, Doing, CallIs, OfPeople
<1>. QED
  BY <1>6, <1>7, <1>8, <1>9, <1>10, <1>11, <1>12, <1>13, <1>14, <1>15

LEMMA AccessTyped ==
  ASSUME Typed, AdminNext, UnchangedElse
  PROVE  Typed'
<1>1. CASE Lapse
  <2>1. invites' \in [Invites -> Invite]
    <3>1. PICK i \in Invites : invites' = [invites EXCEPT ![i].lapsed = TRUE]
      BY <1>1 DEF Lapse, Made
    <3>. QED
      BY <3>1, LapsedInvite DEF Typed, TypeOK
  <2>. QED
    BY <1>1, <2>1 DEF Lapse, Typed, TypeOK, CallsTyped, UnchangedElse, safetyVars, noticeVars
<1>2. CASE SignUp
  <2>1. people' \in [People -> Person]
    BY <1>2 DEF SignUp, Typed, TypeOK, Person
  <2>. QED
    BY <1>2, <2>1 DEF SignUp, Typed, TypeOK, CallsTyped, UnchangedElse, safetyVars, noticeVars
<1>. QED
  BY <1>1, <1>2, AccessMoves, AccessCommits DEF AdminNext

(* Investigations and incidents.                                           *)
LEMMA SafetyTyped ==
  ASSUME Typed, SafetyNext \/ IncidentNext, UNCHANGED noticeVars
  PROVE  Typed'
<1>. USE DEF noticeVars
<1>1. ASSUME NEW c \in Calls, NEW k, On(c, k), CallIs(k), k.pc \notin {"link", "relink"}
      PROVE  Typed'
  <2>1. CallsTyped'
    BY <1>1, OneCall, SameMails DEF Typed, On, MailKnown
  <2>. QED
    BY <1>1, <2>1 DEF On, Typed, TypeOK, adminVars
<1>2. ASSUME NEW c \in Calls,
             Investigate(c) \/ Assign(c) \/ UpdateStatus(c) \/ ResolveOrDismiss(c) \/ UpdateIncident(c)
      PROVE  Typed'
  <2>1. CASE Investigate(c)
    <3>1. PICK s \in Subjects :
            On(c, Call("investigate", {"subject"}, s,
               [signal |-> signals[s], repeated |-> adverse[s] = Threshold], None))
      BY <2>1 DEF Investigate
    <3>2. signals[s] \in Signal
      BY DEF Typed, TypeOK
    <3>3. CallIs(Call("investigate", {"subject"}, s,
               [signal |-> signals[s], repeated |-> adverse[s] = Threshold], None))
      BY <3>2, CallFields DEF CallIs, OfPeople, OfInvite, OfCase, Access
    <3>. QED
      BY <3>1, <3>3, <1>1, CallFields
  <2>2. \A n \in Cases, pc \in OfCase : \A v, arg :
          /\ pc = "assign" => arg \in People
          /\ pc = "move" => arg \in DOMAIN Moves
          /\ pc = "close" => arg \in Closing
          => /\ CallIs(Call(pc, {"case"}, n, v, arg))
             /\ Call(pc, {"case"}, n, v, arg).pc \notin {"link", "relink"}
    BY CallFields DEF CallIs, OfPeople, OfInvite, OfCase, Access
  <2>3. CASE Assign(c)
    BY <2>3, <2>2, <1>1 DEF Assign, OnCase, Opened, OfCase
  <2>4. CASE UpdateStatus(c)
    <3>1. PICK n \in Opened \ ClosedCases : \E t \in Moves[cases[n].status] : OnCase(c, "move", n, t)
      BY <2>4 DEF UpdateStatus
    <3>2. n \in Cases /\ cases[n].status \in DOMAIN Moves
      BY DEF Typed, TypeOK, Opened, ClosedCases, Case
    <3>3. Moves[cases[n].status] \subseteq DOMAIN Moves
      BY <3>2 DEF Moves
    <3>. QED
      BY <3>1, <3>2, <3>3, <2>2, <1>1 DEF OnCase, OfCase
  <2>5. CASE ResolveOrDismiss(c)
    BY <2>5, <2>2, <1>1 DEF ResolveOrDismiss, OnCase, Opened, OfCase
  <2>6. CASE UpdateIncident(c)
    <3>1. PICK x \in Incidents, s \in IncidentStatus :
            On(c, Call("incident", {"incident"}, x, incidents[x], s))
      BY <2>6 DEF UpdateIncident, OnIncident
    <3>2. CallIs(Call("incident", {"incident"}, x, incidents[x], s))
      BY CallFields DEF CallIs, OfPeople, OfInvite, OfCase, Access
    <3>. QED
      BY <3>1, <3>2, <1>1, CallFields
  <2>. QED
    BY <1>2, <2>1, <2>3, <2>4, <2>5, <2>6
<1>3. ASSUME NEW c \in Calls,
             \/ CommitInvestigation(c) \/ RefuseInvestigation(c) \/ CommitAssignment(c)
             \/ CommitStatus(c) \/ CommitClosing(c) \/ CreateIncident(c) \/ CommitIncident(c)
      PROVE  Typed'
  <2>1. CallIs(call[c])
    BY DEF Typed, CallsTyped
  <2>2. Finish(c) /\ UNCHANGED <<people, live, invites, raced, crossed, lowered, adverse>>
    BY <1>3 DEF CommitInvestigation, RefuseInvestigation, CommitAssignment, CommitStatus, CommitClosing,
                CreateIncident, CommitIncident, Done, adminVars, safetyVars
  <2>3. CallsTyped'
    BY <2>2, Finished, SameMails DEF Typed
  <2>4. SUFFICES signals' \in [Subjects -> Signal] /\ cases' \in [Cases -> Case]
                 /\ incidents' \in [Incidents -> IncidentStatus \cup {"none"}]
    BY <2>2, <2>3 DEF Typed, TypeOK
  <2>5. signals \in [Subjects -> Signal] /\ cases \in [Cases -> Case]
        /\ incidents \in [Incidents -> IncidentStatus \cup {"none"}]
    BY DEF Typed, TypeOK
  <2>6. CASE CommitInvestigation(c)
    <3>1. PICK n \in Cases :
            /\ signals' = [signals EXCEPT ![call[c].on] = Refreshed(@, call[c].view, n)]
            /\ cases' = [cases EXCEPT ![n] = [NoCase EXCEPT !.subject = call[c].on, !.manual = TRUE]]
      BY <2>6 DEF CommitInvestigation
    <3>2. call[c].on \in Subjects
      BY <2>1, <2>6 DEF CommitInvestigation, CallIs
    <3>3. Refreshed(signals[call[c].on], call[c].view, n) \in Signal
      BY <2>5, <3>2 DEF Refreshed, Signal
    <3>4. [NoCase EXCEPT !.subject = call[c].on, !.manual = TRUE] \in Case
      BY <3>2 DEF NoCase, Case, Moves
    <3>. QED
      BY <2>5, <2>6, <3>1, <3>2, <3>3, <3>4 DEF CommitInvestigation
  <2>7. CASE RefuseInvestigation(c)
    BY <2>5, <2>7 DEF RefuseInvestigation, safetyVars
  <2>8. CASE CommitAssignment(c)
    BY <2>1, <2>5, <2>8 DEF CommitAssignment, Done, CallIs, OfCase, Case
  <2>9. CASE CommitStatus(c)
    BY <2>1, <2>5, <2>9 DEF CommitStatus, Done, CallIs, OfCase, Case
  <2>10. CASE CommitClosing(c)
    <3>1. call[c].on \in Cases /\ call[c].arg \in Closing
      BY <2>1, <2>10 DEF CommitClosing, Done, CallIs, OfCase
    <3>2. \A v \in Case, t \in Closing : [v EXCEPT !.status = t, !.manual = FALSE] \in Case
      BY Zenon DEF Case
    <3>3. cases' \in [Cases -> Case]
      BY Zenon, <2>5, <2>10, <3>1, <3>2 DEF CommitClosing
    <3>4. signals' \in [Subjects -> Signal]
      <4>1. \A g \in Signal : [g EXCEPT !.status = "resolved"] \in Signal /\ [g EXCEPT !.status = g.status] \in Signal
        BY DEF Signal
      <4>. QED
        BY <2>5, <2>10, <4>1 DEF CommitClosing
    <3>5. incidents' = incidents
      BY <2>10 DEF CommitClosing
    <3>. QED
      BY <2>5, <3>3, <3>4, <3>5
  <2>11. CASE CreateIncident(c)
    BY <2>5, <2>11 DEF CreateIncident, IncidentStatus
  <2>12. CASE CommitIncident(c)
    BY <2>1, <2>5, <2>12 DEF CommitIncident, Done, CallIs
  <2>. QED
    BY <1>3, <2>6, <2>7, <2>8, <2>9, <2>10, <2>11, <2>12
<1>4. CASE Blemish
  <2>1. adverse' \in [Subjects -> 0..Threshold]
    BY <1>4, SubjectsAssumption DEF Blemish, Typed, TypeOK
  <2>. QED
    BY <1>4, <2>1 DEF Blemish, Typed, TypeOK, CallsTyped, adminVars
<1>5. CASE Forget
  <2>1. adverse' \in [Subjects -> 0..Threshold]
    BY <1>5, SubjectsAssumption DEF Forget, Typed, TypeOK
  <2>. QED
    BY <1>5, <2>1 DEF Forget, Typed, TypeOK, CallsTyped, adminVars
<1>. QED
  BY <1>2, <1>3, <1>4, <1>5 DEF SafetyNext, IncidentNext

(* Notifications.  A notice is written row by row; its e-mails only grow.     *)
LEMMA SetMail ==
  ASSUME NEW v \in Notice, NEW i \in DOMAIN v.mails, NEW m \in Mail
  PROVE  /\ [v EXCEPT !.mails[i] = m] \in Notice
         /\ DOMAIN [v EXCEPT !.mails[i] = m].mails = DOMAIN v.mails
<1>1. v.mails \in Seq(Mail)
  BY DEF Notice
<1>2. [v.mails EXCEPT ![i] = m] \in Seq(Mail)
  BY <1>1
<1>3. [v EXCEPT !.mails[i] = m] = [v EXCEPT !.mails = [v.mails EXCEPT ![i] = m]]
  OBVIOUS
<1>. QED
  BY <1>1, <1>2, <1>3 DEF Notice

LEMMA SetStatus ==
  ASSUME NEW v \in Notice, NEW t \in {"queued", "sent", "failed"}
  PROVE  [v EXCEPT !.status = t] \in Notice /\ [v EXCEPT !.status = t].mails = v.mails
BY DEF Notice

LEMMA MailFields ==
  ASSUME NEW m \in Mail
  PROVE  /\ \A t \in Delivery : [m EXCEPT !.delivery = t] \in Mail
         /\ \A t \in {"queued", "sent", "failed"} : \A b \in BOOLEAN :
              [m EXCEPT !.status = t, !.failed = b] \in Mail
BY Zenon DEF Mail

\* A row that is written leaves what is to be linked.
LEMMA RowWritten ==
  ASSUME notices \in [Notices -> Notice], NEW n \in Notices, NEW v \in Notice,
         DOMAIN notices[n].mails \subseteq DOMAIN v.mails, notices' = [notices EXCEPT ![n] = v]
  PROVE  notices' \in [Notices -> Notice] /\ MailsGrow
BY DEF MailsGrow

\* An e-mail of a notice changes, and the status of the notice with it.
LEMMA MailWritten ==
  ASSUME notices \in [Notices -> Notice], NEW n \in Notices, NEW i \in DOMAIN notices[n].mails,
         NEW m \in Mail, NEW t \in {"queued", "sent", "failed"},
         \/ notices' = [notices EXCEPT ![n].mails[i] = m]
         \/ notices' = [notices EXCEPT ![n].mails[i] = m, ![n].status = t]
  PROVE  notices' \in [Notices -> Notice] /\ MailsGrow
<1> DEFINE v == [notices[n] EXCEPT !.mails[i] = m]
<1>1. v \in Notice /\ DOMAIN v.mails = DOMAIN notices[n].mails
  BY SetMail
<1>2. [v EXCEPT !.status = t] \in Notice /\ [v EXCEPT !.status = t].mails = v.mails
  BY <1>1, SetStatus
<1>3. CASE notices' = [notices EXCEPT ![n].mails[i] = m]
  <2>1. notices' = [notices EXCEPT ![n] = v]
    BY <1>3
  <2>. QED
    BY <1>1, <2>1, RowWritten
<1>4. CASE notices' = [notices EXCEPT ![n].mails[i] = m, ![n].status = t]
  <2>1. notices' = [notices EXCEPT ![n] = [v EXCEPT !.status = t]]
    BY <1>4
  <2>. QED
    BY <1>1, <1>2, <2>1, RowWritten
<1>. QED
  BY <1>3, <1>4

LEMMA DeliveredTyped ==
  ASSUME Typed, NEW c \in Calls, call[c].pc \in {"link", "relink"}, Delivered(call[c])
  PROVE  notices' \in [Notices -> Notice] /\ MailsGrow
<1>1. notices \in [Notices -> Notice] /\ MailKnown(call[c], notices)
  BY DEF Typed, TypeOK, CallsTyped
<1>2. PICK n \in Notices : \E i \in DOMAIN notices[n].mails : call[c].about = {<<n, i>>}
  BY <1>1 DEF MailKnown
<1>3. PICK i \in DOMAIN notices[n].mails : call[c].about = {<<n, i>>}
  BY <1>2
<1>4. PICK seen \in SeenOf(notices[n].mails[i]) :
        notices' = [notices EXCEPT ![n].mails[i].delivery = seen, ![n].status = seen]
  <2>1. PICK x \in call[c].about : \E seen \in SeenOf(notices[x[1]].mails[x[2]]) :
          notices' = [notices EXCEPT ![x[1]].mails[x[2]].delivery = seen, ![x[1]].status = seen]
    BY DEF Delivered
  <2>2. x[1] = n /\ x[2] = i
    BY <1>3, <2>1
  <2>. QED
    BY <2>1, <2>2
<1>5. notices[n].mails[i] \in Mail
  BY <1>1 DEF Notice
<1>6. seen \in {"queued", "sent", "failed"}
  BY <1>5 DEF SeenOf, Mail
<1>7. [notices[n].mails[i] EXCEPT !.delivery = seen] \in Mail
  BY Zenon, <1>5, <1>6, MailFields DEF Delivery
<1>8. notices' = [notices EXCEPT ![n].mails[i] = [notices[n].mails[i] EXCEPT !.delivery = seen], ![n].status = seen]
  BY <1>4
<1>. QED
  BY Zenon, <1>1, <1>6, <1>7, <1>8, MailWritten

\* A call goes on, and the notices with it.
LEMMA NoticeStep ==
  ASSUME Typed, NEW c \in Calls, NEW k, CallIs(k), MailKnown(k, notices'),
         call' = [call EXCEPT ![c] = k],
         notices' \in [Notices -> Notice], MailsGrow,
         UNCHANGED <<prefs, adminVars, safetyVars>>,
         hurried' \subseteq Notices, cut' \subseteq Notices
  PROVE  Typed'
<1>1. CallsTyped'
  BY OneCall DEF Typed
<1>. QED
  BY <1>1 DEF Typed, TypeOK, adminVars, safetyVars

LEMMA NoMailsNeeded ==
  ASSUME NEW k, k.pc \notin {"link", "relink"}
  PROVE  \A ns : MailKnown(k, ns)
BY DEF MailKnown

LEMMA FanIs ==
  ASSUME NEW k \in Keys, NEW S \in SUBSET People, NEW T \in SUBSET People
  PROVE  /\ CallIs(Call("fan", {}, k, S, T))
         /\ \A ns : MailKnown(Call("fan", {}, k, S, T), ns)
BY CallFields DEF CallIs, MailKnown, OfPeople, OfInvite, OfCase, Access

LEMMA TellIs ==
  ASSUME NEW k \in Keys, NEW S \in SUBSET People,
         NEW a \in [all : SUBSET People, to : People, channel : {"in_app", "email"}, enabled : BOOLEAN]
  PROVE  CallIs(Call("tell", {}, k, S, a)) /\ Call("tell", {}, k, S, a).pc = "tell"
BY CallFields DEF CallIs, OfPeople, OfInvite, OfCase, Access

LEMMA TellingTyped ==
  ASSUME Typed, NEW c \in Calls, TellAdmins(c) \/ TellUser(c) \/ Consider(c) \/ AllTold(c) \/ RefuseNotice(c)
  PROVE  Typed'
<1>1. /\ CallIs(call[c]) /\ notices \in [Notices -> Notice]
      /\ hurried \subseteq Notices /\ cut \subseteq Notices
  BY DEF Typed, TypeOK, CallsTyped
<1>2. UNCHANGED <<notices, prefs, hurried, cut, adminVars, safetyVars>>
  BY DEF TellAdmins, TellUser, Consider, AllTold, RefuseNotice, Tell, noticeVars
<1>3. notices' \in [Notices -> Notice] /\ MailsGrow /\ hurried' \subseteq Notices /\ cut' \subseteq Notices
  BY <1>1, <1>2, SameMails
<1>4. ASSUME NEW k, CallIs(k), k.pc \notin {"link", "relink"}, call' = [call EXCEPT ![c] = k]
      PROVE  Typed'
  BY <1>2, <1>3, <1>4, NoticeStep, NoMailsNeeded
<1>5. CASE TellAdmins(c) \/ TellUser(c)
  <2>1. ASSUME NEW k \in Keys, NEW S \in SUBSET People, Tell(c, k, S)
        PROVE  Typed'
    <3>0. CallIs(Call("fan", {}, k, S, S))
      BY FanIs
    <3>1. Call("fan", {}, k, S, S).pc = "fan"
      BY CallFields
    <3>. QED
      BY <2>1, <3>0, <3>1, <1>4 DEF Tell
  <2>2. Recipients \in SUBSET People /\ \A q \in People : {q} \in SUBSET People
    BY DEF Recipients
  <2>. QED
    BY <1>5, <2>1, <2>2, NoticesAssumption DEF TellAdmins, TellUser
<1>6. CASE Consider(c)
  <2>1. call[c].pc = "fan" /\ call[c].on \in Keys /\ call[c].view \subseteq People /\ call[c].arg \subseteq People
    BY <1>1, <1>6 DEF Consider, CallIs
  <2>2. PICK p \in call[c].view :
          call' = [call EXCEPT ![c] =
            IF AlreadyTold(p, call[c].on) THEN [call[c] EXCEPT !.view = call[c].view \ {p}]
            ELSE Call("tell", {}, call[c].on, call[c].view \ {p},
                      [all |-> call[c].arg, to |-> p, channel |-> Selected(p, call[c].on),
                       enabled |-> prefs[<<p, call[c].on>>] # "off"])]
    BY <1>6 DEF Consider
  <2>3. CASE AlreadyTold(p, call[c].on)
    <3> DEFINE k == [call[c] EXCEPT !.view = call[c].view \ {p}]
    <3>1. k = Call("fan", call[c].about, call[c].on, call[c].view \ {p}, call[c].arg)
      BY <1>1, <2>1, Reviewed DEF CallIs
    <3>2. CallIs(k) /\ k.pc = "fan"
      BY <3>1, <2>1, CallFields DEF CallIs, OfPeople, OfInvite, OfCase, Access
    <3>. QED
      BY <2>2, <2>3, <3>2, <1>4
  <2>4. CASE ~AlreadyTold(p, call[c].on)
    <3> DEFINE a == [all |-> call[c].arg, to |-> p, channel |-> Selected(p, call[c].on),
                     enabled |-> prefs[<<p, call[c].on>>] # "off"]
               k == Call("tell", {}, call[c].on, call[c].view \ {p}, a)
    <3>1. a \in [all : SUBSET People, to : People, channel : {"in_app", "email"}, enabled : BOOLEAN]
      BY <2>1 DEF Selected, Requested
    <3>2. CallIs(k) /\ k.pc = "tell"
      <4>1. call[c].view \ {p} \in SUBSET People
        BY <2>1
      <4>. HIDE DEF a
      <4>. QED
        BY <3>1, <2>1, <4>1, TellIs
    <3>. QED
      BY <2>2, <2>4, <3>2, <1>4
  <2>. QED
    BY <2>3, <2>4
<1>7. CASE AllTold(c) \/ RefuseNotice(c)
  BY <1>7, <1>4, OverIs DEF AllTold, RefuseNotice, Finish
<1>. QED
  BY <1>5, <1>6, <1>7

\* The rows a call may make.
LEMMA NewRow ==
  ASSUME NEW p \in People, NEW k \in Keys, NEW h \in {"in_app", "email"}
  PROVE  LET row == [NoNotice EXCEPT !.to = p, !.key = k, !.channel = h] IN
         /\ [row EXCEPT !.status = "skipped"] \in Notice
         /\ [row EXCEPT !.status = "sent", !.tries = 1] \in Notice
         /\ [row EXCEPT !.status = "queued", !.mails = <<QueuedMail>>] \in Notice
<1>1. QueuedMail \in Mail
  BY DEF QueuedMail, Mail, Delivery
<1>2. <<>> \in Seq(Mail) /\ <<QueuedMail>> \in Seq(Mail)
  BY <1>1
<1>. QED
  BY <1>2 DEF NoNotice, Notice

LEMMA CommitNoticeTyped ==
  ASSUME Typed, NEW c \in Calls, CommitNotice(c)
  PROVE  Typed'
<1>1. /\ CallIs(call[c]) /\ notices \in [Notices -> Notice]
      /\ hurried \subseteq Notices /\ cut \subseteq Notices
  BY DEF Typed, TypeOK, CallsTyped
<1>2. UNCHANGED <<prefs, hurried, cut, adminVars, safetyVars>>
  BY DEF CommitNotice
<1> DEFINE k == call[c]
           row == [NoNotice EXCEPT !.to = k.arg.to, !.key = k.on, !.channel = k.arg.channel]
           mailed == k.arg.enabled /\ k.arg.channel = "email"
           v == IF ~k.arg.enabled THEN [row EXCEPT !.status = "skipped"]
                ELSE IF mailed THEN [row EXCEPT !.status = "queued", !.mails = <<QueuedMail>>]
                ELSE [row EXCEPT !.status = "sent", !.tries = 1]
<1>3. /\ k.pc = "tell" /\ k.on \in Keys /\ k.view \subseteq People
      /\ k.arg \in [all : SUBSET People, to : People, channel : {"in_app", "email"}, enabled : BOOLEAN]
  BY <1>1 DEF CommitNotice, CallIs
<1>4. PICK n \in Notices \ Rows :
        /\ notices' = [notices EXCEPT ![n] = v]
        /\ call' = [call EXCEPT ![c] = IF mailed THEN Call("link", {<<n, 1>>}, k.on, k.view, k.arg)
                                       ELSE Call("fan", {}, k.on, k.view, k.arg.all)]
  BY Zenon DEF CommitNotice
<1>5. v \in Notice
  BY Zenon, <1>3, NewRow
<1>6. DOMAIN notices[n].mails \subseteq DOMAIN v.mails
  BY <1>4 DEF Rows, NoNotice
<1>7. notices' \in [Notices -> Notice] /\ MailsGrow
  BY <1>1, <1>4, <1>5, <1>6, RowWritten
<1>8. CASE mailed
  <2> DEFINE j == Call("link", {<<n, 1>>}, k.on, k.view, k.arg)
  <2>2. CallIs(j) /\ j.pc = "link" /\ j.about = {<<n, 1>>}
    BY <1>3, CallFields DEF CallIs, OfPeople, OfInvite, OfCase, Access
  <2>3. notices'[n] = v
    BY <1>1, <1>4
  <2>4. v.mails = <<QueuedMail>>
    BY <1>8 DEF NoNotice
  <2>5. MailKnown(j, notices')
    <3>1. notices'[n].mails = <<QueuedMail>>
      BY <2>3, <2>4
    <3>2. n \in Notices /\ 1 \in DOMAIN notices'[n].mails
      BY <1>4, <3>1
    <3>. HIDE DEF j
    <3>. QED
      BY <2>2, <3>2 DEF MailKnown
  <2>6. call' = [call EXCEPT ![c] = j]
    BY <1>4, <1>8
  <2>. HIDE DEF j
  <2>. QED
    BY <1>1, <1>2, <1>7, <2>2, <2>5, <2>6, NoticeStep
<1>9. CASE ~mailed
  <2>1. call' = [call EXCEPT ![c] = Call("fan", {}, k.on, k.view, k.arg.all)]
    BY <1>4, <1>9
  <2>2. k.arg.all \in SUBSET People
    BY <1>3
  <2>. QED
    BY <1>1, <1>2, <1>3, <1>7, <2>1, <2>2, FanIs, NoticeStep
<1>. QED
  BY <1>8, <1>9

LEMMA LinkingTyped ==
  ASSUME Typed, NEW c \in Calls, CommitDelivery(c) \/ CommitRedelivery(c)
  PROVE  Typed'
<1>1. CallIs(call[c]) /\ hurried \subseteq Notices /\ cut \subseteq Notices
  BY DEF Typed, TypeOK, CallsTyped
<1>2. notices' \in [Notices -> Notice] /\ MailsGrow
  BY DeliveredTyped DEF CommitDelivery, CommitRedelivery
<1>3. UNCHANGED <<prefs, hurried, cut, adminVars, safetyVars>>
  BY DEF CommitDelivery, CommitRedelivery
<1>4. CASE CommitDelivery(c)
  <2>1. call' = [call EXCEPT ![c] = Call("fan", {}, call[c].on, call[c].view, call[c].arg.all)]
    BY <1>4 DEF CommitDelivery
  <2>2. call[c].on \in Keys /\ call[c].view \in SUBSET People /\ call[c].arg.all \in SUBSET People
    BY <1>1, <1>4 DEF CommitDelivery, CallIs
  <2>. QED
    BY <1>1, <1>2, <1>3, <2>1, <2>2, FanIs, NoticeStep
<1>5. CASE CommitRedelivery(c)
  BY <1>1, <1>2, <1>3, <1>5, OverIs, NoticeStep DEF CommitRedelivery, Finish
<1>. QED
  BY <1>4, <1>5

\* What reading, waiting and a resend write of a notice.
LEMMA NoticeFields ==
  ASSUME NEW v \in Notice
  PROVE  /\ [v EXCEPT !.read = TRUE] \in Notice /\ [v EXCEPT !.read = TRUE].mails = v.mails
         /\ [v EXCEPT !.recent = 0] \in Notice /\ [v EXCEPT !.recent = 0].mails = v.mails
BY DEF Notice

LEMMA ResentFields ==
  ASSUME NEW v \in Notice
  PROVE  /\ [v EXCEPT !.recent = @ + 1, !.status = "queued", !.mails = Append(@, QueuedMail), !.tries = @] \in Notice
         /\ [v EXCEPT !.recent = @ + 1, !.status = "sent", !.mails = @, !.tries = @ + 1] \in Notice
         /\ DOMAIN v.mails \subseteq DOMAIN Append(v.mails, QueuedMail)
         /\ Len(v.mails) + 1 \in DOMAIN Append(v.mails, QueuedMail)
<1>1. QueuedMail \in Mail
  BY DEF QueuedMail, Mail, Delivery
<1>2. v.mails \in Seq(Mail) /\ v.recent \in Nat /\ v.tries \in Nat
  BY DEF Notice
<1>3. Append(v.mails, QueuedMail) \in Seq(Mail)
  BY <1>1, <1>2
<1>4. v.recent + 1 \in Nat /\ v.tries + 1 \in Nat
  BY <1>2
<1>5. \A m \in Seq(Mail), r \in Nat, t \in Nat : \A h \in {"queued", "sent"} :
        [v EXCEPT !.recent = r, !.status = h, !.mails = m, !.tries = t] \in Notice
  BY DEF Notice
<1>6. /\ DOMAIN v.mails \subseteq DOMAIN Append(v.mails, QueuedMail)
      /\ Len(v.mails) + 1 \in DOMAIN Append(v.mails, QueuedMail)
  BY <1>1, <1>2
<1>. QED
  BY Zenon, <1>2, <1>3, <1>4, <1>5, <1>6

LEMMA ReadingTyped ==
  ASSUME Typed, NEW c \in Calls, MarkRead(c) \/ MarkAllRead(c) \/ UpdatePreference(c)
  PROVE  Typed'
<1>1. /\ notices \in [Notices -> Notice] /\ prefs \in [People \X Keys -> Preference]
      /\ hurried \subseteq Notices /\ cut \subseteq Notices /\ CallsTyped
  BY DEF Typed, TypeOK
<1>2. Finish(c) /\ UNCHANGED <<told, hurried, cut, adminVars, safetyVars>>
  BY DEF MarkRead, MarkAllRead, UpdatePreference
<1>3. CASE MarkRead(c)
  <2>1. PICK n \in Notices : notices' = [notices EXCEPT ![n].read = TRUE]
    BY <1>3 DEF MarkRead, Unread, Inbox, Rows
  <2>2. notices' = [notices EXCEPT ![n] = [notices[n] EXCEPT !.read = TRUE]]
    BY <2>1
  <2>3. notices' \in [Notices -> Notice] /\ MailsGrow
    BY <1>1, <2>2, NoticeFields, RowWritten
  <2>4. prefs' = prefs
    BY <1>3 DEF MarkRead
  <2>. QED
    BY <1>1, <1>2, <2>3, <2>4, OverIs, NoticeStep DEF Finish
<1>4. CASE MarkAllRead(c)
  <2>1. PICK p \in People :
          notices' = [n \in Notices |-> IF n \in Unread(p) THEN [notices[n] EXCEPT !.read = TRUE] ELSE notices[n]]
    BY <1>4 DEF MarkAllRead
  <2>2. notices' \in [Notices -> Notice] /\ MailsGrow
    BY <1>1, <2>1, NoticeFields DEF MailsGrow
  <2>3. prefs' = prefs
    BY <1>4 DEF MarkAllRead
  <2>. QED
    BY <1>1, <1>2, <2>2, <2>3, OverIs, NoticeStep DEF Finish
<1>5. CASE UpdatePreference(c)
  <2>1. prefs' \in [People \X Keys -> Preference]
    BY <1>1, <1>5 DEF UpdatePreference
  <2>2. notices' = notices
    BY <1>5 DEF UpdatePreference
  <2>3. CallsTyped'
    BY <1>1, <1>2, <2>2, Finished, SameMails
  <2>. QED
    BY <1>2, <2>1, <2>2, <2>3 DEF Typed, TypeOK, adminVars, safetyVars
<1>. QED
  BY <1>3, <1>4, <1>5

LEMMA ResendingTyped ==
  ASSUME Typed, NEW c \in Calls, ResendNotice(c) \/ ResendCommunication(c) \/ CommitResending(c)
  PROVE  Typed'
<1>1. /\ notices \in [Notices -> Notice] /\ CallIs(call[c])
      /\ hurried \subseteq Notices /\ cut \subseteq Notices /\ CallsTyped
  BY DEF Typed, TypeOK, CallsTyped
<1>2. CASE ResendNotice(c) \/ ResendCommunication(c)
  <2>1. PICK n \in Notices : Resend(c, n)
    <3>1. \A x \in Mails : x[1] \in Notices
      BY DEF Mails, Rows
    <3>. QED
      BY <1>2, <3>1 DEF ResendNotice, ResendCommunication, Rows
  <2>2. CallIs(Call("again", {n}, n, None, None)) /\ Call("again", {n}, n, None, None).pc = "again"
    BY CallFields DEF CallIs, OfPeople, OfInvite, OfCase, Access
  <2>3. UNCHANGED <<notices, prefs, cut, adminVars, safetyVars>> /\ hurried' \subseteq Notices
    BY <1>1, <2>1 DEF Resend
  <2>4. call' = [call EXCEPT ![c] = Call("again", {n}, n, None, None)]
    BY <2>1 DEF Resend
  <2>5. notices' \in [Notices -> Notice] /\ MailsGrow /\ cut' \subseteq Notices
    BY <1>1, <2>3, SameMails
  <2>6. MailKnown(Call("again", {n}, n, None, None), notices')
    BY <2>2, NoMailsNeeded
  <2>. QED
    BY <2>2, <2>3, <2>4, <2>5, <2>6, NoticeStep
<1>3. CASE CommitResending(c)
  <2> DEFINE n == call[c].on
             mailed == notices[n].channel = "email"
             v == IF mailed
                  THEN [notices[n] EXCEPT !.recent = @ + 1, !.status = "queued", !.mails = Append(@, QueuedMail), !.tries = @]
                  ELSE [notices[n] EXCEPT !.recent = @ + 1, !.status = "sent", !.mails = @, !.tries = @ + 1]
  <2>1. call[c].pc = "again" /\ n \in Notices
    BY <1>1, <1>3 DEF CommitResending, CallIs
  <2>2. notices[n] \in Notice
    BY <1>1, <2>1
  <2>3. v \in Notice /\ DOMAIN notices[n].mails \subseteq DOMAIN v.mails
    BY Zenon, <2>2, ResentFields DEF Notice
  <2>4. notices' = [notices EXCEPT ![n] = v]
    BY Zenon, <1>1, <1>3, <2>1, <2>2 DEF CommitResending, Notice
  <2>5. notices' \in [Notices -> Notice] /\ MailsGrow /\ notices'[n] = v
    BY <1>1, <2>1, <2>3, <2>4, RowWritten
  <2>6. UNCHANGED <<prefs, hurried, cut, adminVars, safetyVars>>
    BY <1>3 DEF CommitResending
  <2>7. CASE mailed
    <3> DEFINE j == Call("relink", {<<n, Len(notices[n].mails) + 1>>}, n, None, None)
    <3>1. call' = [call EXCEPT ![c] = j]
      BY <1>3, <2>7 DEF CommitResending
    <3>3. CallIs(j) /\ j.about = {<<n, Len(notices[n].mails) + 1>>}
      BY CallFields DEF CallIs, OfPeople, OfInvite, OfCase, Access
    <3>4. v.mails = Append(notices[n].mails, QueuedMail)
      BY <2>2, <2>7 DEF Notice
    <3>5. MailKnown(j, notices')
      BY Zenon, <2>1, <2>2, <2>5, <3>3, <3>4, ResentFields DEF MailKnown
    <3>. HIDE DEF j
    <3>. QED
      BY <1>1, <2>5, <2>6, <3>1, <3>3, <3>5, NoticeStep
  <2>8. CASE ~mailed
    BY Zenon, <1>1, <1>3, <2>5, <2>6, <2>8, OverIs, NoticeStep DEF CommitResending
  <2>. QED
    BY <2>7, <2>8
<1>. QED
  BY <1>2, <1>3

\* Steps of no call: a deadline passes, the worker handles an e-mail.
LEMMA NoticesElse ==
  ASSUME Typed, CooldownPasses \/ MailHandled
  PROVE  Typed'
<1>1. notices \in [Notices -> Notice] /\ CallsTyped
  BY DEF Typed, TypeOK
<1>2. UNCHANGED <<call, prefs, told, hurried, cut, adminVars, safetyVars>>
  BY DEF CooldownPasses, MailHandled
<1>3. notices' \in [Notices -> Notice] /\ MailsGrow
  <2>1. CASE CooldownPasses
    <3>1. PICK n \in Notices : notices' = [notices EXCEPT ![n].recent = 0]
      BY <2>1 DEF CooldownPasses, Rows
    <3>2. notices' = [notices EXCEPT ![n] = [notices[n] EXCEPT !.recent = 0]]
      BY <3>1
    <3>. QED
      BY <1>1, <3>2, NoticeFields, RowWritten
  <2>2. CASE MailHandled
    <3>1. PICK x \in Mails, s \in {"sent", "failed"} : notices' = Reconciled(x, s)
      BY <2>2 DEF MailHandled
    <3>0. PICK n \in Notices : \E i \in DOMAIN notices[n].mails : x = <<n, i>>
      BY <3>1 DEF Mails, Rows
    <3>2. PICK i \in DOMAIN notices[n].mails : x = <<n, i>>
      BY <3>0
    <3>3. notices[n].mails[i] \in Mail
      BY <1>1 DEF Notice
    <3> DEFINE o == notices[n].mails[i]
               m == [o EXCEPT !.status = s, !.failed = o.failed \/ s = "failed"]
    <3>4. m \in Mail
      <4>1. (o.failed \/ s = "failed") \in BOOLEAN
        OBVIOUS
      <4>. QED
        BY Zenon, <3>3, <4>1, MailFields
    <3>5. [m EXCEPT !.delivery = s] \in Mail
      BY Zenon, <3>4, MailFields DEF Delivery
    <3>6. \/ notices' = [notices EXCEPT ![n].mails[i] = m]
          \/ notices' = [notices EXCEPT ![n].mails[i] = [m EXCEPT !.delivery = s], ![n].status = s]
      BY <3>1, <3>2 DEF Reconciled, MailOf
    <3>. HIDE DEF m
    <3>7. CASE notices' = [notices EXCEPT ![n].mails[i] = m]
      BY Zenon, <1>1, <3>4, <3>7, MailWritten
    <3>8. CASE notices' = [notices EXCEPT ![n].mails[i] = [m EXCEPT !.delivery = s], ![n].status = s]
      BY Zenon, <1>1, <3>5, <3>8, MailWritten
    <3>. QED
      BY <3>6, <3>7, <3>8
  <2>. QED
    BY <2>1, <2>2
<1>4. CallsTyped'
  BY <1>1, <1>2, <1>3 DEF CallsTyped, MailKnown, MailsGrow
<1>. QED
  BY <1>2, <1>3, <1>4 DEF Typed, TypeOK, adminVars, safetyVars

LEMMA CrashTyped ==
  ASSUME Typed, NEW c \in Calls, Crash(c), cut' = cut \cup Severed(c),
         UNCHANGED <<safetyVars, notices, prefs, told, hurried>>
  PROVE  Typed'
<1>1. CallsTyped'
  BY Finished, SameMails DEF Typed, Crash
<1>2. Severed(c) \subseteq Notices
  BY DEF Severed, Typed, CallsTyped, MailKnown
<1>. QED
  BY <1>1, <1>2 DEF Crash, Typed, TypeOK, adminVars, safetyVars

LEMMA NextTyped == Typed /\ [Next]_vars => Typed'
<1> SUFFICES ASSUME Typed, [Next]_vars PROVE Typed'
  OBVIOUS
<1>1. CASE UNCHANGED vars
  BY <1>1 DEF vars, adminVars, safetyVars, noticeVars, Typed, TypeOK, CallsTyped
<1>2. CASE NoticesNext
  BY <1>2, TellingTyped, CommitNoticeTyped, LinkingTyped, ReadingTyped, ResendingTyped, NoticesElse
     DEF NoticesNext
<1>3. CASE Next /\ ~NoticesNext
  BY <1>3, AccessTyped, SafetyTyped, NoticesElse, CrashTyped DEF Next, UnchangedElse
<1>. QED
  BY <1>1, <1>2, <1>3

\* The people, invitations, investigations, incidents and notifications are what their tables allow, whatever calls overlap or die.
THEOREM TypeCorrect == Spec => []TypeOK
<1>1. Spec => []Typed
  BY InitTyped, NextTyped, PTL DEF Spec
<1>2. Typed => TypeOK
  BY DEF Typed
<1>. QED
  BY <1>1, <1>2, PTL

-----------------------------------------------------------------------------
(* What was closed stays closed.  A call that has read an open row holds it:  *)
(* unless another call about the same one overlapped, it is open still.       *)

Held(k) == IF k.pc \in OfInvite THEN {k.on} ELSE IF k.pc = "expire" THEN k.on ELSE {}
HeldOpen ==
  \A c \in Calls : \A i \in Held(call[c]) :
    /\ i \in Made /\ invites[i].to \in call[c].about
    /\ invites[i].status = "pending" \/ invites[i].to \in raced
Apart ==
  \A c, d \in Calls :
    c # d /\ call[c].pc \in Access /\ call[d].pc \in Access => call[c].about \cap call[d].about \subseteq raced
InvitesHeld == HeldOpen /\ Apart

Changing == {"move", "close"}
CasesHeld ==
  /\ \A n \in ClosedCases : ~cases[n].manual
  /\ \A c \in Calls : call[c].pc \in Changing =>
       call[c].on \in Opened \ ClosedCases \/ <<{"case"}, call[c].on>> \in mixed
  /\ \A c, d \in Calls : c # d /\ call[c].pc \in OfCase /\ call[d].pc \in OfCase /\ call[c].on = call[d].on =>
       <<{"case"}, call[c].on>> \in mixed
IncidentsHeld ==
  /\ \A c \in Calls : call[c].pc = "incident" =>
       incidents[call[c].on] \in {"open", "monitoring"} \/ <<{"incident"}, call[c].on>> \in mixed
  /\ \A c, d \in Calls : c # d /\ call[c].pc = "incident" /\ call[d].pc = "incident" /\ call[c].on = call[d].on =>
       <<{"incident"}, call[c].on>> \in mixed
RowsHeld == InvitesHeld /\ CasesHeld /\ IncidentsHeld

(* What a step leaves alone.                                               *)
Noticing == {"idle", "done", "fan", "tell", "link", "again", "relink"}
Looking == OfCase \cup {"investigate", "incident", "done"}
Turned(pcs) == \A c \in Calls : call'[c] = call[c] \/ call'[c].pc \in pcs

LEMMA OneTurned ==
  ASSUME CallsTyped, NEW c \in Calls, NEW k, call' = [call EXCEPT ![c] = k], NEW pcs, k.pc \in pcs
  PROVE  Turned(pcs)
BY DEF CallsTyped, Turned

LEMMA FinishTurned ==
  ASSUME CallsTyped, NEW c \in Calls, Finish(c), NEW pcs, "done" \in pcs
  PROVE  Turned(pcs)
BY OneTurned, OverIs DEF Finish

LEMMA NoticesAside ==
  ASSUME Typed,
         \/ NoticesNext \/ MailHandled
         \/ \E c \in Calls : Crash(c) /\ UNCHANGED safetyVars
  PROVE  UNCHANGED <<adminVars, safetyVars>> /\ Turned(Noticing)
<1>0. CallsTyped
  BY DEF Typed
<1>1. CASE MailHandled \/ CooldownPasses
  BY <1>1 DEF MailHandled, CooldownPasses, Turned
<1>2. ASSUME NEW c \in Calls,
             \/ TellAdmins(c) \/ TellUser(c) \/ ResendNotice(c) \/ ResendCommunication(c)
             \/ UpdatePreference(c) \/ MarkRead(c) \/ MarkAllRead(c)
      PROVE  UNCHANGED <<adminVars, safetyVars>> /\ Turned(Noticing)
  <2>1. CASE TellAdmins(c) \/ TellUser(c)
    <3>1. PICK k, S : Tell(c, k, S)
      BY <2>1 DEF TellAdmins, TellUser
    <3>2. Call("fan", {}, k, S, S).pc \in Noticing
      BY CallFields DEF Noticing
    <3>. QED
      BY <1>0, <3>1, <3>2, OneTurned DEF Tell
  <2>2. CASE ResendNotice(c) \/ ResendCommunication(c)
    <3>1. PICK n : Resend(c, n)
      BY <2>2 DEF ResendNotice, ResendCommunication
    <3>2. Call("again", {n}, n, None, None).pc \in Noticing
      BY CallFields DEF Noticing
    <3>. QED
      BY <1>0, <3>1, <3>2, OneTurned DEF Resend
  <2>3. CASE UpdatePreference(c) \/ MarkRead(c) \/ MarkAllRead(c)
    BY Zenon, <1>0, <2>3, FinishTurned DEF UpdatePreference, MarkRead, MarkAllRead, Noticing
  <2>. QED
    BY <1>2, <2>1, <2>2, <2>3
<1>3. ASSUME NEW c \in Calls,
             \/ Consider(c) \/ CommitNotice(c) \/ RefuseNotice(c) \/ CommitDelivery(c) \/ AllTold(c)
             \/ CommitResending(c) \/ CommitRedelivery(c)
      PROVE  UNCHANGED <<adminVars, safetyVars>> /\ Turned(Noticing)
  <2>1. UNCHANGED <<adminVars, safetyVars>>
    BY Zenon, <1>3 DEF Consider, CommitNotice, RefuseNotice, CommitDelivery, AllTold, CommitResending, CommitRedelivery
  <2>2. CallIs(call[c])
    BY <1>0 DEF CallsTyped
  <2>3. \A pc, about, on, view, arg : pc \in Noticing => Call(pc, about, on, view, arg).pc \in Noticing
    BY CallFields
  <2>4. \A S : [call[c] EXCEPT !.view = S].pc = call[c].pc
    BY <2>2, Reviewed DEF CallIs
  <2>7. CASE Consider(c)
    <3>1. PICK p \in call[c].view :
            \/ call' = [call EXCEPT ![c] = [call[c] EXCEPT !.view = call[c].view \ {p}]]
            \/ \E a : call' = [call EXCEPT ![c] = Call("tell", {}, call[c].on, call[c].view \ {p}, a)]
      BY <2>7 DEF Consider
    <3>2. call[c].pc \in Noticing /\ "tell" \in Noticing
      BY <2>7 DEF Consider, Noticing
    <3>3. CASE call' = [call EXCEPT ![c] = [call[c] EXCEPT !.view = call[c].view \ {p}]]
      BY <1>0, <2>1, <2>4, <3>2, <3>3, OneTurned
    <3>4. ASSUME NEW a, call' = [call EXCEPT ![c] = Call("tell", {}, call[c].on, call[c].view \ {p}, a)]
          PROVE  Turned(Noticing)
      BY <1>0, <2>3, <3>2, <3>4, OneTurned
    <3>. QED
      BY <2>1, <3>1, <3>3, <3>4
  <2>8. CASE CommitNotice(c)
    <3>1. PICK S, T : \/ call' = [call EXCEPT ![c] = Call("link", S, call[c].on, call[c].view, call[c].arg)]
                      \/ call' = [call EXCEPT ![c] = Call("fan", {}, call[c].on, call[c].view, T)]
      BY <2>8 DEF CommitNotice
    <3>2. "link" \in Noticing /\ "fan" \in Noticing
      BY DEF Noticing
    <3>3. CASE call' = [call EXCEPT ![c] = Call("link", S, call[c].on, call[c].view, call[c].arg)]
      BY <1>0, <2>1, <2>3, <3>2, <3>3, OneTurned
    <3>4. CASE call' = [call EXCEPT ![c] = Call("fan", {}, call[c].on, call[c].view, T)]
      BY <1>0, <2>1, <2>3, <3>2, <3>4, OneTurned
    <3>. QED
      BY <3>1, <3>3, <3>4
  <2>9. CASE CommitDelivery(c)
    <3>1. call' = [call EXCEPT ![c] = Call("fan", {}, call[c].on, call[c].view, call[c].arg.all)]
      BY <2>9 DEF CommitDelivery
    <3>2. "fan" \in Noticing
      BY DEF Noticing
    <3>. QED
      BY <1>0, <2>1, <2>3, <3>1, <3>2, OneTurned
  <2>10. CASE CommitResending(c)
    <3>1. CASE notices[call[c].on].channel = "email"
      <4>1. \E about, on : call' = [call EXCEPT ![c] = Call("relink", about, on, None, None)]
        BY <2>10, <3>1 DEF CommitResending
      <4>2. "relink" \in Noticing
        BY DEF Noticing
      <4>. QED
        BY <1>0, <2>1, <2>3, <4>1, <4>2, OneTurned
    <3>2. CASE notices[call[c].on].channel # "email"
      BY <1>0, <2>1, <2>10, <3>2, FinishTurned DEF CommitResending, Finish, Noticing
    <3>. QED
      BY <3>1, <3>2
  <2>11. CASE RefuseNotice(c) \/ AllTold(c) \/ CommitRedelivery(c)
    BY <1>0, <2>1, <2>11, FinishTurned DEF RefuseNotice, AllTold, CommitRedelivery, Noticing
  <2>. QED
    BY <1>3, <2>7, <2>8, <2>9, <2>10, <2>11
<1>4. ASSUME NEW c \in Calls, Crash(c), UNCHANGED safetyVars
      PROVE  UNCHANGED <<adminVars, safetyVars>> /\ Turned(Noticing)
  BY <1>0, <1>4, FinishTurned DEF Crash, Noticing
<1>. QED
  BY <1>1, <1>2, <1>3, <1>4 DEF NoticesNext

LEMMA SafetyAside ==
  ASSUME Typed, SafetyNext \/ IncidentNext
  PROVE  UNCHANGED adminVars /\ Turned(Looking)
<1>0. CallsTyped
  BY DEF Typed
<1>1. CASE Blemish \/ Forget
  BY <1>1 DEF Blemish, Forget, Turned
<1>2. ASSUME NEW c \in Calls, Investigate(c) \/ Assign(c) \/ UpdateStatus(c) \/ ResolveOrDismiss(c) \/ UpdateIncident(c)
      PROVE  UNCHANGED adminVars /\ Turned(Looking)
  <2>1. \E pc \in Looking : \E about, on, view, arg : On(c, Call(pc, about, on, view, arg))
    BY <1>2 DEF Investigate, Assign, UpdateStatus, ResolveOrDismiss, UpdateIncident, OnCase, OnIncident, Looking, OfCase
  <2>2. \A pc \in Looking : \A about, on, view, arg : Call(pc, about, on, view, arg).pc \in Looking
    BY CallFields
  <2>. QED
    BY <1>0, <2>1, <2>2, OneTurned DEF On
<1>3. ASSUME NEW c \in Calls,
             \/ CommitInvestigation(c) \/ RefuseInvestigation(c) \/ CommitAssignment(c)
             \/ CommitStatus(c) \/ CommitClosing(c) \/ CreateIncident(c) \/ CommitIncident(c)
      PROVE  UNCHANGED adminVars /\ Turned(Looking)
  BY <1>0, <1>3, FinishTurned
     DEF CommitInvestigation, RefuseInvestigation, CommitAssignment, CommitStatus, CommitClosing,
         CreateIncident, CommitIncident, Done, Looking
<1>. QED
  BY <1>1, <1>2, <1>3 DEF SafetyNext, IncidentNext

LEMMA AccessAside ==
  ASSUME Typed, AdminNext
  PROVE  Turned(Access \cup {"done"})
<1>0. CallsTyped
  BY DEF Typed
<1>1. CASE Lapse \/ SignUp
  BY <1>1 DEF Lapse, SignUp, Turned
<1>2. ASSUME NEW c \in Calls,
             \/ ChangeRole(c) \/ Deactivate(c) \/ Restore(c) \/ CreateInvitation(c)
             \/ RevokeInvitation(c) \/ ResendInvitation(c) \/ AcceptInvitation(c)
             \/ ListInvitations(c) \/ SignIn(c)
      PROVE  Turned(Access \cup {"done"})
  <2>1. \E pc \in Access : \E about, on, view, arg : Begin(c, Call(pc, about, on, view, arg))
    BY <1>2 DEF ChangeRole, Deactivate, Restore, CreateInvitation, RevokeInvitation, ResendInvitation,
                AcceptInvitation, ListInvitations, SignIn, About, OnInvite, Access, OfPeople, OfInvite
  <2>2. ASSUME NEW pc \in Access, NEW about, NEW on, NEW view, NEW arg, Begin(c, Call(pc, about, on, view, arg))
        PROVE  Turned(Access \cup {"done"})
    <3>1. Call(pc, about, on, view, arg).pc \in Access \cup {"done"}
      BY CallFields
    <3>. QED
      BY <1>0, <2>2, <3>1, OneTurned DEF Begin
  <2>. QED
    BY <2>1, <2>2
<1>3. ASSUME NEW c \in Calls,
             \/ CommitRole(c) \/ CommitDeactivation(c) \/ CommitRestore(c) \/ CommitInvitation(c)
             \/ CommitRevocation(c) \/ CommitResend(c) \/ CommitAcceptance(c) \/ RefuseAcceptance(c)
             \/ CommitExpiry(c) \/ CommitSession(c)
      PROVE  Turned(Access \cup {"done"})
  BY <1>0, <1>3, FinishTurned
     DEF CommitRole, CommitDeactivation, CommitRestore, CommitInvitation, CommitRevocation, CommitResend,
         CommitAcceptance, RefuseAcceptance, CommitExpiry, CommitSession, Doing
<1>. QED
  BY <1>1, <1>2, <1>3 DEF AdminNext

(* Invitations.                                                            *)
InvitesStay == \A i \in Made : invites[i].status # "pending" /\ invites[i].to \notin raced' => invites'[i] = invites[i]

LEMMA InvitesAside ==
  ASSUME InvitesHeld, NEW pcs, Turned(pcs), pcs \cap Access = {}, UNCHANGED <<invites, raced>>
  PROVE  InvitesHeld' /\ InvitesStay
<1>1. \A c \in Calls : call'[c] = call[c] \/ call'[c].pc \notin Access
  BY DEF Turned
<1>2. \A c \in Calls : call'[c] = call[c] \/ Held(call'[c]) = {}
  BY <1>1 DEF Held, Access
<1>3. Made' = Made
  BY DEF Made
<1>4. HeldOpen'
  BY <1>2, <1>3 DEF InvitesHeld, HeldOpen
<1>5. Apart'
  BY <1>1 DEF InvitesHeld, Apart
<1>. QED
  BY <1>4, <1>5 DEF InvitesHeld, InvitesStay

\* A call that begins holds open invitations of the people it is about.
LEMMA InvitesBegin ==
  ASSUME Typed, InvitesHeld, NEW c \in Calls, NEW k, Begin(c, k), call[c].pc = "idle", k.pc \in Access,
         \A i \in Held(k) : i \in Made /\ invites[i].to \in k.about /\ invites[i].status = "pending"
  PROVE  InvitesHeld' /\ InvitesStay
<1>1. call' = [d \in Calls |-> IF d = c THEN k ELSE call[d]]
  BY DEF Typed, CallsTyped, Begin
<1>2. invites' = invites /\ raced \subseteq raced' /\ Made' = Made
  BY DEF Begin, Made
<1>3. HeldOpen'
  BY <1>1, <1>2 DEF InvitesHeld, HeldOpen
<1>4. \A d \in Calls : d # c /\ call[d].pc \in Access => k.about \cap call[d].about \subseteq raced'
  <2>1. \A d \in Calls : call[d].pc \in Access => d \in Flying
    BY DEF Flying, Access, OfPeople, OfInvite
  <2>. QED
    BY <2>1 DEF Begin
<1>5. Apart'
  BY <1>1, <1>2, <1>4 DEF InvitesHeld, Apart
<1>. QED
  BY <1>2, <1>3, <1>5 DEF InvitesHeld, InvitesStay

\* A call that ends writes what it held, or a new row.
LEMMA InvitesCommit ==
  ASSUME Typed, InvitesHeld, NEW c \in Calls, Finish(c), call[c].pc \in Access, raced' = raced,
         \A i \in Made : i \in Invites /\ invites'[i].to = invites[i].to,
         \A i \in Made : invites'[i] = invites[i] \/ i \in Held(call[c])
  PROVE  InvitesHeld' /\ InvitesStay
<1>1. call' = [d \in Calls |-> IF d = c THEN Over ELSE call[d]]
  BY DEF Typed, CallsTyped, Finish
<1>2. Over.pc \notin Access /\ Held(Over) = {}
  BY OverIs DEF Access, OfPeople, OfInvite, Held
<1>3. \A i \in Made : i \in Made'
  BY DEF Made
<1>4. HeldOpen'
  <2> SUFFICES ASSUME NEW d \in Calls, d # c, NEW i \in Held(call[d])
               PROVE  /\ i \in Made' /\ invites'[i].to \in call[d].about
                      /\ invites'[i].status = "pending" \/ invites'[i].to \in raced'
    BY <1>1, <1>2 DEF HeldOpen
  <2>1. /\ i \in Made /\ invites[i].to \in call[d].about
        /\ invites[i].status = "pending" \/ invites[i].to \in raced
    BY DEF InvitesHeld, HeldOpen
  <2>2. CASE i \in Held(call[c])
    <3>1. call[d].pc \in Access
      BY DEF Held, Access
    <3>2. invites[i].to \in call[c].about
      BY <2>2 DEF InvitesHeld, HeldOpen
    <3>3. invites[i].to \in raced
      BY <2>1, <3>1, <3>2 DEF InvitesHeld, Apart
    <3>. QED
      BY <2>1, <3>3, <1>3
  <2>3. CASE i \notin Held(call[c])
    BY <2>1, <2>3, <1>3
  <2>. QED
    BY <2>2, <2>3
<1>5. Apart'
  BY <1>1, <1>2 DEF InvitesHeld, Apart
<1>6. InvitesStay
  BY DEF InvitesStay, InvitesHeld, HeldOpen
<1>. QED
  BY <1>4, <1>5, <1>6 DEF InvitesHeld

LEMMA InvitesMove ==
  ASSUME Typed, InvitesHeld, NEW c \in Calls, call[c].pc = "idle",
         \/ ChangeRole(c) \/ Deactivate(c) \/ Restore(c) \/ CreateInvitation(c)
         \/ RevokeInvitation(c) \/ ResendInvitation(c) \/ AcceptInvitation(c)
         \/ ListInvitations(c) \/ SignIn(c)
  PROVE  InvitesHeld' /\ InvitesStay
<1>1. CASE ChangeRole(c) \/ Deactivate(c) \/ Restore(c) \/ CreateInvitation(c) \/ SignIn(c)
  <2>1. \E p \in People : \E arg : \E pc \in OfPeople : Begin(c, Call(pc, {p}, p, people[p], arg))
    BY <1>1 DEF ChangeRole, Deactivate, Restore, CreateInvitation, SignIn, About, OfPeople
  <2>2. \A p, arg, v : \A pc \in OfPeople : /\ Held(Call(pc, {p}, p, v, arg)) = {}
                                            /\ Call(pc, {p}, p, v, arg).pc \in Access
    BY CallFields DEF Held, OfPeople, OfInvite, Access
  <2>. QED
    BY <2>1, <2>2, InvitesBegin
<1>2. CASE RevokeInvitation(c) \/ ResendInvitation(c) \/ AcceptInvitation(c)
  <2>1. \E i \in Made : \E v, arg : \E pc \in OfInvite :
          Actionable(i) /\ Begin(c, Call(pc, {invites[i].to}, i, v, arg))
    BY <1>2 DEF RevokeInvitation, ResendInvitation, AcceptInvitation, OnInvite, OfInvite
  <2>2. \A i, v, arg, S : \A pc \in OfInvite : /\ Held(Call(pc, S, i, v, arg)) = {i}
                                               /\ Call(pc, S, i, v, arg).pc \in Access
                                               /\ Call(pc, S, i, v, arg).about = S
    BY CallFields DEF Held, OfInvite, Access
  <2>. QED
    BY <2>1, <2>2, InvitesBegin DEF Actionable
<1>3. CASE ListInvitations(c)
  <2> DEFINE gone == {i \in Made : invites[i].status = "pending" /\ invites[i].lapsed}
             k == Call("expire", {invites[i].to : i \in gone}, gone, None, None)
  <2>1. Begin(c, k)
    BY <1>3 DEF ListInvitations
  <2>2. Held(k) = gone /\ k.pc \in Access /\ k.about = {invites[i].to : i \in gone}
    BY CallFields DEF Held, Access, OfInvite
  <2>. HIDE DEF k
  <2>. QED
    BY <2>1, <2>2, InvitesBegin
<1>. QED
  BY <1>1, <1>2, <1>3

LEMMA InvitesDone ==
  ASSUME Typed, InvitesHeld, NEW c \in Calls,
         \/ CommitRole(c) \/ CommitDeactivation(c) \/ CommitRestore(c) \/ CommitInvitation(c)
         \/ CommitRevocation(c) \/ CommitResend(c) \/ CommitAcceptance(c) \/ RefuseAcceptance(c)
         \/ CommitExpiry(c) \/ CommitSession(c)
  PROVE  InvitesHeld' /\ InvitesStay
<1>1. Finish(c) /\ raced' = raced /\ call[c].pc \in Access
  BY DEF CommitRole, CommitDeactivation, CommitRestore, CommitInvitation, CommitRevocation, CommitResend,
         CommitAcceptance, RefuseAcceptance, CommitExpiry, CommitSession, Doing, adminVars, Access, OfPeople, OfInvite
<1>2. invites \in [Invites -> Invite] /\ Made \subseteq Invites
  BY DEF Typed, TypeOK, Made
<1>3. SUFFICES \A i \in Made : /\ invites'[i].to = invites[i].to
                               /\ invites'[i] = invites[i] \/ i \in Held(call[c])
  BY <1>1, <1>2, InvitesCommit
<1>4. CASE CommitInvitation(c)
  BY <1>2, <1>4 DEF CommitInvitation
<1>5. CASE CommitRevocation(c) \/ CommitResend(c) \/ CommitAcceptance(c)
  <2>1. Held(call[c]) = {call[c].on}
    BY <1>5 DEF CommitRevocation, CommitResend, CommitAcceptance, Doing, Held, OfInvite
  <2>2. \A v \in Invite : /\ \A t : [v EXCEPT !.status = t].to = v.to
                          /\ \A b : [v EXCEPT !.lapsed = b].to = v.to
    BY DEF Invite
  <2>3. \/ \E t : invites' = [invites EXCEPT ![call[c].on].status = t]
        \/ \E b : invites' = [invites EXCEPT ![call[c].on].lapsed = b]
    BY <1>5 DEF CommitRevocation, CommitResend, CommitAcceptance
  <2>4. ASSUME NEW t, invites' = [invites EXCEPT ![call[c].on].status = t], NEW i \in Made
        PROVE  /\ invites'[i].to = invites[i].to
               /\ invites'[i] = invites[i] \/ i \in Held(call[c])
    <3>1. invites'[i] = IF i = call[c].on THEN [invites[i] EXCEPT !.status = t] ELSE invites[i]
      BY <1>2, <2>4
    <3>. QED
      BY <1>2, <2>1, <2>2, <3>1
  <2>5. ASSUME NEW b, invites' = [invites EXCEPT ![call[c].on].lapsed = b], NEW i \in Made
        PROVE  /\ invites'[i].to = invites[i].to
               /\ invites'[i] = invites[i] \/ i \in Held(call[c])
    <3>1. invites'[i] = IF i = call[c].on THEN [invites[i] EXCEPT !.lapsed = b] ELSE invites[i]
      BY <1>2, <2>5
    <3>. QED
      BY <1>2, <2>1, <2>2, <3>1
  <2>. QED
    BY <2>3, <2>4, <2>5
<1>6. CASE CommitExpiry(c)
  <2>1. Held(call[c]) = call[c].on
    BY <1>6 DEF CommitExpiry, Doing, Held, OfInvite
  <2>2. \A v \in Invite : [v EXCEPT !.status = "expired"].to = v.to
    BY DEF Invite
  <2>. QED
    BY <1>2, <1>6, <2>1, <2>2 DEF CommitExpiry
<1>7. CASE CommitRole(c) \/ CommitDeactivation(c) \/ CommitRestore(c) \/ RefuseAcceptance(c) \/ CommitSession(c)
  BY <1>7 DEF CommitRole, CommitDeactivation, CommitRestore, RefuseAcceptance, CommitSession, adminVars
<1>. QED
  BY <1>4, <1>5, <1>6, <1>7

LEMMA InvitesElse ==
  ASSUME Typed, InvitesHeld, Lapse \/ SignUp
  PROVE  InvitesHeld' /\ InvitesStay
<1>1. CASE Lapse
  <2>1. PICK i \in Made : Actionable(i) /\ invites' = [invites EXCEPT ![i].lapsed = TRUE]
    BY <1>1 DEF Lapse
  <2>2. \A v \in Invite : [v EXCEPT !.lapsed = TRUE].to = v.to /\ [v EXCEPT !.lapsed = TRUE].status = v.status
    BY DEF Invite
  <2>3. invites \in [Invites -> Invite] /\ i \in Invites
    BY DEF Typed, TypeOK, Made
  <2>4. /\ \A j \in Invites : invites'[j].to = invites[j].to /\ invites'[j].status = invites[j].status
        /\ \A j \in Invites : j # i => invites'[j] = invites[j]
    BY <2>1, <2>2, <2>3
  <2>5. Made' = Made /\ call' = call /\ raced' = raced
    BY <1>1, <2>4 DEF Lapse, Made
  <2>6. HeldOpen'
    BY <2>4, <2>5 DEF InvitesHeld, HeldOpen, Made
  <2>7. Apart'
    BY <2>5 DEF InvitesHeld, Apart
  <2>8. InvitesStay
    BY <2>1, <2>4 DEF InvitesStay, Made, Actionable
  <2>. QED
    BY <2>6, <2>7, <2>8 DEF InvitesHeld
<1>2. CASE SignUp
  BY <1>2 DEF SignUp, InvitesHeld, HeldOpen, Apart, Made, InvitesStay
<1>. QED
  BY <1>1, <1>2

LEMMA InvitesNext ==
  ASSUME Typed, InvitesHeld, Next
  PROVE  InvitesHeld' /\ InvitesStay
<1>1. CASE AdminNext
  BY <1>1, InvitesMove, InvitesDone, InvitesElse DEF AdminNext, Turn
<1>2. CASE SafetyNext \/ IncidentNext
  BY <1>2, SafetyAside, InvitesAside DEF adminVars, Looking, Access, OfPeople, OfInvite, OfCase
<1>3. CASE NoticesNext \/ MailHandled \/ \E c \in Calls : Crash(c) /\ UNCHANGED safetyVars
  BY <1>3, NoticesAside, InvitesAside DEF adminVars, Noticing, Access, OfPeople, OfInvite
<1>. QED
  BY <1>1, <1>2, <1>3 DEF Next

(* Investigations and incidents.                                           *)
CasesStay == \A n \in ClosedCases : <<{"case"}, n>> \notin mixed' => cases'[n].status = cases[n].status /\ ~cases'[n].manual
IncidentsStay ==
  \A x \in Incidents : incidents[x] = "resolved" /\ <<{"incident"}, x>> \notin mixed' => incidents'[x] = "resolved"
SafetyHeld == CasesHeld /\ IncidentsHeld
SafetyStays == CasesStay /\ IncidentsStay

LEMMA SafetyElse ==
  ASSUME SafetyHeld, NEW pcs, Turned(pcs), pcs \cap (OfCase \cup {"incident"}) = {}, UNCHANGED <<cases, incidents, mixed>>
  PROVE  SafetyHeld' /\ SafetyStays
<1>1. \A c \in Calls : call'[c] = call[c] \/ call'[c].pc \notin OfCase \cup {"incident"}
  BY DEF Turned
<1>2. Opened' = Opened /\ ClosedCases' = ClosedCases
  BY DEF Opened, ClosedCases
<1>3. CasesHeld'
  BY <1>1, <1>2 DEF SafetyHeld, CasesHeld, OfCase, Changing
<1>4. IncidentsHeld'
  BY <1>1 DEF SafetyHeld, IncidentsHeld
<1>. QED
  BY <1>3, <1>4 DEF SafetyHeld, SafetyStays, CasesStay, IncidentsStay, CasesHeld

\* A call that begins has read an open case or incident.
LEMMA SafetyBegins ==
  ASSUME Typed, SafetyHeld, NEW c \in Calls, NEW k, On(c, k), call[c].pc = "idle", CallIs(k),
         k.pc \in Changing => k.on \in Opened \ ClosedCases,
         k.pc = "incident" => incidents[k.on] \in {"open", "monitoring"}
  PROVE  SafetyHeld' /\ SafetyStays
<1>1. call' = [d \in Calls |-> IF d = c THEN k ELSE call[d]]
  BY DEF Typed, CallsTyped, On
<1>2. UNCHANGED <<cases, incidents>> /\ mixed \subseteq mixed' /\ Opened' = Opened /\ ClosedCases' = ClosedCases
  BY DEF On, Opened, ClosedCases
<1>3. \A d \in Calls : d # c /\ call[d].pc \in OfCase \cup {"incident"} /\ <<k.about, k.on>> = <<call[d].about, call[d].on>> =>
        <<k.about, k.on>> \in mixed'
  <2>1. \A d \in Calls : call[d].pc \in OfCase \cup {"incident"} => d \in Flying
    BY DEF Flying, OfCase
  <2>. QED
    BY <2>1 DEF On
<1>4. \A d \in Calls : CallIs(call[d])
  BY DEF Typed, CallsTyped
<1>5. CasesHeld'
  <2>1. \A d \in Calls : d # c /\ call[d].pc \in OfCase /\ k.pc \in OfCase /\ k.on = call[d].on => <<{"case"}, k.on>> \in mixed'
    BY <1>3, <1>4 DEF CallIs
  <2>2. \A d \in Calls : call'[d].pc \in Changing =>
          call'[d].on \in Opened' \ ClosedCases' \/ <<{"case"}, call'[d].on>> \in mixed'
    BY <1>1, <1>2 DEF SafetyHeld, CasesHeld
  <2>3. \A d, e \in Calls : d # e /\ call'[d].pc \in OfCase /\ call'[e].pc \in OfCase /\ call'[d].on = call'[e].on =>
          <<{"case"}, call'[d].on>> \in mixed'
    BY <1>1, <1>2, <2>1 DEF SafetyHeld, CasesHeld
  <2>4. \A n \in ClosedCases' : ~cases'[n].manual
    BY <1>2 DEF SafetyHeld, CasesHeld
  <2>. QED
    BY <2>2, <2>3, <2>4 DEF CasesHeld
<1>6. IncidentsHeld'
  <2>1. \A d \in Calls : d # c /\ call[d].pc = "incident" /\ k.pc = "incident" /\ k.on = call[d].on =>
          <<{"incident"}, k.on>> \in mixed'
    BY <1>3, <1>4 DEF CallIs
  <2>. QED
    BY <1>1, <1>2, <2>1 DEF SafetyHeld, IncidentsHeld
<1>. QED
  BY <1>2, <1>5, <1>6 DEF SafetyHeld, SafetyStays, CasesStay, IncidentsStay, CasesHeld

\* A call that ends changes the case, or the incident, it was on.
LEMMA SafetyDone ==
  ASSUME Typed, SafetyHeld, NEW c \in Calls,
         \/ CommitInvestigation(c) \/ RefuseInvestigation(c) \/ CommitAssignment(c)
         \/ CommitStatus(c) \/ CommitClosing(c) \/ CreateIncident(c) \/ CommitIncident(c)
  PROVE  SafetyHeld' /\ SafetyStays
<1>1. CallsTyped /\ CallIs(call[c]) /\ cases \in [Cases -> Case]
      /\ incidents \in [Incidents -> IncidentStatus \cup {"none"}]
  BY DEF Typed, TypeOK, CallsTyped
<1>2. Finish(c) /\ mixed' = mixed
  BY DEF CommitInvestigation, RefuseInvestigation, CommitAssignment, CommitStatus, CommitClosing,
         CreateIncident, CommitIncident, Done, safetyVars
<1>3. call' = [d \in Calls |-> IF d = c THEN Over ELSE call[d]]
  BY <1>1, <1>2 DEF CallsTyped, Finish
<1>4. Over.pc \notin OfCase \cup Changing \cup {"incident"}
  BY OverIs DEF OfCase, Changing
<1>5. ASSUME \A n \in Opened : n \in Cases /\ n \in Opened',
             \A n \in Opened \ ClosedCases : n \notin ClosedCases' \/ (call[c].pc \in OfCase /\ n = call[c].on),
             \A n \in ClosedCases' : ~cases'[n].manual
      PROVE  CasesHeld'
  <2>1. ASSUME NEW d \in Calls, d # c, call[d].pc \in Changing
        PROVE  call[d].on \in Opened' \ ClosedCases' \/ <<{"case"}, call[d].on>> \in mixed
    BY <2>1, <1>5 DEF SafetyHeld, CasesHeld, Changing, OfCase
  <2>2. \A d \in Calls : call'[d].pc \in Changing =>
          call'[d].on \in Opened' \ ClosedCases' \/ <<{"case"}, call'[d].on>> \in mixed'
    BY <2>1, <1>2, <1>3, <1>4
  <2>3. \A d, e \in Calls : d # e /\ call'[d].pc \in OfCase /\ call'[e].pc \in OfCase /\ call'[d].on = call'[e].on =>
          <<{"case"}, call'[d].on>> \in mixed'
    BY <1>2, <1>3, <1>4 DEF SafetyHeld, CasesHeld
  <2>. QED
    BY <2>2, <2>3, <1>5 DEF CasesHeld
<1>6. ASSUME \A x \in Incidents : incidents[x] \in {"open", "monitoring"} =>
               incidents'[x] \in {"open", "monitoring"} \/ (call[c].pc = "incident" /\ x = call[c].on)
      PROVE  IncidentsHeld'
  <2>1. ASSUME NEW d \in Calls, d # c, call[d].pc = "incident"
        PROVE  incidents'[call[d].on] \in {"open", "monitoring"} \/ <<{"incident"}, call[d].on>> \in mixed
    <3>1. call[d].on \in Incidents
      BY <2>1 DEF Typed, CallsTyped, CallIs
    <3>. QED
      BY <2>1, <3>1, <1>6 DEF SafetyHeld, IncidentsHeld
  <2>. QED
    BY <2>1, <1>2, <1>3, <1>4 DEF SafetyHeld, IncidentsHeld
<1>7. CASE CommitInvestigation(c)
  <2>1. PICK n \in Cases \ Opened : cases' = [cases EXCEPT ![n] = [NoCase EXCEPT !.subject = call[c].on, !.manual = TRUE]]
    BY <1>7 DEF CommitInvestigation
  <2>2. incidents' = incidents
    BY <1>7 DEF CommitInvestigation
  <2>3. cases'[n].status = "open" /\ \A m \in Cases \ {n} : cases'[m] = cases[m]
    BY <1>1, <2>1 DEF NoCase
  <2>4. n \notin ClosedCases'
    BY <2>3 DEF ClosedCases, Closing
  <2>5. \A m \in Opened : m \in Cases /\ m \in Opened'
    BY <2>1, <2>3 DEF Opened
  <2>6. \A m \in Cases : m \in ClosedCases' => m \in ClosedCases
    BY <2>1, <2>3, <2>4 DEF Opened, ClosedCases
  <2>7. \A m \in ClosedCases' : ~cases'[m].manual
    BY <2>1, <2>3, <2>4, <2>6 DEF Opened, ClosedCases, SafetyHeld, CasesHeld
  <2>8. CasesHeld'
    BY <2>5, <2>6, <2>7, <1>5
  <2>9. CasesStay
    BY <2>1, <2>3 DEF CasesStay, Opened, ClosedCases, SafetyHeld, CasesHeld
  <2>. QED
    BY <2>2, <2>8, <2>9, <1>6 DEF SafetyHeld, SafetyStays, IncidentsStay
<1>8. CASE CommitAssignment(c) \/ CommitStatus(c) \/ CommitClosing(c)
  <2> DEFINE n == call[c].on
  <2>1. n \in Cases /\ incidents' = incidents /\ call[c].pc \in OfCase
    BY <1>1, <1>8 DEF CommitAssignment, CommitStatus, CommitClosing, Done, CallIs, OfCase
  <2>2. \A v \in Case : /\ \A p : LET w == [v EXCEPT !.assignee = p] IN
                                  w.subject = v.subject /\ w.status = v.status /\ w.manual = v.manual
                        /\ \A t : LET w == [v EXCEPT !.status = t] IN
                                  w.subject = v.subject /\ w.status = t /\ w.manual = v.manual
                        /\ \A t : LET w == [v EXCEPT !.status = t, !.manual = FALSE] IN
                                  w.subject = v.subject /\ w.status = t /\ w.manual = FALSE
    BY DEF Case
  <2>3. \A m \in Cases : m # n => cases'[m] = cases[m]
    BY <1>1, <1>8 DEF CommitAssignment, CommitStatus, CommitClosing
  <2>4. \/ call[c].pc = "assign" /\ cases'[n].status = cases[n].status /\ cases'[n].manual = cases[n].manual
        \/ call[c].pc = "move" /\ cases'[n].status = call[c].arg /\ cases'[n].manual = cases[n].manual
        \/ call[c].pc = "close" /\ cases'[n].status = call[c].arg /\ cases'[n].manual = FALSE
    <3>1. cases[n] \in Case
      BY <1>1, <2>1
    <3>2. CASE CommitAssignment(c)
      <4>1. call[c].pc = "assign" /\ cases'[n] = [cases[n] EXCEPT !.assignee = call[c].arg]
        BY <1>1, <2>1, <3>2 DEF CommitAssignment, Done
      <4>. QED
        BY <2>2, <3>1, <4>1
    <3>3. CASE CommitStatus(c)
      <4>1. call[c].pc = "move" /\ cases'[n] = [cases[n] EXCEPT !.status = call[c].arg]
        BY <1>1, <2>1, <3>3 DEF CommitStatus, Done
      <4>. QED
        BY <2>2, <3>1, <4>1
    <3>4. CASE CommitClosing(c)
      <4>1. call[c].pc = "close" /\ cases'[n] = [cases[n] EXCEPT !.status = call[c].arg, !.manual = FALSE]
        BY Zenon, <1>1, <2>1, <3>4 DEF CommitClosing, Done
      <4>. QED
        BY <2>2, <3>1, <4>1
    <3>. QED
      BY <1>8, <3>2, <3>3, <3>4
  <2>5. cases'[n].subject = cases[n].subject
    <3>1. cases[n] \in Case
      BY <1>1, <2>1
    <3>2. \/ cases'[n] = [cases[n] EXCEPT !.assignee = call[c].arg]
          \/ cases'[n] = [cases[n] EXCEPT !.status = call[c].arg]
          \/ cases'[n] = [cases[n] EXCEPT !.status = call[c].arg, !.manual = FALSE]
      BY Zenon, <1>1, <1>8, <2>1 DEF CommitAssignment, CommitStatus, CommitClosing
    <3>3. \A p, t : LET v == cases[n] IN
            /\ [v EXCEPT !.assignee = p].subject = v.subject /\ [v EXCEPT !.status = t].subject = v.subject
            /\ [v EXCEPT !.status = t, !.manual = FALSE].subject = v.subject
      BY <3>1 DEF Case
    <3>. QED
      BY Zenon, <3>2, <3>3
  <2>6. Opened' = Opened
    BY <2>3, <2>5 DEF Opened
  <2>7. call[c].pc = "move" => call[c].arg \notin Closing
    BY <1>1 DEF CallIs, Moves, Closing
  <2>8. \A m \in ClosedCases' : ~cases'[m].manual
    BY <2>3, <2>4, <2>6, <2>7 DEF ClosedCases, Opened, SafetyHeld, CasesHeld
  <2>9. \A m \in Opened \ ClosedCases : m \notin ClosedCases' \/ (call[c].pc \in OfCase /\ m = call[c].on)
    BY <2>1, <2>3 DEF ClosedCases, Opened
  <2>10. CasesHeld'
    BY <2>6, <2>8, <2>9, <1>5 DEF Opened
  <2>11. CasesStay
    <3>1. ASSUME NEW m \in ClosedCases, <<{"case"}, m>> \notin mixed', m = n
          PROVE  call[c].pc = "assign"
      BY <1>2, <2>4, <3>1 DEF SafetyHeld, CasesHeld, Changing
    <3>2. \A m \in ClosedCases : m \in Cases /\ ~cases[m].manual
      BY DEF ClosedCases, Opened, SafetyHeld, CasesHeld
    <3>. QED
      BY <2>3, <2>4, <3>1, <3>2 DEF CasesStay
  <2>. QED
    BY <2>1, <2>10, <2>11, <1>6 DEF SafetyHeld, SafetyStays, IncidentsStay
<1>9. CASE CreateIncident(c) \/ CommitIncident(c) \/ RefuseInvestigation(c)
  <2>1. cases' = cases
    BY <1>9 DEF CreateIncident, CommitIncident, RefuseInvestigation, safetyVars
  <2>2. Opened' = Opened /\ ClosedCases' = ClosedCases
    BY <2>1 DEF Opened, ClosedCases
  <2>3. CasesHeld' /\ CasesStay
    BY <2>1, <2>2, <1>5 DEF Opened, ClosedCases, SafetyHeld, CasesHeld, CasesStay
  <2>4. \A x \in Incidents : incidents'[x] = incidents[x] \/ incidents[x] = "none"
                             \/ (call[c].pc = "incident" /\ x = call[c].on)
    BY <1>1, <1>9 DEF CreateIncident, CommitIncident, RefuseInvestigation, Done, safetyVars
  <2>5. IncidentsHeld'
    BY <2>4, <1>6
  <2>6. IncidentsStay
    BY <1>2, <2>4 DEF IncidentsStay, SafetyHeld, IncidentsHeld
  <2>. QED
    BY <2>3, <2>5, <2>6 DEF SafetyHeld, SafetyStays
<1>. QED
  BY <1>7, <1>8, <1>9

LEMMA SafetyMove ==
  ASSUME Typed, SafetyHeld, NEW c \in Calls, call[c].pc = "idle",
         Investigate(c) \/ Assign(c) \/ UpdateStatus(c) \/ ResolveOrDismiss(c) \/ UpdateIncident(c)
  PROVE  SafetyHeld' /\ SafetyStays
<1>1. CASE Investigate(c)
  <2>1. PICK s, v : On(c, Call("investigate", {"subject"}, s, v, None)) /\ s \in Subjects /\ v.signal \in Signal
    <3>1. \A s \in Subjects : signals[s] \in Signal
      BY DEF Typed, TypeOK
    <3>. QED
      BY <1>1, <3>1 DEF Investigate
  <2>2. LET k == Call("investigate", {"subject"}, s, v, None) IN CallIs(k) /\ k.pc = "investigate"
    BY <2>1, CallFields DEF CallIs, OfPeople, OfInvite, OfCase, Access
  <2>. QED
    BY <2>1, <2>2, SafetyBegins DEF Changing
<1>2. CASE Assign(c) \/ UpdateStatus(c) \/ ResolveOrDismiss(c)
  <2>1. \E n \in Opened : \E v, arg : \E pc \in OfCase :
          /\ On(c, Call(pc, {"case"}, n, v, arg))
          /\ pc \in Changing => n \notin ClosedCases
          /\ pc = "assign" => arg \in People
          /\ pc = "move" => arg \in DOMAIN Moves
          /\ pc = "close" => arg \in Closing
    <3>1. CASE Assign(c)
      BY <3>1 DEF Assign, OnCase, OfCase, Changing
    <3>2. CASE UpdateStatus(c)
      <4>1. PICK n \in Opened \ ClosedCases : \E t \in Moves[cases[n].status] : OnCase(c, "move", n, t)
        BY <3>2 DEF UpdateStatus
      <4>2. cases[n].status \in DOMAIN Moves
        BY DEF Typed, TypeOK, Opened, ClosedCases, Case
      <4>3. Moves[cases[n].status] \subseteq DOMAIN Moves
        BY <4>2 DEF Moves
      <4>. QED
        BY <4>1, <4>3 DEF OnCase, OfCase
    <3>3. CASE ResolveOrDismiss(c)
      BY <3>3 DEF ResolveOrDismiss, OnCase, OfCase, Undecided, ClosedCases
    <3>. QED
      BY <1>2, <3>1, <3>2, <3>3
  <2>2. \A n \in Cases : \A v, arg : \A pc \in OfCase :
          /\ pc = "assign" => arg \in People
          /\ pc = "move" => arg \in DOMAIN Moves
          /\ pc = "close" => arg \in Closing
          => LET k == Call(pc, {"case"}, n, v, arg) IN CallIs(k) /\ k.pc = pc /\ k.on = n
    BY CallFields DEF CallIs, OfPeople, OfInvite, OfCase, Access
  <2>. QED
    BY <2>1, <2>2, SafetyBegins DEF Opened, OfCase, Changing
<1>3. CASE UpdateIncident(c)
  <2>1. PICK x \in Incidents, s \in IncidentStatus :
          /\ incidents[x] \in {"open", "monitoring"}
          /\ On(c, Call("incident", {"incident"}, x, incidents[x], s))
    BY <1>3 DEF UpdateIncident, OnIncident, IncidentStatus
  <2> DEFINE k == Call("incident", {"incident"}, x, incidents[x], s)
  <2>2. CallIs(k) /\ k.pc = "incident" /\ k.on = x
    BY CallFields DEF CallIs, OfPeople, OfInvite, OfCase, Access
  <2>3. On(c, k)
    BY <2>1
  <2>. HIDE DEF k
  <2>4. k.pc \notin Changing /\ incidents[k.on] \in {"open", "monitoring"}
    BY <2>1, <2>2 DEF Changing
  <2>. QED
    BY <2>2, <2>3, <2>4, SafetyBegins
<1>. QED
  BY <1>1, <1>2, <1>3

LEMMA SafetyNextHeld ==
  ASSUME Typed, SafetyHeld, Next
  PROVE  SafetyHeld' /\ SafetyStays
<1>1. CASE AdminNext /\ UNCHANGED safetyVars
  BY <1>1, AccessAside, SafetyElse DEF safetyVars, Access, OfPeople, OfInvite, OfCase
<1>2. CASE Blemish \/ Forget
  <2>1. Turned({}) /\ UNCHANGED <<cases, incidents, mixed>>
    BY <1>2 DEF Blemish, Forget, Turned
  <2>. QED
    BY <2>1, SafetyElse
<1>3. ASSUME NEW c \in Calls, Turn(c),
             Investigate(c) \/ Assign(c) \/ UpdateStatus(c) \/ ResolveOrDismiss(c) \/ UpdateIncident(c)
      PROVE  SafetyHeld' /\ SafetyStays
  BY <1>3, SafetyMove DEF Turn
<1>4. ASSUME NEW c \in Calls,
             \/ CommitInvestigation(c) \/ RefuseInvestigation(c) \/ CommitAssignment(c)
             \/ CommitStatus(c) \/ CommitClosing(c) \/ CreateIncident(c) \/ CommitIncident(c)
      PROVE  SafetyHeld' /\ SafetyStays
  BY <1>4, SafetyDone
<1>5. CASE SafetyNext \/ IncidentNext
  BY <1>2, <1>3, <1>4, <1>5 DEF SafetyNext, IncidentNext
<1>6. CASE NoticesNext \/ MailHandled \/ \E c \in Calls : Crash(c) /\ UNCHANGED safetyVars
  BY <1>6, NoticesAside, SafetyElse DEF safetyVars, Noticing, OfCase
<1>. QED
  BY <1>1, <1>5, <1>6 DEF Next

RowsTyped == Typed /\ RowsHeld
LEMMA InitHeld == Init => RowsTyped
<1> SUFFICES ASSUME Init PROVE RowsTyped
  OBVIOUS
<1>1. PICK s \in Starts : cases = s.cases /\ call = [c \in Calls |-> IF c \in s.calls THEN Blank ELSE Over]
  BY DEF Init
<1>2. \A c \in Calls : call[c].pc \in {"idle", "done"}
  BY <1>1, OverIs DEF Blank, Call
<1>3. \A n \in ClosedCases : ~cases[n].manual
  BY <1>1, StartsAssumption DEF ClosedCases, Opened
<1>. QED
  BY <1>2, <1>3, InitTyped DEF RowsTyped, RowsHeld, InvitesHeld, HeldOpen, Apart, Held, CasesHeld, IncidentsHeld,
                               Access, OfPeople, OfInvite, OfCase, Changing

LEMMA NextHeld == RowsTyped /\ [Next]_vars => RowsTyped' /\ InvitesStay /\ SafetyStays
<1> SUFFICES ASSUME RowsTyped, [Next]_vars PROVE RowsTyped' /\ InvitesStay /\ SafetyStays
  OBVIOUS
<1>1. CASE Next
  BY <1>1, NextTyped, InvitesNext, SafetyNextHeld DEF RowsTyped, RowsHeld, SafetyHeld
<1>2. CASE UNCHANGED vars
  <2>1. Turned({})
    BY <1>2 DEF vars, Turned
  <2>2. InvitesHeld' /\ InvitesStay
    BY <1>2, <2>1, InvitesAside DEF vars, adminVars, RowsTyped, RowsHeld
  <2>3. SafetyHeld' /\ SafetyStays
    BY <1>2, <2>1, SafetyElse DEF vars, safetyVars, RowsTyped, RowsHeld, SafetyHeld
  <2>. QED
    BY <2>2, <2>3, NextTyped DEF RowsTyped, RowsHeld, SafetyHeld
<1>. QED
  BY <1>1, <1>2

\* What was closed stays closed: an invitation that was accepted, revoked or expired, an investigation that was resolved or dismissed and its signal, and a resolved incident, unless two calls on it overlapped.
THEOREM ClosedForGoodAlways == Spec => ClosedForGood
<1>1. RowsTyped /\ [Next]_vars =>
        /\ [InvitesStay]_<<invites, raced>>
        /\ [CasesStay /\ IncidentsStay]_<<cases, incidents, mixed>>
  BY NextHeld DEF SafetyStays
<1>. QED
  BY <1>1, InitHeld, NextHeld, PTL DEF Spec, ClosedForGood, ClosedStays, InvitationsClose,
     InvitesStay, CasesStay, IncidentsStay

-----------------------------------------------------------------------------
(* Who administers.  A superadmin who is to be demoted or suspended leaves   *)
(* another one, who nothing else takes meanwhile.                            *)
RankHeld ==
  /\ \A c, d \in Calls : c # d /\ call[c].pc \in Decisive /\ call[d].pc \in Decisive => crossed
  /\ ~crossed /\ ~lowered =>
       /\ Superadmins # {}
       /\ \A c \in Calls : call[c].pc \in {"role", "deactivate"} /\ people[call[c].on].role = "superadmin" =>
            \E q \in Superadmins : q # call[c].on
\* A suspended person is signed in nowhere, and nothing under way signs them in.
SignedOutHeld ==
  /\ SuspendedSignedOut
  /\ \A c \in Calls :
       /\ call[c].pc = "sign_in" => people[call[c].on].active \/ call[c].on \in raced
       /\ call[c].pc = "accept" =>
            /\ call[c].about = {call[c].arg}
            /\ call[c].view = Nobody \/ people[call[c].arg].active \/ call[c].arg \in raced
\* Who is about to be invited has no open invitation.
InvitedOnce ==
  /\ OneOpenInvitation
  /\ \A c \in Calls : call[c].pc = "invite" /\ call[c].on \notin raced =>
       \A i \in Made : ~(invites[i].to = call[c].on /\ invites[i].status = "pending")
AccessHeld == RankHeld /\ SignedOutHeld /\ InvitedOnce

LEMMA RankAside ==
  ASSUME RankHeld, NEW pcs, Turned(pcs), pcs \cap Decisive = {}, crossed => crossed', lowered => lowered',
         Superadmins \subseteq Superadmins',
         \A p \in People : people'[p].role = "superadmin" => people[p].role = "superadmin",
         \A c \in Calls : call[c].pc \in {"role", "deactivate"} => call[c].on \in People
  PROVE  RankHeld'
<1>1. \A c \in Calls : call'[c] = call[c] \/ call'[c].pc \notin Decisive
  BY DEF Turned
<1>2. \A c, d \in Calls : c # d /\ call'[c].pc \in Decisive /\ call'[d].pc \in Decisive => crossed'
  BY <1>1 DEF RankHeld
<1>3. SUFFICES ASSUME ~crossed', ~lowered'
               PROVE  /\ Superadmins' # {}
                      /\ \A c \in Calls : call'[c].pc \in {"role", "deactivate"} /\ people'[call'[c].on].role = "superadmin" =>
                           \E q \in Superadmins' : q # call'[c].on
  BY <1>2 DEF RankHeld
<1>4. Superadmins # {}
  BY <1>3 DEF RankHeld
<1>5. ASSUME NEW c \in Calls, call'[c].pc \in {"role", "deactivate"}, people'[call'[c].on].role = "superadmin"
      PROVE  \E q \in Superadmins' : q # call'[c].on
  <2>1. call'[c] = call[c]
    BY <1>1, <1>5 DEF Decisive
  <2>2. people[call[c].on].role = "superadmin"
    BY <1>5, <2>1
  <2>. QED
    BY <1>3, <1>5, <2>1, <2>2 DEF RankHeld
<1>. QED
  BY <1>4, <1>5

\* Who is changed leaves another superadmin.
LEMMA RankBegins ==
  ASSUME Typed, RankHeld, NEW c \in Calls, NEW k, Begin(c, k), k.pc \in Decisive,
         k.pc \in {"role", "deactivate"} /\ people[k.on].role = "superadmin" => \E q \in Superadmins : q # k.on
  PROVE  RankHeld'
<1>1. call' = [d \in Calls |-> IF d = c THEN k ELSE call[d]]
  BY DEF Typed, CallsTyped, Begin
<1>2. people' = people /\ lowered' = lowered /\ Superadmins' = Superadmins /\ (crossed => crossed')
  BY DEF Begin, Superadmins
<1>3. \A d \in Calls : call[d].pc \in Decisive => d \in Flying
  BY DEF Flying, Decisive
<1>4. \A d \in Calls : d # c /\ call[d].pc \in Decisive => crossed'
  BY <1>3 DEF Begin
<1>5. \A d, e \in Calls : d # e /\ call'[d].pc \in Decisive /\ call'[e].pc \in Decisive => crossed'
  BY <1>1, <1>2, <1>4 DEF RankHeld
<1>. QED
  BY <1>1, <1>2, <1>5 DEF RankHeld

\* Nobody else is being changed when a call commits.
LEMMA RankDone ==
  ASSUME Typed, RankHeld, NEW c \in Calls, Finish(c), call[c].pc \in Decisive, crossed' = crossed,
         ~crossed /\ ~lowered' => Superadmins' # {}
  PROVE  RankHeld'
<1>1. call' = [d \in Calls |-> IF d = c THEN Over ELSE call[d]]
  BY DEF Typed, CallsTyped, Finish
<1>2. Over.pc \notin Decisive /\ {"role", "deactivate"} \subseteq Decisive
  BY OverIs DEF Decisive
<1>3. \A d \in Calls : ~crossed /\ d # c => call[d].pc \notin Decisive
  BY DEF RankHeld
<1>4. \A d \in Calls : ~crossed => call'[d].pc \notin Decisive
  BY <1>1, <1>2, <1>3
<1>. QED
  BY <1>2, <1>4 DEF RankHeld

LEMMA AnotherSuperadmin ==
  ASSUME NotTheLast, NEW p
  PROVE  \E q \in Superadmins : q # p
<1>1. SUFFICES ASSUME Superadmins \subseteq {p} PROVE FALSE
  OBVIOUS
<1>2. Superadmins = {} \/ Superadmins = {p}
  BY <1>1
<1>3. Cardinality(Superadmins) = 0 \/ Cardinality(Superadmins) = 1
  BY <1>2, FS_EmptySet, FS_Singleton
<1>. QED
  BY <1>3 DEF NotTheLast

LEMMA RankMove ==
  ASSUME Typed, RankHeld, NEW c \in Calls, call[c].pc = "idle",
         \/ ChangeRole(c) \/ Deactivate(c) \/ Restore(c) \/ CreateInvitation(c)
         \/ RevokeInvitation(c) \/ ResendInvitation(c) \/ AcceptInvitation(c)
         \/ ListInvitations(c) \/ SignIn(c)
  PROVE  RankHeld'
<1>0. CallsTyped /\ \A d \in Calls : call[d].pc \in {"role", "deactivate"} => call[d].on \in People
  BY DEF Typed, CallsTyped, CallIs, OfPeople
<1>1. CASE ChangeRole(c) \/ Deactivate(c)
  <2>1. \E p \in People : \E arg : \E pc \in {"role", "deactivate"} :
          /\ people[p].role = "superadmin" => NotTheLast
          /\ Begin(c, Call(pc, {p}, p, people[p], arg))
    BY <1>1 DEF ChangeRole, Deactivate, About
  <2>2. PICK p \in People : \E arg : \E pc \in {"role", "deactivate"} :
          /\ people[p].role = "superadmin" => NotTheLast
          /\ Begin(c, Call(pc, {p}, p, people[p], arg))
    BY <2>1
  <2>3. PICK arg : \E pc \in {"role", "deactivate"} : Begin(c, Call(pc, {p}, p, people[p], arg))
    BY <2>2
  <2>4. PICK pc \in {"role", "deactivate"} : Begin(c, Call(pc, {p}, p, people[p], arg))
    BY <2>3
  <2> DEFINE k == Call(pc, {p}, p, people[p], arg)
  <2>5. k.pc = pc /\ k.on = p
    BY CallFields
  <2>6. people[p].role = "superadmin" => \E q \in Superadmins : q # p
    BY <2>2, AnotherSuperadmin
  <2>7. Begin(c, k)
    BY <2>4
  <2>. HIDE DEF k
  <2>. QED
    BY <2>5, <2>6, <2>7, RankBegins DEF Decisive
<1>2. CASE Restore(c) \/ AcceptInvitation(c)
  <2>1. \E about, on, view, arg : \E pc \in {"restore", "accept"} : Begin(c, Call(pc, about, on, view, arg))
    BY <1>2 DEF Restore, AcceptInvitation, About
  <2>2. \A about, on, view, arg : \A pc \in {"restore", "accept"} :
          LET k == Call(pc, about, on, view, arg) IN k.pc \in Decisive /\ k.pc \notin {"role", "deactivate"}
    BY CallFields DEF Decisive
  <2>. QED
    BY <2>1, <2>2, RankBegins
<1>3. CASE CreateInvitation(c) \/ RevokeInvitation(c) \/ ResendInvitation(c) \/ ListInvitations(c) \/ SignIn(c)
  <2> DEFINE Rest == {"invite", "revoke", "resend", "expire", "sign_in"}
  <2>1. \E about, on, view, arg : \E pc \in Rest : Begin(c, Call(pc, about, on, view, arg))
    BY <1>3 DEF CreateInvitation, RevokeInvitation, ResendInvitation, ListInvitations, SignIn, About, OnInvite
  <2>2. \A about, on, view, arg : \A pc \in Rest : Call(pc, about, on, view, arg).pc \in Rest
    BY CallFields
  <2>3. PICK k : Begin(c, k) /\ k.pc \in Rest
    BY <2>1, <2>2
  <2>4. Turned(Rest)
    BY <1>0, <2>3, OneTurned DEF Begin
  <2>5. people' = people /\ lowered' = lowered /\ Superadmins' = Superadmins /\ (crossed => crossed')
    BY <2>3 DEF Begin, Superadmins
  <2>6. Rest \cap Decisive = {}
    BY DEF Decisive
  <2>. QED
    BY <1>0, <2>4, <2>5, <2>6, RankAside
<1>. QED
  BY <1>1, <1>2, <1>3

LEMMA RankCommit ==
  ASSUME Typed, RankHeld, NEW c \in Calls,
         \/ CommitRole(c) \/ CommitDeactivation(c) \/ CommitRestore(c) \/ CommitInvitation(c)
         \/ CommitRevocation(c) \/ CommitResend(c) \/ CommitAcceptance(c) \/ RefuseAcceptance(c)
         \/ CommitExpiry(c) \/ CommitSession(c)
  PROVE  RankHeld'
<1>0. /\ CallsTyped /\ CallIs(call[c]) /\ people \in [People -> Person]
      /\ \A d \in Calls : call[d].pc \in {"role", "deactivate"} => call[d].on \in People
  BY DEF Typed, TypeOK, CallsTyped, CallIs, OfPeople
<1>1. CASE CommitRole(c) \/ CommitDeactivation(c)
  <2>1. /\ call[c].pc \in {"role", "deactivate"} /\ Finish(c) /\ crossed' = crossed /\ lowered' = lowered
        /\ \A p \in People : p # call[c].on => people'[p] = people[p]
    BY <1>0, <1>1 DEF CommitRole, CommitDeactivation, Doing
  <2>2. ASSUME ~crossed, ~lowered PROVE \E q \in Superadmins : q # call[c].on
    <3>1. CASE people[call[c].on].role = "superadmin"
      BY <2>1, <2>2, <3>1 DEF RankHeld
    <3>2. CASE people[call[c].on].role # "superadmin"
      BY <2>2, <3>2 DEF RankHeld, Superadmins
    <3>. QED
      BY <3>1, <3>2
  <2>3. \A q \in Superadmins : q # call[c].on => q \in Superadmins'
    BY <2>1 DEF Superadmins
  <2>4. call[c].pc \in Decisive
    BY <2>1 DEF Decisive
  <2>. QED
    BY <2>1, <2>2, <2>3, <2>4, RankDone
<1>2. CASE CommitRestore(c)
  <2>1. call[c].pc = "restore" /\ Finish(c) /\ crossed' = crossed /\ lowered' = lowered
    BY <1>2 DEF CommitRestore, Doing
  <2>2. call[c].on \in People /\ people' = [people EXCEPT ![call[c].on].active = TRUE]
    BY <1>0, <1>2, <2>1 DEF CommitRestore, CallIs, OfPeople
  <2>3. \A v \in Person : [v EXCEPT !.active = TRUE].role = v.role /\ [v EXCEPT !.active = TRUE].active
    BY DEF Person
  <2>4. Superadmins \subseteq Superadmins'
    BY <1>0, <2>2, <2>3 DEF Superadmins
  <2>5. call[c].pc \in Decisive
    BY <2>1 DEF Decisive
  <2>. QED
    BY <2>1, <2>4, <2>5, RankDone DEF RankHeld
<1>3. CASE CommitAcceptance(c)
  <2> DEFINE p == call[c].arg
             r == invites[call[c].on].role
  <2>1. call[c].pc = "accept" /\ Finish(c) /\ crossed' = crossed /\ p \in People
    BY <1>0, <1>3 DEF CommitAcceptance, Doing, CallIs
  <2>2. /\ call[c].view = Nobody => people[p] = Nobody
        /\ people' = [people EXCEPT ![p] = Taken(call[c].view, p, r)]
        /\ ~lowered' => ~lowered /\ (people[p].role = "superadmin" => people'[p].role = "superadmin")
    BY <1>3 DEF CommitAcceptance
  <2>3. p \in Superadmins /\ ~lowered' => people'[p].role = "superadmin" /\ people'[p].active
    <3>1. SUFFICES ASSUME p \in Superadmins, ~lowered' PROVE people'[p].active
      BY <2>2 DEF Superadmins
    <3>2. call[c].view # Nobody /\ people[p].active
      BY <2>2, <3>1 DEF Superadmins, Nobody
    <3>3. PICK x : people'[p] = [people[p] EXCEPT !.role = x]
      BY <1>0, <2>1, <2>2, <3>2 DEF Taken
    <3>4. people[p] \in Person
      BY <1>0, <2>1
    <3>5. [people[p] EXCEPT !.role = x].active = people[p].active
      BY <3>4 DEF Person
    <3>. QED
      BY <3>2, <3>3, <3>5
  <2>4. \A q \in People : q # p => people'[q] = people[q]
    BY <1>0, <2>2
  <2>5. ~lowered' => Superadmins \subseteq Superadmins'
    BY <2>3, <2>4 DEF Superadmins
  <2>6. call[c].pc \in Decisive
    BY <2>1 DEF Decisive
  <2>7. ~crossed /\ ~lowered' => Superadmins # {}
    BY <2>2 DEF RankHeld
  <2>. QED
    BY <2>1, <2>5, <2>6, <2>7, RankDone
<1>4. CASE CommitInvitation(c) \/ CommitRevocation(c) \/ CommitResend(c) \/ RefuseAcceptance(c)
           \/ CommitExpiry(c) \/ CommitSession(c)
  <2>1. Finish(c) /\ UNCHANGED <<people, crossed, lowered>>
    BY <1>4 DEF CommitInvitation, CommitRevocation, CommitResend, RefuseAcceptance, CommitExpiry, CommitSession,
                Doing, adminVars
  <2>2. Turned({"done"}) /\ {"done"} \cap Decisive = {}
    BY <1>0, <2>1, FinishTurned DEF Decisive
  <2>3. Superadmins' = Superadmins
    BY <2>1 DEF Superadmins
  <2>. QED
    BY <1>0, <2>1, <2>2, <2>3, RankAside
<1>. QED
  BY <1>1, <1>2, <1>3, <1>4

LEMMA RankElse ==
  ASSUME Typed, RankHeld, NEW pcs, Turned(pcs), pcs \cap Decisive = {}, UNCHANGED <<people, crossed, lowered>>
  PROVE  RankHeld'
<1>1. Superadmins' = Superadmins
  BY DEF Superadmins
<1>2. \A d \in Calls : call[d].pc \in {"role", "deactivate"} => call[d].on \in People
  BY DEF Typed, CallsTyped, CallIs, OfPeople
<1>. QED
  BY <1>1, <1>2, RankAside

LEMMA RankSignUp ==
  ASSUME Typed, RankHeld, SignUp
  PROVE  RankHeld'
<1>1. PICK p \in People : /\ people[p] = Nobody
                          /\ people' = [people EXCEPT ![p] = [role |-> "user", active |-> TRUE]]
  BY DEF SignUp
<1>2. people \in [People -> Person]
      /\ \A d \in Calls : call[d].pc \in {"role", "deactivate"} => call[d].on \in People
  BY DEF Typed, TypeOK, CallsTyped, CallIs, OfPeople
<1>3. p \notin Superadmins /\ people'[p].role # "superadmin"
      /\ \A q \in People : q # p => people'[q] = people[q]
  BY <1>1, <1>2 DEF Superadmins, Nobody
<1>4. Superadmins \subseteq Superadmins' /\ \A q \in People : people'[q].role = "superadmin" => people[q].role = "superadmin"
  BY <1>3 DEF Superadmins
<1>5. Turned({}) /\ UNCHANGED <<crossed, lowered>>
  BY DEF SignUp, Turned
<1>. QED
  BY <1>2, <1>4, <1>5, RankAside

\* What is under way for a person stays so, unless another call is about them.
LEMMA SignedOutAside ==
  ASSUME SignedOutHeld, NEW pcs, Turned(pcs), pcs \cap {"sign_in", "accept"} = {},
         UNCHANGED <<people, live>>, raced \subseteq raced'
  PROVE  SignedOutHeld'
<1>1. \A c \in Calls : call'[c] = call[c] \/ call'[c].pc \notin {"sign_in", "accept"}
  BY DEF Turned
<1>2. SuspendedSignedOut'
  BY DEF SignedOutHeld, SuspendedSignedOut
<1>. QED
  BY <1>1, <1>2 DEF SignedOutHeld

LEMMA SignedOutBegins ==
  ASSUME Typed, SignedOutHeld, NEW c \in Calls, NEW k, Begin(c, k),
         k.pc = "sign_in" => people[k.on].active,
         k.pc = "accept" => k.about = {k.arg} /\ (k.view = Nobody \/ people[k.arg].active)
  PROVE  SignedOutHeld'
<1>1. call' = [d \in Calls |-> IF d = c THEN k ELSE call[d]]
  BY DEF Typed, CallsTyped, Begin
<1>2. UNCHANGED <<people, live>> /\ raced \subseteq raced'
  BY DEF Begin
<1>3. SuspendedSignedOut'
  BY <1>2 DEF SignedOutHeld, SuspendedSignedOut
<1>. QED
  BY <1>1, <1>2, <1>3 DEF SignedOutHeld

LEMMA SignedOutDone ==
  ASSUME Typed, InvitesHeld, SignedOutHeld, NEW c \in Calls, Finish(c), call[c].pc \in Access, raced' = raced,
         \A p \in People \ raced : ~people'[p].active => ~live'[p],
         \A p \in People : people[p].active => people'[p].active \/ p \in call[c].about
  PROVE  SignedOutHeld'
<1>1. call' = [d \in Calls |-> IF d = c THEN Over ELSE call[d]]
  BY DEF Typed, CallsTyped, Finish
<1>2. Over.pc \notin {"sign_in", "accept"}
  BY OverIs
<1>3. \A d \in Calls : CallIs(call[d])
  BY DEF Typed, CallsTyped
<1>4. ASSUME NEW d \in Calls, d # c, NEW p \in People, call[d].pc \in Access, call[d].about = {p},
             people[p].active \/ p \in raced
      PROVE  people'[p].active \/ p \in raced
  BY <1>4 DEF InvitesHeld, Apart
<1>5. ASSUME NEW d \in Calls, d # c, call[d].pc = "sign_in"
      PROVE  people'[call[d].on].active \/ call[d].on \in raced
  <2>1. call[d].on \in People /\ call[d].about = {call[d].on} /\ call[d].pc \in Access
    BY <1>3, <1>5 DEF CallIs, OfPeople, Access
  <2>2. people[call[d].on].active \/ call[d].on \in raced
    BY <1>5 DEF SignedOutHeld
  <2>. QED
    BY <1>4, <1>5, <2>1, <2>2
<1>6. ASSUME NEW d \in Calls, d # c, call[d].pc = "accept", call[d].view # Nobody
      PROVE  people'[call[d].arg].active \/ call[d].arg \in raced
  <2>1. call[d].arg \in People /\ call[d].pc \in Access
    BY <1>3, <1>6 DEF CallIs, OfInvite, Access
  <2>2. call[d].about = {call[d].arg} /\ (people[call[d].arg].active \/ call[d].arg \in raced)
    BY <1>6 DEF SignedOutHeld
  <2>. QED
    BY <1>4, <1>6, <2>1, <2>2
<1>7. \A d \in Calls : d # c /\ call[d].pc = "accept" => call[d].about = {call[d].arg}
  BY DEF SignedOutHeld
<1>8. SuspendedSignedOut'
  BY DEF SuspendedSignedOut
<1>. QED
  BY <1>1, <1>2, <1>5, <1>6, <1>7, <1>8 DEF SignedOutHeld

LEMMA SignedOutMove ==
  ASSUME Typed, SignedOutHeld, NEW c \in Calls, call[c].pc = "idle",
         \/ ChangeRole(c) \/ Deactivate(c) \/ Restore(c) \/ CreateInvitation(c)
         \/ RevokeInvitation(c) \/ ResendInvitation(c) \/ AcceptInvitation(c)
         \/ ListInvitations(c) \/ SignIn(c)
  PROVE  SignedOutHeld'
<1>1. CASE SignIn(c)
  <2>1. PICK p \in People : people[p].active /\ Begin(c, Call("sign_in", {p}, p, people[p], None))
    BY <1>1 DEF SignIn, About
  <2> DEFINE k == Call("sign_in", {p}, p, people[p], None)
  <2>2. k.pc = "sign_in" /\ k.on = p /\ Begin(c, k)
    BY <2>1, CallFields
  <2>. HIDE DEF k
  <2>. QED
    BY <2>1, <2>2, SignedOutBegins
<1>2. CASE AcceptInvitation(c)
  <2>1. PICK i \in Made : LET p == invites[i].to IN
          /\ people[p] = Nobody \/ people[p].active
          /\ Begin(c, Call("accept", {p}, i, people[p], p))
    BY <1>2 DEF AcceptInvitation
  <2> DEFINE p == invites[i].to
             k == Call("accept", {p}, i, people[p], p)
  <2>2. k.pc = "accept" /\ k.about = {p} /\ k.arg = p /\ k.view = people[p] /\ Begin(c, k)
    BY <2>1, CallFields
  <2>. HIDE DEF k
  <2>. QED
    BY <2>1, <2>2, SignedOutBegins
<1>3. CASE ChangeRole(c) \/ Deactivate(c) \/ Restore(c) \/ CreateInvitation(c) \/ RevokeInvitation(c)
           \/ ResendInvitation(c) \/ ListInvitations(c)
  <2> DEFINE Rest == {"role", "deactivate", "restore", "invite", "revoke", "resend", "expire"}
  <2>1. \E about, on, view, arg : \E pc \in Rest : Begin(c, Call(pc, about, on, view, arg))
    BY <1>3 DEF ChangeRole, Deactivate, Restore, CreateInvitation, RevokeInvitation, ResendInvitation,
                ListInvitations, About, OnInvite
  <2>2. \A about, on, view, arg : \A pc \in Rest : Call(pc, about, on, view, arg).pc \in Rest
    BY CallFields
  <2>3. PICK k : Begin(c, k) /\ k.pc \in Rest
    BY <2>1, <2>2
  <2>. QED
    BY <2>3, SignedOutBegins
<1>. QED
  BY <1>1, <1>2, <1>3

LEMMA SignedOutCommit ==
  ASSUME Typed, InvitesHeld, SignedOutHeld, NEW c \in Calls,
         \/ CommitRole(c) \/ CommitDeactivation(c) \/ CommitRestore(c) \/ CommitInvitation(c)
         \/ CommitRevocation(c) \/ CommitResend(c) \/ CommitAcceptance(c) \/ RefuseAcceptance(c)
         \/ CommitExpiry(c) \/ CommitSession(c)
  PROVE  SignedOutHeld'
<1>0. /\ CallIs(call[c]) /\ people \in [People -> Person] /\ live \in [People -> BOOLEAN]
      /\ \A p \in People \ raced : ~people[p].active => ~live[p]
  BY DEF Typed, TypeOK, CallsTyped, SignedOutHeld, SuspendedSignedOut
<1>1. Finish(c) /\ raced' = raced /\ call[c].pc \in Access
  BY DEF CommitRole, CommitDeactivation, CommitRestore, CommitInvitation, CommitRevocation, CommitResend,
         CommitAcceptance, RefuseAcceptance, CommitExpiry, CommitSession, Doing, adminVars, Access, OfPeople, OfInvite
<1>2. SUFFICES /\ \A p \in People \ raced : ~people'[p].active => ~live'[p]
               /\ \A p \in People : people[p].active => people'[p].active \/ p \in call[c].about
  BY <1>1, SignedOutDone
<1>3. \A v \in Person : /\ \A r : [v EXCEPT !.role = r].active = v.active
                        /\ \A b : [v EXCEPT !.active = b].active = b
  BY DEF Person
<1>4. CASE CommitRole(c)
  <2>1. call[c].on \in People /\ people' = [people EXCEPT ![call[c].on].role = call[c].arg]
        /\ live' = [live EXCEPT ![call[c].on] = FALSE]
    BY <1>0, <1>4 DEF CommitRole, Doing, CallIs, OfPeople
  <2>2. \A p \in People : people'[p].active = people[p].active
    BY <1>0, <1>3, <2>1
  <2>. QED
    BY <1>0, <2>1, <2>2
<1>5. CASE CommitDeactivation(c)
  <2>1. /\ call[c].on \in People /\ call[c].about = {call[c].on}
        /\ people' = [people EXCEPT ![call[c].on].active = FALSE]
        /\ live' = [live EXCEPT ![call[c].on] = FALSE]
    BY <1>0, <1>5 DEF CommitDeactivation, Doing, CallIs, OfPeople
  <2>2. \A p \in People : p # call[c].on => people'[p] = people[p] /\ live'[p] = live[p]
    BY <1>0, <2>1
  <2>3. ~live'[call[c].on]
    BY <1>0, <2>1
  <2>. QED
    BY <1>0, <2>1, <2>2, <2>3
<1>6. CASE CommitRestore(c)
  <2>1. call[c].on \in People /\ people' = [people EXCEPT ![call[c].on].active = TRUE] /\ live' = live
    BY <1>0, <1>6 DEF CommitRestore, Doing, CallIs, OfPeople
  <2>2. \A p \in People : p # call[c].on => people'[p] = people[p]
    BY <1>0, <2>1
  <2>3. people'[call[c].on] = [people[call[c].on] EXCEPT !.active = TRUE]
    BY <1>0, <2>1
  <2>4. people'[call[c].on].active
    BY <1>0, <2>1, <2>3 DEF Person
  <2>. QED
    BY <1>0, <2>1, <2>2, <2>4
<1>7. CASE CommitAcceptance(c)
  <2> DEFINE q == call[c].arg
  <2>1. /\ q \in People /\ call[c].about = {q}
        /\ call[c].view = Nobody \/ people[q].active \/ q \in raced
        /\ people' = [people EXCEPT ![q] = Taken(call[c].view, q, invites[call[c].on].role)]
        /\ live' = [live EXCEPT ![q] = TRUE]
    BY <1>0, <1>7 DEF CommitAcceptance, Doing, CallIs, SignedOutHeld
  <2>2. \A p \in People : p # q => people'[p] = people[p] /\ live'[p] = live[p]
    BY <1>0, <2>1
  <2>3. people'[q].active \/ q \in raced
    <3>1. CASE call[c].view = Nobody
      BY <1>0, <2>1, <3>1 DEF Taken
    <3>2. CASE call[c].view # Nobody
      <4>1. PICK r : people'[q] = [people[q] EXCEPT !.role = r]
        BY <1>0, <2>1, <3>2 DEF Taken
      <4>2. people[q] \in Person
        BY <1>0, <2>1
      <4>3. [people[q] EXCEPT !.role = r].active = people[q].active
        BY <1>3, <4>2
      <4>4. people[q].active \/ q \in raced
        BY <2>1, <3>2
      <4>. QED
        BY <4>1, <4>3, <4>4
    <3>. QED
      BY <3>1, <3>2
  <2>. QED
    BY <1>0, <2>1, <2>2, <2>3
<1>8. CASE CommitSession(c)
  <2>1. /\ call[c].on \in People /\ people' = people
        /\ people[call[c].on].active \/ call[c].on \in raced
        /\ live' = [live EXCEPT ![call[c].on] = TRUE]
    BY <1>0, <1>8 DEF CommitSession, Doing, CallIs, OfPeople, SignedOutHeld
  <2>. QED
    BY <1>0, <2>1
<1>9. CASE CommitInvitation(c) \/ CommitRevocation(c) \/ CommitResend(c) \/ RefuseAcceptance(c) \/ CommitExpiry(c)
  <2>1. UNCHANGED <<people, live>>
    BY <1>9 DEF CommitInvitation, CommitRevocation, CommitResend, RefuseAcceptance, CommitExpiry, adminVars
  <2>. QED
    BY <1>0, <2>1
<1>. QED
  BY <1>4, <1>5, <1>6, <1>7, <1>8, <1>9

LEMMA SignedOutSignUp ==
  ASSUME Typed, SignedOutHeld, SignUp
  PROVE  SignedOutHeld'
<1>1. PICK p \in People : people' = [people EXCEPT ![p] = [role |-> "user", active |-> TRUE]]
  BY DEF SignUp
<1>2. UNCHANGED <<live, call, raced>> /\ people \in [People -> Person]
  BY DEF SignUp, Typed, TypeOK
<1>3. \A q \in People : people[q].active => people'[q].active
  BY <1>1, <1>2
<1>4. \A c \in Calls : /\ call[c].pc = "sign_in" => call[c].on \in People
                       /\ call[c].pc = "accept" => call[c].arg \in People
  BY DEF Typed, CallsTyped, CallIs, OfPeople
<1>5. SuspendedSignedOut'
  BY <1>2, <1>3 DEF SignedOutHeld, SuspendedSignedOut
<1>. QED
  BY <1>2, <1>3, <1>4, <1>5 DEF SignedOutHeld

\* No invitation opens again, and none is made.
LEMMA InvitedAside ==
  ASSUME Typed, InvitedOnce, NEW pcs, Turned(pcs), "invite" \notin pcs, raced \subseteq raced',
         \A i \in Made' : i \in Made /\ invites'[i].to = invites[i].to,
         \A i \in Made : invites'[i].status = "pending" => invites[i].status = "pending"
  PROVE  InvitedOnce'
<1>1. \A c \in Calls : call'[c] = call[c] \/ call'[c].pc # "invite"
  BY DEF Turned
<1>2. OneOpenInvitation'
  BY DEF InvitedOnce, OneOpenInvitation
<1>3. ASSUME NEW c \in Calls, call'[c].pc = "invite", call'[c].on \notin raced'
      PROVE  \A i \in Made' : ~(invites'[i].to = call'[c].on /\ invites'[i].status = "pending")
  <2>1. call'[c] = call[c] /\ call[c].on \notin raced
    BY <1>1, <1>3
  <2>2. \A i \in Made : ~(invites[i].to = call[c].on /\ invites[i].status = "pending")
    BY <1>3, <2>1 DEF InvitedOnce
  <2>. QED
    BY <2>1, <2>2
<1>. QED
  BY <1>2, <1>3 DEF InvitedOnce

LEMMA InvitedBegins ==
  ASSUME Typed, InvitedOnce, NEW c \in Calls, NEW k, Begin(c, k),
         k.pc = "invite" => PendingFor(k.on) = {}
  PROVE  InvitedOnce'
<1>1. call' = [d \in Calls |-> IF d = c THEN k ELSE call[d]]
  BY DEF Typed, CallsTyped, Begin
<1>2. invites' = invites /\ raced \subseteq raced' /\ Made' = Made
  BY DEF Begin, Made
<1>3. k.pc = "invite" => \A i \in Made : ~(invites[i].to = k.on /\ invites[i].status = "pending")
  BY DEF PendingFor
<1>4. OneOpenInvitation'
  BY <1>2 DEF InvitedOnce, OneOpenInvitation
<1>5. ASSUME NEW d \in Calls, call'[d].pc = "invite", call'[d].on \notin raced'
      PROVE  \A i \in Made' : ~(invites'[i].to = call'[d].on /\ invites'[i].status = "pending")
  BY <1>1, <1>2, <1>3, <1>5 DEF InvitedOnce
<1>. QED
  BY <1>4, <1>5 DEF InvitedOnce

LEMMA InvitedMove ==
  ASSUME Typed, InvitedOnce, NEW c \in Calls, call[c].pc = "idle",
         \/ ChangeRole(c) \/ Deactivate(c) \/ Restore(c) \/ CreateInvitation(c)
         \/ RevokeInvitation(c) \/ ResendInvitation(c) \/ AcceptInvitation(c)
         \/ ListInvitations(c) \/ SignIn(c)
  PROVE  InvitedOnce'
<1>1. CASE CreateInvitation(c)
  <2>1. PICK p \in People, r \in Staff : PendingFor(p) = {} /\ Begin(c, Call("invite", {p}, p, people[p], r))
    BY <1>1 DEF CreateInvitation, About
  <2> DEFINE k == Call("invite", {p}, p, people[p], r)
  <2>2. k.on = p /\ Begin(c, k)
    BY <2>1, CallFields
  <2>. HIDE DEF k
  <2>. QED
    BY <2>1, <2>2, InvitedBegins
<1>2. CASE ChangeRole(c) \/ Deactivate(c) \/ Restore(c) \/ RevokeInvitation(c) \/ ResendInvitation(c)
           \/ AcceptInvitation(c) \/ ListInvitations(c) \/ SignIn(c)
  <2> DEFINE Rest == {"role", "deactivate", "restore", "revoke", "resend", "accept", "expire", "sign_in"}
  <2>1. \E about, on, view, arg : \E pc \in Rest : Begin(c, Call(pc, about, on, view, arg))
    BY <1>2 DEF ChangeRole, Deactivate, Restore, RevokeInvitation, ResendInvitation, AcceptInvitation,
                ListInvitations, SignIn, About, OnInvite
  <2>2. \A about, on, view, arg : \A pc \in Rest : Call(pc, about, on, view, arg).pc \in Rest
    BY CallFields
  <2>3. PICK k : Begin(c, k) /\ k.pc \in Rest
    BY <2>1, <2>2
  <2>. QED
    BY <2>3, InvitedBegins
<1>. QED
  BY <1>1, <1>2

LEMMA InvitedCommit ==
  ASSUME Typed, InvitesHeld, InvitedOnce, NEW c \in Calls,
         \/ CommitRole(c) \/ CommitDeactivation(c) \/ CommitRestore(c) \/ CommitInvitation(c)
         \/ CommitRevocation(c) \/ CommitResend(c) \/ CommitAcceptance(c) \/ RefuseAcceptance(c)
         \/ CommitExpiry(c) \/ CommitSession(c)
  PROVE  InvitedOnce'
<1>0. /\ CallsTyped /\ CallIs(call[c]) /\ invites \in [Invites -> Invite]
  BY DEF Typed, TypeOK, CallsTyped
<1>1. Finish(c) /\ raced' = raced /\ call[c].pc \in Access
  BY DEF CommitRole, CommitDeactivation, CommitRestore, CommitInvitation, CommitRevocation, CommitResend,
         CommitAcceptance, RefuseAcceptance, CommitExpiry, CommitSession, Doing, adminVars, Access, OfPeople, OfInvite
<1>2. Turned({"done"})
  BY <1>0, <1>1, FinishTurned
<1>3. CASE CommitInvitation(c)
  <2> DEFINE p == call[c].on
  <2>1. PICK n \in Invites \ Made : invites' = [invites EXCEPT ![n] = [NoInvite EXCEPT !.to = p, !.role = call[c].arg]]
    BY <1>3 DEF CommitInvitation
  <2>2. invites'[n].to = p /\ \A i \in Invites : i # n => invites'[i] = invites[i]
    BY <1>0, <2>1 DEF NoInvite
  <2>3. /\ call[c].pc = "invite" /\ p \in People /\ call[c].about = {p}
        /\ \A i \in Made : p \notin raced => ~(invites[i].to = p /\ invites[i].status = "pending")
    BY <1>0, <1>3 DEF CommitInvitation, Doing, CallIs, OfPeople, InvitedOnce
  <2>4. \A i \in Made' : i = n \/ (i \in Made /\ i # n)
    BY <2>2 DEF Made
  <2>5. OneOpenInvitation'
    <3> SUFFICES ASSUME NEW i \in Made', NEW j \in Made',
                        invites'[i].to = invites'[j].to, invites'[i].to \notin raced,
                        invites'[i].status = "pending", invites'[j].status = "pending"
                 PROVE  i = j
      BY <1>1 DEF OneOpenInvitation
    <3>1. CASE i # n /\ j # n
      BY <2>2, <2>4, <3>1 DEF InvitedOnce, OneOpenInvitation, Made
    <3>2. CASE i = n /\ j # n
      BY <2>2, <2>3, <2>4, <3>2 DEF Made
    <3>3. CASE i # n /\ j = n
      BY <2>2, <2>3, <2>4, <3>3 DEF Made
    <3>. QED
      BY <3>1, <3>2, <3>3
  <2>6. ASSUME NEW d \in Calls, call'[d].pc = "invite", call'[d].on \notin raced'
        PROVE  \A i \in Made' : ~(invites'[i].to = call'[d].on /\ invites'[i].status = "pending")
    <3>1. d # c /\ call'[d] = call[d] /\ call[d].on \notin raced
      <4>1. call' = [e \in Calls |-> IF e = c THEN Over ELSE call[e]]
        BY <1>0, <1>1 DEF CallsTyped, Finish
      <4>. QED
        BY <1>1, <2>6, <4>1, OverIs
    <3>2. call[d].pc = "invite" /\ call[d].about = {call[d].on} /\ {call[c].pc, call[d].pc} \subseteq Access
      BY <1>0, <2>3, <2>6, <3>1 DEF CallsTyped, CallIs, OfPeople, Access
    <3>3. call[d].on # p
      BY <2>3, <3>1, <3>2 DEF InvitesHeld, Apart
    <3>4. \A i \in Made : ~(invites[i].to = call[d].on /\ invites[i].status = "pending")
      BY <3>1, <3>2 DEF InvitedOnce
    <3>. QED
      BY <2>2, <2>4, <3>1, <3>3, <3>4 DEF Made
  <2>. QED
    BY <2>5, <2>6 DEF InvitedOnce
<1>4. CASE CommitRevocation(c) \/ CommitResend(c) \/ CommitAcceptance(c) \/ CommitExpiry(c)
  <2>1. \A v \in Invite : /\ \A t : [v EXCEPT !.status = t].to = v.to /\ [v EXCEPT !.status = t].status = t
                          /\ \A b : [v EXCEPT !.lapsed = b].to = v.to /\ [v EXCEPT !.lapsed = b].status = v.status
    BY DEF Invite
  <2>2. \A i \in Invites : \/ invites'[i] = invites[i]
                           \/ \E t \in {"revoked", "accepted", "expired"} : invites'[i] = [invites[i] EXCEPT !.status = t]
                           \/ invites'[i] = [invites[i] EXCEPT !.lapsed = FALSE]
    <3>1. CASE CommitRevocation(c)
      BY <1>0, <3>1 DEF CommitRevocation
    <3>2. CASE CommitResend(c)
      BY <1>0, <3>2 DEF CommitResend
    <3>3. CASE CommitAcceptance(c)
      BY <1>0, <3>3 DEF CommitAcceptance
    <3>4. CASE CommitExpiry(c)
      BY <1>0, <3>4 DEF CommitExpiry
    <3>. QED
      BY <1>4, <3>1, <3>2, <3>3, <3>4
  <2>3. ASSUME NEW i \in Invites
        PROVE  /\ invites'[i].to = invites[i].to
               /\ invites'[i].status = "pending" => invites[i].status = "pending"
    <3>1. invites[i] \in Invite
      BY <1>0
    <3>2. CASE \E t \in {"revoked", "accepted", "expired"} : invites'[i] = [invites[i] EXCEPT !.status = t]
      BY <2>1, <3>1, <3>2
    <3>3. CASE invites'[i] = [invites[i] EXCEPT !.lapsed = FALSE]
      BY <2>1, <3>1, <3>3
    <3>. QED
      BY <2>2, <3>2, <3>3
  <2>. QED
    BY <1>1, <1>2, <2>3, InvitedAside DEF Made
<1>5. CASE CommitRole(c) \/ CommitDeactivation(c) \/ CommitRestore(c) \/ RefuseAcceptance(c) \/ CommitSession(c)
  <2>1. invites' = invites
    BY <1>5 DEF CommitRole, CommitDeactivation, CommitRestore, RefuseAcceptance, CommitSession, adminVars
  <2>. QED
    BY <1>1, <1>2, <2>1, InvitedAside DEF Made
<1>. QED
  BY <1>3, <1>4, <1>5

LEMMA InvitedLapse ==
  ASSUME Typed, InvitedOnce, Lapse
  PROVE  InvitedOnce'
<1>1. PICK i \in Made : invites' = [invites EXCEPT ![i].lapsed = TRUE]
  BY DEF Lapse
<1>2. \A v \in Invite : [v EXCEPT !.lapsed = TRUE].to = v.to /\ [v EXCEPT !.lapsed = TRUE].status = v.status
  BY DEF Invite
<1>3. invites \in [Invites -> Invite] /\ raced' = raced /\ Turned({})
  BY DEF Typed, TypeOK, Lapse, Turned
<1>4. \A j \in Invites : invites'[j].to = invites[j].to /\ invites'[j].status = invites[j].status
  BY <1>1, <1>2, <1>3
<1>. QED
  BY <1>3, <1>4, InvitedAside DEF Made

LEMMA AccessElse ==
  ASSUME Typed, AccessHeld, NEW pcs, Turned(pcs), pcs \cap Access = {}, UNCHANGED adminVars
  PROVE  AccessHeld'
<1>1. /\ pcs \cap Decisive = {} /\ pcs \cap {"sign_in", "accept"} = {} /\ "invite" \notin pcs
  BY DEF Access, OfPeople, OfInvite, Decisive
<1>2. UNCHANGED <<people, live, invites, raced, crossed, lowered>>
  BY DEF adminVars
<1>3. RankHeld'
  BY <1>1, <1>2, RankElse DEF AccessHeld
<1>4. SignedOutHeld'
  BY <1>1, <1>2, SignedOutAside DEF AccessHeld
<1>5. InvitedOnce'
  BY <1>1, <1>2, InvitedAside DEF AccessHeld, Made
<1>. QED
  BY <1>3, <1>4, <1>5 DEF AccessHeld

LEMMA AccessNext ==
  ASSUME Typed, InvitesHeld, AccessHeld, Next
  PROVE  AccessHeld'
<1>1. ASSUME NEW c \in Calls, call[c].pc = "idle",
             \/ ChangeRole(c) \/ Deactivate(c) \/ Restore(c) \/ CreateInvitation(c)
             \/ RevokeInvitation(c) \/ ResendInvitation(c) \/ AcceptInvitation(c)
             \/ ListInvitations(c) \/ SignIn(c)
      PROVE  AccessHeld'
  BY <1>1, RankMove, SignedOutMove, InvitedMove DEF AccessHeld
<1>2. ASSUME NEW c \in Calls,
             \/ CommitRole(c) \/ CommitDeactivation(c) \/ CommitRestore(c) \/ CommitInvitation(c)
             \/ CommitRevocation(c) \/ CommitResend(c) \/ CommitAcceptance(c) \/ RefuseAcceptance(c)
             \/ CommitExpiry(c) \/ CommitSession(c)
      PROVE  AccessHeld'
  BY <1>2, RankCommit, SignedOutCommit, InvitedCommit DEF AccessHeld
<1>3. CASE Lapse
  <2>1. Turned({}) /\ UNCHANGED <<people, live, raced, crossed, lowered>>
    BY <1>3 DEF Lapse, Turned
  <2>2. RankHeld' /\ SignedOutHeld'
    BY <2>1, RankElse, SignedOutAside DEF AccessHeld
  <2>. QED
    BY <1>3, <2>2, InvitedLapse DEF AccessHeld
<1>4. CASE SignUp
  <2>1. Turned({}) /\ UNCHANGED <<invites, raced>>
    BY <1>4 DEF SignUp, Turned
  <2>2. InvitedOnce'
    BY <2>1, InvitedAside DEF AccessHeld, Made
  <2>. QED
    BY <1>4, <2>2, RankSignUp, SignedOutSignUp DEF AccessHeld
<1>5. CASE AdminNext
  BY <1>1, <1>2, <1>3, <1>4, <1>5 DEF AdminNext, Turn
<1>6. CASE SafetyNext \/ IncidentNext
  <2>1. Looking \cap Access = {}
    BY DEF Looking, Access, OfPeople, OfInvite, OfCase
  <2>. QED
    BY <1>6, <2>1, SafetyAside, AccessElse
<1>7. CASE NoticesNext \/ MailHandled \/ \E c \in Calls : Crash(c) /\ UNCHANGED safetyVars
  <2>1. Noticing \cap Access = {}
    BY DEF Noticing, Access, OfPeople, OfInvite
  <2>. QED
    BY <1>7, <2>1, NoticesAside, AccessElse
<1>. QED
  BY <1>5, <1>6, <1>7 DEF Next

-----------------------------------------------------------------------------
(* Signals.  A signal is at an investigation of its subject, and one that is  *)
(* active at a closed investigation was found by a later one.                 *)
Filed(g, s, cs) == g = NoSignal \/ (g.status # "none" /\ g.case \in Cases /\ cs[g.case].subject = s)
Later(s, n, cs) == \E m \in Cases : m > n /\ cs[m].subject = s
Numbered == \A m \in Opened, n \in Cases \ Opened : m < n
SignalsFiled ==
  \A s \in Subjects :
    /\ Filed(signals[s], s, cases)
    /\ signals[s].status = "active" /\ signals[s].case \in ClosedCases => Later(s, signals[s].case, cases)
\* What a call has read of a signal: where it is does not change, and it becomes active by a later investigation.
ViewFollows(k) ==
  /\ k.pc = "investigate" =>
       /\ Filed(k.view.signal, k.on, cases)
       /\ k.view.signal # NoSignal => signals[k.on].case = k.view.signal.case
  /\ k.pc = "close" =>
       LET s == cases[k.on].subject IN
       /\ s \in Subjects
       /\ signals[s].case = k.on <=> k.view.signal.case = k.on
       /\ signals[s].case = k.on /\ signals[s].status = "active" =>
            k.view.signal.status = "active" \/ Later(s, k.on, cases)
SignalsHeld == Numbered /\ SignalsFiled /\ \A c \in Calls : ViewFollows(call[c])

LEMMA NoSignalIs == NoSignal.status = "none" /\ NoSignal.case = None /\ None \notin Cases
BY SubjectsAssumption DEF NoSignal

LEMMA OpenedIs ==
  ASSUME Typed
  PROVE  \A n \in Cases : n \in Opened <=> cases[n].subject \in Subjects
BY SubjectsAssumption DEF Typed, TypeOK, Opened, Case

LEMMA ViewsAside ==
  ASSUME NEW k, k.pc \notin {"investigate", "close"}
  PROVE  ViewFollows(k) /\ ViewFollows(k)'
BY DEF ViewFollows

\* No signal changes, and no investigation is opened or closed.
LEMMA SignalsAside ==
  ASSUME Typed, SignalsHeld, NEW pcs, Turned(pcs), pcs \cap {"investigate", "close"} = {},
         signals' = signals, \A n \in Cases : cases'[n].subject = cases[n].subject,
         ClosedCases' \subseteq ClosedCases
  PROVE  SignalsHeld'
<1>1. Opened' = Opened
  BY DEF Opened
<1>2. \A g, s : Filed(g, s, cases) = Filed(g, s, cases')
  BY DEF Filed
<1>3. \A s, n : Later(s, n, cases) => Later(s, n, cases')
  BY DEF Later
<1>4. Numbered'
  BY <1>1 DEF SignalsHeld, Numbered
<1>5. SignalsFiled'
  BY <1>2, <1>3 DEF SignalsHeld, SignalsFiled
<1>6. ASSUME NEW c \in Calls PROVE ViewFollows(call[c])'
  <2>1. CASE call'[c] = call[c]
    <3>1. call[c].pc = "close" => call[c].on \in Cases
      BY DEF Typed, CallsTyped, CallIs, OfCase
    <3>2. ViewFollows(call[c])
      BY DEF SignalsHeld
    <3>. QED
      BY <1>2, <1>3, <2>1, <3>1, <3>2 DEF ViewFollows
  <2>2. CASE call'[c].pc \in pcs
    <3>1. call'[c].pc \notin {"investigate", "close"}
      BY <2>2
    <3>. QED
      BY <3>1 DEF ViewFollows
  <2>. QED
    BY <2>1, <2>2 DEF Turned
<1>. QED
  BY <1>4, <1>5, <1>6 DEF SignalsHeld

LEMMA SignalsBegins ==
  ASSUME Typed, SignalsHeld, NEW c \in Calls, NEW k, On(c, k), CallIs(k),
         k.pc = "investigate" => k.view.signal = signals[k.on],
         k.pc = "close" => k.on \in Opened /\ k.view.signal = signals[cases[k.on].subject]
  PROVE  SignalsHeld'
<1>1. call' = [d \in Calls |-> IF d = c THEN k ELSE call[d]]
  BY DEF Typed, CallsTyped, On
<1>2. UNCHANGED <<cases, signals>>
  BY DEF On
<1>3. Numbered' /\ SignalsFiled'
  BY <1>2 DEF SignalsHeld, Numbered, SignalsFiled, Opened, ClosedCases
<1>4. ViewFollows(k)
  <2>1. k.pc = "investigate" => k.on \in Subjects /\ Filed(signals[k.on], k.on, cases)
    BY DEF CallIs, SignalsHeld, SignalsFiled
  <2>2. k.pc = "close" => cases[k.on].subject \in Subjects
    BY OpenedIs DEF Opened
  <2>. QED
    BY <2>1, <2>2 DEF ViewFollows
<1>5. \A d \in Calls : ViewFollows(call'[d])
  BY <1>1, <1>4 DEF SignalsHeld
<1>6. \A d \in Calls : ViewFollows(call[d])'
  BY <1>2, <1>5 DEF ViewFollows
<1>. QED
  BY <1>3, <1>6 DEF SignalsHeld

\* What opening an investigation makes of a signal that was read before.
LEMMA RefreshedIs ==
  ASSUME NEW s \in Subjects, NEW v, NEW n, Filed(signals[s], s, cases), Filed(v.signal, s, cases),
         v.signal # NoSignal => signals[s].case = v.signal.case,
         Found(v) /\ v.signal = NoSignal => signals[s] = NoSignal
  PROVE  LET g == Refreshed(signals[s], v, n) IN
         \/ signals[s] = NoSignal /\ g = NoSignal
         \/ signals[s] = NoSignal /\ g.status # "none" /\ g.case = n
         \/ signals[s] # NoSignal /\ g.status # "none" /\ g.case = signals[s].case
<1> DEFINE row == signals[s]
           g == Refreshed(row, v, n)
<1>1. g.status = IF Found(v) /\ v.signal.status # "active" THEN "active"
                 ELSE IF ~Found(v) /\ v.signal.status = "active" THEN "resolved" ELSE row.status
  BY DEF Refreshed
<1>2. g.case = IF Found(v) /\ v.signal.case = None THEN n ELSE row.case
  BY DEF Refreshed
<1>3. g = [status |-> g.status, case |-> g.case]
  BY DEF Refreshed
<1>4. CASE v.signal = NoSignal /\ Found(v)
  BY <1>1, <1>2, <1>4, NoSignalIs
<1>5. CASE v.signal = NoSignal /\ ~Found(v)
  <2>1. g.status = row.status /\ g.case = row.case
    BY <1>1, <1>2, <1>5, NoSignalIs
  <2>2. CASE row = NoSignal
    BY <1>3, <2>1, <2>2 DEF NoSignal
  <2>3. CASE row # NoSignal
    BY <2>1, <2>3 DEF Filed
  <2>. QED
    BY <2>2, <2>3
<1>6. CASE v.signal # NoSignal
  <2>1. v.signal.case \in Cases /\ row.case = v.signal.case /\ row # NoSignal /\ row.status # "none"
    BY <1>6, NoSignalIs DEF Filed
  <2>2. g.case = row.case
    BY <1>2, <2>1, NoSignalIs
  <2>3. g.status # "none"
    BY <1>1, <2>1
  <2>. QED
    BY <2>1, <2>2, <2>3
<1>. QED
  BY <1>4, <1>5, <1>6

LEMMA SignalsInvestigate ==
  ASSUME Typed, SignalsHeld, NEW c \in Calls, CommitInvestigation(c)
  PROVE  SignalsHeld'
<1> DEFINE k == call[c]
           s == k.on
<1>1. /\ CallIs(k) /\ signals \in [Subjects -> Signal] /\ cases \in [Cases -> Case]
      /\ ViewFollows(k) /\ SignalsFiled /\ Numbered
  BY DEF Typed, TypeOK, CallsTyped, SignalsHeld
<1>2. k.pc = "investigate" /\ ~Twice(k) /\ Finish(c) /\ s \in Subjects
  BY <1>1 DEF CommitInvestigation, Done, CallIs
<1>3. PICK n \in Cases \ Opened :
        /\ \A m \in Cases \ Opened : n <= m
        /\ signals' = [signals EXCEPT ![s] = Refreshed(signals[s], k.view, n)]
        /\ cases' = [cases EXCEPT ![n] = [NoCase EXCEPT !.subject = s, !.manual = TRUE]]
  BY DEF CommitInvestigation
<1>4. /\ cases'[n].subject = s /\ cases'[n].status = "open"
      /\ \A m \in Cases : m # n => cases'[m] = cases[m]
  BY <1>1, <1>3 DEF NoCase
<1>5. Opened' = Opened \cup {n} /\ n \notin ClosedCases'
  BY <1>2, <1>3, <1>4, SubjectsAssumption DEF Opened, ClosedCases, Closing
<1>6. \A m \in Opened : m \in Cases /\ m < n /\ m # n
  BY <1>1, <1>3 DEF Numbered, Opened
<1>7. Numbered'
  <2>1. \A m \in Cases : m \in Nat
    BY SubjectsAssumption
  <2>. QED
    BY <1>1, <1>3, <1>5, <1>6, <2>1 DEF Numbered
<1>8. ~(Found(k.view) /\ k.view.signal = NoSignal /\ signals[s] # NoSignal)
  BY <1>2 DEF Twice
<1>9. LET g == signals'[s] IN
      \/ signals[s] = NoSignal /\ g = NoSignal
      \/ signals[s] = NoSignal /\ g.status # "none" /\ g.case = n
      \/ signals[s] # NoSignal /\ g.status # "none" /\ g.case = signals[s].case
  <2>1. signals'[s] = Refreshed(signals[s], k.view, n)
    BY <1>1, <1>2, <1>3
  <2>2. Filed(signals[s], s, cases) /\ Filed(k.view.signal, s, cases)
        /\ (k.view.signal # NoSignal => signals[s].case = k.view.signal.case)
    BY <1>1, <1>2 DEF SignalsFiled, ViewFollows
  <2>. QED
    BY <1>1, <1>2, <1>8, <2>1, <2>2, RefreshedIs
<1>10. \A t \in Subjects : t # s => signals'[t] = signals[t]
  BY <1>1, <1>3
<1>11. \A m \in Cases : cases[m].subject \in Subjects => m \in Opened /\ cases'[m] = cases[m]
  BY <1>4, <1>6, OpenedIs
<1>12. \A g : \A t \in Subjects : Filed(g, t, cases) => Filed(g, t, cases')
  BY <1>11 DEF Filed
<1>13. \A m : \A t \in Subjects : Later(t, m, cases) => Later(t, m, cases')
  BY <1>11 DEF Later
<1>14. \A m \in Opened : Later(s, m, cases')
  <2>1. \A m \in Opened : n > m
    BY <1>3, <1>6, SubjectsAssumption
  <2>. QED
    BY <1>3, <1>4, <2>1 DEF Later
<1>15. \A m \in ClosedCases' : m \in Opened /\ m \in ClosedCases
  BY <1>4, <1>5, <1>6 DEF ClosedCases
<1>16. SignalsFiled'
  <2>1. ASSUME NEW t \in Subjects, t # s
        PROVE  /\ Filed(signals'[t], t, cases')
               /\ signals'[t].status = "active" /\ signals'[t].case \in ClosedCases' => Later(t, signals'[t].case, cases')
    BY <1>1, <1>10, <1>12, <1>13, <1>15, <2>1 DEF SignalsFiled
  <2>2. Filed(signals'[s], s, cases')
    <3>1. Filed(signals[s], s, cases')
      BY <1>1, <1>2, <1>12 DEF SignalsFiled
    <3>. QED
      BY <1>3, <1>4, <1>9, <3>1 DEF Filed
  <2>. QED
    BY <1>14, <1>15, <2>1, <2>2 DEF SignalsFiled
<1>17. ASSUME NEW d \in Calls PROVE ViewFollows(call[d])'
  <2>1. call'[d] = IF d = c THEN Over ELSE call[d]
    BY <1>2 DEF Typed, CallsTyped, Finish
  <2>2. CASE d = c
    <3>1. call'[d].pc = "done"
      BY <2>1, <2>2, OverIs
    <3>. QED
      BY <3>1 DEF ViewFollows
  <2>3. CASE d # c
    <3>0. call'[d] = call[d] /\ ViewFollows(call[d]) /\ CallIs(call[d])
      BY <2>1, <2>3 DEF SignalsHeld, Typed, CallsTyped
    <3> DEFINE o == call[d].on
               g == call[d].view.signal
    <3>1. CASE call[d].pc = "investigate"
      <4>1. o \in Subjects /\ Filed(g, o, cases) /\ (g # NoSignal => signals[o].case = g.case)
        BY <3>0, <3>1 DEF ViewFollows, CallIs
      <4>2. g # NoSignal => signals'[o].case = g.case
        <5>1. g # NoSignal => g.case \in Cases
          BY <4>1 DEF Filed
        <5>2. g # NoSignal => signals[o] # NoSignal
          BY <4>1, <5>1, NoSignalIs
        <5>. QED
          BY <1>9, <1>10, <4>1, <5>2
      <4>. QED
        BY <1>12, <3>0, <3>1, <4>1, <4>2 DEF ViewFollows
    <3>2. CASE call[d].pc = "close"
      <4> DEFINE t == cases[o].subject
      <4>1. /\ t \in Subjects /\ o \in Cases
            /\ signals[t].case = o <=> g.case = o
            /\ signals[t].case = o /\ signals[t].status = "active" => call[d].view.signal.status = "active" \/ Later(t, o, cases)
        BY <3>0, <3>2 DEF ViewFollows, CallIs, OfCase
      <4>2. o \in Opened /\ cases'[o].subject = t /\ o # n
        BY <1>6, <1>11, <4>1
      <4>3. signals'[t].case = o <=> g.case = o
        <5>1. CASE t # s
          BY <1>10, <4>1, <5>1
        <5>2. CASE t = s
          BY <1>9, <4>1, <4>2, <5>2, NoSignalIs
        <5>. QED
          BY <5>1, <5>2
      <4>4. signals'[t].case = o /\ signals'[t].status = "active" => call[d].view.signal.status = "active" \/ Later(t, o, cases')
        BY <1>10, <1>13, <1>14, <4>1, <4>2
      <4>. QED
        BY <3>0, <3>2, <4>1, <4>2, <4>3, <4>4 DEF ViewFollows
    <3>. QED
      BY <3>0, <3>1, <3>2 DEF ViewFollows
  <2>. QED
    BY <2>2, <2>3
<1>. QED
  BY <1>7, <1>16, <1>17 DEF SignalsHeld

LEMMA SignalsClose ==
  ASSUME Typed, SignalsHeld, NEW c \in Calls, CommitClosing(c)
  PROVE  SignalsHeld'
<1> DEFINE k == call[c]
           s == cases[k.on].subject
           shut == k.view.signal.case = k.on /\ k.view.signal.status = "active"
<1>1. /\ CallIs(k) /\ signals \in [Subjects -> Signal] /\ cases \in [Cases -> Case]
      /\ ViewFollows(k) /\ SignalsFiled /\ Numbered
  BY DEF Typed, TypeOK, CallsTyped, SignalsHeld
<1>2. k.pc = "close" /\ Finish(c) /\ k.on \in Cases
  BY <1>1 DEF CommitClosing, Done, CallIs, OfCase
<1>3. /\ cases' = [cases EXCEPT ![k.on].status = k.arg, ![k.on].manual = FALSE]
      /\ signals' = [signals EXCEPT ![s].status = IF shut THEN "resolved" ELSE @]
  BY DEF CommitClosing
<1>4. /\ s \in Subjects
      /\ signals[s].case = k.on <=> k.view.signal.case = k.on
      /\ signals[s].case = k.on /\ signals[s].status = "active" =>
            k.view.signal.status = "active" \/ Later(s, k.on, cases)
  BY <1>1, <1>2 DEF ViewFollows
<1>5. \A n \in Cases : cases'[n].subject = cases[n].subject /\ (n # k.on => cases'[n] = cases[n])
  <2>1. \A v \in Case : \A t : [v EXCEPT !.status = t, !.manual = FALSE].subject = v.subject
    BY DEF Case
  <2>2. \A n \in Cases : cases'[n] = IF n = k.on THEN [cases[n] EXCEPT !.status = k.arg, !.manual = FALSE] ELSE cases[n]
    BY <1>1, <1>3
  <2>3. cases[k.on] \in Case
    BY <1>1, <1>2
  <2>4. cases'[k.on].subject = cases[k.on].subject
    <3>1. PICK t : cases'[k.on] = [cases[k.on] EXCEPT !.status = t, !.manual = FALSE]
      BY Zenon, <1>2, <2>2
    <3>2. [cases[k.on] EXCEPT !.status = t, !.manual = FALSE].subject = cases[k.on].subject
      BY <2>1, <2>3
    <3>. QED
      BY Zenon, <3>1, <3>2
  <2>. QED
    BY Zenon, <2>2, <2>4
<1>6. /\ \A t \in Subjects : t # s => signals'[t] = signals[t]
      /\ signals'[s].case = signals[s].case
      /\ signals'[s].status = IF shut THEN "resolved" ELSE signals[s].status
      /\ ~shut => signals'[s] = signals[s]
  <2>1. \A v \in Signal : \A t : [v EXCEPT !.status = t].case = v.case /\ [v EXCEPT !.status = t].status = t
                             /\ [v EXCEPT !.status = v.status] = v
    BY DEF Signal
  <2>2. signals'[s] = [signals[s] EXCEPT !.status = IF shut THEN "resolved" ELSE signals[s].status]
    BY <1>1, <1>3, <1>4
  <2>3. signals[s] \in Signal
    BY <1>1, <1>4
  <2>4. \A t \in Subjects : t # s => signals'[t] = signals[t]
    BY <1>1, <1>3
  <2>5. CASE shut
    BY <2>1, <2>2, <2>3, <2>4, <2>5
  <2>6. CASE ~shut
    <3>1. signals'[s] = [signals[s] EXCEPT !.status = signals[s].status]
      BY <2>2, <2>6
    <3>. QED
      BY <2>1, <2>3, <2>4, <2>6, <3>1
  <2>. QED
    BY <2>5, <2>6
<1>. HIDE DEF shut
<1>7. Opened' = Opened /\ \A n \in ClosedCases' : n \in ClosedCases \/ n = k.on
  BY <1>5 DEF Opened, ClosedCases
<1>8. \A g, t : Filed(g, t, cases) <=> Filed(g, t, cases')
  BY <1>5 DEF Filed
<1>9. \A t, n : Later(t, n, cases) => Later(t, n, cases')
  BY <1>5 DEF Later
<1>10. Numbered'
  BY <1>1, <1>7 DEF Numbered
<1>11. \A t \in Subjects : Filed(signals[t], t, cases) /\ Filed(signals'[t], t, cases')
  <2>1. \A t \in Subjects : Filed(signals[t], t, cases)
    BY <1>1 DEF SignalsFiled
  <2>2. shut => signals[s] # NoSignal
    BY <1>2, <1>4, NoSignalIs DEF shut
  <2>3. Filed(signals'[s], s, cases)
    BY <1>4, <1>6, <2>1, <2>2 DEF Filed
  <2>. QED
    BY <1>6, <1>8, <2>1, <2>3
<1>12. SignalsFiled'
  <2>1. ASSUME NEW t \in Subjects, signals'[t].status = "active", signals'[t].case \in ClosedCases'
        PROVE  Later(t, signals'[t].case, cases)
    <3>1. signals[t].status = "active" /\ signals'[t].case = signals[t].case
      BY <1>6, <2>1
    <3>2. CASE signals[t].case \in ClosedCases
      BY <1>1, <3>1, <3>2 DEF SignalsFiled
    <3>3. CASE signals[t].case = k.on
      <4>1. t = s
        BY <1>11, <2>1, <3>1, <3>3, NoSignalIs DEF Filed
      <4>2. ~shut
        BY <1>6, <2>1, <4>1
      <4>. QED
        BY <1>4, <3>1, <3>3, <4>1, <4>2 DEF shut
    <3>. QED
      BY <1>7, <2>1, <3>1, <3>2, <3>3
  <2>. QED
    BY <1>9, <1>11, <2>1 DEF SignalsFiled
<1>13. \A t \in Subjects : /\ signals'[t].case = signals[t].case
                           /\ signals'[t].status = "active" => signals[t].status = "active"
  BY <1>6
<1>14. ASSUME NEW d \in Calls PROVE ViewFollows(call[d])'
  <2>1. call'[d] = IF d = c THEN Over ELSE call[d]
    BY <1>2 DEF Typed, CallsTyped, Finish
  <2>2. CASE d = c
    <3>1. call'[d].pc = "done"
      BY <2>1, <2>2, OverIs
    <3>. QED
      BY <3>1 DEF ViewFollows
  <2>3. CASE d # c
    <3>1. call'[d] = call[d] /\ ViewFollows(call[d])
      BY <2>1, <2>3 DEF SignalsHeld
    <3>2. /\ call[d].pc = "investigate" => call[d].on \in Subjects
          /\ call[d].pc = "close" => call[d].on \in Cases
      BY DEF Typed, CallsTyped, CallIs, OfCase
    <3>. QED
      BY <1>5, <1>8, <1>9, <1>13, <3>1, <3>2 DEF ViewFollows
  <2>. QED
    BY <2>2, <2>3
<1>. QED
  BY <1>10, <1>12, <1>14 DEF SignalsHeld

LEMMA SignalsNext ==
  ASSUME Typed, SignalsHeld, Next
  PROVE  SignalsHeld'
<1>0. CallsTyped /\ cases \in [Cases -> Case]
  BY DEF Typed, TypeOK
<1>1. ASSUME NEW pcs, Turned(pcs), pcs \cap {"investigate", "close"} = {}, UNCHANGED <<cases, signals>>
      PROVE  SignalsHeld'
  BY <1>1, SignalsAside DEF ClosedCases, Opened
<1>2. CASE AdminNext /\ UNCHANGED safetyVars
  BY <1>1, <1>2, AccessAside DEF safetyVars, Access, OfPeople, OfInvite
<1>3. CASE NoticesNext \/ MailHandled \/ \E c \in Calls : Crash(c) /\ UNCHANGED safetyVars
  BY <1>1, <1>3, NoticesAside DEF safetyVars, Noticing
<1>4. CASE Blemish \/ Forget
  <2>1. Turned({}) /\ UNCHANGED <<cases, signals>>
    BY <1>4 DEF Blemish, Forget, Turned
  <2>. QED
    BY <1>1, <2>1
<1>5. ASSUME NEW c \in Calls, Investigate(c) PROVE SignalsHeld'
  <2>1. PICK s \in Subjects :
          On(c, Call("investigate", {"subject"}, s, [signal |-> signals[s], repeated |-> adverse[s] = Threshold], None))
    BY <1>5 DEF Investigate
  <2> DEFINE k == Call("investigate", {"subject"}, s, [signal |-> signals[s], repeated |-> adverse[s] = Threshold], None)
  <2>2. k.pc = "investigate" /\ k.on = s /\ k.view.signal = signals[s] /\ On(c, k)
    BY <2>1, CallFields
  <2>3. CallIs(k)
    BY CallFields DEF CallIs, OfPeople, OfInvite, OfCase, Access, Typed, TypeOK
  <2>. HIDE DEF k
  <2>. QED
    BY <2>2, <2>3, SignalsBegins
<1>6. ASSUME NEW c \in Calls, ResolveOrDismiss(c) PROVE SignalsHeld'
  <2>1. PICK n \in Opened, a \in Closing :
          On(c, Call("close", {"case"}, n, [case |-> cases[n], signal |-> signals[cases[n].subject]], a))
    BY <1>6 DEF ResolveOrDismiss, OnCase
  <2> DEFINE k == Call("close", {"case"}, n, [case |-> cases[n], signal |-> signals[cases[n].subject]], a)
  <2>2. k.pc = "close" /\ k.on = n /\ k.view.signal = signals[cases[n].subject] /\ On(c, k)
    BY <2>1, CallFields
  <2>3. CallIs(k)
    BY CallFields DEF CallIs, OfPeople, OfInvite, OfCase, Access, Opened
  <2>. HIDE DEF k
  <2>. QED
    BY <2>2, <2>3, SignalsBegins
<1>7. ASSUME NEW c \in Calls, Assign(c) \/ UpdateStatus(c) \/ UpdateIncident(c) PROVE SignalsHeld'
  <2>1. \E pc \in {"assign", "move", "incident"} : \E about, on, view, arg : On(c, Call(pc, about, on, view, arg))
    BY <1>7 DEF Assign, UpdateStatus, UpdateIncident, OnCase, OnIncident
  <2>2. PICK k : On(c, k) /\ k.pc \in {"assign", "move", "incident"}
    BY <2>1, CallFields
  <2>3. Turned({"assign", "move", "incident"}) /\ UNCHANGED <<cases, signals>>
    BY <1>0, <2>2, OneTurned DEF On
  <2>. QED
    BY <1>1, <2>3
<1>8. ASSUME NEW c \in Calls, CommitAssignment(c) \/ CommitStatus(c) PROVE SignalsHeld'
  <2>1. Finish(c) /\ signals' = signals /\ CallIs(call[c])
    BY <1>0, <1>8 DEF CommitAssignment, CommitStatus, Done, CallsTyped
  <2>2. Turned({"done"})
    BY <1>0, <2>1, FinishTurned
  <2>3. \A v \in Case : \A t : /\ [v EXCEPT !.status = t].subject = v.subject /\ [v EXCEPT !.status = t].status = t
                               /\ [v EXCEPT !.assignee = t].subject = v.subject /\ [v EXCEPT !.assignee = t].status = v.status
    BY DEF Case
  <2>4. \A n \in Cases : \/ cases'[n] = cases[n]
                         \/ cases'[n] = [cases[n] EXCEPT !.assignee = call[c].arg]
                         \/ call[c].arg \in DOMAIN Moves /\ cases'[n] = [cases[n] EXCEPT !.status = call[c].arg]
    <3>1. CASE CommitAssignment(c)
      BY <1>0, <3>1 DEF CommitAssignment
    <3>2. CASE CommitStatus(c)
      <4>1. call[c].arg \in DOMAIN Moves
        BY <2>1, <3>2 DEF CommitStatus, Done, CallIs
      <4>. QED
        BY <1>0, <3>2, <4>1 DEF CommitStatus
    <3>. QED
      BY <1>8, <3>1, <3>2
  <2>5. \A t \in DOMAIN Moves : t \notin Closing
    BY DEF Moves, Closing
  <2>6. ASSUME NEW n \in Cases
        PROVE  cases'[n].subject = cases[n].subject /\ (cases'[n].status \in Closing => cases[n].status \in Closing)
    <3>1. cases[n] \in Case
      BY <1>0
    <3>2. CASE cases'[n] = [cases[n] EXCEPT !.assignee = call[c].arg]
      BY <2>3, <3>1, <3>2
    <3>3. CASE call[c].arg \in DOMAIN Moves /\ cases'[n] = [cases[n] EXCEPT !.status = call[c].arg]
      BY <2>3, <2>5, <3>1, <3>3
    <3>. QED
      BY <2>4, <3>2, <3>3
  <2>. QED
    BY <2>1, <2>2, <2>6, SignalsAside DEF ClosedCases, Opened
<1>9. ASSUME NEW c \in Calls, RefuseInvestigation(c) \/ CreateIncident(c) \/ CommitIncident(c) PROVE SignalsHeld'
  <2>1. Finish(c) /\ UNCHANGED <<cases, signals>>
    BY <1>9 DEF RefuseInvestigation, CreateIncident, CommitIncident, Done, safetyVars
  <2>2. Turned({"done"})
    BY <1>0, <2>1, FinishTurned
  <2>. QED
    BY <1>1, <2>1, <2>2
<1>10. CASE SafetyNext
  BY <1>4, <1>5, <1>6, <1>7, <1>8, <1>9, <1>10, SignalsInvestigate, SignalsClose DEF SafetyNext
<1>11. CASE IncidentNext
  BY <1>7, <1>9, <1>11 DEF IncidentNext
<1>. QED
  BY <1>2, <1>3, <1>10, <1>11 DEF Next

-----------------------------------------------------------------------------
(* Notifications.  Who was told has a row for it, an e-mail without a delivery *)
(* has a call that will record it, and a delivery is never ahead of its e-mail. *)
TellsOf(p, k, ns) == {n \in Notices : ns[n] # NoNotice /\ ns[n].to = p /\ ns[n].key = k}
\* Those of its recipients a call has dealt with.
Reached(k) == IF k.pc = "fan" THEN k.arg \ k.view
              ELSE IF k.pc = "tell" THEN k.arg.all \ (k.view \cup {k.arg.to})
              ELSE IF k.pc = "link" THEN k.arg.all \ k.view ELSE {}
ToldSoFar ==
  /\ \A x \in told : \A p \in x[2] : TellsOf(p, x[1], notices) # {}
  /\ \A n, m \in Notices : notices[n] # NoNotice /\ notices[m] # NoNotice
       /\ notices[n].to = notices[m].to /\ notices[n].key = notices[m].key => n = m
  /\ \A c \in Calls : \A p \in Reached(call[c]) : TellsOf(p, call[c].on, notices) # {}
Resending(k, n) == k.pc = "again" /\ k.on = n
ResentHeld ==
  /\ ResentOnce
  /\ \A c \in Calls : call[c].pc = "again" =>
       /\ notices[call[c].on] # NoNotice
       /\ call[c].on \notin hurried =>
            notices[call[c].on].recent = 0 /\ \A d \in Calls : Resending(call[d], call[c].on) => d = c
Linking(k, n, i) == k.pc \in {"link", "relink"} /\ k.about = {<<n, i>>}
LinksHeld ==
  \A n \in Rows \ cut : \A i \in DOMAIN notices[n].mails :
    notices[n].mails[i].delivery = "none" => \E c \in Calls : Linking(call[c], n, i)
Accounts(v) ==
  /\ v # NoNotice => v.status # "pending"
  /\ v.mails # <<>> => v.channel = "email"
  /\ \A i \in DOMAIN v.mails : Accounted(v.mails[i])
MailsAccounted == \A n \in Notices : Accounts(notices[n])
NoticesHeld == ToldSoFar /\ ResentHeld /\ LinksHeld /\ MailsAccounted

\* A notice stays to whom it was made, about what, and there are no new ones.
RowsKept == \A n \in Notices : /\ notices'[n] # NoNotice <=> notices[n] # NoNotice
                               /\ notices'[n].to = notices[n].to /\ notices'[n].key = notices[n].key
LinkersStay == \A c \in Calls : call[c].pc \in {"link", "relink"} => call'[c] = call[c]

LEMMA ToldKept ==
  ASSUME ToldSoFar, RowsKept, told' = told,
         \A c \in Calls : call'[c] = call[c] \/ \A p \in Reached(call'[c]) : TellsOf(p, call'[c].on, notices) # {}
  PROVE  ToldSoFar'
<1>1. \A p, k : TellsOf(p, k, notices') = TellsOf(p, k, notices)
  BY DEF TellsOf, RowsKept
<1>2. \A x \in told' : \A p \in x[2] : TellsOf(p, x[1], notices') # {}
  BY <1>1 DEF ToldSoFar
<1>3. \A n, m \in Notices : notices'[n] # NoNotice /\ notices'[m] # NoNotice
       /\ notices'[n].to = notices'[m].to /\ notices'[n].key = notices'[m].key => n = m
  BY DEF ToldSoFar, RowsKept
<1>4. \A c \in Calls : \A p \in Reached(call'[c]) : TellsOf(p, call'[c].on, notices') # {}
  BY <1>1 DEF ToldSoFar
<1>. QED
  BY <1>2, <1>3, <1>4 DEF ToldSoFar

LEMMA ToldElse ==
  ASSUME ToldSoFar, RowsKept, told' = told, NEW pcs, Turned(pcs), pcs \cap {"fan", "tell", "link"} = {}
  PROVE  ToldSoFar'
<1>1. \A c \in Calls : call'[c].pc \in pcs => Reached(call'[c]) = {}
  BY DEF Reached
<1>. QED
  BY <1>1, ToldKept DEF Turned

\* Nothing is resent.
LEMMA ResentKept ==
  ASSUME Typed, ResentHeld, NEW pcs, Turned(pcs), "again" \notin pcs, hurried' = hurried,
         \A n \in Notices : /\ notices[n] # NoNotice => notices'[n] # NoNotice
                            /\ notices'[n].recent = notices[n].recent \/ notices'[n].recent = 0
  PROVE  ResentHeld'
<1>1. \A c \in Calls : call'[c] = call[c] \/ call'[c].pc # "again"
  BY DEF Turned
<1>2. ResentOnce'
  BY DEF ResentHeld, ResentOnce
<1>3. \A c \in Calls : call[c].pc = "again" => call[c].on \in Notices
  BY DEF Typed, CallsTyped, CallIs
<1>4. ASSUME NEW c \in Calls, call'[c].pc = "again"
      PROVE  /\ notices'[call'[c].on] # NoNotice
             /\ call'[c].on \notin hurried' =>
                  notices'[call'[c].on].recent = 0 /\ \A d \in Calls : Resending(call'[d], call'[c].on) => d = c
  <2>1. call'[c] = call[c] /\ call[c].on \in Notices
    BY <1>1, <1>3, <1>4
  <2>2. \A d \in Calls : \A n : Resending(call'[d], n) /\ d # c => Resending(call[d], n)
    BY <1>1 DEF Resending
  <2>3. /\ notices[call[c].on] # NoNotice
        /\ call[c].on \notin hurried =>
             notices[call[c].on].recent = 0 /\ \A d \in Calls : Resending(call[d], call[c].on) => d = c
    BY <1>4, <2>1 DEF ResentHeld
  <2>. QED
    BY <2>1, <2>2, <2>3
<1>. QED
  BY <1>2, <1>4 DEF ResentHeld

\* A mail-less step leaves what is linked and what is to be.
LEMMA LinksKept ==
  ASSUME LinksHeld, MailsAccounted, LinkersStay, cut' = cut,
         \A n \in Notices : /\ notices'[n] # NoNotice <=> notices[n] # NoNotice
                            /\ notices'[n].mails = notices[n].mails /\ notices'[n].channel = notices[n].channel
                            /\ notices'[n].status = notices[n].status
  PROVE  LinksHeld' /\ MailsAccounted'
<1>1. Rows' = Rows
  BY DEF Rows
<1>2. \A n, i : \A c \in Calls : Linking(call[c], n, i) => Linking(call'[c], n, i)
  BY DEF Linking, LinkersStay
<1>3. MailsAccounted'
  BY DEF MailsAccounted, Accounts
<1>4. LinksHeld'
  <2> SUFFICES ASSUME NEW n \in Rows' \ cut', NEW i \in DOMAIN notices'[n].mails, notices'[n].mails[i].delivery = "none"
               PROVE  \E c \in Calls : Linking(call'[c], n, i)
    BY DEF LinksHeld
  <2>1. n \in Rows \ cut /\ i \in DOMAIN notices[n].mails /\ notices[n].mails[i].delivery = "none"
    BY <1>1 DEF Rows
  <2>. QED
    BY <1>2, <2>1 DEF LinksHeld
<1>. QED
  BY <1>3, <1>4

LEMMA NoticesStill ==
  ASSUME Typed, NoticesHeld, UNCHANGED noticeVars, LinkersStay,
         NEW pcs, Turned(pcs), pcs \cap {"fan", "tell", "link", "again"} = {}
  PROVE  NoticesHeld'
<1>1. UNCHANGED <<notices, told, hurried, cut>> /\ RowsKept
  BY DEF noticeVars, RowsKept
<1>2. ToldSoFar'
  BY <1>1, ToldElse DEF NoticesHeld
<1>3. ResentHeld'
  BY <1>1, ResentKept DEF NoticesHeld
<1>4. LinksHeld' /\ MailsAccounted'
  BY <1>1, LinksKept DEF NoticesHeld
<1>. QED
  BY <1>2, <1>3, <1>4 DEF NoticesHeld

LEMMA OthersStay ==
  ASSUME CallsTyped, NEW c \in Calls, NEW k, call' = [call EXCEPT ![c] = k]
  PROVE  /\ call'[c] = k /\ \A d \in Calls : d # c => call'[d] = call[d]
         /\ call[c].pc \notin {"link", "relink"} => LinkersStay
BY DEF CallsTyped, LinkersStay

\* Access and safety leave the calls that link.
LEMMA LinkersAside ==
  ASSUME Typed, AdminNext \/ SafetyNext \/ IncidentNext
  PROVE  LinkersStay
<1>0. CallsTyped
  BY DEF Typed
<1>1. CASE Lapse \/ SignUp \/ Blemish \/ Forget
  BY <1>1 DEF Lapse, SignUp, Blemish, Forget, LinkersStay
<1>2. ASSUME NEW c \in Calls, NEW k, call' = [call EXCEPT ![c] = k], call[c].pc \notin {"link", "relink"}
      PROVE  LinkersStay
  BY <1>0, <1>2, OthersStay
<1>3. ASSUME NEW c \in Calls, Turn(c),
             \/ ChangeRole(c) \/ Deactivate(c) \/ Restore(c) \/ CreateInvitation(c)
             \/ RevokeInvitation(c) \/ ResendInvitation(c) \/ AcceptInvitation(c)
             \/ ListInvitations(c) \/ SignIn(c)
      PROVE  LinkersStay
  <2>1. \E k : call' = [call EXCEPT ![c] = k]
    BY Zenon, <1>3 DEF ChangeRole, Deactivate, Restore, CreateInvitation, RevokeInvitation, ResendInvitation,
                AcceptInvitation, ListInvitations, SignIn, About, OnInvite, Begin
  <2>. QED
    BY Zenon, <1>2, <1>3, <2>1 DEF Turn
<1>5. ASSUME NEW c \in Calls, Turn(c),
             \/ Investigate(c) \/ Assign(c) \/ UpdateStatus(c) \/ ResolveOrDismiss(c)
             \/ CreateIncident(c) \/ UpdateIncident(c)
      PROVE  LinkersStay
  <2>1. \E k : call' = [call EXCEPT ![c] = k]
    BY Zenon, <1>5 DEF Investigate, Assign, UpdateStatus, ResolveOrDismiss, CreateIncident, UpdateIncident,
                OnCase, OnIncident, On, Finish
  <2>. QED
    BY Zenon, <1>2, <1>5, <2>1 DEF Turn
<1>4. ASSUME NEW c \in Calls,
             \/ CommitRole(c) \/ CommitDeactivation(c) \/ CommitRestore(c) \/ CommitInvitation(c)
             \/ CommitRevocation(c) \/ CommitResend(c) \/ CommitAcceptance(c) \/ RefuseAcceptance(c)
             \/ CommitExpiry(c) \/ CommitSession(c)
             \/ CommitInvestigation(c) \/ RefuseInvestigation(c) \/ CommitAssignment(c)
             \/ CommitStatus(c) \/ CommitClosing(c) \/ CommitIncident(c)
      PROVE  LinkersStay
  <2>1. Finish(c) /\ call[c].pc \notin {"link", "relink"}
    BY Zenon, <1>4 DEF CommitRole, CommitDeactivation, CommitRestore, CommitInvitation, CommitRevocation, CommitResend,
                CommitAcceptance, RefuseAcceptance, CommitExpiry, CommitSession, Doing, CommitInvestigation,
                RefuseInvestigation, CommitAssignment, CommitStatus, CommitClosing, CommitIncident, Done
  <2>. QED
    BY Zenon, <1>2, <2>1 DEF Finish
<1>. QED
  BY <1>1, <1>3, <1>4, <1>5 DEF AdminNext, SafetyNext, IncidentNext

LEMMA ResendBegun ==
  ASSUME Typed, ResentHeld, NEW c \in Calls, NEW n \in Rows, Resend(c, n), call[c].pc = "idle"
  PROVE  ResentHeld'
<1>1. /\ call'[c] = Call("again", {n}, n, None, None) /\ \A d \in Calls : d # c => call'[d] = call[d]
  BY OthersStay DEF Resend, Typed
<1>2. call'[c].pc = "again" /\ call'[c].on = n
  BY <1>1, CallFields
<1>3. /\ notices' = notices /\ hurried \subseteq hurried' /\ n \in Notices /\ notices[n] # NoNotice
      /\ \A d \in Calls : Resending(call[d], n) => n \in hurried'
  BY DEF Resend, Rows, Flying, Resending
<1>4. notices[n].recent = 0
  BY <1>3 DEF Resend, CoolingDown, Typed, TypeOK, Notice
<1>5. ResentOnce'
  BY <1>3 DEF ResentHeld, ResentOnce
<1>6. ASSUME NEW d \in Calls, call'[d].pc = "again"
      PROVE  /\ notices'[call'[d].on] # NoNotice
             /\ call'[d].on \notin hurried' =>
                  notices'[call'[d].on].recent = 0 /\ \A e \in Calls : Resending(call'[e], call'[d].on) => e = d
  <2>1. CASE d = c
    <3>1. \A e \in Calls : Resending(call'[e], n) => e = c \/ Resending(call[e], n)
      BY <1>1 DEF Resending
    <3>. QED
      BY <1>2, <1>3, <1>4, <2>1, <3>1
  <2>2. CASE d # c
    <3>1. /\ call'[d] = call[d] /\ notices[call[d].on] # NoNotice
          /\ call[d].on \notin hurried =>
               notices[call[d].on].recent = 0 /\ \A e \in Calls : Resending(call[e], call[d].on) => e = d
      BY <1>1, <1>6, <2>2 DEF ResentHeld
    <3>2. call[d].on \notin hurried' => call[d].on # n
      <4>1. call[d].on = n => Resending(call[d], n)
        BY <1>6, <3>1 DEF Resending
      <4>. QED
        BY <1>3, <4>1
    <3>3. \A e \in Calls : call[d].on # n /\ Resending(call'[e], call[d].on) => Resending(call[e], call[d].on)
      BY <1>1, <1>2 DEF Resending
    <3>. QED
      BY <1>3, <3>1, <3>2, <3>3
  <2>. QED
    BY <2>1, <2>2
<1>. QED
  BY <1>5, <1>6 DEF ResentHeld

\* A call that leaves the notices alone.
LEMMA NoticesTell ==
  ASSUME Typed, NoticesHeld, NEW c \in Calls,
         \/ Turn(c) /\ (TellAdmins(c) \/ TellUser(c) \/ ResendNotice(c) \/ ResendCommunication(c) \/ UpdatePreference(c))
         \/ Consider(c) \/ RefuseNotice(c) \/ AllTold(c)
  PROVE  NoticesHeld'
<1>0. CallsTyped /\ CallIs(call[c]) /\ ToldSoFar
  BY DEF Typed, CallsTyped, NoticesHeld
<1>1. UNCHANGED <<notices, cut>> /\ RowsKept
  BY DEF TellAdmins, TellUser, ResendNotice, ResendCommunication, UpdatePreference, Consider, RefuseNotice, AllTold,
         Tell, Resend, noticeVars, RowsKept
<1>2. LinkersStay
  <2>1. \E k : call' = [call EXCEPT ![c] = k]
    BY DEF TellAdmins, TellUser, ResendNotice, ResendCommunication, UpdatePreference, Consider, RefuseNotice, AllTold,
           Tell, Resend, Finish
  <2>2. call[c].pc \notin {"link", "relink"}
    BY DEF Turn, Consider, RefuseNotice, AllTold
  <2>. QED
    BY <1>0, <2>1, <2>2, OthersStay
<1>3. LinksHeld' /\ MailsAccounted'
  BY <1>1, <1>2, LinksKept DEF NoticesHeld
<1>4. ASSUME told' = told, hurried' = hurried, NEW k, call' = [call EXCEPT ![c] = k], k.pc # "again",
             \A p \in Reached(k) : TellsOf(p, k.on, notices) # {}
      PROVE  NoticesHeld'
  <2>1. call'[c] = k /\ \A d \in Calls : d # c => call'[d] = call[d]
    BY <1>0, <1>4, OthersStay
  <2>2. ToldSoFar'
    BY <1>0, <1>1, <1>4, <2>1, ToldKept
  <2>3. Turned({k.pc})
    BY <2>1 DEF Turned
  <2>4. ResentHeld'
    BY <1>1, <1>4, <2>3, ResentKept DEF NoticesHeld
  <2>. QED
    BY <1>3, <2>2, <2>4 DEF NoticesHeld
<1>5. CASE TellAdmins(c) \/ TellUser(c)
  <2>1. PICK x, S : Tell(c, x, S)
    BY <1>5 DEF TellAdmins, TellUser
  <2> DEFINE k == Call("fan", {}, x, S, S)
  <2>2. Reached(k) = {} /\ k.pc = "fan"
    BY CallFields DEF Reached
  <2>3. call' = [call EXCEPT ![c] = k] /\ told' = told /\ hurried' = hurried
    BY <2>1 DEF Tell, noticeVars
  <2>. HIDE DEF k
  <2>. QED
    BY <2>2, <2>3, <1>4
<1>6. CASE Turn(c) /\ (ResendNotice(c) \/ ResendCommunication(c))
  <2>1. PICK n \in Rows : Resend(c, n)
    <3>1. \A x \in Mails : x[1] \in Rows
      BY DEF Mails
    <3>. QED
      BY <1>6, <3>1 DEF ResendNotice, ResendCommunication
  <2>2. ResentHeld'
    BY <1>6, <2>1, ResendBegun DEF NoticesHeld, Turn
  <2>3. Call("again", {n}, n, None, None).pc = "again"
    BY CallFields
  <2>4. Turned({"again"}) /\ told' = told
    BY <1>0, <2>1, <2>3, OneTurned DEF Resend
  <2>. QED
    BY <1>0, <1>1, <1>3, <2>2, <2>4, ToldElse DEF NoticesHeld
<1>7. CASE UpdatePreference(c) \/ RefuseNotice(c)
  <2>1. call' = [call EXCEPT ![c] = Over] /\ told' = told /\ hurried' = hurried
    BY <1>7 DEF UpdatePreference, RefuseNotice, Finish, noticeVars
  <2>2. Over.pc # "again" /\ Reached(Over) = {}
    BY OverIs DEF Reached
  <2>. QED
    BY <1>4, <2>1, <2>2
<1>8. CASE Consider(c)
  <2>1. call[c].pc = "fan" /\ told' = told /\ hurried' = hurried
    BY <1>8 DEF Consider, noticeVars
  <2>2. PICK p \in call[c].view :
          call' = [call EXCEPT ![c] =
            IF AlreadyTold(p, call[c].on) THEN [call[c] EXCEPT !.view = call[c].view \ {p}]
            ELSE Call("tell", {}, call[c].on, call[c].view \ {p},
                      [all |-> call[c].arg, to |-> p, channel |-> Selected(p, call[c].on),
                       enabled |-> prefs[<<p, call[c].on>>] # "off"])]
    BY <1>8 DEF Consider
  <2>3. \A q \in call[c].arg \ call[c].view : TellsOf(q, call[c].on, notices) # {}
    BY <1>0, <2>1 DEF ToldSoFar, Reached
  <2>4. CASE AlreadyTold(p, call[c].on)
    <3> DEFINE k == [call[c] EXCEPT !.view = call[c].view \ {p}]
    <3>1. k = Call("fan", call[c].about, call[c].on, call[c].view \ {p}, call[c].arg)
      BY <1>0, <2>1, Reviewed DEF CallIs
    <3>2. k.pc = "fan" /\ k.on = call[c].on /\ k.view = call[c].view \ {p} /\ k.arg = call[c].arg
      <4>. HIDE DEF k
      <4>. QED
        BY <3>1, CallFields
    <3>6. Reached(k) = call[c].arg \ (call[c].view \ {p})
      <4>. HIDE DEF k
      <4>. QED
        BY <3>2 DEF Reached
    <3>3. TellsOf(p, call[c].on, notices) # {}
      BY <2>4 DEF AlreadyTold, KeyedTo, Inbox, Rows, TellsOf
    <3>4. call' = [call EXCEPT ![c] = k]
      BY <2>2, <2>4
    <3>. HIDE DEF k
    <3>5. \A q \in Reached(k) : TellsOf(q, k.on, notices) # {}
      BY <2>3, <3>2, <3>3, <3>6
    <3>. QED
      BY <2>1, <3>2, <3>4, <3>5, <1>4
  <2>5. CASE ~AlreadyTold(p, call[c].on)
    <3> DEFINE a == [all |-> call[c].arg, to |-> p, channel |-> Selected(p, call[c].on),
                     enabled |-> prefs[<<p, call[c].on>>] # "off"]
               k == Call("tell", {}, call[c].on, call[c].view \ {p}, a)
    <3>1. a.all = call[c].arg /\ a.to = p
      OBVIOUS
    <3>2. call' = [call EXCEPT ![c] = k]
      BY <2>2, <2>5
    <3>. HIDE DEF a
    <3>3. k.pc = "tell" /\ k.on = call[c].on /\ Reached(k) = call[c].arg \ ((call[c].view \ {p}) \cup {p})
      BY <3>1, CallFields DEF Reached
    <3>. HIDE DEF k
    <3>4. \A q \in Reached(k) : TellsOf(q, k.on, notices) # {}
      BY <2>3, <3>3
    <3>. QED
      BY <2>1, <3>2, <3>3, <3>4, <1>4
  <2>. QED
    BY <2>4, <2>5
<1>9. CASE AllTold(c)
  <2>1. /\ call[c].pc = "fan" /\ call[c].view = {} /\ Finish(c) /\ hurried' = hurried
        /\ told' = told \cup {<<call[c].on, call[c].arg>>}
    BY <1>9 DEF AllTold
  <2>2. \A p \in call[c].arg : TellsOf(p, call[c].on, notices) # {}
    BY <1>0, <2>1 DEF ToldSoFar, Reached
  <2>3. call'[c] = Over /\ Reached(Over) = {} /\ \A d \in Calls : d # c => call'[d] = call[d]
    BY <1>0, <2>1, OthersStay, OverIs DEF Finish, Reached
  <2>4. ToldSoFar'
    <3>1. \A x \in told' : \A p \in x[2] : TellsOf(p, x[1], notices) # {}
      BY <1>0, <2>1, <2>2 DEF ToldSoFar
    <3>2. \A d \in Calls : \A p \in Reached(call'[d]) : TellsOf(p, call'[d].on, notices) # {}
      BY <1>0, <2>3 DEF ToldSoFar
    <3>. QED
      BY <1>0, <1>1, <3>1, <3>2 DEF ToldSoFar
  <2>5. Turned({"done"})
    BY <1>0, <2>1, FinishTurned
  <2>6. ResentHeld'
    BY <1>1, <2>1, <2>5, ResentKept DEF NoticesHeld
  <2>. QED
    BY <1>3, <2>4, <2>6 DEF NoticesHeld
<1>. QED
  BY <1>5, <1>6, <1>7, <1>8, <1>9

\* What is read, or waited for, of a notice.
SameNotice(v, w) == /\ w.to = v.to /\ w.key = v.key /\ w.channel = v.channel /\ w.status = v.status
                    /\ w.mails = v.mails /\ (w.recent = v.recent \/ w.recent = 0)
LEMMA NoticesSame ==
  ASSUME Typed, NoticesHeld, UNCHANGED <<told, hurried, cut>>, LinkersStay,
         NEW pcs, Turned(pcs), pcs \cap {"fan", "tell", "link", "again"} = {},
         \A n \in Notices : notices'[n] = notices[n] \/ (n \in Rows /\ SameNotice(notices[n], notices'[n]))
  PROVE  NoticesHeld'
<1>1. NoNotice.status = "pending"
  BY DEF NoNotice
<1>2. \A n \in Notices : notices'[n] # NoNotice <=> notices[n] # NoNotice
  BY <1>1 DEF NoticesHeld, MailsAccounted, Accounts, Rows, SameNotice
<1>3. \A n \in Notices : /\ notices'[n].to = notices[n].to /\ notices'[n].key = notices[n].key
                         /\ notices'[n].mails = notices[n].mails /\ notices'[n].channel = notices[n].channel
                         /\ notices'[n].status = notices[n].status
                         /\ notices'[n].recent = notices[n].recent \/ notices'[n].recent = 0
  BY DEF SameNotice
<1>4. ToldSoFar'
  BY <1>2, <1>3, ToldElse DEF NoticesHeld, RowsKept
<1>5. ResentHeld'
  BY <1>2, <1>3, ResentKept DEF NoticesHeld
<1>6. LinksHeld' /\ MailsAccounted'
  BY <1>2, <1>3, LinksKept DEF NoticesHeld
<1>. QED
  BY <1>4, <1>5, <1>6 DEF NoticesHeld

LEMMA SameFields ==
  ASSUME NEW v \in Notice
  PROVE  SameNotice(v, [v EXCEPT !.read = TRUE]) /\ SameNotice(v, [v EXCEPT !.recent = 0])
BY DEF Notice, SameNotice

LEMMA NoticesRead ==
  ASSUME Typed, NoticesHeld,
         CooldownPasses \/ \E c \in Calls : call[c].pc = "idle" /\ (MarkRead(c) \/ MarkAllRead(c))
  PROVE  NoticesHeld'
<1>0. CallsTyped /\ notices \in [Notices -> Notice]
  BY DEF Typed, TypeOK
<1>1. CASE CooldownPasses
  <2>1. PICK n \in Rows : notices' = [notices EXCEPT ![n].recent = 0]
    BY <1>1 DEF CooldownPasses
  <2>2. notices' = [notices EXCEPT ![n] = [notices[n] EXCEPT !.recent = 0]]
    BY <2>1
  <2>3. \A m \in Notices : notices'[m] = notices[m] \/ (m \in Rows /\ SameNotice(notices[m], notices'[m]))
    BY <1>0, <2>2, SameFields DEF Rows
  <2>4. UNCHANGED <<told, hurried, cut>> /\ LinkersStay /\ Turned({})
    BY <1>1 DEF CooldownPasses, LinkersStay, Turned
  <2>. QED
    BY <2>3, <2>4, NoticesSame
<1>2. ASSUME NEW c \in Calls, call[c].pc = "idle", MarkRead(c) \/ MarkAllRead(c)
      PROVE  NoticesHeld'
  <2>1. \A m \in Notices : notices'[m] = notices[m] \/ (m \in Rows /\ SameNotice(notices[m], notices'[m]))
    <3>1. CASE MarkRead(c)
      <4>1. PICK n \in Rows : notices' = [notices EXCEPT ![n].read = TRUE]
        BY <3>1 DEF MarkRead, Unread, Inbox
      <4>2. notices' = [notices EXCEPT ![n] = [notices[n] EXCEPT !.read = TRUE]]
        BY <4>1
      <4>. QED
        BY <1>0, <4>2, SameFields DEF Rows
    <3>2. CASE MarkAllRead(c)
      <4>1. PICK p \in People :
              notices' = [n \in Notices |-> IF n \in Unread(p) THEN [notices[n] EXCEPT !.read = TRUE] ELSE notices[n]]
        BY <3>2 DEF MarkAllRead
      <4>2. Unread(p) \subseteq Rows
        BY DEF Unread, Inbox
      <4>. QED
        BY <1>0, <4>1, <4>2, SameFields
    <3>. QED
      BY <1>2, <3>1, <3>2
  <2>2. UNCHANGED <<told, hurried, cut>> /\ Finish(c)
    BY <1>2 DEF MarkRead, MarkAllRead
  <2>3. Turned({"done"}) /\ LinkersStay
    BY <1>0, <1>2, <2>2, FinishTurned, OthersStay DEF Finish
  <2>. QED
    BY <2>1, <2>2, <2>3, NoticesSame
<1>. QED
  BY <1>1, <1>2

\* An e-mail changes, and the status of its notice with it.
MailBecomes(n, i, m, t) == \/ notices' = [notices EXCEPT ![n].mails[i] = m]
                      \/ notices' = [notices EXCEPT ![n].mails[i] = m, ![n].status = t]
LEMMA MailPut ==
  ASSUME Typed, NEW n \in Notices, NEW i \in DOMAIN notices[n].mails, NEW m, NEW t \in {"queued", "sent", "failed"},
         MailBecomes(n, i, m, t)
  PROVE  /\ \A j \in Notices : /\ notices'[j].to = notices[j].to /\ notices'[j].key = notices[j].key
                               /\ notices'[j].channel = notices[j].channel /\ notices'[j].recent = notices[j].recent
                               /\ j # n => notices'[j] = notices[j]
         /\ DOMAIN notices'[n].mails = DOMAIN notices[n].mails
         /\ notices'[n].mails[i] = m
         /\ \A h \in DOMAIN notices[n].mails : h # i => notices'[n].mails[h] = notices[n].mails[h]
         /\ notices'[n].status \in {notices[n].status, t}
         /\ notices[n] # NoNotice /\ notices'[n] # NoNotice
<1>1. notices \in [Notices -> Notice] /\ notices[n] \in Notice
  BY DEF Typed, TypeOK
<1> DEFINE ms == [notices[n].mails EXCEPT ![i] = m]
<1>2. DOMAIN ms = DOMAIN notices[n].mails /\ ms[i] = m
      /\ \A h \in DOMAIN notices[n].mails : h # i => ms[h] = notices[n].mails[h]
  OBVIOUS
<1>3. \/ notices' = [notices EXCEPT ![n] = [notices[n] EXCEPT !.mails = ms]]
      \/ notices' = [notices EXCEPT ![n] = [notices[n] EXCEPT !.mails = ms, !.status = t]]
  BY DEF MailBecomes
<1>. HIDE DEF ms
<1>4. /\ \A v \in Notice : LET w == [v EXCEPT !.mails = ms] IN
             w.to = v.to /\ w.key = v.key /\ w.channel = v.channel /\ w.recent = v.recent /\ w.mails = ms /\ w.status = v.status
      /\ \A v \in Notice : LET w == [v EXCEPT !.mails = ms, !.status = t] IN
             w.to = v.to /\ w.key = v.key /\ w.channel = v.channel /\ w.recent = v.recent /\ w.mails = ms /\ w.status = t
  BY DEF Notice
<1>5. /\ notices'[n] \in {[notices[n] EXCEPT !.mails = ms], [notices[n] EXCEPT !.mails = ms, !.status = t]}
      /\ \A j \in Notices : j # n => notices'[j] = notices[j]
  BY <1>1, <1>3
<1>6. /\ notices'[n].to = notices[n].to /\ notices'[n].key = notices[n].key /\ notices'[n].channel = notices[n].channel
      /\ notices'[n].recent = notices[n].recent /\ notices'[n].mails = ms /\ notices'[n].status \in {notices[n].status, t}
  <2>1. CASE notices'[n] = [notices[n] EXCEPT !.mails = ms]
    BY <1>1, <1>4, <2>1
  <2>2. CASE notices'[n] = [notices[n] EXCEPT !.mails = ms, !.status = t]
    BY <1>1, <1>4, <2>2
  <2>. QED
    BY Zenon, <1>5, <2>1, <2>2
<1>7. NoNotice.mails = <<>> /\ DOMAIN NoNotice.mails = {}
  BY DEF NoNotice
<1>8. notices[n] # NoNotice /\ notices'[n] # NoNotice
  BY <1>2, <1>6, <1>7
<1>. QED
  BY <1>2, <1>5, <1>6, <1>8

\* It stays linked, or to be linked, and accounted for.
LEMMA MailMoves ==
  ASSUME Typed, NoticesHeld, UNCHANGED <<told, hurried, cut>>,
         NEW n \in Notices, NEW i \in DOMAIN notices[n].mails, NEW m, NEW t \in {"queued", "sent", "failed"},
         MailBecomes(n, i, m, t),
         Accounted(m), m.delivery = "none" => notices[n].mails[i].delivery = "none" /\ call' = call,
         \A c \in Calls : \/ call'[c] = call[c]
                          \/ /\ Linking(call[c], n, i) /\ call'[c].pc # "again"
                             /\ \A p \in Reached(call'[c]) : TellsOf(p, call'[c].on, notices) # {}
  PROVE  NoticesHeld'
<1>1. /\ \A j \in Notices : /\ notices'[j].to = notices[j].to /\ notices'[j].key = notices[j].key
                            /\ notices'[j].channel = notices[j].channel /\ notices'[j].recent = notices[j].recent
                            /\ j # n => notices'[j] = notices[j]
      /\ DOMAIN notices'[n].mails = DOMAIN notices[n].mails
      /\ notices'[n].mails[i] = m
      /\ \A h \in DOMAIN notices[n].mails : h # i => notices'[n].mails[h] = notices[n].mails[h]
      /\ notices'[n].status \in {notices[n].status, t}
      /\ notices[n] # NoNotice /\ notices'[n] # NoNotice
  BY MailPut
<1>2. RowsKept
  BY <1>1 DEF RowsKept
<1>3. ToldSoFar'
  BY <1>2, ToldKept DEF NoticesHeld
<1>4. ResentHeld'
  <2>1. Turned({call'[c].pc : c \in {d \in Calls : call'[d] # call[d]}})
    BY DEF Turned
  <2>2. "again" \notin {call'[c].pc : c \in {d \in Calls : call'[d] # call[d]}}
    OBVIOUS
  <2>3. \A j \in Notices : /\ notices[j] # NoNotice => notices'[j] # NoNotice
                           /\ notices'[j].recent = notices[j].recent
    BY <1>1
  <2>. QED
    BY <2>1, <2>2, <2>3, ResentKept DEF NoticesHeld
<1>5. MailsAccounted'
  <2>1. Accounts(notices[n]) /\ \A j \in Notices : j # n => Accounts(notices'[j])
    BY <1>1 DEF NoticesHeld, MailsAccounted
  <2>2. notices'[n].status # "pending" /\ notices'[n].channel = "email"
    <3>1. notices[n].mails # <<>>
      OBVIOUS
    <3>. QED
      BY <1>1, <2>1, <3>1 DEF Accounts
  <2>3. \A h \in DOMAIN notices'[n].mails : Accounted(notices'[n].mails[h])
    BY <1>1, <2>1 DEF Accounts
  <2>4. Accounts(notices'[n])
    BY <2>2, <2>3 DEF Accounts
  <2>. QED
    BY <2>1, <2>4 DEF MailsAccounted
<1>6. LinksHeld'
  <2> SUFFICES ASSUME NEW j \in Rows' \ cut', NEW h \in DOMAIN notices'[j].mails, notices'[j].mails[h].delivery = "none"
               PROVE  \E c \in Calls : Linking(call'[c], j, h)
    BY DEF LinksHeld
  <2>1. j \in Rows \ cut /\ h \in DOMAIN notices[j].mails /\ notices[j].mails[h].delivery = "none"
    BY <1>1 DEF Rows
  <2>2. PICK c \in Calls : Linking(call[c], j, h)
    BY <2>1 DEF NoticesHeld, LinksHeld
  <2>3. CASE j = n /\ h = i
    BY <1>1, <2>2, <2>3
  <2>4. CASE ~(j = n /\ h = i)
    <3>1. <<n, i>> # <<j, h>>
      BY <2>4
    <3>2. {<<n, i>>} # {<<j, h>>}
      BY <3>1
    <3>3. ~Linking(call[c], n, i)
      BY <2>2, <3>2 DEF Linking
    <3>. QED
      BY <2>2, <3>3
  <2>. QED
    BY <2>3, <2>4
<1>. QED
  BY <1>3, <1>4, <1>5, <1>6 DEF NoticesHeld

LEMMA DeliveryHeld ==
  ASSUME Typed, NoticesHeld, NEW c \in Calls, CommitDelivery(c) \/ CommitRedelivery(c)
  PROVE  NoticesHeld'
<1>1. /\ call[c].pc \in {"link", "relink"} /\ Delivered(call[c]) /\ UNCHANGED <<told, hurried, cut>>
      /\ CallsTyped /\ MailKnown(call[c], notices) /\ CallIs(call[c]) /\ notices \in [Notices -> Notice]
  BY DEF CommitDelivery, CommitRedelivery, Typed, CallsTyped, TypeOK
<1>2. PICK n \in Notices : \E i \in DOMAIN notices[n].mails : call[c].about = {<<n, i>>}
  BY <1>1 DEF MailKnown
<1>3. PICK i \in DOMAIN notices[n].mails : call[c].about = {<<n, i>>}
  BY <1>2
<1> DEFINE o == notices[n].mails[i]
<1>4. PICK seen \in SeenOf(o) :
        notices' = [notices EXCEPT ![n].mails[i].delivery = seen, ![n].status = seen]
  <2>1. PICK x \in call[c].about : \E seen \in SeenOf(notices[x[1]].mails[x[2]]) :
          notices' = [notices EXCEPT ![x[1]].mails[x[2]].delivery = seen, ![x[1]].status = seen]
    BY <1>1 DEF Delivered
  <2>2. x[1] = n /\ x[2] = i
    BY <1>3, <2>1
  <2>. QED
    BY <2>1, <2>2
<1> DEFINE m == [o EXCEPT !.delivery = seen]
<1>5. o \in Mail /\ Accounted(o)
  BY <1>1 DEF Notice, NoticesHeld, MailsAccounted, Accounts
<1>6. seen \in {"queued", "sent", "failed"} /\ m.delivery = seen /\ m.status = o.status /\ m.failed = o.failed
  BY <1>5 DEF SeenOf, Mail
<1>7. MailBecomes(n, i, m, seen)
  BY <1>4 DEF MailBecomes
<1>8. Accounted(m) /\ m.delivery # "none"
  <2>1. (seen = "failed" => o.failed) /\ (seen = "sent" => o.status = "sent")
    BY <1>5, <1>4 DEF Accounted, SeenOf
  <2>2. o.status = "failed" => o.failed
    BY <1>5 DEF Accounted
  <2>. HIDE DEF m
  <2>. QED
    BY <1>6, <2>1, <2>2 DEF Accounted
<1>9. Linking(call[c], n, i)
  BY <1>1, <1>3 DEF Linking
<1>10. PICK k : /\ call' = [call EXCEPT ![c] = k] /\ k.pc # "again"
                /\ \A p \in Reached(k) : TellsOf(p, k.on, notices) # {}
  <2>1. CASE CommitDelivery(c)
    <3> DEFINE k == Call("fan", {}, call[c].on, call[c].view, call[c].arg.all)
    <3>1. k.pc = "fan" /\ k.on = call[c].on /\ Reached(k) = call[c].arg.all \ call[c].view
      BY CallFields DEF Reached
    <3>2. Reached(call[c]) = call[c].arg.all \ call[c].view
      BY <2>1 DEF CommitDelivery, Reached
    <3>3. call' = [call EXCEPT ![c] = k]
      BY <2>1 DEF CommitDelivery
    <3>. HIDE DEF k
    <3>. QED
      BY <3>1, <3>2, <3>3 DEF NoticesHeld, ToldSoFar
  <2>2. CASE CommitRedelivery(c)
    <3>1. Reached(Over) = {} /\ Over.pc # "again"
      BY OverIs DEF Reached
    <3>. QED
      BY <2>2, <3>1 DEF CommitRedelivery, Finish
  <2>. QED
    BY <2>1, <2>2
<1>11. call'[c] = k /\ \A d \in Calls : d # c => call'[d] = call[d]
  BY <1>1, <1>10, OthersStay
<1>12. \A d \in Calls : \/ call'[d] = call[d]
                        \/ /\ Linking(call[d], n, i) /\ call'[d].pc # "again"
                           /\ \A p \in Reached(call'[d]) : TellsOf(p, call'[d].on, notices) # {}
  BY <1>9, <1>10, <1>11
<1>. HIDE DEF m, o
<1>. QED
  BY <1>1, <1>6, <1>7, <1>8, <1>12, MailMoves

LEMMA HandledHeld ==
  ASSUME Typed, NoticesHeld, MailHandled
  PROVE  NoticesHeld'
<1>1. notices \in [Notices -> Notice] /\ UNCHANGED <<told, hurried, cut, call>>
  BY DEF MailHandled, Typed, TypeOK
<1>2. PICK x \in Mails, s \in {"sent", "failed"} : notices' = Reconciled(x, s)
  BY DEF MailHandled
<1>3. PICK n \in Notices : \E i \in DOMAIN notices[n].mails : x = <<n, i>>
  BY <1>2 DEF Mails, Rows
<1>4. PICK i \in DOMAIN notices[n].mails : x = <<n, i>>
  BY <1>3
<1> DEFINE o == notices[n].mails[i]
           m == [o EXCEPT !.status = s, !.failed = o.failed \/ s = "failed"]
           d == [m EXCEPT !.delivery = s]
<1>5. o \in Mail /\ Accounted(o)
  BY <1>1 DEF Notice, NoticesHeld, MailsAccounted, Accounts
<1>6. /\ m.status = s /\ m.failed = (o.failed \/ s = "failed") /\ m.delivery = o.delivery
      /\ d.status = s /\ d.failed = (o.failed \/ s = "failed") /\ d.delivery = s
  BY <1>5 DEF Mail
<1>7. \/ o.delivery # "none" /\ notices' = [notices EXCEPT ![n].mails[i] = d, ![n].status = s]
      \/ o.delivery = "none" /\ notices' = [notices EXCEPT ![n].mails[i] = m]
  BY <1>2, <1>4 DEF Reconciled, MailOf, Linked
<1>. HIDE DEF m, d
<1>8. Accounted(d) /\ (o.delivery = "none" => Accounted(m))
  BY <1>5, <1>6 DEF Accounted
<1>9. CASE o.delivery # "none" /\ notices' = [notices EXCEPT ![n].mails[i] = d, ![n].status = s]
  <2>1. MailBecomes(n, i, d, s)
    BY <1>9 DEF MailBecomes
  <2>2. d.delivery # "none" /\ s \in {"queued", "sent", "failed"}
    BY <1>6
  <2>. QED
    BY <1>1, <1>8, <2>1, <2>2, MailMoves
<1>10. CASE o.delivery = "none" /\ notices' = [notices EXCEPT ![n].mails[i] = m]
  <2>1. MailBecomes(n, i, m, s)
    BY <1>10 DEF MailBecomes
  <2>2. s \in {"queued", "sent", "failed"}
    OBVIOUS
  <2>. QED
    BY <1>1, <1>8, <1>10, <2>1, <2>2, MailMoves
<1>. QED
  BY <1>7, <1>9, <1>10

LEMMA CrashHeld ==
  ASSUME Typed, NoticesHeld, NEW c \in Calls, Crash(c), cut' = cut \cup Severed(c),
         UNCHANGED <<safetyVars, notices, prefs, told, hurried>>
  PROVE  NoticesHeld'
<1>1. CallsTyped /\ Finish(c)
  BY DEF Typed, Crash
<1>2. Turned({"done"}) /\ \A d \in Calls : d # c => call'[d] = call[d]
  BY <1>1, FinishTurned, OthersStay DEF Finish
<1>3. ToldSoFar' /\ ResentHeld'
  BY <1>2, ToldElse, ResentKept DEF NoticesHeld, RowsKept
<1>4. MailsAccounted'
  BY DEF NoticesHeld, MailsAccounted
<1>5. LinksHeld'
  <2> SUFFICES ASSUME NEW n \in Rows' \ cut', NEW i \in DOMAIN notices'[n].mails, notices'[n].mails[i].delivery = "none"
               PROVE  \E d \in Calls : Linking(call'[d], n, i)
    BY DEF LinksHeld
  <2>1. n \in Rows \ cut /\ n \notin Severed(c) /\ i \in DOMAIN notices[n].mails /\ notices[n].mails[i].delivery = "none"
    BY DEF Rows
  <2>2. PICK d \in Calls : Linking(call[d], n, i)
    BY <2>1 DEF NoticesHeld, LinksHeld
  <2>3. d # c
    <3>1. ASSUME d = c PROVE FALSE
      <4>1. call[c].pc \in {"link", "relink"} /\ <<n, i>> \in call[c].about
        BY <2>2, <3>1 DEF Linking
      <4>2. n \in Severed(c)
        BY <4>1 DEF Severed
      <4>. QED
        BY <2>1, <4>2
    <3>. QED
      BY <3>1
  <2>. QED
    BY <1>2, <2>2, <2>3
<1>. QED
  BY <1>3, <1>4, <1>5 DEF NoticesHeld

LEMMA CommitNoticeHeld ==
  ASSUME Typed, NoticesHeld, NEW c \in Calls, CommitNotice(c)
  PROVE  NoticesHeld'
<1>1. CallsTyped /\ CallIs(call[c]) /\ notices \in [Notices -> Notice] /\ UNCHANGED <<told, hurried, cut>>
  BY DEF Typed, TypeOK, CallsTyped, CommitNotice
<1> DEFINE k == call[c]
           row == [NoNotice EXCEPT !.to = k.arg.to, !.key = k.on, !.channel = k.arg.channel]
           mailed == k.arg.enabled /\ k.arg.channel = "email"
           v == IF ~k.arg.enabled THEN [row EXCEPT !.status = "skipped"]
                ELSE IF mailed THEN [row EXCEPT !.status = "queued", !.mails = <<QueuedMail>>]
                ELSE [row EXCEPT !.status = "sent", !.tries = 1]
<1>2. k.pc = "tell" /\ ~AlreadyTold(k.arg.to, k.on)
  BY DEF CommitNotice
<1>3. PICK n \in Notices \ Rows :
        /\ notices' = [notices EXCEPT ![n] = v]
        /\ call' = [call EXCEPT ![c] = IF mailed THEN Call("link", {<<n, 1>>}, k.on, k.view, k.arg)
                                       ELSE Call("fan", {}, k.on, k.view, k.arg.all)]
  BY Zenon DEF CommitNotice
<1>4. /\ v.to = k.arg.to /\ v.key = k.on /\ v.channel = k.arg.channel /\ v.recent = 0
      /\ v.status \in {"skipped", "queued", "sent"}
      /\ v.mails = IF mailed THEN <<QueuedMail>> ELSE <<>>
  BY DEF NoNotice
<1>. HIDE DEF v
<1>5. v # NoNotice
  BY <1>4 DEF NoNotice
<1>6. notices'[n] = v /\ \A j \in Notices : j # n => notices'[j] = notices[j]
  BY <1>1, <1>3
<1>7. notices[n] = NoNotice
  BY <1>3 DEF Rows
<1>8. \A p, x : TellsOf(p, x, notices) \subseteq TellsOf(p, x, notices')
  BY <1>6, <1>7 DEF TellsOf
<1>9. n \in TellsOf(k.arg.to, k.on, notices')
  BY <1>4, <1>5, <1>6 DEF TellsOf
<1>10. PICK j : /\ call' = [call EXCEPT ![c] = j] /\ j.pc \in {"link", "fan"} /\ j.on = k.on
                /\ Reached(j) = k.arg.all \ k.view
                /\ mailed => j.pc = "link" /\ j.about = {<<n, 1>>}
  <2>1. CASE mailed
    <3> DEFINE j == Call("link", {<<n, 1>>}, k.on, k.view, k.arg)
    <3>1. call' = [call EXCEPT ![c] = j]
      BY <1>3, <2>1
    <3>2. j.pc = "link" /\ j.on = k.on /\ j.about = {<<n, 1>>} /\ Reached(j) = k.arg.all \ k.view
      BY CallFields DEF Reached
    <3>. HIDE DEF j
    <3>. QED
      BY <3>1, <3>2
  <2>2. CASE ~mailed
    <3> DEFINE j == Call("fan", {}, k.on, k.view, k.arg.all)
    <3>1. call' = [call EXCEPT ![c] = j]
      BY <1>3, <2>2
    <3>2. j.pc = "fan" /\ j.on = k.on /\ Reached(j) = k.arg.all \ k.view
      BY CallFields DEF Reached
    <3>. HIDE DEF j
    <3>. QED
      BY <2>2, <3>1, <3>2
  <2>. QED
    BY <2>1, <2>2
<1>11. call'[c] = j /\ (\A d \in Calls : d # c => call'[d] = call[d]) /\ LinkersStay
  BY <1>1, <1>2, <1>10, OthersStay
<1>12. ToldSoFar'
  <2>0. ToldSoFar
    BY DEF NoticesHeld
  <2>1. \A x \in told' : \A p \in x[2] : TellsOf(p, x[1], notices') # {}
    <3>1. \A x \in told : \A p \in x[2] : TellsOf(p, x[1], notices) # {}
      BY <2>0 DEF ToldSoFar
    <3>. QED
      BY <1>1, <1>8, <3>1
  <2>2. ASSUME NEW a \in Notices, NEW b \in Notices, notices'[a] # NoNotice, notices'[b] # NoNotice,
               notices'[a].to = notices'[b].to, notices'[a].key = notices'[b].key
        PROVE  a = b
    <3>1. \A d \in Notices : d # n /\ notices'[d] # NoNotice => ~(notices[d].to = k.arg.to /\ notices[d].key = k.on)
      BY <1>2, <1>6 DEF AlreadyTold, KeyedTo, Inbox, Rows
    <3>2. CASE a # n /\ b # n
      BY <1>6, <2>0, <2>2, <3>2 DEF ToldSoFar
    <3>3. CASE a = n \/ b = n
      BY <1>4, <1>6, <2>2, <3>1, <3>3
    <3>. QED
      BY <3>2, <3>3
  <2>3. \A d \in Calls : \A p \in Reached(call'[d]) : TellsOf(p, call'[d].on, notices') # {}
    <3>1. \A d \in Calls : \A p \in Reached(call[d]) : TellsOf(p, call[d].on, notices) # {}
      BY <2>0 DEF ToldSoFar
    <3>2. \A p \in Reached(k) : TellsOf(p, k.on, notices') # {}
      BY <1>8, <3>1
    <3>3. Reached(k) = k.arg.all \ (k.view \cup {k.arg.to})
      BY <1>2 DEF Reached
    <3>4. \A p \in Reached(j) : TellsOf(p, j.on, notices') # {}
      BY <1>9, <1>10, <3>2, <3>3
    <3>5. \A d \in Calls : d # c => \A p \in Reached(call'[d]) : TellsOf(p, call'[d].on, notices') # {}
      BY <1>8, <1>11, <3>1
    <3>. QED
      BY <1>11, <3>4, <3>5
  <2>. QED
    BY <2>1, <2>2, <2>3 DEF ToldSoFar
<1>13. ResentHeld'
  <2>1. Turned({"link", "fan"})
    BY <1>10, <1>11 DEF Turned
  <2>2. \A a \in Notices : /\ notices[a] # NoNotice => notices'[a] # NoNotice
                           /\ notices'[a].recent = notices[a].recent \/ notices'[a].recent = 0
    BY <1>4, <1>5, <1>6
  <2>. QED
    BY <1>1, <2>1, <2>2, ResentKept DEF NoticesHeld
<1>14. MailsAccounted'
  <2>1. Accounts(v)
    BY <1>4 DEF Accounts, Accounted, QueuedMail
  <2>. QED
    BY <1>6, <2>1 DEF NoticesHeld, MailsAccounted
<1>15. LinksHeld'
  <2> SUFFICES ASSUME NEW a \in Rows' \ cut', NEW i \in DOMAIN notices'[a].mails, notices'[a].mails[i].delivery = "none"
               PROVE  \E d \in Calls : Linking(call'[d], a, i)
    BY DEF LinksHeld
  <2>1. CASE a = n
    <3>1. i \in DOMAIN v.mails
      BY <1>6, <2>1
    <3>2. mailed /\ i = 1
      BY <1>4, <3>1
    <3>3. Linking(call'[c], n, 1)
      BY <1>10, <1>11, <3>2 DEF Linking
    <3>. QED
      BY <2>1, <3>2, <3>3
  <2>2. CASE a # n
    <3>1. a \in Rows \ cut /\ i \in DOMAIN notices[a].mails /\ notices[a].mails[i].delivery = "none"
      BY <1>1, <1>6, <2>2 DEF Rows
    <3>2. PICK d \in Calls : Linking(call[d], a, i)
      BY <3>1 DEF NoticesHeld, LinksHeld
    <3>3. call'[d] = call[d]
      BY <1>11, <3>2 DEF LinkersStay, Linking
    <3>. QED
      BY <3>2, <3>3
  <2>. QED
    BY <2>1, <2>2
<1>. QED
  BY <1>12, <1>13, <1>14, <1>15 DEF NoticesHeld

LEMMA CommitResendingHeld ==
  ASSUME Typed, NoticesHeld, NEW c \in Calls, CommitResending(c)
  PROVE  NoticesHeld'
<1>1. CallsTyped /\ CallIs(call[c]) /\ notices \in [Notices -> Notice] /\ UNCHANGED <<told, hurried, cut>>
  BY DEF Typed, TypeOK, CallsTyped, CommitResending
<1> DEFINE n == call[c].on
           mailed == notices[n].channel = "email"
<1>2. call[c].pc = "again" /\ n \in Notices /\ notices[n] \in Notice
  BY <1>1 DEF CommitResending, CallIs
<1>3. /\ notices[n] # NoNotice
      /\ n \notin hurried => notices[n].recent = 0 /\ \A d \in Calls : Resending(call[d], n) => d = c
  BY <1>2 DEF NoticesHeld, ResentHeld
<1>4. PICK w : /\ notices' = [notices EXCEPT ![n] = w]
               /\ w.to = notices[n].to /\ w.key = notices[n].key /\ w.channel = notices[n].channel
               /\ w.status \in {"queued", "sent"} /\ w.recent = notices[n].recent + 1
               /\ w.mails = IF mailed THEN Append(notices[n].mails, QueuedMail) ELSE notices[n].mails
  <2> DEFINE w == [notices[n] EXCEPT !.recent = @ + 1, !.status = IF mailed THEN "queued" ELSE "sent",
                                     !.mails = IF mailed THEN Append(@, QueuedMail) ELSE @,
                                     !.tries = IF mailed THEN @ ELSE @ + 1]
  <2>1. notices' = [notices EXCEPT ![n] = w]
    BY Zenon, <1>1, <1>2 DEF CommitResending, Notice
  <2>2. /\ w.to = notices[n].to /\ w.key = notices[n].key /\ w.channel = notices[n].channel
        /\ w.status \in {"queued", "sent"} /\ w.recent = notices[n].recent + 1
        /\ w.mails = IF mailed THEN Append(notices[n].mails, QueuedMail) ELSE notices[n].mails
    BY <1>2 DEF Notice
  <2>. HIDE DEF w
  <2>. QED
    BY <2>1, <2>2
<1>5. notices'[n] = w /\ \A a \in Notices : a # n => notices'[a] = notices[a]
  BY <1>1, <1>2, <1>4
<1>6. w # NoNotice
  BY <1>4 DEF NoNotice
<1>7. PICK j : /\ call' = [call EXCEPT ![c] = j] /\ j.pc \in {"relink", "done"}
               /\ mailed => j.pc = "relink" /\ j.about = {<<n, Len(notices[n].mails) + 1>>}
  <2> DEFINE j == Call("relink", {<<n, Len(notices[n].mails) + 1>>}, n, None, None)
  <2>1. j.pc = "relink" /\ j.about = {<<n, Len(notices[n].mails) + 1>>}
    BY CallFields
  <2>2. call' = [call EXCEPT ![c] = IF mailed THEN j ELSE Over]
    BY DEF CommitResending
  <2>. HIDE DEF j
  <2>. QED
    BY <2>1, <2>2, OverIs
<1>8. call'[c] = j /\ (\A d \in Calls : d # c => call'[d] = call[d]) /\ LinkersStay
  BY <1>1, <1>2, <1>7, OthersStay
<1>9. Turned({"relink", "done"})
  BY <1>7, <1>8 DEF Turned
<1>10. RowsKept
  BY <1>3, <1>4, <1>5, <1>6 DEF RowsKept
<1>11. ToldSoFar'
  BY <1>1, <1>9, <1>10, ToldElse DEF NoticesHeld
<1>12. ResentHeld'
  <2>0. ResentHeld
    BY DEF NoticesHeld
  <2>1. ResentOnce'
    <3> SUFFICES ASSUME NEW a \in Notices \ hurried PROVE notices'[a].recent <= 1
      BY <1>1 DEF ResentOnce
    <3>1. CASE a = n
      BY <1>3, <1>4, <1>5, <3>1
    <3>2. CASE a # n
      BY <1>5, <2>0, <3>2 DEF ResentHeld, ResentOnce
    <3>. QED
      BY <3>1, <3>2
  <2>2. ASSUME NEW d \in Calls, call'[d].pc = "again"
        PROVE  /\ notices'[call'[d].on] # NoNotice
               /\ call'[d].on \notin hurried' =>
                    notices'[call'[d].on].recent = 0 /\ \A e \in Calls : Resending(call'[e], call'[d].on) => e = d
    <3>1. d # c /\ call'[d] = call[d]
      BY <1>7, <1>8, <2>2
    <3>2. call[d].on \in Notices
      BY <1>1, <2>2, <3>1 DEF CallsTyped, CallIs
    <3>3. /\ notices[call[d].on] # NoNotice
          /\ call[d].on \notin hurried =>
               notices[call[d].on].recent = 0 /\ \A e \in Calls : Resending(call[e], call[d].on) => e = d
      BY <2>0, <2>2, <3>1 DEF ResentHeld
    <3>4. \A e \in Calls : \A x : Resending(call'[e], x) => Resending(call[e], x)
      BY <1>7, <1>8 DEF Resending
    <3>5. call[d].on \notin hurried => call[d].on # n
      <4>1. call[d].on = n => Resending(call[d], n)
        BY <2>2, <3>1 DEF Resending
      <4>. QED
        BY <1>3, <3>1, <4>1
    <3>6. notices'[call[d].on] # NoNotice
      BY <1>5, <1>6, <3>2, <3>3
    <3>7. call[d].on \notin hurried => notices'[call[d].on].recent = 0
      BY <1>5, <3>2, <3>3, <3>5
    <3>. QED
      BY <1>1, <3>1, <3>3, <3>4, <3>6, <3>7
  <2>. QED
    BY <2>1, <2>2 DEF ResentHeld
<1>13. notices[n].mails \in Seq(Mail) /\ Accounts(notices[n])
  BY <1>2 DEF Notice, NoticesHeld, MailsAccounted
<1>14. MailsAccounted'
  <2>1. Accounted(QueuedMail)
    BY DEF Accounted, QueuedMail
  <2>2. \A i \in DOMAIN w.mails : Accounted(w.mails[i])
    <3>1. \A s \in Seq(Mail) : \A i \in DOMAIN Append(s, QueuedMail) :
            Append(s, QueuedMail)[i] = QueuedMail \/ (i \in DOMAIN s /\ Append(s, QueuedMail)[i] = s[i])
      OBVIOUS
    <3>. QED
      BY <1>4, <1>13, <2>1, <3>1 DEF Accounts
  <2>3. w.mails # <<>> => w.channel = "email"
    BY <1>4, <1>13 DEF Accounts
  <2>4. Accounts(w)
    BY <1>4, <2>2, <2>3 DEF Accounts
  <2>. QED
    BY <1>5, <2>4 DEF NoticesHeld, MailsAccounted
<1>15. LinksHeld'
  <2> SUFFICES ASSUME NEW a \in Rows' \ cut', NEW i \in DOMAIN notices'[a].mails, notices'[a].mails[i].delivery = "none"
               PROVE  \E d \in Calls : Linking(call'[d], a, i)
    BY DEF LinksHeld
  <2>1. a \in Rows \ cut
    BY <1>1, <1>10 DEF Rows, RowsKept
  <2>2. CASE i \in DOMAIN notices[a].mails /\ notices[a].mails[i].delivery = "none"
    <3>1. PICK d \in Calls : Linking(call[d], a, i)
      BY <2>1, <2>2 DEF NoticesHeld, LinksHeld
    <3>2. call'[d] = call[d]
      BY <1>8, <3>1 DEF LinkersStay, Linking
    <3>. QED
      BY <3>1, <3>2
  <2>3. CASE ~(i \in DOMAIN notices[a].mails /\ notices[a].mails[i].delivery = "none")
    <3>1. a = n /\ i \in DOMAIN w.mails
      BY <1>5, <2>1, <2>3 DEF Rows
    <3>2. \A s \in Seq(Mail) : \A h \in DOMAIN Append(s, QueuedMail) :
            h = Len(s) + 1 \/ (h \in DOMAIN s /\ Append(s, QueuedMail)[h] = s[h])
      OBVIOUS
    <3>3. mailed /\ i = Len(notices[n].mails) + 1
      <4>1. w.mails[i].delivery = "none"
        BY <1>5, <3>1
      <4>2. ~(i \in DOMAIN notices[n].mails /\ notices[n].mails[i].delivery = "none")
        BY <2>3, <3>1
      <4>3. mailed
        BY <1>4, <3>1, <4>1, <4>2
      <4>4. i \in DOMAIN Append(notices[n].mails, QueuedMail) /\ Append(notices[n].mails, QueuedMail)[i].delivery = "none"
        BY <1>4, <3>1, <4>1, <4>3
      <4>. QED
        BY <1>13, <3>2, <4>2, <4>3, <4>4
    <3>4. Linking(call'[c], n, Len(notices[n].mails) + 1)
      BY <1>7, <1>8, <3>3 DEF Linking
    <3>. QED
      BY <3>1, <3>3, <3>4
  <2>. QED
    BY <2>2, <2>3
<1>. QED
  BY <1>11, <1>12, <1>14, <1>15 DEF NoticesHeld

\* The steps of the other parts leave the notices alone.
LEMMA NoticesNextHeld ==
  ASSUME Typed, NoticesHeld, Next
  PROVE  NoticesHeld'
<1>1. CASE AdminNext /\ UNCHANGED <<safetyVars, noticeVars>>
  <2>1. LinkersStay /\ Turned(Access \cup {"done"})
    BY <1>1, LinkersAside, AccessAside
  <2>2. (Access \cup {"done"}) \cap {"fan", "tell", "link", "again"} = {}
    BY DEF Access, OfPeople, OfInvite
  <2>. QED
    BY <1>1, <2>1, <2>2, NoticesStill
<1>2. CASE (SafetyNext \/ IncidentNext) /\ UNCHANGED noticeVars
  <2>1. LinkersStay /\ Turned(Looking)
    BY <1>2, LinkersAside, SafetyAside
  <2>2. Looking \cap {"fan", "tell", "link", "again"} = {}
    BY DEF Looking, OfCase
  <2>. QED
    BY <1>2, <2>1, <2>2, NoticesStill
<1>3. CASE NoticesNext
  BY <1>3, NoticesTell, NoticesRead, DeliveryHeld, CommitNoticeHeld, CommitResendingHeld DEF NoticesNext, Turn
<1>4. CASE MailHandled
  BY <1>4, HandledHeld
<1>5. ASSUME NEW c \in Calls, Crash(c), cut' = cut \cup Severed(c),
             UNCHANGED <<safetyVars, notices, prefs, told, hurried>>
      PROVE  NoticesHeld'
  BY <1>5, CrashHeld
<1>. QED
  BY <1>1, <1>2, <1>3, <1>4, <1>5 DEF Next

-----------------------------------------------------------------------------
(* At the start.                                                            *)
AllHeld == RowsTyped /\ AccessHeld /\ SignalsHeld /\ NoticesHeld
LEMMA InitAll == Init => AllHeld
<1> SUFFICES ASSUME Init PROVE AllHeld
  OBVIOUS
<1>1. PICK s \in Starts :
       /\ people = s.people /\ cases = s.cases /\ adverse = s.adverse /\ notices = s.notices
       /\ call = [c \in Calls |-> IF c \in s.calls THEN Blank ELSE Over]
  BY DEF Init
<1>2. \A c \in Calls : call[c].pc \in {"idle", "done"}
  BY <1>1, OverIs DEF Blank, Call
<1>3. RowsTyped
  BY InitHeld
<1>4. AccessHeld
  <2>1. Superadmins # {}
    BY <1>1, StartsAssumption DEF Superadmins
  <2>2. RankHeld
    BY <1>2, <2>1 DEF RankHeld, Decisive
  <2>3. SignedOutHeld
    BY <1>2 DEF SignedOutHeld, SuspendedSignedOut, Init
  <2>4. Made = {}
    BY DEF Init, Made, NoInvite
  <2>5. InvitedOnce
    BY <1>2, <2>4 DEF InvitedOnce, OneOpenInvitation
  <2>. QED
    BY <2>2, <2>3, <2>5 DEF AccessHeld
<1>5. SignalsHeld
  <2>1. Numbered
    <3>1. \A m, n \in Cases : m < n /\ cases[n].subject # None => cases[m].subject # None
      BY <1>1, StartsAssumption
    <3>. QED
      BY <3>1, SubjectsAssumption DEF Numbered, Opened
  <2>2. \A x \in Subjects : signals[x] = NoSignal
    BY DEF Init
  <2>3. SignalsFiled
    BY <2>2, NoSignalIs DEF SignalsFiled, Filed
  <2>4. \A c \in Calls : ViewFollows(call[c])
    BY <1>2, ViewsAside
  <2>. QED
    BY <2>1, <2>3, <2>4 DEF SignalsHeld
<1>6. NoticesHeld
  <2>1. Settled(notices) /\ told = {} /\ hurried = {} /\ cut = {}
    BY <1>1, StartsAssumption DEF Init
  <2>7. \A n \in Notices : notices[n] # NoNotice =>
          /\ notices[n].status # "pending" /\ notices[n].recent <= 1
          /\ notices[n].mails # <<>> => notices[n].channel = "email"
          /\ \A i \in DOMAIN notices[n].mails : Accounted(notices[n].mails[i]) /\ notices[n].mails[i].delivery # "none"
    BY <2>1 DEF Settled
  <2>2. ToldSoFar
    <3>1. \A c \in Calls : Reached(call[c]) = {}
      BY <1>2 DEF Reached
    <3>. QED
      BY <2>1, <3>1 DEF ToldSoFar, Settled
  <2>3. NoNotice.mails = <<>> /\ NoNotice.recent = 0
    BY DEF NoNotice
  <2>4. ResentHeld
    BY <1>2, <2>3, <2>7 DEF ResentHeld, ResentOnce
  <2>5. LinksHeld
    BY <2>7 DEF LinksHeld, Rows
  <2>6. MailsAccounted
    <3> SUFFICES ASSUME NEW n \in Notices PROVE Accounts(notices[n])
      BY DEF MailsAccounted
    <3>1. CASE notices[n] # NoNotice
      BY <2>7, <3>1 DEF Accounts
    <3>2. CASE notices[n] = NoNotice
      BY <2>3, <3>2 DEF Accounts
    <3>. QED
      BY <3>1, <3>2
  <2>. QED
    BY <2>2, <2>4, <2>5, <2>6 DEF NoticesHeld
<1>. QED
  BY <1>3, <1>4, <1>5, <1>6 DEF AllHeld

LEMMA NextAll == AllHeld /\ [Next]_vars => AllHeld'
<1> SUFFICES ASSUME AllHeld, [Next]_vars PROVE AllHeld'
  OBVIOUS
<1>1. RowsTyped'
  BY NextHeld DEF AllHeld
<1>2. CASE Next
  BY <1>1, <1>2, AccessNext, SignalsNext, NoticesNextHeld DEF AllHeld, RowsTyped, RowsHeld
<1>3. CASE UNCHANGED vars
  <2>1. Turned({}) /\ LinkersStay
    BY <1>3 DEF vars, Turned, LinkersStay
  <2>2. AccessHeld'
    BY <1>3, <2>1, AccessElse DEF AllHeld, RowsTyped, vars
  <2>3. SignalsHeld'
    BY <1>3, <2>1, SignalsAside DEF AllHeld, RowsTyped, vars, safetyVars, ClosedCases, Opened
  <2>4. NoticesHeld'
    BY <1>3, <2>1, NoticesStill DEF AllHeld, RowsTyped, vars
  <2>. QED
    BY <1>1, <2>2, <2>3, <2>4 DEF AllHeld
<1>. QED
  BY <1>2, <1>3

(* What follows from what is held.                                          *)
LEMMA AccessFollows == AccessHeld => AccessKept
BY DEF AccessHeld, RankHeld, SignedOutHeld, InvitedOnce, AccessKept, SuperadminKept

LEMMA SignalsFollowHeld == SignalsHeld => SignalsFollow
BY NoSignalIs, SubjectsAssumption DEF SignalsHeld, SignalsFiled, SignalsFollow, Filed, Later, Opened

LEMMA ToldFollows == ToldSoFar => ToldEverybody
BY DEF ToldSoFar, ToldEverybody, TellsOf, KeyedTo, Inbox, Rows

LEMMA LinksFollow ==
  ASSUME LinksHeld
  PROVE  /\ MailLinked
         /\ \A x \in Mails : Linked(x) \/ x[1] \in cut \cup UNION {Severed(c) : c \in Flying}
<1>1. ASSUME NEW c \in Calls, NEW n, NEW i, Linking(call[c], n, i)
      PROVE  c \in Flying /\ n \in Severed(c)
  <2>1. call[c].pc \in {"link", "relink"} /\ <<n, i>> \in call[c].about
    BY <1>1 DEF Linking
  <2>. QED
    BY <2>1 DEF Flying, Severed
<1>2. ASSUME NEW n \in Rows \ cut, NEW i \in DOMAIN notices[n].mails, ~Linked(<<n, i>>)
      PROVE  \E c \in Flying : n \in Severed(c)
  <2>1. notices[n].mails[i].delivery = "none"
    BY <1>2 DEF Linked, MailOf
  <2>2. PICK c \in Calls : Linking(call[c], n, i)
    BY <2>1 DEF LinksHeld
  <2>. QED
    BY <1>1, <2>2
<1>3. MailLinked
  BY <1>2 DEF MailLinked
<1>4. ASSUME NEW x \in Mails, ~Linked(x)
      PROVE  x[1] \in cut \cup UNION {Severed(c) : c \in Flying}
  <2>1. PICK n \in Rows : x \in {n} \X DOMAIN notices[n].mails
    BY DEF Mails
  <2>2. x = <<n, x[2]>> /\ x[1] = n /\ x[2] \in DOMAIN notices[n].mails
    BY <2>1
  <2>3. n \in cut \/ \E c \in Flying : n \in Severed(c)
    BY <1>2, <1>4, <2>2
  <2>. QED
    BY <2>2, <2>3
<1>. QED
  BY <1>3, <1>4

LEMMA CountedFinite ==
  ASSUME Typed
  PROVE  /\ IsFiniteSet(Rows) /\ IsFiniteSet(Mails) /\ IsFiniteSet(AppDeliveries)
         /\ \A S \in SUBSET Mails : IsFiniteSet(S) /\ Cardinality(S) \in Nat
<1>1. IsFiniteSet(Rows)
  BY NoticesAssumption, FS_Subset DEF Rows
<1>2. \A n \in Rows : notices[n].mails \in Seq(Mail) /\ notices[n].tries \in Nat
  BY DEF Typed, TypeOK, Rows, Notice
<1>3. ASSUME NEW f, f = [n \in Rows |-> f[n]], \A n \in Rows : IsFiniteSet(f[n])
      PROVE  IsFiniteSet(UNION {f[n] : n \in Rows})
  <2>1. f \in Surjection(Rows, {f[n] : n \in Rows})
    BY <1>3 DEF Surjection
  <2>2. IsFiniteSet({f[n] : n \in Rows})
    BY <1>1, <2>1, FS_Surjection
  <2>. QED
    BY <1>3, <2>2, FS_UNION
<1>4. ASSUME NEW n, NEW k \in Nat PROVE IsFiniteSet({n} \X (1..k))
  <2>1. IsFiniteSet({n})
    BY FS_Singleton
  <2>2. 1 \in Int /\ k \in Int
    OBVIOUS
  <2>3. IsFiniteSet(1..k)
    BY <2>2, FS_Interval
  <2>. QED
    BY <2>1, <2>3, FS_Product
<1>5. IsFiniteSet(Mails)
  <2> DEFINE f == [n \in Rows |-> {n} \X DOMAIN notices[n].mails]
  <2>1. \A n \in Rows : IsFiniteSet(f[n])
    <3>1. \A s \in Seq(Mail) : DOMAIN s = 1..Len(s) /\ Len(s) \in Nat
      OBVIOUS
    <3>. QED
      BY <1>2, <1>4, <3>1
  <2>2. Mails = UNION {f[n] : n \in Rows} /\ f = [n \in Rows |-> f[n]]
    BY DEF Mails
  <2>. HIDE DEF f
  <2>. QED
    BY <1>3, <2>1, <2>2
<1>6. IsFiniteSet(AppDeliveries)
  <2> DEFINE f == [n \in Rows |-> {n} \X (1..notices[n].tries)]
  <2>1. \A n \in Rows : IsFiniteSet(f[n])
    BY <1>2, <1>4
  <2>2. AppDeliveries = UNION {f[n] : n \in Rows} /\ f = [n \in Rows |-> f[n]]
    BY DEF AppDeliveries
  <2>. HIDE DEF f
  <2>. QED
    BY <1>3, <2>1, <2>2
<1>7. \A S \in SUBSET Mails : IsFiniteSet(S) /\ Cardinality(S) \in Nat
  BY <1>5, FS_Subset, FS_CardinalityType
<1>. QED
  BY <1>1, <1>5, <1>6, <1>7

LEMMA DisjointSum ==
  ASSUME NEW S, NEW T, IsFiniteSet(S), IsFiniteSet(T), S \cap T = {}
  PROVE  /\ IsFiniteSet(S \cup T) /\ Cardinality(S \cup T) = Cardinality(S) + Cardinality(T)
         /\ Cardinality(S) \in Nat /\ Cardinality(T) \in Nat
<1>1. Cardinality({}) = 0
  BY FS_EmptySet
<1>2. Cardinality(S) \in Nat /\ Cardinality(T) \in Nat
  BY FS_CardinalityType
<1>3. IsFiniteSet(S \cup T) /\ Cardinality(S \cup T) = Cardinality(S) + Cardinality(T) - 0
  BY <1>1, FS_Union
<1>. QED
  BY <1>2, <1>3

\* An e-mail is where its row has it.
LEMMA MailIs ==
  ASSUME Typed, MailsAccounted, NEW x \in Mails
  PROVE  /\ x[1] \in Rows /\ MailOf(x) \in Mail /\ Accounted(MailOf(x))
         /\ notices[x[1]].channel = "email" /\ notices[x[1]].status # "pending"
<1>1. PICK n \in Rows : x \in {n} \X DOMAIN notices[n].mails
  BY DEF Mails
<1>2. x[1] = n /\ x[2] \in DOMAIN notices[n].mails /\ n \in Notices
  BY <1>1 DEF Rows
<1>3. notices[n].mails \in Seq(Mail) /\ Accounts(notices[n]) /\ notices[n] # NoNotice
  BY <1>2 DEF Typed, TypeOK, Notice, MailsAccounted, Rows
<1>4. notices[n].mails # <<>>
  BY <1>2, <1>3
<1>. QED
  BY <1>1, <1>2, <1>3, <1>4 DEF Accounts, MailOf

LEMMA ConsoleFollows ==
  ASSUME Typed, NoticesHeld
  PROVE  ConsoleAgrees
<1>0. MailsAccounted /\ LinksHeld
  BY DEF NoticesHeld
<1>1. /\ MailsIn("queued") \subseteq Mails /\ MailsIn("sent") \subseteq Mails /\ MailsIn("failed") \subseteq Mails
      /\ DeliveriesIn("sent") \subseteq MailsIn("sent")
  BY <1>0, MailIs DEF MailsIn, DeliveriesIn, Accounted
<1>2. Cardinality(Mails) = Cardinality(MailsIn("queued")) + Cardinality(MailsIn("sent")) + Cardinality(MailsIn("failed"))
  <2>1. /\ Mails = (MailsIn("queued") \cup MailsIn("sent")) \cup MailsIn("failed")
        /\ (MailsIn("queued") \cup MailsIn("sent")) \cap MailsIn("failed") = {}
        /\ MailsIn("queued") \cap MailsIn("sent") = {}
    BY <1>0, MailIs DEF MailsIn, Mail
  <2>2. IsFiniteSet(MailsIn("queued")) /\ IsFiniteSet(MailsIn("sent")) /\ IsFiniteSet(MailsIn("failed"))
    BY <1>1, CountedFinite
  <2>3. /\ IsFiniteSet(MailsIn("queued") \cup MailsIn("sent"))
        /\ Cardinality(MailsIn("queued") \cup MailsIn("sent")) = Cardinality(MailsIn("queued")) + Cardinality(MailsIn("sent"))
    BY <2>1, <2>2, DisjointSum
  <2>4. Cardinality(Mails) = Cardinality(MailsIn("queued") \cup MailsIn("sent")) + Cardinality(MailsIn("failed"))
    BY <2>1, <2>2, <2>3, DisjointSum
  <2>. QED
    BY <2>3, <2>4
<1>3. ResendableFailed = RetryableFailed
  BY DEF ResendableFailed, RetryableFailed, MailsIn
<1>4. RetryableFailed = {x \in MailsIn("failed") : Linked(x)}
  BY <1>0, MailIs DEF RetryableFailed, MailsIn
<1>5. ASSUME NEW x \in MailsIn("failed")
      PROVE  /\ Linked(x) <=> Item(x).retryable
             /\ Linked(x) <=> x \in DeliveryAttempts(x)
             /\ Item(x).retryable \/ x[1] \in cut \cup UNION {Severed(c) : c \in Flying}
  <2>1. x \in Mails /\ MailOf(x).status = "failed" /\ notices[x[1]].channel = "email"
    BY <1>0, MailIs DEF MailsIn
  <2>2. RetryPolicy(x) = IF Linked(x) THEN "manual_resend_available" ELSE "not_linked_to_notification"
    BY <2>1 DEF RetryPolicy
  <2>3. Item(x).retryable <=> Linked(x)
    BY <2>2 DEF Item
  <2>4. Linked(x) <=> x \in DeliveryAttempts(x)
    BY <2>1 DEF DeliveryAttempts
  <2>5. Linked(x) \/ x[1] \in cut \cup UNION {Severed(c) : c \in Flying}
    BY <1>0, <2>1, LinksFollow
  <2>. QED
    BY <2>3, <2>4, <2>5
<1>6. /\ Cardinality(DeliveriesIn("sent")) <= Cardinality(MailsIn("sent"))
      /\ Cardinality(DeliveriesIn("sent")) \in Nat /\ Cardinality(MailsIn("sent")) \in Nat
      /\ Cardinality(AppDeliveries) \in Nat
  BY <1>1, CountedFinite, FS_Subset, FS_CardinalityType
<1>7. ASSUME NEW x \in Mails
      PROVE  /\ "notification_delivered" \in DeliveryTimeline(x) => "sent" \in DeliveryTimeline(x)
             /\ "notification_failed" \in DeliveryTimeline(x) => "failed" \in DeliveryTimeline(x)
  BY <1>0, MailIs DEF DeliveryTimeline, Accounted
<1>8. Cardinality({n \in Rows : notices[n].status = "pending"}) = 0
  <2>1. {n \in Rows : notices[n].status = "pending"} = {}
    BY <1>0 DEF MailsAccounted, Accounts, Rows
  <2>. QED
    BY <2>1, FS_EmptySet
<1>9. Cardinality({n \in Rows : notices[n].channel = "email"}) + Cardinality({n \in Rows : notices[n].channel = "in_app"})
        = Cardinality(Rows)
  <2> DEFINE S == {n \in Rows : notices[n].channel = "email"}
             T == {n \in Rows : notices[n].channel = "in_app"}
  <2>1. S \cup T = Rows /\ S \cap T = {} /\ S \subseteq Rows /\ T \subseteq Rows
    BY DEF Typed, TypeOK, Notice, Rows
  <2>2. IsFiniteSet(S) /\ IsFiniteSet(T)
    BY <2>1, CountedFinite, FS_Subset
  <2>. HIDE DEF S, T
  <2>3. Cardinality(S \cup T) = Cardinality(S) + Cardinality(T)
    BY <2>1, <2>2, DisjointSum
  <2>. QED
    BY <2>1, <2>3 DEF S, T
<1>10. CommunicationFailures = [x \in MailsIn("failed") |-> [status |-> MailOf(x).status, retry_supported |-> Linked(x)]]
  BY DEF CommunicationFailures
<1>11. /\ DOMAIN CommunicationFailures = MailsIn("failed")
       /\ \A x \in MailsIn("failed") : CommunicationFailures[x].retry_supported = Linked(x)
  BY <1>10
<1>12. /\ Summary.total = Cardinality(Mails) /\ Summary.queued = Cardinality(MailsIn("queued"))
       /\ Summary.sent = Cardinality(MailsIn("sent")) /\ Summary.failed = Cardinality(MailsIn("failed"))
       /\ Summary.resendable_failed = Cardinality(ResendableFailed)
  BY DEF Summary
<1>13. /\ EmailWorkload.pending = Cardinality(MailsIn("queued")) /\ EmailWorkload.failed = Cardinality(MailsIn("failed"))
       /\ EmailWorkload.succeeded_recent = Cardinality(MailsIn("sent"))
       /\ EmailWorkload.retryable = Cardinality(RetryableFailed)
  BY DEF EmailWorkload
<1>14. NotificationWorkload.succeeded_recent = Cardinality(DeliveriesIn("sent")) + Cardinality(AppDeliveries)
  BY DEF NotificationWorkload
<1>15. /\ Statistics.by_status["pending"] = Cardinality({n \in Rows : notices[n].status = "pending"})
       /\ Statistics.by_channel["email"] = Cardinality({n \in Rows : notices[n].channel = "email"})
       /\ Statistics.by_channel["in_app"] = Cardinality({n \in Rows : notices[n].channel = "in_app"})
       /\ Statistics.total = Cardinality(Rows)
  BY DEF Statistics
<1>16. Summary.total = Summary.queued + Summary.sent + Summary.failed
  BY <1>2, <1>12
<1>17. /\ <<Summary.queued, Summary.sent, Summary.failed>> =
            <<EmailWorkload.pending, EmailWorkload.succeeded_recent, EmailWorkload.failed>>
       /\ Summary.resendable_failed = EmailWorkload.retryable
  BY <1>3, <1>12, <1>13
<1>18. EmailWorkload.retryable = Cardinality({x \in DOMAIN CommunicationFailures : CommunicationFailures[x].retry_supported})
  <2>1. {x \in DOMAIN CommunicationFailures : CommunicationFailures[x].retry_supported} = {x \in MailsIn("failed") : Linked(x)}
    BY <1>11
  <2>. QED
    BY <1>4, <1>13, <2>1
<1>19. \A x \in DOMAIN CommunicationFailures :
         /\ CommunicationFailures[x].retry_supported <=> Item(x).retryable
         /\ CommunicationFailures[x].retry_supported <=> x \in DeliveryAttempts(x)
         /\ Item(x).retryable \/ x[1] \in cut \cup UNION {Severed(c) : c \in Flying}
  BY <1>5, <1>11
<1>20. NotificationWorkload.succeeded_recent - Cardinality(AppDeliveries) <= EmailWorkload.succeeded_recent
  BY <1>6, <1>13, <1>14
<1>21. /\ Statistics.by_status["pending"] = 0
       /\ Statistics.by_channel["email"] + Statistics.by_channel["in_app"] = Statistics.total
  BY <1>8, <1>9, <1>15
<1>. QED
  BY Zenon, <1>7, <1>16, <1>17, <1>18, <1>19, <1>20, <1>21 DEF ConsoleAgrees

\* Who administers, what they look into and what they are told stay in order, whatever calls overlap or die: a superadmin who can sign in remains unless an acceptance lowered one, an address has one open invitation, a suspended person is signed in nowhere, a signal is at an investigation that will look at it, everybody a call was to tell has been told once, an e-mail is sent again once in a cooldown and is linked to its notice, and the pages of the console agree; each unless the calls that may break it overlapped or died. The first alone excepts a call that overlaps no other: accept_invitation sets the role without looking at what it takes (admin_settings_service.py:650, SuperadminRemains).
THEOREM AdministrationKept == Spec => []AdministrationInOrder
<1>1. AllHeld => AdministrationInOrder
  <2> SUFFICES ASSUME AllHeld PROVE AdministrationInOrder
    OBVIOUS
  <2>1. AccessKept /\ SignalsFollow
    BY AccessFollows, SignalsFollowHeld DEF AllHeld
  <2>2. ToldEverybody /\ ResentOnce /\ MailLinked
    BY ToldFollows, LinksFollow DEF AllHeld, NoticesHeld, ResentHeld
  <2>3. ConsoleAgrees
    BY ConsoleFollows DEF AllHeld, RowsTyped
  <2>. QED
    BY <2>1, <2>2, <2>3 DEF AdministrationInOrder, NoticesInOrder
<1>. QED
  BY <1>1, InitAll, NextAll, PTL DEF Spec
=================================================================================
