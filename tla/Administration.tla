----------------------------- MODULE Administration -----------------------------
(* The administrators, what they look into, and what they are told.               *)
EXTENDS Notifications

CONSTANT Starts   \* the rows there may be at the start, and the calls to come
ASSUME StartsAssumption == \A s \in Starts :
  /\ s.people \in [People -> Person] /\ s.cases \in [Cases -> Case] /\ s.calls \subseteq Calls
  /\ \A n \in Cases : s.cases[n].status \in Closing => ~s.cases[n].manual
  /\ s.adverse \in [Subjects -> 0..Threshold]
  /\ \E p \in People : s.people[p] = [role |-> "superadmin", active |-> TRUE]
  /\ \A m, n \in Cases : m < n /\ s.cases[n].subject # None => s.cases[m].subject # None
  /\ s.notices \in [Notices -> Notice] /\ Settled(s.notices) /\ s.prefs \in [People \X Keys -> Preference]

VARIABLE parts    \* what the calls are to: a bound of the exploration
vars == <<adminVars, safetyVars, noticeVars, call, parts>>

Init ==
  /\ \E s \in Starts :
       /\ people = s.people /\ cases = s.cases /\ parts = s.parts /\ adverse = s.adverse
       /\ notices = s.notices /\ prefs = s.prefs
       /\ call = [c \in Calls |-> IF c \in s.calls THEN Blank ELSE Over]
  /\ live = [p \in People |-> people[p].role \in Staff /\ people[p].active]
  /\ invites = [i \in Invites |-> NoInvite]
  /\ raced = {} /\ crossed = FALSE /\ lowered = FALSE
  /\ signals = [s \in Subjects |-> NoSignal]
  /\ incidents = [x \in Incidents |-> "none"]
  /\ mixed = {} /\ told = {} /\ hurried = {} /\ cut = {}

Next ==
  /\ \/ "access" \in parts /\ AdminNext /\ UNCHANGED <<safetyVars, noticeVars>>
     \/ "safety" \in parts /\ SafetyNext /\ UNCHANGED noticeVars
     \/ "incidents" \in parts /\ IncidentNext /\ UNCHANGED noticeVars
     \/ "notices" \in parts /\ NoticesNext
     \/ "mails" \in parts /\ MailHandled
     \/ \E c \in Calls :
          /\ Crash(c) /\ cut' = cut \cup Severed(c)
          /\ UNCHANGED <<safetyVars, notices, prefs, told, hurried>>
  /\ UNCHANGED parts
Spec == Init /\ [][Next]_vars

TypeOK ==
  /\ people \in [People -> Person] /\ live \in [People -> BOOLEAN]
  /\ invites \in [Invites -> Invite]
  /\ raced \subseteq People /\ {crossed, lowered} \subseteq BOOLEAN
  /\ adverse \in [Subjects -> 0..Threshold] /\ signals \in [Subjects -> Signal]
  /\ cases \in [Cases -> Case]
  /\ incidents \in [Incidents -> IncidentStatus \cup {"none"}]
  /\ notices \in [Notices -> Notice] /\ prefs \in [People \X Keys -> Preference]
  /\ hurried \subseteq Notices /\ cut \subseteq Notices

\* Who administers (but for what an acceptance takes from a superadmin, which SuperadminRemains is about), what they look into, and what they are told.
AdministrationInOrder == AccessKept /\ SignalsFollow /\ NoticesInOrder
\* What was closed stays closed.
ClosedForGood == ClosedStays /\ InvitationsClose
================================================================================
