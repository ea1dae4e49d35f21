------------------------------ MODULE TrustSafety -------------------------------
(* Investigations of the administrators, the risk signals they gather, and the   *)
(* incidents of the system. Signals are found anew by every call, but only the    *)
(* one that opens an investigation commits what it found.                         *)
EXTENDS Administrators

CONSTANTS Subjects, Candidates,   \* who or what is looked into; those of them that are candidates
          Cases, Incidents,       \* investigations and incidents, numbered
          Threshold               \* how many negative outcomes or correction rounds make a signal
ASSUME SubjectsAssumption ==
  /\ None \notin Subjects \cup Cases
  /\ Candidates \subseteq Subjects /\ Cases \subseteq Nat /\ Incidents \subseteq Nat /\ Threshold \in Nat

VARIABLES adverse,    \* what there is against a subject, counted up to Threshold
          signals,    \* the automatic signal of each subject
          cases,      \* investigations, each with the manual signal made with it
          incidents,
          mixed       \* ghost: cases and incidents two calls were about at once
safetyVars == <<adverse, signals, cases, incidents, mixed>>

Moves == [open |-> {"in_review", "awaiting_information"},
          in_review |-> {"open", "awaiting_information"},
          awaiting_information |-> {"open", "in_review"}]
Closing == {"resolved", "dismissed"}
Signal == [status: {"none", "active", "resolved"}, case: Cases \cup {None}]
NoSignal == [status |-> "none", case |-> None]
Case == [subject: Subjects \cup {None}, status: DOMAIN Moves \cup Closing,
         assignee: People \cup {None}, manual: BOOLEAN]
IncidentStatus == {"open", "monitoring", "resolved"}
NoCase == [subject |-> None, status |-> "open", assignee |-> None, manual |-> FALSE]
Opened == {n \in Cases : cases[n].subject # None}
ClosedCases == {n \in Opened : cases[n].status \in Closing}

On(c, k) ==
  /\ \E a \in People : Acting(a)
  /\ call' = [call EXCEPT ![c] = k]
  /\ mixed' = mixed \cup {x \in {<<k.about, k.on>>} : \E d \in Flying : x = <<call[d].about, call[d].on>>}
  /\ UNCHANGED <<adminVars, adverse, signals, cases, incidents>>
OnCase(c, pc, n, arg) ==
  On(c, Call(pc, {"case"}, n, [case |-> cases[n], signal |-> signals[cases[n].subject]], arg))
OnIncident(c, pc, x, arg) == On(c, Call(pc, {"incident"}, x, incidents[x], arg))
Done(c, pc) == call[c].pc = pc /\ Finish(c) /\ UNCHANGED <<adminVars, adverse, mixed>>

(* ---- opening: create_investigation ---- *)
Investigate(c) ==
  \E s \in Subjects :
    On(c, Call("investigate", {"subject"}, s,
               [signal |-> signals[s], repeated |-> adverse[s] = Threshold], None))
Found(v) == v.repeated
\* _upsert_signal and _resolve_missing_automatic_signals, then _attach_existing_subject_signals.
Refreshed(row, v, n) ==
  [status |-> IF Found(v) /\ v.signal.status # "active" THEN "active"
              ELSE IF ~Found(v) /\ v.signal.status = "active" THEN "resolved" ELSE row.status,
   case |-> IF Found(v) /\ v.signal.case = None THEN n ELSE row.case]
\* Two that record the first signal of a subject: its fingerprint is unique.
Twice(k) == Found(k.view) /\ k.view.signal = NoSignal /\ signals[k.on] # NoSignal
CommitInvestigation(c) ==
  LET k == call[c] IN
  /\ k.pc = "investigate" /\ ~Twice(k)
  /\ Done(c, "investigate")
  /\ \E n \in Cases \ Opened :
       /\ \A m \in Cases \ Opened : n <= m
       /\ signals' = [signals EXCEPT ![k.on] = Refreshed(@, k.view, n)]
       /\ cases' = [cases EXCEPT ![n] = [NoCase EXCEPT !.subject = k.on, !.manual = TRUE]]
  /\ UNCHANGED incidents
RefuseInvestigation(c) ==
  /\ call[c].pc = "investigate" /\ Twice(call[c])
  /\ Finish(c) /\ UNCHANGED <<adminVars, safetyVars>>

(* ---- work on them ---- *)
Assign(c) ==
  \E n \in Opened, p \in People : people[p].role \in Managers /\ OnCase(c, "assign", n, p)
CommitAssignment(c) ==
  /\ Done(c, "assign")
  /\ cases' = [cases EXCEPT ![call[c].on].assignee = call[c].arg]
  /\ UNCHANGED <<signals, incidents>>
UpdateStatus(c) ==
  \E n \in Opened \ ClosedCases : \E t \in Moves[cases[n].status] : OnCase(c, "move", n, t)
CommitStatus(c) ==
  /\ Done(c, "move")
  /\ cases' = [cases EXCEPT ![call[c].on].status = call[c].arg]
  /\ UNCHANGED <<signals, incidents>>

\* Mutant: only a resolved case is closed.
Unresolved(n) == cases[n].status # "resolved"
Undecided(n) == cases[n].status \notin Closing
ResolveOrDismiss(c) ==
  \E n \in Opened, s \in Closing : Undecided(n) /\ OnCase(c, "close", n, s)
\* The signals are those the call loaded with the case.
CommitClosing(c) ==
  LET k == call[c]
      s == cases[k.on].subject IN
  /\ Done(c, "close")
  /\ cases' = [cases EXCEPT ![k.on].status = k.arg, ![k.on].manual = FALSE]
  /\ signals' = [signals EXCEPT ![s].status =
                   IF k.view.signal.case = k.on /\ k.view.signal.status = "active" THEN "resolved" ELSE @]
  /\ UNCHANGED incidents

(* ---- incidents: AdminSystemService ---- *)
CreateIncident(c) ==
  \E x \in Incidents :
    /\ incidents[x] = "none" /\ \A y \in Incidents : y < x => incidents[y] # "none"
    /\ \E a \in People : Acting(a)
    /\ Finish(c)
    /\ incidents' = [incidents EXCEPT ![x] = "open"]
    /\ UNCHANGED <<adminVars, adverse, signals, cases, mixed>>
UpdateIncident(c) ==
  \E x \in Incidents, s \in IncidentStatus :
    /\ incidents[x] \in IncidentStatus \ {"resolved"} /\ s # incidents[x]
    /\ OnIncident(c, "incident", x, s)
CommitIncident(c) ==
  /\ Done(c, "incident")
  /\ incidents' = [incidents EXCEPT ![call[c].on] = call[c].arg]
  /\ UNCHANGED <<signals, cases>>

(* ---- what the signals are found from ---- *)
\* A request about the subject ends badly, or is sent back for corrections.
Blemish ==
  \E s \in Subjects :
    /\ adverse[s] < Threshold
    /\ adverse' = [adverse EXCEPT ![s] = @ + 1]
    /\ UNCHANGED <<adminVars, call, signals, cases, incidents, mixed>>
\* The erasure of an account takes it off its requests.
Forget ==
  \E s \in Candidates :
    /\ adverse[s] > 0
    /\ adverse' = [adverse EXCEPT ![s] = 0]
    /\ UNCHANGED <<adminVars, call, signals, cases, incidents, mixed>>

SafetyNext ==
  \/ \E c \in Calls :
       \/ Turn(c) /\ (\/ Investigate(c) \/ Assign(c) \/ UpdateStatus(c) \/ ResolveOrDismiss(c))
       \/ CommitInvestigation(c) \/ RefuseInvestigation(c) \/ CommitAssignment(c)
       \/ CommitStatus(c) \/ CommitClosing(c)
  \/ Blemish \/ Forget
IncidentNext ==
  \E c \in Calls :
    \/ Turn(c) /\ (CreateIncident(c) \/ UpdateIncident(c))
    \/ CommitIncident(c)

\* A signal never waits without an investigation, and one that shows as active at a closed investigation was found again by a later one (trust_safety_service.py:179-246, 348-402, 867-933); the first signal of a subject is recorded once, however many open investigations at the same time.
SignalsFollow ==
  \A s \in Subjects :
    LET n == signals[s].case IN
    /\ signals[s].status # "none" => n \in Opened /\ cases[n].subject = s
    /\ signals[s].status = "active" /\ n \in ClosedCases =>
         \E m \in Opened : m > n /\ cases[m].subject = s

\* A case that was resolved or dismissed, and a resolved incident, stay as they were closed, with their signals (trust_safety_service.py:318-402, admin_system_service.py:221-278), unless two calls on it overlapped.
ClosedStays ==
  [][/\ \A n \in ClosedCases : <<{"case"}, n>> \notin mixed' =>
          cases'[n].status = cases[n].status /\ ~cases'[n].manual
     /\ \A x \in Incidents : incidents[x] = "resolved" /\ <<{"incident"}, x>> \notin mixed' =>
          incidents'[x] = "resolved"]_<<cases, incidents, mixed>>
================================================================================
