------------------------------ MODULE TrustPassport ------------------------------
(* The candidate's Trust Passport over these records: the score with the consent  *)
(* it needs and the snapshots kept of it, what each reader is listed, and the     *)
(* visits of the public profile. A calculation reads, reads again, and commits.   *)
EXTENDS ProfileRecords

CONSTANTS Addresses, Accounts,  \* of visitors: where from, and who, when signed in
          Snapshots, Visits,    \* rows, numbered in their order: bounds on those made
          MaxConsents
ASSUME SnapshotsAssumption == Snapshots \subseteq Nat /\ Visits \subseteq Nat /\ MaxConsents \in Nat

VARIABLES consent,     \* users.trust_score_consent_at: the number of the consent, or 0
          consents,    \* consents given so far
          snapshots,   \* trust_score_snapshots
          visits,      \* profile_views
          late,        \* ghost: calculations under way at a withdrawal
          alongside,   \* ghost: calculations another one overlapped
          hustled      \* ghost: addresses two visits of which overlapped
passportVars == <<consent, consents, snapshots, visits, late, alongside, hustled>>

(* ---- the score: TrustScoreService ---- *)
Claimed == Active \cup Records
StatusOf(x) == IF x \in Cases THEN cases[x].status ELSE studies[x].status
Class(s) == IF s \in {"approved", "verified"} THEN "verified"
            ELSE IF s \in {"rejected", "cancelled"} THEN "refused" ELSE "claimed"
\* Labels and points by claim, from which every number of the score follows.
Facts == [claims |-> {<<x, Class(StatusOf(x))>> : x \in Claimed}, identity |-> Kept # {}]
NoFacts == [claims |-> {}, identity |-> FALSE]
ClaimFacts == SUBSET ((Cases \cup Studies) \X {"verified", "refused", "claimed"})
Result == [status: {"consent_required", "incomplete_verification", "calculated"},
           facts: [claims: ClaimFacts, identity: BOOLEAN]]
\* at: the call that made it, and so the time of the calculation; odd: a ghost, claims came or went meanwhile.
SnapshotRow == [at: Calls \cup {0}, consent: 0..MaxConsents, result: Result, odd: BOOLEAN]
NoSnapshot == [at |-> 0, consent |-> 0, odd |-> FALSE,
               result |-> [status |-> "consent_required", facts |-> NoFacts]]

RecordConsent(c) ==
  /\ consents < MaxConsents
  /\ consents' = consents + 1 /\ consent' = consents + 1
  /\ Finish(c)
  /\ UNCHANGED <<snapshots, visits, late, alongside, hustled>>
Calculating == {d \in Flying : call[d].pc \in {"scored", "persist"}}
WithdrawConsent(c) ==
  /\ consent' = 0
  /\ late' = late \cup Calculating
  /\ Finish(c)
  /\ UNCHANGED <<consents, snapshots, visits, alongside, hustled>>
Joined(c) == alongside \cup (IF Calculating = {} THEN {} ELSE Calculating \cup {c})
Required == [status |-> "consent_required", facts |-> NoFacts]
Stamp(c, consentRead, result, odd) == [at |-> c, consent |-> consentRead, result |-> result, odd |-> odd]
Calculate(c) ==
  /\ call' = [call EXCEPT ![c] = IF consent = 0 THEN Call("persist", None, None, None, Stamp(c, 0, Required, FALSE))
                                 ELSE Call("scored", None, None, Facts, consent)]
  /\ alongside' = Joined(c)
  /\ UNCHANGED <<consent, consents, snapshots, visits, late, hustled>>
\* The second reading lists the claims as they are, but keeps of those it knows the status first read.
SeenAs(facts, x) ==
  IF \E k \in facts.claims : k[1] = x THEN (CHOOSE k \in facts.claims : k[1] = x)[2] ELSE Class(StatusOf(x))
Complete(facts) == \A x \in Claimed : SeenAs(facts, x) = "verified"
Weigh(c) ==
  LET k == call[c]
      status == IF Complete(k.view) THEN "calculated" ELSE "incomplete_verification"
      odd == Claimed # {x[1] : x \in k.view.claims} IN
  /\ k.pc = "scored"
  /\ call' = [call EXCEPT ![c] = Call("persist", None, None, None,
                                      Stamp(c, k.arg, [status |-> status, facts |-> k.view], odd))]
  /\ UNCHANGED passportVars
Taken == {n \in Snapshots : snapshots[n] # NoSnapshot}
LastTaken == {n \in Taken : \A m \in Taken : snapshots[m].at <= snapshots[n].at}
SnapshotMatches(n, row) == snapshots[n].consent = row.consent /\ snapshots[n].result = row.result
Persist(c) ==
  LET row == call[c].arg IN
  /\ call[c].pc = "persist"
  /\ IF \E n \in LastTaken : SnapshotMatches(n, row) THEN UNCHANGED snapshots
     ELSE \E n \in Snapshots \ Taken :
            /\ \A m \in Snapshots \ Taken : n <= m
            /\ snapshots' = [snapshots EXCEPT ![n] = row]
  /\ Finish(c)
  /\ UNCHANGED <<consent, consents, visits, late, alongside, hustled>>

(* ---- visits of the public profile: ProfileViewService ---- *)
VisitRow == [from: Addresses \cup {None}, who: Accounts \cup {None}, recent: BOOLEAN]
NoVisit == [from |-> None, who |-> None, recent |-> FALSE]
RecentVisits(a) == {n \in Visits : visits[n].from = a /\ visits[n].recent}
\* The row of the day, or none; with two rows the page fails. Who it was is noted once known.
RecordView(c) ==
  \E a \in Addresses, w \in Accounts \cup {None} :
    /\ Cardinality(RecentVisits(a)) <= 1
    /\ \A n \in RecentVisits(a) : w # None /\ visits[n].who = None
    /\ call' = [call EXCEPT ![c] = Call("visit", None, a, RecentVisits(a), w)]
    /\ hustled' = hustled \cup {b \in {a} : \E d \in Flying : call[d].pc = "visit" /\ call[d].on = b}
    /\ UNCHANGED <<consent, consents, snapshots, visits, late, alongside>>
CommitView(c) ==
  LET k == call[c] IN
  /\ k.pc = "visit"
  /\ IF k.view # {} THEN visits' = [n \in Visits |-> IF n \in k.view THEN [visits[n] EXCEPT !.who = k.arg] ELSE visits[n]]
     ELSE \E n \in Visits :
            /\ visits[n] = NoVisit /\ \A m \in Visits : m < n => visits[m] # NoVisit
            /\ visits' = [visits EXCEPT ![n] = [from |-> k.on, who |-> k.arg, recent |-> TRUE]]
  /\ Finish(c)
  /\ UNCHANGED <<consent, consents, snapshots, late, alongside, hustled>>
DayPasses ==
  \E n \in Visits :
    /\ visits[n].recent /\ \A m \in Visits : m < n => ~visits[m].recent
    /\ visits' = [visits EXCEPT ![n].recent = FALSE]
    /\ UNCHANGED <<consent, consents, snapshots, late, alongside, hustled, call>>
Analytics == [views |-> Cardinality({n \in Visits : visits[n] # NoVisit}),
              unique |-> Cardinality({visits[n].from : n \in Visits} \ {None}),
              known |-> Cardinality({visits[n].who : n \in Visits} \ {None})]

(* ---- what is listed: PublicPassportService, PassportEngineService, the public vault ---- *)
\* To whom a link with these permissions was given; the owner has all of them, and refused claims too.
Permissions == {"employments", "educations", "records", "user_documents", "documents"}
Shown(m, p, S) == {x \in S : p \in m}
PublicClaims(S) == {x \in S : Class(StatusOf(x)) # "refused"}
FilesWith(S) == UNION {FilesOf(x) : x \in S}
Vault(m, public) ==
  LET mine(S) == IF public THEN PublicClaims(S) ELSE S
      employed == Shown(m, "employments", mine(Active)) IN
  [employments |-> employed, files |-> Shown(m, "documents", FilesWith(employed)),
   educations |-> Shown(m, "educations", mine(Records)), records |-> Shown(m, "records", LiveEntries),
   user_documents |-> Shown(m \cap {"documents"}, "documents", Shown(m, "user_documents", Kept))]
OwnerPassport == Vault(Permissions, FALSE)
\* By the name of the profile, refused claims too, but neither studies nor what is declared only.
PublicVault == [employments |-> Active, files |-> FilesWith(Active), educations |-> {},
                records |-> EntriesOf("internship") \cup EntriesOf("freelance") \cup EntriesOf("gig"),
                user_documents |-> Kept]
\* The dashboard counts by status what is not deleted.
VerificationSummary ==
  [employments |-> Cardinality({x \in Cases : cases[x].there}), educations |-> Cardinality(Records),
   records |-> Cardinality({e \in Entries : entries[e] # NoEntry /\ ~entries[e].gone}),
   user_documents |-> Cardinality({p \in Papers : papers[p].there /\ ~papers[p].deleted})]

(* ---- what becomes of the claims meanwhile ---- *)
ClaimsMove(c) ==
  \/ (AddCase(c) \/ DeleteCase(c) \/ Transition(c)) /\ UNCHANGED studyVars
  \/ DeleteStudy(c) /\ UNCHANGED <<cases, files, ghosts>>
ClaimMoved(c) == (CommitStatus(c) \/ CommitDelete(c)) /\ UNCHANGED studyVars

PassportNext ==
  \/ \E c \in Calls :
       /\ Turn(c) /\ Cardinality(Flying) < AtATime
       /\ \/ /\ RecordConsent(c) \/ WithdrawConsent(c) \/ Calculate(c)
             /\ UNCHANGED <<cases, files, ghosts, studyVars>>
          \/ ClaimsMove(c) /\ UNCHANGED passportVars
  \/ \E c \in Calls : ClaimMoved(c) /\ UNCHANGED passportVars
  \/ /\ \E c \in Calls : Weigh(c) \/ Persist(c)
     /\ UNCHANGED <<cases, files, ghosts, studyVars>>
VisitsNext ==
  \/ \E c \in Calls :
       \/ Turn(c) /\ Cardinality(Flying) < AtATime /\ RecordView(c)
       \/ CommitView(c)
  \/ DayPasses

\* A score is calculated only from claims that were all verified, with consent (trust_score_service.py:157-164), although the claims are read twice, unless one came or went in between.
CalculatedIsComplete ==
  \A n \in Taken : LET r == snapshots[n].result IN
    /\ r.status # "consent_required" => snapshots[n].consent > 0
    /\ r.status = "calculated" /\ ~snapshots[n].odd => \A k \in r.facts.claims : k[2] = "verified"

\* The history holds no score twice in a row (trust_score_service.py:177-218): a calculation that finds what the last one found, under the same consent, adds nothing, unless another was under way.
NoRepeats ==
  \A n, m \in Taken \ {i \in Snapshots : snapshots[i].at \in alongside} :
    snapshots[m].at < snapshots[n].at /\ SnapshotMatches(n, snapshots[m]) =>
      \E o \in Taken : snapshots[m].at < snapshots[o].at /\ snapshots[o].at < snapshots[n].at

\* After a withdrawal nothing is scored (trust_score_service.py:45-70), unless its calculation was under way at the time.
NothingScoredWithout ==
  [][\A n \in Snapshots : snapshots'[n] # snapshots[n] /\ snapshots'[n].result.status # "consent_required" =>
       consent # 0 \/ snapshots'[n].at \in late]_<<snapshots, consent>>

\* One address counts as one visit a day, and who was known to visit stays known (profile_view_service.py:43-81, models/profile_view.py:1), unless two visits from there overlapped.
ViewedOnce ==
  \A n, m \in Visits : visits[n].recent /\ visits[m].recent /\ visits[n].from = visits[m].from
                       /\ visits[n].from \notin hustled => n = m
KnownViewer ==
  [][\A n \in Visits : visits[n].who # None /\ visits[n].from \notin hustled =>
       visits'[n].who = visits[n].who]_visits

\* The dashboard counts what the owner's passport lists, and no reader is listed more than the owner; a link never lists what was refused (public_passport_service.py:114-394, passport_engine_service.py:203-266).
ListedAlike ==
  LET owner == OwnerPassport
      link == Vault(Permissions, TRUE)
      counted == VerificationSummary IN
  /\ \A f \in {"employments", "educations", "records", "user_documents"} : counted[f] = Cardinality(owner[f])
  /\ \A f \in DOMAIN owner : link[f] \cup PublicVault[f] \subseteq owner[f]
  /\ \A x \in link.employments : cases[x].status \notin {"rejected", "cancelled"}
================================================================================
