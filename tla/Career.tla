--------------------------------- MODULE Career ---------------------------------
(* A candidate's career records: cases and their documents, identity documents,  *)
(* resumes and the import of what a resume says into the cases, education records *)
(* with their verification, the file of a request, the other records of a profile *)
(* and the Trust Passport made of it all.                                        *)
EXTENDS Connectors

\* None is no row, call, reader or value.
ASSUME NullAssumption ==
  /\ None \notin Cases \cup Files \cup Resumes \cup Skills \cup Papers \cup Studies \cup Entries \cup Sheets \cup Addresses \cup Accounts
  /\ None \notin Jobs \cup Requests \cup Items \cup Calls \cup Catalog \cup Runs \cup Dates \cup (1..MaxEdits)
  /\ None \notin Kinds \cup ResultStatus \cup {"confirmed", "discrepancy"}

CONSTANT Starts   \* the rows there may be at the start, and the calls to come
\* Among the rows at the start, what is superseded or answered shows it.
PapersBegun(s) == \A p \in Papers :
  LET newer == {q \in Papers : s.papers[q].there /\ s.papers[q].done /\ s.papers[q].replaces = p} IN
  /\ ~s.papers[p].there => s.papers[p] = NoPaper
  /\ s.papers[p].replaces # None => s.papers[s.papers[p].replaces].there
  /\ s.papers[p].superseded # None => s.papers[p].superseded \in newer
  /\ newer # {} /\ ~s.papers[p].deleted => s.papers[p].superseded # None
RecordsBegun(s) == \A e \in Entries : LET d == s.confirmations[e].response IN
  /\ s.entries[e].kind = None => s.entries[e] = NoEntry /\ d = "pending"
  /\ d # "pending" => /\ s.entries[e].status = Subject(d)
                      /\ \A t \in Sheets : s.sheets[t].of = e => s.sheets[t].status = Papered(d)
\* A request that is with an institution was sent there, none is decided yet, and a record is about its newest request.
StudiesBegun(s) ==
  LET newest(x) == {v \in Requests : s.asks[v].study = x /\ \A w \in Requests : s.asks[w].study = x => w <= v} IN
  /\ \A v \in Requests : LET a == s.asks[v] l == s.links[v] IN
       /\ a.study # None => \A w \in Requests : w < v => s.asks[w].study # None
       /\ a.status \in Workflow!PostApproval => a.approved /\ a.snapshot > 0
       /\ a.status \in Workflow!OrganizationVisible => a.approved /\ a.snapshot > 0 /\ a.org /\ l.token > 0
       /\ a.status \notin {"PENDING_ADMIN_QUALITY_REVIEW", "VERIFIED"} /\ (a.outreach => a.org)
       /\ l.token > 0 <=> a.study # None /\ a.outreach
       /\ l.token = 0 => l.answer = "none"
  /\ \A x \in Studies :
       /\ s.studies[x].status # "verified"
       /\ s.studies[x].there /\ s.studies[x].status = "pending" =>
            \E v \in newest(x) : s.asks[v].status # "WITHDRAWN_BY_CANDIDATE"
       /\ \A v \in Requests : s.asks[v].study = x =>
            newest(x) # {} /\ (v \in newest(x) \/ s.asks[v].status \in Workflow!Terminal)
\* A claim has dates, a request that was sent on was consented to, and evidence is of one document, and attached once.
FilesBegun(s) ==
  /\ "file" \in s.parts => s.parts = {"file"} /\ \A x \in Cases : s.cases[x].there => s.cases[x].dates # None
  /\ \A v \in Requests : LET d == s.dossiers[v] IN
       /\ d.consented => d.snapshot # None
       /\ d.of # None /\ d.status \in Workflow!OrganizationVisible \cup {"PENDING_ADMIN_QUALITY_REVIEW"} => d.consented
  /\ \A i, j \in Items : s.items[i].of # None =>
       /\ s.items[i].file = None \/ s.items[i].paper = None
       /\ i # j /\ s.items[i].of = s.items[j].of => s.items[i].file = None \/ s.items[i].file # s.items[j].file
ASSUME StartsAssumption == \A s \in Starts :
  /\ s.cases \in [Cases -> Case] /\ s.files \in [Files -> File]
  /\ s.jobs \in [Jobs -> Job] /\ s.calls \subseteq Calls
  /\ s.papers \in [Papers -> Paper] /\ PapersBegun(s)
  /\ s.studies \in [Studies -> Study] /\ s.asks \in [Requests -> AskRow] /\ s.links \in [Requests -> Link]
  /\ StudiesBegun(s)
  /\ s.dossiers \in [Requests -> Dossier] /\ s.items \in [Items -> Exhibit] /\ FilesBegun(s)
  /\ s.entries \in [Entries -> Entry] /\ s.sheets \in [Sheets -> Sheet]
  /\ s.confirmations \in [Entries -> Confirmation] /\ RecordsBegun(s)
  /\ s.consent \in 0..MaxConsents
  /\ s.catalog \in [Catalog -> Connector]

VARIABLE parts   \* what the calls are to: a bound of the exploration
vars == <<pipelineVars, resumeVars, reviewVars, paperVars, studyVars, fileVars, recordVars, passportVars, connectorVars, parts>>

Init ==
  /\ \E s \in Starts :
       /\ cases = s.cases /\ files = s.files /\ resumes = s.resumes /\ jobs = s.jobs
       /\ skills = s.skills /\ papers = s.papers /\ parts = s.parts
       /\ studies = s.studies /\ asks = s.asks /\ links = s.links
       /\ dossiers = s.dossiers /\ items = s.items
       /\ entries = s.entries /\ sheets = s.sheets /\ confirmations = s.confirmations
       /\ consent = s.consent /\ consents = s.consent
       /\ catalog = s.catalog
       /\ call = [c \in Calls |-> IF c \in s.calls THEN Blank ELSE Over]
  /\ raced = {} /\ rushed = {} /\ lost = {}
  /\ queue = {} /\ torn = {}
  /\ moved = {}
  /\ reviews = [j \in Jobs |-> NoReview]
  /\ batches = [k \in Keys |-> NoBatch]
  /\ said = [e \in Entries |-> [f \in Fields |-> entries[e][f]]]
  /\ clashed = {} /\ fresh = {} /\ twice = {}
  /\ snapshots = [n \in Snapshots |-> NoSnapshot] /\ visits = [n \in Visits |-> NoVisit]
  /\ late = {} /\ alongside = {} /\ hustled = {}
  /\ runs = [n \in Runs |-> NoRun] /\ verdict = [v \in Requests |-> NoVerdict]
  /\ heard = {} /\ muddled = {} /\ doubled = {}
  /\ given = [v \in Requests |-> [scopes |-> dossiers[v].scopes, fields |-> dossiers[v].fields, version |-> dossiers[v].snapshot]]

Pipelined ==
  /\ PipelineNext /\ Cardinality(Flying)' <= AtATime
  /\ UNCHANGED <<resumeVars, skills, reviews, batches, paperVars, studyVars>>
  /\ moved' = moved \cup {x \in Cases : Importing /\ Protected(x) # Protected(x)'}
Next ==
  /\ \/ /\ \/ "pipeline" \in parts /\ Pipelined
           \/ "resumes" \in parts /\ ProcessingNext /\ UNCHANGED <<reviewVars, paperVars, studyVars>>
           \/ "reviews" \in parts /\ ReviewNext /\ UNCHANGED <<paperVars, studyVars>>
           \/ "papers" \in parts /\ PapersNext /\ UNCHANGED <<resumeVars, reviewVars, studyVars>>
           \/ "studies" \in parts /\ StudyNext /\ UNCHANGED <<resumeVars, reviewVars, paperVars>>
           \/ \E c \in Calls : Crash(c) /\ UNCHANGED <<resumeVars, reviewVars, paperVars, studyVars>>
        /\ UNCHANGED <<fileVars, recordVars, passportVars, connectorVars>>
     \/ "file" \in parts /\ FileNext
        /\ UNCHANGED <<resumeVars, reviewVars, paperVars, recordVars, passportVars, connectorVars>>
     \/ "records" \in parts /\ RecordsNext
        /\ UNCHANGED <<cases, files, ghosts, resumeVars, reviewVars, paperVars, studyVars, fileVars, passportVars, connectorVars>>
     \/ "passport" \in parts /\ PassportNext
        /\ UNCHANGED <<resumeVars, reviewVars, paperVars, fileVars, recordVars, connectorVars>>
     \/ "visits" \in parts /\ VisitsNext
        /\ UNCHANGED <<cases, files, ghosts, resumeVars, reviewVars, paperVars, studyVars, fileVars, recordVars, connectorVars>>
     \/ "connectors" \in parts /\ ConnectorsNext
        /\ UNCHANGED <<cases, files, ghosts, resumeVars, reviewVars, paperVars, studyVars, recordVars, passportVars>>
  /\ UNCHANGED parts
Spec == Init /\ [][Next]_vars

TypeOK ==
  /\ cases \in [Cases -> Case] /\ files \in [Files -> File]
  /\ raced \subseteq Cases /\ rushed \subseteq SUBSET Cases /\ lost \subseteq Files
  /\ resumes \in [Resumes -> Resume] /\ jobs \in [Jobs -> Job] /\ queue \subseteq Jobs
  /\ skills \in [Skills -> {"none", "live", "deleted"}]
  /\ reviews \in [Jobs -> Review] /\ batches \in [Keys -> Batch]
  /\ papers \in [Papers -> Paper]
  /\ torn \subseteq Resumes /\ moved \subseteq Cases
  /\ studies \in [Studies -> Study] /\ asks \in [Requests -> AskRow] /\ links \in [Requests -> Link]
  /\ heard \subseteq Requests /\ muddled \subseteq Studies
  /\ dossiers \in [Requests -> Dossier] /\ items \in [Items -> Exhibit]
  /\ given \in [Requests -> Given] /\ doubled \subseteq Requests
  /\ entries \in [Entries -> Entry] /\ sheets \in [Sheets -> Sheet]
  /\ confirmations \in [Entries -> Confirmation] /\ fresh \subseteq Sheets /\ twice \subseteq Entries
  /\ consent \in 0..consents /\ consents \in 0..MaxConsents
  /\ \A n \in Snapshots : snapshots[n] = NoSnapshot \/ snapshots[n] \in SnapshotRow
  /\ visits \in [Visits -> VisitRow] /\ late \cup alongside \subseteq Calls /\ hustled \subseteq Addresses
  /\ catalog \in [Catalog -> Connector] /\ runs \in [Runs -> Run] /\ verdict \in [Requests -> Verdict]

\* Cases and their documents, with one case at a time with the reviewers.
CasesInOrder == ApprovedOnEvidence /\ OnePipelineCase /\ EvidenceStored /\ UniqueEvidence
\* Resumes from their upload to what is imported from them.
ResumesInOrder ==
  RetriesBounded /\ OneJobWaiting /\ StatusOfLatest /\ ImportedOnce /\ ImportedAsConfirmed /\ JobsShown
\* What an import leaves alone, and when it is over.
ImportKept == ProtectedKept /\ ImportedIsFinal
\* Education records and the requests about them, with the file of a request.
StudiesInOrder == StudyFollows /\ VerifiedOnAnswer /\ ShownAsGiven /\ AttachedOnce /\ RunsTell /\ RunsShown
\* The records of a profile, which replace or overtake one another, and the passport made of them.
ProfileInOrder ==
  /\ Lineage /\ EditsKept /\ AnswersAgree
  /\ CalculatedIsComplete /\ NoRepeats /\ ViewedOnce /\ ListedAlike
\* What was answered stands, what is private stays so, and nothing is scored unasked.
StandsAndStays ==
  /\ AnswerStands /\ PrivateStays /\ ConfirmationStands /\ NothingScoredWithout /\ KnownViewer
  /\ VerdictEndsTurn
================================================================================
