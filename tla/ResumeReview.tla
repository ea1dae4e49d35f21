------------------------------ MODULE ResumeReview ------------------------------
(* Resumes: upload, the jobs that read them, and their deletion. A request for   *)
(* processing locks the resume, so does the worker from its first write on; the  *)
(* completion of an upload and a deletion only wait for the lock when they write.*)
(* The candidate's review of what a job read in a resume, and its import into    *)
(* the employment cases and skills. Every call on a review locks it until it     *)
(* commits; the records it imports into are not locked.                          *)
EXTENDS CasePipeline, FiniteSetsExt, Folds, TLC

CONSTANTS Resumes, Jobs,   \* jobs are numbered in the order they are made
          MaxRetries
ASSUME JobsAssumption == Jobs \subseteq Nat /\ MaxRetries \in Nat

VARIABLES resumes, jobs,
          queue,    \* jobs whose message is waiting
          torn      \* ghost: resumes whose status two writers set out of turn
resumeVars == <<resumes, jobs, queue, torn>>

JobStatus == {"queued", "needs_review", "failed"}   \* what is committed of a run
Resume == [there: BOOLEAN, deleted: BOOLEAN, upload: {"pending_upload", "uploaded", "deleted"},
           processing: JobStatus \cup {"pending_upload", "uploaded", "deleted"}, object: BOOLEAN]
NoResume == [there |-> FALSE, deleted |-> FALSE, upload |-> "pending_upload",
             processing |-> "pending_upload", object |-> FALSE]
Job == [resume: Resumes \cup {None}, status: JobStatus, stale: BOOLEAN, result: BOOLEAN]
NoJob == [resume |-> None, status |-> "queued", stale |-> FALSE, result |-> FALSE]

Owned(d) == resumes[d].there /\ ~resumes[d].deleted
JobsOf(d) == {j \in Jobs : jobs[j].resume = d}
Latest(d) == CHOOSE j \in JobsOf(d) : \A i \in JobsOf(d) : i <= j
\* Who holds the row lock of a resume.
Holding == {"process", "working"}
Held(d) == \E c \in Flying : call[c].pc \in Holding /\ call[c].case = d
Ask(c, k) == call' = [call EXCEPT ![c] = k] /\ UNCHANGED <<cases, files, ghosts>>
Answered(c) == Finish(c) /\ UNCHANGED <<cases, files, ghosts>>

UploadResume(c) ==
  \E d \in Resumes :
    /\ ~resumes[d].there
    /\ resumes' = [resumes EXCEPT ![d].there = TRUE]
    /\ Answered(c)
    /\ UNCHANGED <<jobs, queue, torn>>
PutResume ==
  \E d \in Resumes :
    /\ resumes[d].there /\ ~resumes[d].object /\ resumes[d].upload = "pending_upload"
    /\ resumes' = [resumes EXCEPT ![d].object = TRUE]
    /\ UNCHANGED <<pipelineVars, jobs, queue, torn>>
CompleteResume(c) ==
  \E d \in Resumes :
    /\ Owned(d) /\ resumes[d].upload = "pending_upload" /\ resumes[d].object
    /\ Ask(c, Call("uploaded", d, d, None, None))
    /\ UNCHANGED resumeVars
CommitResume(c) ==
  LET d == call[c].case IN
  /\ call[c].pc = "uploaded" /\ ~Held(d)
  /\ resumes' = [resumes EXCEPT ![d].upload = "uploaded", ![d].processing = "uploaded"]
  /\ torn' = torn \cup {x \in {d} : JobsOf(x) # {}}
  /\ Answered(c)
  /\ UNCHANGED <<jobs, queue>>

Lockable(d) == ~Held(d)
Retriable(d) ==
  LET j == Latest(d) IN
  /\ jobs[j].status = "failed" \/ (jobs[j].status = "queued" /\ jobs[j].stale)
  /\ Cardinality(JobsOf(d)) <= MaxRetries
ProcessResume(c) ==
  \E d \in Resumes :
    /\ Owned(d) /\ Lockable(d) /\ resumes[d].upload = "uploaded"
    /\ JobsOf(d) # {} => Retriable(d)
    /\ Ask(c, Call("process", d, IF JobsOf(d) = {} THEN None ELSE Latest(d), None, None))
    /\ UNCHANGED resumeVars
\* A job that went stale is failed with the same commit.
CommitProcess(c) ==
  LET k == call[c] IN
  \E j \in Jobs :
    /\ k.pc = "process"
    /\ jobs[j] = NoJob /\ \A i \in Jobs : i < j => jobs[i] # NoJob
    /\ jobs' = [i \in Jobs |-> CASE i = j -> [NoJob EXCEPT !.resume = k.case]
                                 [] i = k.on -> [jobs[i] EXCEPT !.status = IF @ = "queued" THEN "failed" ELSE @]
                                 [] OTHER -> jobs[i]]
    /\ resumes' = [resumes EXCEPT ![k.case].processing = "queued"]
    /\ call' = [call EXCEPT ![c] = Call("dispatch", None, j, None, None)]
    /\ UNCHANGED <<cases, files, ghosts, queue, torn>>
DispatchResume(c) ==
  /\ call[c].pc = "dispatch"
  /\ queue' = queue \cup {call[c].on}
  /\ Answered(c)
  /\ UNCHANGED <<resumes, jobs, torn>>
GoesStale ==
  \E j \in Jobs :
    /\ jobs[j].resume # None /\ jobs[j].status = "queued" /\ ~jobs[j].stale
    /\ jobs' = [jobs EXCEPT ![j].stale = TRUE]
    /\ UNCHANGED <<pipelineVars, resumes, queue, torn>>

DeleteResume(c) ==
  \E d \in Resumes :
    /\ Owned(d)
    /\ Ask(c, Call("forget", d, d, None, None))
    /\ UNCHANGED resumeVars
ForgetObject(c) ==
  /\ call[c].pc = "forget"
  /\ \E kept \in BOOLEAN : resumes' = [resumes EXCEPT ![call[c].on].object = @ /\ kept]
  /\ call' = [call EXCEPT ![c].pc = "forgotten"]
  /\ UNCHANGED <<cases, files, ghosts, jobs, queue, torn>>
CommitForget(c) ==
  LET d == call[c].case IN
  /\ call[c].pc = "forgotten" /\ ~Held(d)
  /\ resumes' = [resumes EXCEPT ![d].deleted = TRUE, ![d].upload = "deleted", ![d].processing = "deleted"]
  /\ Answered(c)
  /\ UNCHANGED <<jobs, queue, torn>>

(* ---- the worker's process_job; a message it crashes on is gone ---- *)
TakeJob(c) ==
  \E j \in queue :
    /\ queue' = queue \ {j}
    /\ IF Owned(jobs[j].resume) THEN Ask(c, Call("take", jobs[j].resume, j, None, None)) ELSE Answered(c)
    /\ UNCHANGED <<resumes, jobs, torn>>
StartJob(c) ==
  /\ call[c].pc = "take" /\ ~Held(call[c].case)
  /\ Ask(c, [call[c] EXCEPT !.pc = "working"])
  /\ UNCHANGED resumeVars
StatusFollows(d, s) == [resumes EXCEPT ![d].processing = s]
FinishJob(c) ==
  LET k == call[c] IN
  \E s \in {"needs_review", "failed"} :
    /\ k.pc = "working"
    /\ s = "needs_review" => resumes[k.case].object
    /\ jobs' = [jobs EXCEPT ![k.on].status = s, ![k.on].result = s = "needs_review"]
    /\ resumes' = StatusFollows(k.case, s)
    /\ torn' = torn \cup {d \in {k.case} : k.on # Latest(d) \/ resumes[d].deleted}
    /\ Answered(c)
    /\ UNCHANGED queue
\* The commit fails: the message is delivered again.
RetryJob(c) ==
  /\ call[c].pc = "working"
  /\ queue' = queue \cup {call[c].on}
  /\ Answered(c)
  /\ UNCHANGED <<resumes, jobs, torn>>

ProcessingNext ==
  \/ \E c \in Calls :
       \/ Turn(c) /\ (\/ UploadResume(c) \/ CompleteResume(c) \/ ProcessResume(c)
                      \/ DeleteResume(c) \/ TakeJob(c))
       \/ CommitResume(c) \/ CommitProcess(c) \/ DispatchResume(c) \/ ForgetObject(c)
       \/ CommitForget(c) \/ StartJob(c) \/ FinishJob(c) \/ RetryJob(c)
  \/ PutResume \/ GoesStale

\* A resume is given no more jobs than the first and the retries allowed (resume_service.py:137-186), however many requests and stale jobs there are: the row is locked while the jobs are counted.
RetriesBounded == \A d \in Resumes : Cardinality(JobsOf(d)) <= MaxRetries + 1

\* A resume has one job at a time that is waiting and not stale, the others having ended or given up (resume_service.py:147-170): requests at once do not dispatch the work twice.
OneJobWaiting ==
  \A d \in Resumes :
    Cardinality({j \in JobsOf(d) : jobs[j].status = "queued" /\ ~jobs[j].stale}) <= 1

\* The status of a resume is that of its latest job (resume_service.py:172-183, 232-300), unless an upload was completed again, or an older job ended, after that job was made.
StatusOfLatest ==
  \A d \in Resumes \ torn : Owned(d) /\ JobsOf(d) # {} => resumes[d].processing = jobs[Latest(d)].status

(* ---- the review and the import ---- *)
CONSTANTS Skills,
          Places,    \* positions of the items of a review
          Parsed,    \* what a job reads: a claim at each place
          Changes,   \* the changes the candidate makes to an item
          Keys       \* idempotency keys of imports

Claim == [kind: {"employment", "skill"}, employer: Employers \cup {None},
          dates: Dates \cup {None}, skill: Skills \cup {None}]
NoClaim == [kind |-> "skill", employer |-> None, dates |-> None, skill |-> None]
Actions == {"create_new", "skip", "link_existing", "update_existing"}
ItemStatus == {"edited", "selected", "deselected", "imported", "skipped", "failed"}
Item == [claim: Claim, selected: BOOLEAN, action: Actions, target: Cases \cup Skills \cup {None},
         dup: {"no_match", "possible_match", "exact_match", "conflict"},
         status: ItemStatus, record: Cases \cup Skills \cup {None}]
NoItem == [claim |-> NoClaim, selected |-> FALSE, action |-> "skip", target |-> None,
           dup |-> "no_match", status |-> "deselected", record |-> None]
Review == [status: {"none", "draft", "reviewing", "ready_to_import", "partially_imported",
                    "imported", "cancelled"},
           version: Nat, items: [Places -> Item]]
NoReview == [status |-> "none", version |-> 1, items |-> [p \in Places |-> NoItem]]
Outcome == {"none", "imported", "linked", "skipped", "failed"}
Batch == [review: Jobs \cup {None}, outcome: [Places -> Outcome]]
NoBatch == [review |-> None, outcome |-> [p \in Places |-> "none"]]

ASSUME ParsedAssumption == Places \subseteq Nat /\ Parsed \in [Places -> Claim]
ASSUME ChangesAssumption == \A h \in Changes : h.claim \in Claim \cup {None} /\ h.action \in Actions

VARIABLES skills,     \* each name is used by a live, a deleted or no row
          reviews,    \* by the job whose result is reviewed
          batches,    \* imports, by idempotency key
          moved       \* ghost: cases whose protection changed during an import
reviewVars == <<skills, reviews, batches, moved>>

Protected(x) ==
  cases[x].status \in {"submitted", "under_review", "approved", "verified"} \/ cases[x].request = "open"
\* Mutant: only the status of the case protects it.
StatusProtects(x) == cases[x].status \in {"submitted", "under_review", "approved", "verified"}
IsProtectedTarget(x) == Protected(x)
Unprotected == {x \in Cases : ~IsProtectedTarget(x)}
Importing == \E c \in Flying : call[c].pc = "import"

(* ---- matching: ResumeDuplicateService ---- *)
Match(claim, x) == CASE cases[x].employer # claim.employer -> "no_match"
                     [] cases[x].dates = claim.dates -> "exact_match"
                     [] Protected(x) -> "conflict"
                     [] OTHER -> "possible_match"
Matches(claim, m) ==
  IF claim.kind = "skill"
  THEN {s \in Skills : m = "exact_match" /\ s = claim.skill /\ skills[s] = "live"}
  ELSE {x \in Active : Match(claim, x) = m}
Assessed(claim) ==
  CASE Matches(claim, "conflict") # {} -> "conflict"
    [] Matches(claim, "conflict") = {} /\ Matches(claim, "exact_match") # {} -> "exact_match"
    [] Matches(claim, "conflict") \cup Matches(claim, "exact_match") = {}
       /\ Matches(claim, "possible_match") # {} -> "possible_match"
    [] OTHER -> "no_match"

(* ---- the review: ResumeReviewService ---- *)
\* A new item is selected when nothing matches it, and links to a record that it matches exactly.
Proposed(claim) ==
  LET exact == Matches(claim, "exact_match")  new == Assessed(claim) = "no_match" IN
  [claim |-> claim, selected |-> new, dup |-> Assessed(claim),
   action |-> IF exact # {} THEN "link_existing" ELSE IF new THEN "create_new" ELSE "skip",
   target |-> IF exact = {} THEN None ELSE CHOOSE x \in exact : TRUE,
   status |-> IF new THEN "selected" ELSE "deselected", record |-> None]
CreateReview(c) ==
  \E d \in Resumes :
    LET done == {j \in JobsOf(d) : jobs[j].status = "needs_review"}
        j == CHOOSE i \in done : \A h \in done : h <= i IN
    /\ Owned(d) /\ ~Held(d) /\ done # {} /\ reviews[j] = NoReview
    /\ reviews' = [reviews EXCEPT ![j] =
                     [NoReview EXCEPT !.status = "draft", !.items = [p \in Places |-> Proposed(Parsed[p])]]]
    /\ Answered(c)
    /\ UNCHANGED <<resumeVars, skills, batches, moved>>

Mutable(j) == reviews[j].status \notin {"imported", "cancelled"}
Free(j) == reviews[j] # NoReview /\ \A c \in Flying : call[c].pc = "import" => call[c].on # j
Selected(j) == {p \in Places : reviews[j].items[p].selected}

\* Mutant: the item counts its versions, the review does not.
OnlyTheItem(r) == r
Versioned(r) == [r EXCEPT !.version = @ + 1]
MaxVersion == 4   \* a bound on the changes made to a review
UpdateItem(c) ==
  \E j \in Jobs, p \in Places, h \in Changes :
    LET old == reviews[j].items[p]
        claim == IF h.claim = None THEN old.claim ELSE h.claim IN
    /\ Free(j) /\ Mutable(j) /\ reviews[j].version < MaxVersion
    /\ claim.kind = old.claim.kind
    /\ reviews' = [reviews EXCEPT ![j] = Versioned(
         [@ EXCEPT !.status = "reviewing",
                   !.items[p] = [old EXCEPT !.claim = claim, !.dup = Assessed(claim),
                                   !.selected = h.selected, !.action = h.action,
                                   !.target = IF h.target # None \/ h.action = "create_new"
                                              THEN h.target ELSE @,
                                   !.status = IF claim # Parsed[p] THEN "edited"
                                              ELSE IF h.selected THEN "selected" ELSE "deselected"]])]
    /\ Answered(c)
    /\ UNCHANGED <<resumeVars, skills, batches, moved>>

Targeted(i) == i.action \in {"link_existing", "update_existing"}
LiveTarget(i) == IF i.claim.kind = "skill" THEN i.target \in Skills /\ skills[i.target] = "live"
                 ELSE i.target \in Active
Blocked(i) ==
  \/ Targeted(i) /\ ~LiveTarget(i)
  \/ i.action = "update_existing" /\ i.claim.kind = "employment" /\ IsProtectedTarget(i.target)
  \/ i.action = "create_new" /\ i.dup \in {"possible_match", "conflict"}
Importable(j) == Selected(j) # {} /\ \A p \in Selected(j) : ~Blocked(reviews[j].items[p])

ValidateReview(c) ==
  \E j \in Jobs :
    /\ Free(j) /\ Mutable(j) /\ reviews[j].version < MaxVersion
    /\ reviews' = [reviews EXCEPT ![j] =
         Versioned([@ EXCEPT !.status = IF Importable(j) THEN "ready_to_import" ELSE "reviewing"])]
    /\ Answered(c)
    /\ UNCHANGED <<resumeVars, skills, batches, moved>>
CancelReview(c) ==
  \E j \in Jobs :
    /\ Free(j) /\ Mutable(j)
    /\ reviews' = [reviews EXCEPT ![j] = Versioned([@ EXCEPT !.status = "cancelled"])]
    /\ Answered(c)
    /\ UNCHANGED <<resumeVars, skills, batches, moved>>

(* ---- the import: the candidate confirms the version it sees ---- *)
Confirm(c) ==
  \E j \in Jobs, key \in Keys :
    /\ reviews[j] # NoReview
    /\ Ask(c, Call("confirm", None, j, reviews[j], key))
    /\ UNCHANGED <<resumeVars, reviewVars>>
\* The targets' protection as the plan reads it stays in the call.
BeginImport(c) ==
  LET k == call[c] IN
  /\ k.pc = "confirm" /\ Free(k.on) /\ batches[k.arg] = NoBatch
  /\ reviews[k.on].version = k.view.version /\ Mutable(k.on) /\ Importable(k.on)
  /\ call' = [call EXCEPT ![c] = Call("import", None, k.on, [plan |-> k.view, safe |-> Unprotected], k.arg)]
  /\ UNCHANGED <<cases, files, ghosts, resumeVars, reviewVars>>

(* One item, in a savepoint: what it does to the rows as they are then.          *)
Rows == [cases |-> cases, skills |-> skills, outcome |-> [p \in Places |-> "none"], items |-> <<>>]
Settled(w, p, i, outcome, status, record) ==
  [w EXCEPT !.outcome[p] = outcome,
            !.items = (p :> [i EXCEPT !.status = status, !.record = record]) @@ @]
Failed(w, p, i) == Settled(w, p, i, "failed", "failed", i.record)
Into(w, p, i) ==
  IF i.claim.kind = "skill"
  THEN IF w.skills[i.claim.skill] # "none" THEN Failed(w, p, i)   \* deleted rows keep the name
       ELSE Settled([w EXCEPT !.skills[i.claim.skill] = "live"], p, i, "imported", "imported", i.claim.skill)
  ELSE LET free == {x \in Cases : w.cases[x] = NoCase}  x == CHOOSE y \in free : TRUE IN
       IF free = {} THEN Failed(w, p, i)   \* the bound on cases
       ELSE Settled([w EXCEPT !.cases[x] = NewCase(i.claim.employer, i.claim.dates, "document")],
                    p, i, "imported", "imported", x)
Onto(w, p, i) ==
  IF i.claim.kind = "skill" THEN Settled(w, p, i, "imported", "imported", i.target)
  ELSE Settled([w EXCEPT !.cases[i.target].employer = i.claim.employer,
                         !.cases[i.target].dates = i.claim.dates], p, i, "imported", "imported", i.target)
ImportedBefore(i) == i.record # None
ImportItem(w, p, i, safe) ==
  CASE ImportedBefore(i) -> Settled(w, p, i, "linked", "imported", i.record)
    [] ~ImportedBefore(i) /\ i.action = "skip" -> Settled(w, p, i, "skipped", "skipped", None)
    [] ~ImportedBefore(i) /\ i.action = "create_new" -> Into(w, p, i)
    [] ~ImportedBefore(i) /\ Targeted(i) /\ ~LiveTarget(i) -> Failed(w, p, i)
    [] ~ImportedBefore(i) /\ i.action = "link_existing" /\ LiveTarget(i) ->
         Settled(w, p, i, "linked", "imported", i.target)
    [] ~ImportedBefore(i) /\ i.action = "update_existing" /\ LiveTarget(i) ->
         IF i.claim.kind = "employment" /\ i.target \notin safe
         THEN Failed(w, p, i) ELSE Onto(w, p, i)
Imported(j, safe) ==
  MapThenFoldSet(LAMBDA p, w : ImportItem(w, p, reviews[j].items[p], safe), Rows,
                 LAMBDA p : p, Max, Selected(j))
\* The protection seen is that of the plan or a later one: the rows are not locked.
CommitImport(c) ==
  LET k == call[c] IN
  /\ k.pc = "import" /\ batches[k.arg] = NoBatch   \* or else the unique key refuses it
  /\ \E safe \in {k.view.safe, Unprotected} :
    LET w == Imported(k.on, safe)
        complete == \A p \in Places : w.outcome[p] # "failed" IN
    /\ cases' = w.cases /\ skills' = w.skills
    /\ batches' = [batches EXCEPT ![k.arg] = [review |-> k.on, outcome |-> w.outcome]]
    /\ reviews' = [reviews EXCEPT ![k.on] = Versioned(
         [@ EXCEPT !.status = IF complete THEN "imported" ELSE "partially_imported",
                   !.items = [p \in Places |-> IF p \in Selected(k.on) THEN w.items[p] ELSE @[p]]])]
    /\ Finish(c)
    /\ UNCHANGED <<files, ghosts, resumeVars, moved>>

(* ---- records the candidate changes meanwhile ---- *)
AddSkill(c) ==
  \E s \in Skills :
    /\ skills[s] = "none"   \* a name that was deleted is refused by the unique key
    /\ skills' = [skills EXCEPT ![s] = "live"]
    /\ Answered(c)
    /\ UNCHANGED <<resumeVars, reviews, batches, moved>>
DeleteSkill(c) ==
  \E s \in Skills :
    /\ skills[s] = "live"
    /\ skills' = [skills EXCEPT ![s] = "deleted"]
    /\ Answered(c)
    /\ UNCHANGED <<resumeVars, reviews, batches, moved>>
\* A verification request about a case is made, or closed.
MoveRequest(c) ==
  /\ RequestMade(c) \/ RequestClosed(c)
  /\ moved' = moved \cup {x \in Cases : Importing /\ Protected(x) # Protected(x)'}
  /\ UNCHANGED <<resumeVars, skills, reviews, batches>>

ReviewNext ==
  \E c \in Calls :
    \/ Turn(c) /\ (\/ CreateReview(c) \/ UpdateItem(c) \/ ValidateReview(c) \/ CancelReview(c)
                   \/ Confirm(c) \/ AddSkill(c) \/ DeleteSkill(c) \/ MoveRequest(c))
    \/ BeginImport(c) \/ CommitImport(c)

\* An import leaves the text of a case alone that is verified, with the reviewers or the subject of an open verification request (resume_review_service.py:340-347, docs/RESUME_REVIEW_IMPORT.md:29), unless that began while the import was under way.
ProtectedKept ==
  [][\A x \in Cases :
       Protected(x) /\ x \notin moved /\ batches' # batches =>
         cases'[x].employer = cases[x].employer /\ cases'[x].dates = cases[x].dates]_<<cases, batches, moved>>

\* An item is written to a record once, however many imports of the review are confirmed, with the same key or with others, and whichever of its items failed before (resume_review_service.py:178-235, 308-318).
ImportedOnce ==
  \A p \in Places, j \in Jobs :
    Cardinality({key \in Keys : batches[key].review = j /\ batches[key].outcome[p] = "imported"}) <= 1

\* What is imported is what the candidate saw when it confirmed: a change of an item in between, by another window, refuses the import (resume_review_service.py:190, 566-569).
ImportedAsConfirmed ==
  \A c \in Flying : call[c].pc = "import" =>
    \A p \in Places : reviews[call[c].on].items[p] = call[c].view.plan.items[p]

\* A review is called imported when each item chosen for import has a record or was skipped, and neither it nor its items change any more (resume_review_service.py:227-232, 571-573).
ImportedIsFinal ==
  [][\A j \in Jobs : reviews[j].status = "imported" =>
       /\ \A p \in Selected(j) : \/ reviews[j].items[p].record # None
                                 \/ reviews[j].items[p].status = "skipped"
       /\ reviews'[j] = reviews[j]]_reviews

(* ---- identity documents, which replace one another; no row is locked ---- *)

CONSTANT Papers

VARIABLE papers
paperVars == <<papers>>

Paper == [there: BOOLEAN, deleted: BOOLEAN, done: BOOLEAN,
          replaces: Papers \cup {None}, superseded: Papers \cup {None}]
NoPaper == [there |-> FALSE, deleted |-> FALSE, done |-> FALSE, replaces |-> None, superseded |-> None]
Kept == {p \in Papers : papers[p].there /\ ~papers[p].deleted}
Current == {p \in Kept : papers[p].superseded = None}
Newer(p) == {q \in Papers : papers[q].there /\ papers[q].done /\ papers[q].replaces = p}

PaperIntent(c) ==
  \E p \in Papers, r \in Current \cup {None} :
    /\ ~papers[p].there
    /\ papers' = [papers EXCEPT ![p] = [NoPaper EXCEPT !.there = TRUE, !.replaces = r]]
    /\ Answered(c)
\* The completion may come again; arg: the document it supersedes, if it still was current.
PaperComplete(c) ==
  \E p \in Kept :
    LET r == papers[p].replaces IN
    /\ Ask(c, Call("paper", None, p, None, IF r \in Current THEN r ELSE None))
    /\ UNCHANGED papers
\* Mutant: the document replaced is not marked.
LeavesPrevious(k, q) == papers[q].superseded
SupersededBy(k, q) == IF q = k.arg THEN k.on ELSE papers[q].superseded
CommitPaper(c) ==
  LET k == call[c] IN
  /\ k.pc = "paper"
  /\ papers' = [q \in Papers |-> [papers[q] EXCEPT !.done = @ \/ q = k.on, !.superseded = SupersededBy(k, q)]]
  /\ Answered(c)
PaperDelete(c) ==
  \E p \in Kept :
    /\ Ask(c, Call("tear", None, p, None, None))
    /\ UNCHANGED papers
CommitTear(c) ==
  /\ call[c].pc = "tear"
  /\ papers' = [papers EXCEPT ![call[c].on].deleted = TRUE]
  /\ Answered(c)

PapersNext ==
  \E c \in Calls :
    \/ Turn(c) /\ (PaperIntent(c) \/ PaperComplete(c) \/ PaperDelete(c))
    \/ CommitPaper(c) \/ CommitTear(c)

\* A document is superseded exactly when a completed one replaces it, and by such a one (user_document_service.py:112-131): it never stays current beside its replacement, however the completions of the two and their removals overlap, unless it was deleted first.
Lineage ==
  \A p \in Papers :
    /\ papers[p].superseded # None => papers[p].superseded \in Newer(p)
    /\ Newer(p) # {} /\ ~papers[p].deleted => papers[p].superseded # None
================================================================================
