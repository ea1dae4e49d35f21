# Verification models of the Kairo backend

TLA+ models, TLC runs and TLAPS proofs about the backend under `src/app/`: a
FastAPI service over PostgreSQL in which candidates record their career, ask for
claims to be verified, administrators review the requests, and employers,
institutions or other organizations answer them.  Paths below are relative to the
repository root unless they name a file of this directory.

## 1. The system

### Parts, their state and operations

| Part | State | Operations | Modules |
|---|---|---|---|
| Verification requests (`services/verification_request_service.py`, `..._workflow_service.py`, `..._admin_review_service.py`) | `verification_requests`, reviews, corrections, contacts | draft, submit, resubmit, withdraw; review, approve, reject, finalise, return, cancel; accept, ask, verify, reject by the organization | `VerificationRequest`, `RequestFile` (evidence, consent, snapshot, timeline) |
| Employer link, institution link (`employer_verification_service.py`, `public_institution_verification_service.py`) | token, response, revocation | issue, open, answer, revoke | `VerificationRequest`, `EducationVerification` |
| Employment claims and their reviewers (`employment_service.py`, `admin_verification_service.py`) | `employments`, documents | create, edit, document, submit, assign, decide | `VerificationRequest`, `CasePipeline` |
| Resumes and identity documents | resumes, processing jobs, reviews, import batches, identity documents | upload, read, review, import, delete, replace | `ResumeReview` |
| Profile records, Trust Passport | internships, contracts, projects, certifications, portfolio; score, consent, snapshots, visits | edit, file, confirm by link; calculate, consent, withdraw, view | `ProfileRecords`, `TrustPassport` |
| Verification connectors (`connectors/`) | catalog, run rows | select, execute, normalise, show | `Connectors` |
| E-mail jobs (`workers/`, `services/email_delivery_service.py`) | SQS queue, Redis keys, `email_delivery_logs` | enqueue, receive, claim, handle, delete, stop | `EmailJobs` |
| Notifications (`services/notification_*.py`) | notifications, deliveries, preferences | tell once, mark read, resend, retry | `EmailJobs`, `Notifications` |
| Accounts (`auth/`, `services/account_deletion_service.py`, `admin_directory_service.py`) | users, staged sign-ups, codes in Redis, refresh and reset tokens, links, photos, languages | sign up, complete, sign in, rotate, reset, link, suspend, restore, erase | `Signup`, `Sessions`, `AccountErasure`, `UserDirectory` |
| Organizations, trust registry | members, invitations, owners; canonical records, labels, relationships | create, invite, accept, transfer, suspend; link, synchronise, merge | `Memberships`, `TrustRegistry` |
| Roster import (`services/organization_roster_import_service.py`) | imports, rows, people registry | preview, remap, confirm | `RosterImport` |
| Workspace of an organization | people and identifiers, trust invitations, requests, passport links and views | invite, send, open, accept, expire, ask, resolve a person, share | `PeopleRegistry`, `TrustInvitations`, `RequestIntake`, `Workspace` |
| Administration | roles, invitations of administrators, investigations, signals, incidents | invite, accept, suspend, investigate, close, report | `Administrators`, `TrustSafety` |
| HTTP layer, configuration, rendering | | | not modelled |

`PROJECT.json`, `components`, lists every part with what is left out of it, and
`map` the lines each definition stands for.

### How they interact

Every HTTP request has a database session of its own (`db/session.py`): the handler
loads rows, decides, writes and commits; an exception rolls back.  The isolation level
is PostgreSQL's READ COMMITTED, no table has a version column, and an UPDATE writes
the changed columns only.  Few reads take a row lock (`SELECT ... FOR UPDATE`): the
candidate's withdrawal, the two organization resolutions, an answer by an employer's or
an institution's link, the submission of a case, the jobs and reviews of a resume, the
confirmation of a roster.  All other handlers decide on what they read earlier.
`autoflush` is off and an object a session has loaded keeps its attributes until the
session ends, so a locking read of a row already loaded returns the old attributes.

The verification request is what the other parts meet on: it copies the claim at
submission, its approval issues the link, the link's answer moves it to quality review,
and its finalisation writes the claim's status.  The people registry is shared by
roster imports, invitations and requests; the account by sign-up, sessions, the
administrators' directory and erasure; the notification's e-mail by the API and the
workers, which share no transaction.

### What is hard

Interleaving of handlers that decide on stale rows; a handler that commits half of its
work (the e-mail sender commits its caller's session when the provider refuses; an
erasure deletes objects before its transaction); long runs of legal calls; retries of
what was done; messages delivered twice, workers that crash, stop or outlast a timeout;
unique keys as the only thing between two resolutions of a person.  `PROJECT.json`,
`hazards`, lists each one at its line with the properties that cover it.

## 2. Modules

| Chain (each extends the one before) | Composed by | Runs |
|---|---|---|
| `VerificationWorkflow`, `VerificationRequest`; abstract: `VerificationLifecycle` | `MCVerificationRequest` | `served_in_turn`, `outreach_races`, `withdrawal_overwritten` |
| `EmailJobs` | `MCEmailJobs` | `jobs_kept` |
| `AccountRecords`; over it `Signup`, `Sessions`, `AccountErasure`; `UserDirectory` | `Accounts` | `accounts_kept` |
| `Memberships`, `TrustRegistry` | `Organizations` | `organizations_kept` |
| `RosterImport` | `MCRosterImport` | `roster_imported` |
| `PeopleRegistry`, `TrustInvitations`, `RequestIntake` | `Workspace` | `workspace_kept` |
| `Administrators`, `TrustSafety`, `Notifications` | `Administration` | `administration_kept`, `final_superadmin` |
| `CasePipeline`, `ResumeReview`, `EducationVerification`, `RequestFile`, `ProfileRecords`, `TrustPassport`, `Connectors` | `Career` | `career_kept`, `two_in_pipeline` |

### A call, in all of them

A handler that reads, decides and commits is a call with two or more steps: the first
finds it admissible on the rows as they are and keeps what it read (`view`, `plan` or a
session's copy), a later one writes, into the rows as they are then, the columns the
code writes.  A handler whose rows are locked, or that decides nothing, is one step.  A
refused call changes nothing and is not a step.  `Crash` (`Rollback`, `CutShort`) ends a
call between two steps.  Calls are made once each; where they are numbered they begin in
their order, so that exploring both orders of two equal calls costs nothing.

Ghost variables (`raced`, `contested`, `crossed`, `torn`, ...) record which rows two calls
were about at once.  A property that the code keeps for calls in turn, and not for
overlapping ones, excepts exactly the rows in the ghost, and its comment says so; the
excepted behaviour is a race the code does have.

### `VerificationRequest`

The variables `req`, `review`, `claim` and `evr` are the rows of `verification_requests`,
`verification_request_reviews` (the latest round), `employments` and
`employer_verification_requests`, reduced to the columns some guard reads; `corr`,
`contact` and `evidence` stand for the child rows.  A timestamp that is only tested
for NULL is a Boolean; a claim's content is a version number, which the request's
`snapshot` copies; a link's token is the number of the issue.

`sess[s]` is a database session: `Idle`, or the copy of the rows its handler loaded
first, with the row lock it took.  `Load`, `LoadForUpdate`, `LoadPortalToken` and
`LockFormToken` are the reads; the action named after the handler is the rest, up to the
commit (`Close`).  `Serving` and `EvrFree` make an UPDATE wait for another session's row
lock.  `LockFormToken` is the HTML form, whose locking read returns the attributes of
its first, unlocked read.  `Advance` is `_advance_to_organization_stage`, shared by
`Approve`, `ResolveOrganization` and `CreateCanonicalOrganization`.  `mailed = FALSE` is a
provider that refuses: the sender commits the session, so the link and the timestamp stay
and the last transition does not.  `MakeRegistryRecord` is the other commit in the middle of
a handler: where the organization has no registry record, `sync_organization` makes one and
`create_record` commits it, which gives the request's row lock back before the organization is
attached (`Halves`).  The session goes on with the rows it read, and another resolution, a
withdrawal or a cancellation may commit before it does.  The transitions a handler walks through in one commit are
one step, with each of them required of the table (`Walks`).

### `EmailJobs`

For each send `j` of one notification: `log[j]` and `delivery[j]` are the statuses of its
`email_delivery_logs` and `notification_deliveries` rows; `api[j]` is how far
`create_and_dispatch` or `resend` got, with the log status it read; `queue[j]` is where the
message is, `key[j]` the Redis key, `worker[w]` a process of `run_worker` with its batch.
`Queue`, `Publish` (or `RunInline`), `ReadLog`, `Record` are the commits of the API's session;
`Receive`, `Claim`, `Handle`, `Commit`, `HandlerRaises`, `Delete` the worker's loop; `Sigterm`,
`Stop`, `Crash`, `Restart` its life; `Reappear` the visibility timeout, with the redrive limit.
`outruns`, chosen at the start, says whether a handler may last longer than that timeout.

### `Accounts`

`signups` are staged sign-ups by row, `otp` and `sends` the codes and counters in Redis,
`mail` the codes that went out, `tokens` refresh tokens with their family, `resets` reset
tokens, `docs`, `claims` and `requests` what an erasure meets.  A start of a sign-up reads
which rows answer for the address or the phone and saves in a later step (`Saved`); a
verification, a completion and a resend likewise.  `part` chooses at the start between
these flows and the administrators' directory of candidates (`UserDirectory`): suspending,
restoring, ending sessions, offering a reset and adding notes beside the candidate's own
signing in, sharing, languages and photo with its object in storage, and the erasure.
`events` is the account's log, `plan` what a call read.

### `Career`

One variable `parts` says what the calls of a behaviour are to; a start gives the rows.
`CasePipeline` is the reviewers' workflow of employments with documents uploaded in
two steps.  A case's `request` is what its latest verification request has come to:
`RequestMade` and `RequestClosed` move it, an administrator's decision with the case's status,
and an edit after a rejected case or request starts over (`StartsOver`).  `ResumeReview` is the resume, the jobs that read it
(`queue`), the review and its import into cases and skills, and identity documents that replace one another;
`EducationVerification` an education record from the application to the institution's
answer, over the same transition table as `VerificationRequest`; `RequestFile` evidence,
consent, the snapshot and what each reader is shown; `ProfileRecords` the six other kinds
of record and their confirmation by link, each edit writing what differs from what it
read; `TrustPassport` the score, which is read, read again and committed; `Connectors` the
choice and execution of a connector inside the request's transaction.

### `Organizations`, `RosterImport`, `Workspace`, `Administration`

`Memberships` and `TrustRegistry` share only the creation of an organization, which
commits the owner and then the canonical record.  A confirmation in `RosterImport` holds the
import's row and writes row by row into a copy nobody sees until it commits; other
transactions wait for what it wrote, two may deadlock, and one of them then fails.
`PeopleRegistry` resolves a person by the row it has, the account, the address or the
number, in one step, and commits in another under two unique keys; invitations and
requests link themselves to the person in transactions of their own.  `Workspace` adds
passport links with the views that are unique within a window.  `Administrators`,
`TrustSafety` and `Notifications` share their calls (`call`, `AtATime`) because a notification is
sent to whoever administers when the recipients are read.

## 3. Runs

Properties, their meaning and the lines they are about are stated beside each
definition; the combined ones are conjunctions of named parts.

| Run | Instance | Distinct questions |
|---|---|---|
| `served_in_turn` | one session, both kinds of request, 4 rounds, 2 corrections, 2 links, 2 versions of the claim, the provider may refuse | rows agree with the status; one outreach; decisions and answers stay; `ImplementsLifecycle`, the refinement |
| `outreach_races` | two sessions, an employment or no claim, 1 round, 1 correction, 1 link; the routes that load the claim or the link stay out (`Reads`) | nobody unapproved reaches the organization; a request that waits for corrections has an open one; a withdrawal was decided before any approval, and is left only by a handler that had read the request before it |
| `jobs_kept` | 1 send, 2 workers, 3 receipts, 1 crash, 1 stop, both backends, with handlers that outrun the timeout and without | no second e-mail unless a handler that sent one raised; decided logs stay; the delivery follows the log; every published job is decided or dead-lettered (liveness) |
| `accounts_kept` | 3 calls at a time over 2 accounts, 2 addresses, 2 sign-ups, 2 tokens; 6 starts, 3 of them on the directory's page | a code is taken once, a reused family dies, a login method is kept, a completed sign-up stays; what an erasure leaves; a suspended account is shut, the log's last word, one reset link, photo and languages, what the directory counts |
| `career_kept` | 2 calls at a time, 2 to 5 in all, 26 starts | approval on evidence, one case in the pipeline but for submissions of two at once, jobs and imports once, edits and answers kept, the score needs consent, what readers are shown, what a connector's verdict does |
| `organizations_kept` | 3 calls on two organizations with 4 membership rows, or 3 on the registry with 3 records | sole owner, one open invitation, usable workspace, live links, merges keep labels and one primary |
| `roster_imported` | two overlapping two-row rosters, two sessions, one resolver, 1 fault, 2 remappings | identifiers backed, unique and never moved; an import applied once; every confirmation ends (liveness) |
| `workspace_kept` | 3 to 5 calls, 2 people rows, 2 invitations, 2 requests, 1 link with 4 views, in 5 starts | identifiers, one person for an address, queued means mailed, the accepter is the person, one open request for a claim, one unique view, the directory, and what is never taken back |
| `administration_kept` | 2 calls at a time, 2 to 5 in all, 2 people, 3 cases, 1 incident, 3 notices, in 7 starts | a superadmin remains, invitations, suspended means signed out, signals follow, everybody told once, mails linked, the console's counts; what was closed stays closed |
| `final_superadmin` | 1 call at a time, 6 calls | violated: see below |
| `withdrawal_overwritten` | two sessions, an employment, 1 round, no correction | violated: see below |
| `two_in_pipeline` | the instance of `career_kept` | violated: see below |

The three violated runs each refute a sentence of the repository.

- `final_superadmin`: "The final superadmin role cannot be removed"
  (`app/services/admin_settings_service.py:1003`, and the test named
  `test_final_superadmin_cannot_be_demoted_or_deactivated`).  A superadmin who was suspended,
  invited as support and restored suspends or demotes the only other superadmin and then
  accepts the invitation, which writes its role on the account (`:650`) and counts no
  superadmins.
- `withdrawal_overwritten`: nothing leads out of `WITHDRAWN_BY_CANDIDATE`
  (`app/services/verification_request_workflow_service.py:100`,
  `tests/test_candidate_verification_withdrawal.py:321-323`).  An administrator's handler that
  read the request, without a lock, before the withdrawal committed writes its own decision
  over it: the request is rejected, or at the organization, with `withdrawn_at` set.  What does
  hold of withdrawals is `WithdrawnStays`, in `outreach_races`.
- `two_in_pipeline`: "concurrent submit calls are serialised and cannot both pass the
  pipeline-conflict check simultaneously" (`app/services/employment_service.py:283-285`, and
  `app/repositories/employment.py:94-95`).  The lock is on the submitted row alone, so two
  submissions of two cases pass the check together.  `OnePipelineCase`, in `career_kept`,
  excepts the pairs of cases submitted so (`rushed`) and no others.

### The bounds, and why they are enough

What a second call can spoil lies between one read and one commit, so two overlapping calls
show every pairwise race; three are explored where a third party matters (a code, a
session and the account they meet on; two imports and a resolver), and the proofs below
bound neither.  Starts stand for the histories that lead to them, each a state
the program can be in; `parts` keeps calls to unrelated tables out of the same behaviour,
since they commute.  Rows that are made are numbered and bounded by their set, as are
tokens (`Tokens`, `MaxTokens`), edits (`MaxEdits`), sends and retries (`MaxSends`, `MaxTries`,
`MaxRetries`), consents, receipts, crashes and stops; two of a kind are what makes "another" and
"no other" expressible.  Four rounds in `served_in_turn` are one for each way a round opens.
`Threshold` counts what is against a subject up to where it makes a signal, `MaxEvents` the
account's log.  Time is a Boolean where only "lapsed" is asked (`lapsed`, `late`, `recent`,
`expired`), set by an action of its own.

Simplifications of data: roles with the same rights are one (moderator and hr are support,
a reviewer is a member); a text field is one of two values; the workspace is one
organization's, so its unique keys are within it; an account of the
workspace keeps its address, as only an erasure writes `users.email` of an account
(`account_deletion_service.py:716`).

Deadlock is checked for `VerificationRequest` (a session can always load or roll back).  The
other models make a bounded number of calls and may end.

### Races the exceptions stand for

A start of a sign-up that read it before the address was verified may commit another
address beside the verification, and two such starts with two completions give one sign-up
two accounts in turn (`restarted`).  A suspension revokes the links it saw; one made
meanwhile stays live, and a restoration read before an erasure commits `is_active` on the
erased row.  Two openings of a public link may both be unique (`crowded`), two resolutions
of one person may both write (`met`), two decisions on a case or an incident may both be
committed (`mixed`), two edits of one field leave the later (`clashed`), and a photo uploaded
while the old one is removed may lose its object.
Two superadmins who suspend each other at once leave none (`crossed`).

None of these has a property that would catch it: the hazards that name them list either the
properties about what surrounds the race, or none and a note.  One goes against a document:
"Relationship promotion is monotonic" (`docs/ORGANIZATION_PERSON_REGISTRY.md:71`) is
so for resolutions in turn, which is what `NeverTakenBack` says; of two that overlap on one
person (`met`) the later may write the lower relationship it computed from what it read.

## 4. Fairness

Every specification but two is safety only.  `EmailJobs` assumes that a worker's own loop goes
on (`WF(Process(w))`: `while not shutdown.is_set()`), that a worker that ended is started again
(it is deployed as an ECS task, `docs/production-secrets.md`; nothing in the
repository itself starts it again, so this is an assumption about the deployment), and that
SQS makes an undeleted message visible again (`WF(Reappear(j))`).  `RosterImport` assumes that a
confirmation that can take its next step takes it (`WF`), that the database grants a row to a
transaction that keeps waiting for it (`SF(ApplyRow)`, `SF(RecordFailure)`), and that it breaks
a deadlock (`WF(Deadlocked /\ RowFails)`), as PostgreSQL does after `deadlock_timeout`.  Nothing is
assumed of callers, of handlers (they may raise each time), of signals or of crashes.
`EveryJobDecided` is claimed for behaviours in which no process crashes (`crashes > 0`) and no
handler outruns the timeout: after either, the next receipt finds the Redis key set and is
deleted as a duplicate, although the run that set the key is lost or may still fail.

## 5. Proofs

TLAPS checks these for every value of the constants that satisfies the named assumptions:
any number of people, rows, calls, sessions and workers.  The assumptions are that rows
that are numbered are numbers and some sets finite (`NumbersAssumption`, `InvitesAssumption`,
`RequestsAssumption`, `ViewsAssumption`, ...), that `None` is no member of what it stands beside,
that `users.email` is unique and that no address is a number (`PeopleAssumption`), and that the
starts are rows the program can have (`StartsAssumption`; for accounts and organizations
`InOrder`; for administration there is a superadmin, cases are numbered without gaps, and notices are as calls
that ended left them, `Settled`; for a career's records, what is superseded, answered, requested or
filed shows it: `PapersBegun`, `RecordsBegun`, `StudiesBegun`, `FilesBegun`).  TLC
evaluates each of them in the run of the module that declares it, and TLC checked each
inductive invariant on a run before it was proved.

The shape is the same everywhere.  The property is not inductive because a call commits on
the strength of what it read earlier.  The invariant therefore says of every call in flight
what its copy still tells of the row: either the fact it holds can only be added to, so the
copy stays true; or a lock keeps others away; or another call on the row overlapped, and the
row is in the ghost.  The proof has one step per action.

| Module | Theorems | Argument |
|---|---|---|
| `VerificationRequestProofs` | `TypeCorrect`, `ApprovedBeforeOrganization`, `AwaitedCorrectionStaysOpen`, `WithdrawalStays`, for any number of sessions | `IInv`: the row records what its status stands for (`Recorded`), and what a session's copy says was done was done (`Carried`), because consent, approval, outreach, organization and link are only ever added (`Grows`). A withdrawal's copy stays true under its row lock, so what it withdraws was not approved; that another's decision does not overwrite it later is no theorem, and is refuted. |
| | `ServedInOrderAlways`, `OneDispatch`, `DecisionsStay`, `OneResponse`, `Refinement` | With `OneAtATime` (one session) the copy is the row (`InTurn`); every commit maps to a step of `VerificationLifecycle` or to none. |
| `EmailJobsProofs` | `TypeCorrect`, `NoSecondEmail`, `DeliveryAgrees`, `DecisionsOnce` | `SInv`: at most one worker runs a job and its key is set while it does (`OneRun`); where a run may still start, every e-mail that went out is a failed run's (`Accounted`). `DInv`: a run sees a queued log (`Logged`, `Undecided`). |
| `WorkspaceProofs` | `RegistryInOrder`, `OnePersonPerAddressAlways` | Identifiers go in under a unique key and are never removed; whoever was resolved by an address has it (`RowsIs`, `CallsIs`). |
| | `TypeCorrect`, `WorkspaceInOrderAlways`, `NeverTakenBackAlways` | What a resolution knows of its person (`LinksKnow`), of the account (`Addressed`), of the invitation (`Sole`) and of its mail (`Mailed`).  `WInv`: an accepted invitation's person follows or is about to (`Directed`), a draft holds its claim's lock (`Intake`), links and openings (`ShInv`). |
| `AdministrationProofs` | `TypeCorrect`, `ClosedForGoodAlways` | A call that read an invitation, an investigation or an incident open finds it open, unless another was about it (`HeldOpen`, `Apart`, `CasesHeld`, `IncidentsHeld`). |
| | `AdministrationKept` | `AllHeld`. Of any two calls that change roles or suspensions one overlapped the other, so the other superadmin a call counted is there when it commits, unless an acceptance lowered it (`lowered`; `RankHeld`); who is about to be signed in is active or raced (`SignedOutHeld`). A signal stays at its investigation, a closed case's active signal has a later one, as cases are numbered, and a call that closes a case has read that (`SignalsFiled`, `ViewFollows`). A fan-out has a row for whomever it is past (`ToldSoFar`); an e-mail without a delivery has the call that will record it, or that call died (`LinksHeld`); a delivery is never ahead of its e-mail (`MailsAccounted`). The counts of the console follow by the cardinality of finite sets. |
| `AccountsProofs` | `CompletedSignupsStay`, `AccountsKept`, `AccountsInvariant` | Over the steps sorted by what they do (`Moves`): the count of sends tells codes apart and an accepted code is nowhere any more (`CodesIs`); what is live in a family whose reuse was seen was minted by a call that had read before (`TokensInv`); nothing but an erasure ends an address (`ErasersIs`); a completion reads the account its row names (`SignupsIs`); unlinking saw a way in that remains (`LoginsIs`); objects are listed before they go (`ObjectsIs`). |
| | `AccountsTyped`, `SessionsStayInOrder`, `AccountsErasedForGood`, `DirectoryInvariant` | Every step of the directory's page opens a call with what it reads, ends one with what it writes, or happens beside them (`Acts`). Two calls about an account that are under way together are in `crossed` (`OverlapsIs`), so what one read holds until it commits or they have met: of links (`ShutIs`, `OwnersIs`), reset links (`LinksIs`), the photo (`PhotosIs`) and languages (`LanguagesIs`). |
| `RosterImportProofs` | `RosterTyped`, `RosterKept` | Every step changes the registry in one of three ways: a session goes on without touching it, commits what it wrote, or a resolver does (`Moves`, `Commits`, `Resolves`). Whoever holds an import's lock found it unconfirmed, so the rows are applied once (`Once`); what an open transaction wrote is backed by its own identifiers or the registry's, and two open transactions wrote no identifier in common, since each waits for the other's (`Entrusted`). |
| `OrganizationsProofs` | `OrganizationsTyped`, `MembershipsKept` | `MembersHeld`: a row keeps its organization and user, and what a call read of its organization's owners (`OwnersKnown`) or of its user (`UserKnown`) is still so when it commits, for every step leaves it alone (`KeptOwners`, `KeptUser`) but one of a call about the same, and those two are in `contested` or `crossed`. A new organization is known to no call before its owner is there (`FoundedMembers`). |
| | `RegistryKept`, `MergesKept` | `RegistryHeld`: an edit's records are live, the request it read is unchanged, and a merge lists all that leads to its record (`MergeKnown`), because a step touches what another edit knows (`Left`) only where the two clash, and then `torn` is set. So links move as a merge commits, labels it drops have a twin at the target, and it keeps one primary only where there was none (finite cardinalities). One synchronisation at a time finds its name still free (`TwinsHold`). |
| `CareerProofs` | `ProfileKept` | `ProfileHeld`: what an edit, an answer, a scoring or a visit read of its field, link, claims or visitor is still so when it commits, or the two calls met (`clashed`, `twice`, `alongside`, `hustled`, or `odd` in the score). A document is superseded only by a completed replacement; a public page is filtered from its owner's. |
| | `StudiesKept`, `StandsKept` | `CareerHeld` adds `StudiesHeld`, `FileHeld` and `RunsHeld`: a request about a study walked the table, and what it passed is recorded; a study follows its newest request unless a call on it met another (`muddled`); what a reader is shown is a function of the file; a run is kept with the verdict of the connector it names, in the transaction that ends the request's turn. |

## 6. What is only model-checked, and what is not modelled

Out of the provers' reach, and left to TLC: liveness (`EveryJobDecided`,
`EveryConfirmationEnds`) and whatever rests on ENABLED.

Checked by TLC only: `TypeOK`, `CasesInOrder`, `ResumesInOrder` and `ImportKept` of `Career`.
The last two, and the types of what an import writes, rest on what a fold over the entries of a
resume makes of the cases and skills, which is induction over data.  `CasesInOrder` shares its
rows with the import.

Not modelled: the HTTP layer, configuration, rendering, extraction of text, search and
listings; expiry of the Redis key of a message after a day; scheduled notifications,
which nothing creates; the recording of passport access, which nothing calls; the
duplicate test of education records.  `PROJECT.json`, `components`, says for each part what is
left out, and `hazards` which of them have no property and why.

## 7. Found while modelling

Each is what the code does.  The first three contradict what the repository says of it, and
have a run.

- The last superadmin can be lost through an invitation (`final_superadmin`).
- An administrator's decision overwrites a withdrawal (`withdrawal_overwritten`).
- Two cases of one candidate can be in the pipeline (`two_in_pipeline`).
- Of two overlapping resolutions of one person, the later may lower its relationship, against
  "promotion is monotonic" (`docs/ORGANIZATION_PERSON_REGISTRY.md:71`).
- Resolving an organization that has no registry record commits half-way and so gives up the
  lock it took on the request.
- Asking for the verification of a credential reads `active_request.public_id`, which the
  model lacks: the call always fails and is rolled back.  A portfolio's upload intent
  unpacks a pair from a function that returns a string (`infrastructure/s3/presign.py:17`), after
  its row was committed.
- The console counts run statuses that nothing writes and leaves out "unavailable"; it
  counts every failed resume job as retryable.
- A second review round of one request notifies nobody told of the first: the key names the
  request and not the round.
- A move to IN_PROGRESS is flushed before the connector is called, so the row stays
  locked for the whole external call.
- The directory's list counts lapsed links as active, the detail page does not.
- A merge links the requests it read to its target; one that a synchronisation moved or a
  deferral unlinked meanwhile is linked again, and so may be deferred and linked.
- Two overlapping visits leave two rows for one day, and later visits from there raise
  until the day is over.

## 8. Plan

Done: the models of every part in the table of section 1 but the last, and the proofs of section 5.
Left:

1. `CasesInOrder` and `ResumesInOrder`, first the parts that do not rest on the import's fold
   (`ApprovedOnEvidence`, `OneJobWaiting`), with their steps sorted as `Moves` does elsewhere.
2. Two resumes and their imports at once: `Resumes` has one member in every start.
3. Two sends of one notification at once in `EmailJobs` (`MaxSends` and `MaxBatch` above 1),
   whose messages meet in a worker's batch.
