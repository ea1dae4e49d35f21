----------------------------- MODULE ProfileRecords -----------------------------
(* What else a candidate's profile lists: internships, freelance contracts, work  *)
(* on platforms, projects, certifications and portfolio items, with their files;  *)
(* and the confirmation of an internship or a contract by somebody who was sent a *)
(* link. Nothing is locked: a call reads and checks in one step and commits, of   *)
(* what it sets, only what differs from what it read in another.                  *)
EXTENDS RequestFile

CONSTANTS Entries,   \* records of all six kinds
          Sheets     \* documents of internships and freelance contracts

VARIABLES entries, sheets,
          confirmations,  \* credential_verification_requests, by record
          said,           \* ghost: what the last edit of a field said
          clashed,        \* ghost: <<record, field>> two edits of which overlapped
          fresh,          \* ghost: documents made or completed since the answer
          twice           \* ghost: records two answers were under way about
recordVars == <<entries, sheets, confirmations, said, clashed, fresh, twice>>

Kinds == {"internship", "freelance", "gig", "project", "certification", "portfolio"}
Confirmable == {"internship", "freelance"}
Fields == {"title", "span"}
Values == {1, 2}
Decisions == {"confirmed", "declined", "on_hold"}
Subject(d) == CASE d = "confirmed" -> "verified" [] d = "declined" -> "rejected" [] OTHER -> "on_hold"
Papered(d) == CASE d = "confirmed" -> "approved" [] d = "declined" -> "rejected" [] OTHER -> "on_hold"
Declared(kind) == IF kind \in {"project", "certification"} THEN "self_declared" ELSE "pending"

\* filed: it names a file; done: the client said it was uploaded.
Entry == [kind: Kinds \cup {None}, title: Values, span: Values, filed: BOOLEAN, done: BOOLEAN, gone: BOOLEAN,
          status: {"pending", "self_declared", "verified", "rejected", "on_hold"}]
NoEntry == [kind |-> None, title |-> 1, span |-> 1, filed |-> FALSE, done |-> FALSE, gone |-> FALSE,
            status |-> "pending"]
Sheet == [of: Entries \cup {None}, done: BOOLEAN, gone: BOOLEAN,
          status: {"pending_upload", "pending_review", "approved", "rejected", "on_hold"}]
NoSheet == [of |-> None, done |-> FALSE, gone |-> FALSE, status |-> "pending_upload"]
Confirmation == [there: BOOLEAN, lapsed: BOOLEAN, response: Decisions \cup {"pending"}]
NoConfirmation == [there |-> FALSE, lapsed |-> FALSE, response |-> "pending"]

LiveEntries == {e \in Entries : entries[e].kind # None /\ ~entries[e].gone}
EntriesOf(kind) == {e \in LiveEntries : entries[e].kind = kind}
SheetsOf(e) == {s \in Sheets : sheets[s].of = e}
OnRecord(c, h, e, view, arg) == call' = [call EXCEPT ![c] = Call(h, e, e, view, arg)]

(* ---- a record: made, edited, deleted ---- *)
AddEntry(c, kind, filed) ==
  \E e \in Entries :
    /\ entries[e] = NoEntry
    /\ entries' = [entries EXCEPT ![e] = [NoEntry EXCEPT !.kind = kind, !.filed = filed, !.status = Declared(kind)]]
    /\ Finish(c)
    /\ UNCHANGED <<sheets, confirmations, said, clashed, fresh, twice>>
\* The fields the request names, whatever the others are by then.
EditEntry(c, kind) ==
  \E e \in EntriesOf(kind), F \in SUBSET Fields \ {{}}, w \in Values :
    /\ OnRecord(c, "record", e, entries[e], [fields |-> F, value |-> w])
    /\ clashed' = clashed \cup {<<e, f>> : f \in {g \in F : \E d \in Flying :
                     call[d].pc = "record" /\ call[d].on = e /\ g \in call[d].arg.fields}}
    /\ UNCHANGED <<entries, sheets, confirmations, said, fresh, twice>>
Named(k, f) == f \in k.arg.fields
AsEdited(k, f, now) == IF Named(k, f) /\ k.arg.value # k.view[f] THEN k.arg.value ELSE now
Edited(k, row) == [row EXCEPT !.title = AsEdited(k, "title", row.title), !.span = AsEdited(k, "span", row.span)]
CommitRecord(c) ==
  LET k == call[c] IN
  /\ k.pc = "record"
  /\ entries' = [entries EXCEPT ![k.on] = Edited(k, entries[k.on])]
  /\ said' = [said EXCEPT ![k.on] = [f \in Fields |-> IF Named(k, f) THEN k.arg.value ELSE said[k.on][f]]]
  /\ Finish(c)
  /\ UNCHANGED <<sheets, confirmations, clashed, fresh, twice>>
DeleteEntry(c, kind) ==
  \E e \in EntriesOf(kind) :
    /\ entries' = [entries EXCEPT ![e].gone = TRUE]
    /\ Finish(c)
    /\ UNCHANGED <<sheets, confirmations, said, clashed, fresh, twice>>
CRUD(c, kind) == AddEntry(c, kind, FALSE) \/ EditEntry(c, kind) \/ DeleteEntry(c, kind)

InternshipService(c) == CRUD(c, "internship")
FreelanceContractService(c) == CRUD(c, "freelance")
GigPlatformService(c) == CRUD(c, "gig")
ProjectService(c) == CRUD(c, "project")

\* Neither looks for the file, nor whether one was announced.
MarkUploaded(c, kind) ==
  \E e \in EntriesOf(kind) :
    /\ ~entries[e].done
    /\ entries' = [entries EXCEPT ![e].done = TRUE]
    /\ Finish(c)
    /\ UNCHANGED <<sheets, confirmations, said, clashed, fresh, twice>>
\* An announced file makes a certification; it can be fetched at once.
CertificationService(c) ==
  CRUD(c, "certification") \/ AddEntry(c, "certification", TRUE) \/ MarkUploaded(c, "certification")
\* The announced file is committed, and then the answer fails: a pair is taken out of what is a string.
AnnounceFile(c) ==
  \E e \in EntriesOf("portfolio") :
    /\ entries' = [entries EXCEPT ![e].filed = TRUE]
    /\ Finish(c)
    /\ UNCHANGED <<sheets, confirmations, said, clashed, fresh, twice>>
PortfolioService(c) == CRUD(c, "portfolio") \/ AnnounceFile(c) \/ MarkUploaded(c, "portfolio")
Fetchable(e) == e \in LiveEntries /\ entries[e].filed /\ (entries[e].kind = "portfolio" => entries[e].done)

(* ---- documents of internships and freelance contracts: SecondaryDocService ---- *)
SheetIntent(c, kind) ==
  \E e \in EntriesOf(kind), s \in Sheets :
    /\ sheets[s] = NoSheet
    /\ sheets' = [sheets EXCEPT ![s].of = e]
    /\ fresh' = fresh \cup {s}
    /\ Finish(c)
    /\ UNCHANGED <<entries, confirmations, said, clashed, twice>>
\* Again and again: an answer about it is forgotten.
SheetComplete(c, kind) ==
  \E e \in EntriesOf(kind) : \E s \in SheetsOf(e) :
    /\ ~sheets[s].gone
    /\ call' = [call EXCEPT ![c] = Call("sheet", e, s, sheets[s], None)]
    /\ UNCHANGED recordVars
Handed(k, row) ==
  [row EXCEPT !.done = TRUE, !.status = IF k.view.status = "pending_review" THEN row.status ELSE "pending_review"]
CommitSheet(c) ==
  LET k == call[c] IN
  /\ k.pc = "sheet"
  /\ sheets' = [sheets EXCEPT ![k.on] = Handed(k, sheets[k.on])]
  /\ fresh' = fresh \cup {k.on}
  /\ Finish(c)
  /\ UNCHANGED <<entries, confirmations, said, clashed, twice>>
SheetDelete(c, kind) ==
  \E e \in EntriesOf(kind) : \E s \in SheetsOf(e) :
    /\ ~sheets[s].gone
    /\ sheets' = [sheets EXCEPT ![s].gone = TRUE]
    /\ Finish(c)
    /\ UNCHANGED <<entries, confirmations, said, clashed, fresh, twice>>
InternshipDocuments(c) == SheetIntent(c, "internship") \/ SheetComplete(c, "internship") \/ SheetDelete(c, "internship")
FreelanceDocuments(c) == SheetIntent(c, "freelance") \/ SheetComplete(c, "freelance") \/ SheetDelete(c, "freelance")
Listed(e) == {s \in SheetsOf(e) : e \in LiveEntries /\ sheets[s].done /\ ~sheets[s].gone}

(* ---- the answer to a confirmation: CredentialVerificationService ---- *)
\* Asking for one fails before anything is committed, so a link is one an earlier release sent.
ConfirmRecord(c) ==
  \E e \in LiveEntries, d \in Decisions :
    /\ confirmations[e].there /\ ~confirmations[e].lapsed /\ confirmations[e].response = "pending"
    /\ OnRecord(c, "confirming", e, entries[e], d)
    /\ twice' = twice \cup {x \in {e} : \E o \in Flying : call[o].pc = "confirming" /\ call[o].on = x}
    /\ UNCHANGED <<entries, sheets, confirmations, said, clashed, fresh>>
\* Every document of the record, the deleted and the never uploaded ones too.
Judged(e, d, s) == IF sheets[s].of = e THEN [sheets[s] EXCEPT !.status = Papered(d)] ELSE sheets[s]
CommitDecision(c) ==
  LET k == call[c] IN
  /\ k.pc = "confirming"
  /\ confirmations' = [confirmations EXCEPT ![k.on].response = k.arg]
  /\ entries' = [entries EXCEPT ![k.on].status = IF Subject(k.arg) # k.view.status THEN Subject(k.arg)
                                                    ELSE entries[k.on].status]
  /\ sheets' = [s \in Sheets |-> Judged(k.on, k.arg, s)]
  /\ fresh' = fresh \ SheetsOf(k.on)
  /\ Finish(c)
  /\ UNCHANGED <<said, clashed, twice>>
ConfirmationLapses ==
  \E e \in Entries :
    /\ confirmations[e].there /\ ~confirmations[e].lapsed
    /\ confirmations' = [confirmations EXCEPT ![e].lapsed = TRUE]
    /\ UNCHANGED <<entries, sheets, said, clashed, fresh, twice, call>>

RecordsNext ==
  \/ \E c \in Calls :
       \/ Turn(c) /\ Cardinality(Flying) < AtATime
            /\ (\/ InternshipService(c) \/ FreelanceContractService(c) \/ GigPlatformService(c) \/ ProjectService(c)
                \/ CertificationService(c) \/ PortfolioService(c) \/ InternshipDocuments(c) \/ FreelanceDocuments(c)
                \/ ConfirmRecord(c))
       \/ CommitRecord(c) \/ CommitSheet(c) \/ CommitDecision(c)
  \/ ConfirmationLapses

\* Two edits of a record that name different fields both stand, in whatever order they read and commit (internship_service.py:47-54 and the same in its siblings): a field is what the last edit naming it said, unless two edits naming it overlapped.
EditsKept ==
  \A e \in Entries, f \in Fields : <<e, f>> \notin clashed => entries[e][f] = said[e][f]

\* The link, the record and its documents agree on the answer (credential_verification_service.py:286-341), but for documents made or completed since and for a record two answers were under way about.
AnswersAgree ==
  \A e \in Entries : LET d == confirmations[e].response IN d # "pending" =>
    /\ \A s \in SheetsOf(e) \ fresh : sheets[s].status = Papered(d)
    /\ e \notin twice => entries[e].status = Subject(d)

\* An answer is given once: a link that was answered keeps its answer (credential_verification_service.py:272-283), unless two answers were under way at once.
ConfirmationStands ==
  [][\A e \in Entries \ twice : confirmations[e].response # "pending" =>
       confirmations'[e].response = confirmations[e].response]_confirmations
================================================================================
