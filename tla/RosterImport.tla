----------------------------- MODULE RosterImport ------------------------------
(* Roster imports of one organization: upload, remapping, confirmation, and the  *)
(* people registry they share with the invitations and verification requests     *)
(* that resolve a person. A confirmation is one transaction that holds the       *)
(* import's row lock and writes row by row; its writes stay private until it     *)
(* commits, and other transactions wait for the people and identifiers it wrote. *)
EXTENDS Integers, Sequences, FiniteSets, FiniteSetsExt

CONSTANTS People,   \* people the registry can hold (a bound)
          Values,   \* cell contents, of any field
          Users,    \* accounts a person can be linked to
          None

Fields == {"name", "id", "email", "phone"}
KeyFields == {"id", "email"}
Aliases == {"email", "phone"}
RosterType == {"employee", "student"}
Disposition == {"valid_new", "valid_update", "duplicate", "invalid", "skipped"}

Cells == [Fields -> Values \cup {None}]
\* A parsed row: its cells, whether the parser or the normalization of a cell
\* found an issue, and whether it is blank.
SourceRow == [raw: Cells, bad: BOOLEAN, skipped: BOOLEAN]
\* The fields that have exactly one column, and those that several columns claim.
Mapping == [fields: SUBSET Fields, ambiguous: SUBSET Fields]

PersonRow == [there: BOOLEAN, linked: Users \cup {None}, email: Values \cup {None},
              phone: Values \cup {None}, roster: RosterType \cup {None}, id: Values \cup {None}]
\* The registry of one organization: its people, and the owner of every alias.
Registry == [people: [People -> PersonRow],
             owner: [Aliases \X Values -> People \cup {None}]]
NoPerson == [there |-> FALSE, linked |-> None, email |-> None, phone |-> None,
             roster |-> None, id |-> None]
EmptyRegistry == [people |-> [p \in People |-> NoPerson],
                  owner |-> [a \in Aliases \X Values |-> None]]

(* ---- the preview of an upload: the mapping of columns to canonical fields, the  ---- *)
(* ---- rows that are usable, the rows that repeat one another, and the people a    ---- *)
(* ---- row's identifiers belong to                                                 ---- *)
RequiredMappingGaps(m) == m.fields \cap KeyFields = {} \/ "name" \notin m.fields
RequiresManual(m) == m.ambiguous # {} \/ RequiredMappingGaps(m)
\* A manual mapping names each field at most once, so it is never ambiguous.
Manual(fields) == [fields |-> fields, ambiguous |-> {}]

Mapped(row, m) == [f \in Fields |-> IF f \in m.fields THEN row.raw[f] ELSE None]
HasIdentity(cells) == \E f \in KeyFields : cells[f] # None
Usable(row, m) ==
  /\ ~row.bad
  /\ HasIdentity(Mapped(row, m))
  /\ Mapped(row, m)["name"] # None
  /\ ~RequiresManual(m)

Clash(left, right) ==
  \E f \in Fields : None \notin {left[f], right[f]} /\ left[f] # right[f]

\* The usable rows that hold value v in key field f.
Group(rows, m, f, v) ==
  {n \in DOMAIN rows : ~rows[n].skipped /\ Usable(rows[n], m) /\ Mapped(rows[n], m)[f] = v}
Groups(rows, m) == {Group(rows, m, f, v) : f \in KeyFields, v \in Values} \ {{}}
Contradicted(rows, m) ==
  UNION {g \in Groups(rows, m) :
           \E n \in g : Clash(Mapped(rows[Min(g)], m), Mapped(rows[n], m))}
Repeated(rows, m) == UNION {g \ {Min(g)} : g \in Groups(rows, m)}

IdOwners(reg, type, v) ==
  {p \in People : v # None /\ reg.people[p].roster = type /\ reg.people[p].id = v}
PrimaryOwners(reg, f, v) == {p \in People : v # None /\ reg.people[p][f] = v}
AliasOwners(reg, f, v) == IF v = None THEN {} ELSE {reg.owner[<<f, v>>]} \ {None}
Owners(reg, type, cells) ==
  IdOwners(reg, type, cells["id"])
    \cup UNION {AliasOwners(reg, f, cells[f]) \cup PrimaryOwners(reg, f, cells[f]) : f \in Aliases}

Classify(reg, type, rows, m, n) ==
  CASE rows[n].skipped -> "skipped"
    [] ~rows[n].skipped /\ ~Usable(rows[n], m) -> "invalid"
    [] n \in Contradicted(rows, m) -> "invalid"
    [] n \in Repeated(rows, m) \ Contradicted(rows, m) -> "duplicate"
    [] OTHER -> LET found == Owners(reg, type, Mapped(rows[n], m)) IN
                IF Cardinality(found) > 1 THEN "invalid"
                ELSE IF found = {} THEN "valid_new" ELSE "valid_update"

PreviewRow == [cells: Cells, disposition: Disposition, matched: People \cup {None},
               status: {"pending", "ignored", "created", "updated", "failed"}]
BuildPreview(reg, type, rows, m) ==
  [n \in DOMAIN rows |->
     LET d == Classify(reg, type, rows, m, n) IN
     [cells |-> IF rows[n].skipped THEN [f \in Fields |-> None] ELSE Mapped(rows[n], m),
      disposition |-> d,
      matched |-> IF d = "valid_update"
                  THEN CHOOSE p \in Owners(reg, type, Mapped(rows[n], m)) : TRUE ELSE None,
      status |-> "pending"]]

(* ---- imports ---- *)

CONSTANTS Imports,
          Sessions,    \* requests that remap or confirm an import
          Resolvers,   \* requests that resolve the person of an invitation or a request
          Files,       \* what is uploaded as each import: [type, rows, mapping], the
                       \* mapping being the one its headers give
          Remappings,  \* the sets of fields a manual mapping can assign
          Contacts,    \* what a resolution knows: [user, email, phone]
          MaxRemaps,   \* bound on the committed remappings of each import
          MaxFaults    \* bound on crashes and unexpected errors

UploadedFile == [type: RosterType, rows: Seq(SourceRow), mapping: Mapping]
Contact == [user: Users \cup {None}, email: Values \cup {None}, phone: Values \cup {None}]
ASSUME RosterAssumption ==
  /\ Files \in [Imports -> SUBSET UploadedFile]
  /\ Remappings \subseteq SUBSET Fields
  /\ Contacts \subseteq Contact
  /\ MaxRemaps \in [Imports -> Nat] /\ MaxFaults \in Nat

VARIABLES imports,   \* the import rows, with their preview rows
          audit,     \* the deduplicated audit events of each import
          registry,  \* committed people and identifiers
          session,   \* the transaction each session has open on an import
          lookup,    \* the person each resolver is resolving
          applied,   \* ghost: committed confirmations of each import
          faults     \* ghost: crashes and unexpected errors so far

vars == <<imports, audit, registry, session, lookup, applied, faults>>

ImportState == {"mapping_required", "ready_for_review", "completed",
                "completed_with_errors", "failed"}
TerminalStates == {"completed", "completed_with_errors", "failed"}
\* A column that is null holds none of the values it can have.
ASSUME NullAssumption ==
  None \notin People \cup Values \cup Users \cup Imports \cup ImportState \cup UploadedFile \cup Contact
Counts == [created: Nat, updated: Nat, failed: Nat]
NoCounts == [created |-> 0, updated |-> 0, failed |-> 0]

ImportRow == [state: ImportState \cup {None}, file: (UNION {Files[i] : i \in Imports}) \cup {None},
              rows: Seq(PreviewRow), gen: Nat, done: Counts]
NoImport == [state |-> None, file |-> None, rows |-> <<>>, gen |-> 0, done |-> NoCounts]

AuditKeys == {"confirmed", "terminal"}
\* What a committed confirmation appends.
Appended == {"confirmed", "terminal"}

\* pc: "remap" has loaded an import to remap; "match" and "apply" hold its lock and
\* work on row number at; "failing" rolled back and is to record the failure.
SessionRow == [pc: {"idle", "remap", "match", "apply", "failing"},
               imp: Imports \cup {None}, seen: ImportRow,
               state: ImportState \cup {None}, rows: Seq(PreviewRow),
               at: Nat, match: SUBSET People, wrote: Registry, done: Counts]
Idle == [pc |-> "idle", imp |-> None, seen |-> NoImport, state |-> None,
         rows |-> <<>>, at |-> 0, match |-> {}, wrote |-> EmptyRegistry,
         done |-> NoCounts]

\* A resolver is one request: it queries, then writes, once.
Lookup == [pc: {"start", "found", "done"}, contact: Contacts \cup {None}, found: People \cup {None}, seen: PersonRow]
NoLookup == [pc |-> "start", contact |-> None, found |-> None, seen |-> NoPerson]

Init ==
  /\ imports = [i \in Imports |-> NoImport]
  /\ audit = [i \in Imports |-> {}]
  /\ registry = EmptyRegistry
  /\ session = [s \in Sessions |-> Idle]
  /\ lookup = [r \in Resolvers |-> NoLookup]
  /\ applied = [i \in Imports |-> 0]
  /\ faults = 0

(* The registry a transaction sees: what is committed, under its own writes.     *)
Overlay(base, wrote) ==
  [people |-> [p \in People |->
                 IF wrote.people[p].there THEN wrote.people[p] ELSE base.people[p]],
   owner |-> [k \in Aliases \X Values |->
                 IF wrote.owner[k] # None THEN wrote.owner[k] ELSE base.owner[k]]]
View(s) == Overlay(registry, session[s].wrote)

Holds(s, i) == session[s].imp = i /\ session[s].pc \in {"match", "apply"}
Locked(i) == \E s \in Sessions : Holds(s, i)
Free(p) == /\ ~registry.people[p].there
           /\ \A s \in Sessions : ~session[s].wrote.people[p].there
\* The key of a new person: any unused one, and one is as good as another.
Fresh == IF \E p \in People : Free(p) THEN {CHOOSE p \in People : Free(p)} ELSE {}

AliasKeys(cells) == {<<f, cells[f]>> : f \in {g \in Aliases : cells[g] # None}}

\* The people and identifiers a session must lock are written, uncommitted, by t.
Contends(needsPeople, needsKeys, type, id, t) ==
  LET w == session[t].wrote IN
  \/ \E p \in needsPeople : w.people[p].there
  \/ \E k \in needsKeys : w.owner[k] # None
  \/ id # None /\ \E p \in People : w.people[p].roster = type /\ w.people[p].id = id

Row(s) == session[s].rows[session[s].at]
TypeOf(s) == session[s].seen.file.type
WaitsFor(s, t) ==
  /\ s # t
  /\ session[s].pc = "apply"
  /\ LET cells == Row(s).cells IN
     Contends((Owners(registry, TypeOf(s), cells) \cup {Row(s).matched}) \ {None},
              AliasKeys(cells), TypeOf(s), cells["id"], t)
Deadlocked(s) == \E t \in Sessions : WaitsFor(s, t) /\ WaitsFor(t, s)

Fault == faults < MaxFaults /\ faults' = faults + 1

StateFor(m) == IF RequiresManual(m) THEN "mapping_required" ELSE "ready_for_review"

(* POST /roster-imports: parse, analyse the headers, preview, store.             *)
UploadPreview(i, file) ==
  /\ imports[i] = NoImport
  /\ imports' = [imports EXCEPT ![i] =
       [NoImport EXCEPT !.state = StateFor(file.mapping), !.file = file,
          !.rows = BuildPreview(registry, file.type, file.rows, file.mapping)]]
  /\ UNCHANGED <<audit, registry, session, lookup, applied, faults>>

(* update_mapping reads the import without a lock and previews the new mapping.  *)
LoadForMapping(s, i, fields) ==
  /\ session[s].pc = "idle"
  /\ imports[i].state \in {"mapping_required", "ready_for_review"}
  /\ imports[i].gen < MaxRemaps[i]
  /\ LET m == Manual(fields)
         file == imports[i].file
     IN
     session' = [session EXCEPT ![s] =
       [Idle EXCEPT !.pc = "remap", !.imp = i, !.seen = imports[i], !.state = StateFor(m),
          !.rows = BuildPreview(registry, file.type, file.rows, m)]]
  /\ UNCHANGED <<imports, audit, registry, lookup, applied, faults>>

(* Its flush writes the columns that changed against what was loaded: the state  *)
(* only when the new mapping changes it, the application counts never (they were *)
(* loaded as zero). Rows replaced since the load make the insert fail.           *)
UpdateMapping(s) ==
  LET i == session[s].imp
      seen == session[s].seen
  IN
  /\ session[s].pc = "remap"
  /\ ~Locked(i)
  /\ imports' = IF imports[i].gen # seen.gen THEN imports
                ELSE [imports EXCEPT ![i].gen = @ + 1, ![i].rows = session[s].rows,
                        ![i].state = IF session[s].state # seen.state THEN session[s].state ELSE @]
  /\ session' = [session EXCEPT ![s] = Idle]
  /\ UNCHANGED <<audit, registry, lookup, applied, faults>>

(* confirm_import: lock, check the state, append the deduplicated audit event.   *)
LockForConfirm(s, i) ==
  /\ session[s].pc = "idle"
  /\ imports[i].state = "ready_for_review"
  /\ ~Locked(i)
  /\ session' = [session EXCEPT ![s] =
       IF "confirmed" \in audit[i] THEN [Idle EXCEPT !.pc = "failing", !.imp = i]
       ELSE [Idle EXCEPT !.pc = "match", !.imp = i, !.seen = imports[i],
                         !.rows = imports[i].rows, !.at = 1]]
  /\ UNCHANGED <<imports, audit, registry, lookup, applied, faults>>

Marked(s, status) == [session[s].rows EXCEPT ![session[s].at].status = status]
Counted(done, status) == [done EXCEPT ![status] = @ + 1]
\* Mutant: a row that fails is not passed over.
AdvanceOnSuccess(s, status, wrote) ==
  session' = [session EXCEPT ![s] =
    [session[s] EXCEPT !.pc = "match", !.at = IF status = "failed" THEN @ ELSE @ + 1,
       !.match = {}, !.wrote = wrote, !.rows = Marked(s, status),
       !.done = IF status \in {"ignored", "failed"} THEN @ ELSE Counted(@, status)]]
Advance(s, status, wrote) ==
  session' = [session EXCEPT ![s] =
    [session[s] EXCEPT !.pc = "match", !.at = @ + 1, !.match = {}, !.wrote = wrote,
       !.rows = Marked(s, status),
       !.done = IF status = "ignored" THEN @ ELSE Counted(@, status)]]

(* One row: rows the preview did not clear are ignored, the others are matched   *)
(* again, without locks.                                                         *)
MatchRow(s) ==
  /\ session[s].pc = "match"
  /\ session[s].at \in DOMAIN session[s].rows
  /\ IF Row(s).disposition \in {"valid_new", "valid_update"}
     THEN session' = [session EXCEPT ![s].pc = "apply",
                        ![s].match = Owners(View(s), TypeOf(s), Row(s).cells)]
     ELSE Advance(s, "ignored", session[s].wrote)
  /\ UNCHANGED <<imports, audit, registry, lookup, applied, faults>>

\* A person row after a roster row is applied, and the identifiers it then owns.
Applied(row, cells, type) ==
  [row EXCEPT !.there = TRUE, !.roster = type,
     !.email = IF cells["email"] # None THEN cells["email"] ELSE @,
     !.phone = IF cells["phone"] # None THEN cells["phone"] ELSE @,
     !.id = IF cells["id"] # None THEN cells["id"] ELSE @]
Written(wrote, p, row, keys) ==
  [people |-> [wrote.people EXCEPT ![p] = row],
   owner |-> [k \in Aliases \X Values |-> IF k \in keys THEN p ELSE wrote.owner[k]]]

\* Why the row cannot be applied once its people and identifiers are locked.
Rejected(s) ==
  LET row == Row(s)
      taken == Owners(View(s), TypeOf(s), row.cells)
      p == row.matched
  IN
  \/ ~HasIdentity(row.cells)
  \/ Cardinality(session[s].match) > 1
  \/ row.disposition = "valid_new" /\ (session[s].match # {} \/ taken # {})
  \/ /\ row.disposition = "valid_update"
     /\ \/ session[s].match # {p}
        \/ taken \ {p} # {}
        \/ View(s).people[p].roster \notin {None, TypeOf(s)}

ApplyRow(s) ==
  LET row == Row(s)
      type == TypeOf(s)
  IN
  /\ session[s].pc = "apply"
  /\ \A t \in Sessions : ~WaitsFor(s, t)
  /\ \/ Rejected(s) /\ Advance(s, "failed", session[s].wrote)
     \/ /\ ~Rejected(s) /\ row.disposition = "valid_new"
        /\ \E p \in Fresh :
             Advance(s, "created",
               Written(session[s].wrote, p, Applied(NoPerson, row.cells, type),
                       AliasKeys(row.cells)))
     \/ /\ ~Rejected(s) /\ row.disposition = "valid_update"
        /\ LET p == row.matched IN
           Advance(s, "updated",
             Written(session[s].wrote, p, Applied(View(s).people[p], row.cells, type),
                     AliasKeys(row.cells)))
  /\ UNCHANGED <<imports, audit, registry, lookup, applied, faults>>

(* An unexpected error, or losing a deadlock, rolls back to the row's savepoint. *)
RowFails(s) ==
  /\ session[s].pc = "apply"
  /\ IF Deadlocked(s) THEN UNCHANGED faults ELSE Fault
  /\ Advance(s, "failed", session[s].wrote)
  /\ UNCHANGED <<imports, audit, registry, lookup, applied>>

OutcomeUnset(s) == "importing"
Outcome(s) ==
  LET done == session[s].done IN
  IF done.created + done.updated = 0 THEN "failed"
  ELSE IF \/ done.failed > 0
          \/ \E n \in DOMAIN session[s].rows :
               session[s].rows[n].disposition \in {"invalid", "duplicate", "skipped"}
       THEN "completed_with_errors" ELSE "completed"

FinishConfirm(s) ==
  LET i == session[s].imp IN
  /\ session[s].pc = "match"
  /\ session[s].at \notin DOMAIN session[s].rows
  /\ IF "terminal" \in audit[i]
     THEN /\ session' = [session EXCEPT ![s] = [Idle EXCEPT !.pc = "failing", !.imp = i]]
          /\ UNCHANGED <<imports, audit, registry, applied>>
     ELSE /\ imports' = [imports EXCEPT ![i].state = Outcome(s), ![i].rows = session[s].rows,
                                        ![i].done = session[s].done]
          /\ audit' = [audit EXCEPT ![i] = @ \cup Appended]
          /\ registry' = View(s)
          /\ applied' = [applied EXCEPT ![i] = @ + 1]
          /\ session' = [session EXCEPT ![s] = Idle]
  /\ UNCHANGED <<lookup, faults>>

(* Any other exception rolls the transaction back and then records the failure. *)
UnexpectedError(s) ==
  /\ session[s].pc \in {"match", "apply"}
  /\ session' = [session EXCEPT ![s] = [Idle EXCEPT !.pc = "failing", !.imp = session[s].imp]]
  /\ Fault
  /\ UNCHANGED <<imports, audit, registry, lookup, applied>>

RecordFailure(s) ==
  LET i == session[s].imp IN
  /\ session[s].pc = "failing"
  /\ ~Locked(i)
  /\ IF imports[i].state \in TerminalStates \/ "terminal" \in audit[i]
     THEN UNCHANGED <<imports, audit>>
     ELSE /\ imports' = [imports EXCEPT ![i].state = "failed"]
          /\ audit' = [audit EXCEPT ![i] = @ \cup {"terminal"}]
  /\ session' = [session EXCEPT ![s] = Idle]
  /\ UNCHANGED <<registry, lookup, applied, faults>>

(* The process stops: the database rolls the open transaction back.             *)
Crash(s) ==
  /\ session[s].pc # "idle"
  /\ session' = [session EXCEPT ![s] = Idle]
  /\ Fault
  /\ UNCHANGED <<imports, audit, registry, lookup, applied>>

(* _resolve_person, its queries: the linked account, then e-mail, then phone.    *)
Matching(c) ==
  LET linked == {p \in People : c.user # None /\ registry.people[p].linked = c.user}
      by(f) == LET primary == PrimaryOwners(registry, f, c[f]) IN
               IF primary # {} THEN primary ELSE AliasOwners(registry, f, c[f])
  IN IF linked # {} THEN linked ELSE IF by("email") # {} THEN by("email") ELSE by("phone")

ResolveRead(r, c, existing) ==
  /\ lookup[r] = NoLookup
  /\ existing # None => registry.people[existing].there
  /\ LET found == IF existing # None THEN {existing} ELSE Matching(c) IN
     /\ Cardinality(found) <= 1
     /\ \E p \in IF found = {} THEN {None} ELSE found :
          lookup' = [lookup EXCEPT ![r] =
            [pc |-> "found", contact |-> c, found |-> p,
             seen |-> IF p = None THEN NoPerson ELSE registry.people[p]]]
  /\ UNCHANGED <<imports, audit, registry, session, applied, faults>>

\* The columns it writes: those empty when it read the person.
Resolved(row, seen, c) ==
  [row EXCEPT !.there = TRUE,
     !.linked = IF seen.linked = None /\ c.user # None THEN c.user ELSE @,
     !.email = IF seen.email = None /\ c.email # None THEN c.email ELSE @,
     !.phone = IF seen.phone = None /\ c.phone # None THEN c.phone ELSE @]

\* A unique constraint refuses the write: the account or an identifier is another's.
ViolatesAccount(p, row, c) ==
  row.linked # None /\ \E q \in People \ {p} : registry.people[q].linked = row.linked
Violates(p, row, c) ==
  \/ row.linked # None /\ \E q \in People \ {p} : registry.people[q].linked = row.linked
  \/ \E k \in AliasKeys(c) : registry.owner[k] \notin {None, p}

ResolveWrite(r) ==
  LET c == lookup[r].contact IN
  /\ lookup[r].pc = "found"
  /\ \E p \in IF lookup[r].found # None THEN {lookup[r].found} ELSE Fresh :
       LET row == Resolved(registry.people[p], lookup[r].seen, c) IN
       /\ \A t \in Sessions : ~Contends({p}, AliasKeys(c), None, None, t)
       /\ registry' = IF Violates(p, row, c) THEN registry
                      ELSE Written(registry, p, row, AliasKeys(c))
  /\ lookup' = [lookup EXCEPT ![r] = [NoLookup EXCEPT !.pc = "done"]]
  /\ UNCHANGED <<imports, audit, session, applied, faults>>

Next ==
  \/ \E i \in Imports : \E file \in Files[i] : UploadPreview(i, file)
  \/ \E s \in Sessions :
       \/ \E i \in Imports :
            \/ \E fields \in Remappings : LoadForMapping(s, i, fields)
            \/ LockForConfirm(s, i)
       \/ UpdateMapping(s) \/ MatchRow(s) \/ ApplyRow(s) \/ RowFails(s)
       \/ FinishConfirm(s) \/ UnexpectedError(s) \/ RecordFailure(s) \/ Crash(s)
  \/ \E r \in Resolvers :
       \/ \E c \in Contacts, p \in People \cup {None} : ResolveRead(r, c, p)
       \/ ResolveWrite(r)

(* The handler runs to its end; a lock wait ends when its turn comes; the        *)
(* database breaks a deadlock.                                                   *)
Fairness ==
  \A s \in Sessions :
    /\ WF_vars(MatchRow(s)) /\ WF_vars(FinishConfirm(s)) /\ SF_vars(ApplyRow(s))
    /\ SF_vars(RecordFailure(s)) /\ WF_vars(Deadlocked(s) /\ RowFails(s))

Spec == Init /\ [][Next]_vars /\ Fairness

--------------------------------------------------------------------------------
(* Types of the tables and of the open transactions.                            *)
TypeOK ==
  /\ imports \in [Imports -> ImportRow]
  /\ audit \in [Imports -> SUBSET AuditKeys]
  /\ registry \in Registry
  /\ session \in [Sessions -> SessionRow]
  /\ lookup \in [Resolvers -> Lookup]
  /\ applied \in [Imports -> Nat]
  /\ faults \in 0..MaxFaults

(* The primary e-mail and phone of a person are identifiers that person owns, so *)
(* no two people of an organization ever share one, although only identifiers    *)
(* are unique in the database: concurrent imports and resolutions write both.    *)
PrimaryBacked ==
  \A p \in People, f \in Aliases :
    registry.people[p][f] # None => registry.owner[<<f, registry.people[p][f]>>] = p

(* An import's rows reach the registry at most once, whatever confirmations,     *)
(* retries and stale remappings of it run: the lock and the deduplicated audit   *)
(* events of confirm_import see to it.                                           *)
AppliedOnce == \A i \in Imports : applied[i] <= 1

(* An identifier once given to a person is never given to another one.          *)
IdentifiersStay ==
  [][\A k \in Aliases \X Values :
       registry.owner[k] # None => registry'.owner[k] = registry.owner[k]]_vars

(* A confirmation that starts always ends: by completing, by recording its       *)
(* failure, or by the end of its process; rows never wait on one another for ever.*)
EveryConfirmationEnds ==
  \A s \in Sessions : session[s].pc \in {"match", "apply"} ~> session[s].pc = "idle"

(* The registry of people across imports and resolutions.                        *)
RegistryInOrder == [](PrimaryBacked /\ AppliedOnce) /\ IdentifiersStay
================================================================================
