--------------------------- MODULE RosterImportProofs ---------------------------
(***************************************************************************)
(* Identifiers and imports: what a person's primary e-mail and phone are   *)
(* backed by, and how often an import reaches the registry, for any        *)
(* people, values, imports, sessions, resolvers, files and contacts.       *)
(***************************************************************************)
EXTENDS RosterImport, TLAPS

-----------------------------------------------------------------------------
(* Rows and registries.                                                     *)

Pairs == Aliases \X Values

\* The primary identifiers of a registry's people are theirs.
Backed(reg) ==
  \A p \in People, f \in Aliases :
    reg.people[p][f] # None => reg.owner[<<f, reg.people[p][f]>>] = p

\* An identifier that has an owner keeps it.
Grows(old, new) == \A k \in Pairs : old.owner[k] # None => new.owner[k] = old.owner[k]

\* What a transaction wrote over a base: its people own their identifiers, and it took none of another's.
Secured(base, wrote) ==
  /\ \A p \in People, f \in Aliases :
       wrote.people[p].there /\ wrote.people[p][f] # None =>
         LET k == <<f, wrote.people[p][f]>> IN
         wrote.owner[k] = p \/ (wrote.owner[k] = None /\ base.owner[k] = p)
  /\ \A k \in Pairs : wrote.owner[k] # None => base.owner[k] \in {None, wrote.owner[k]}

\* Two transactions wrote no identifier in common.
Apart(one, other) == \A k \in Pairs : one.owner[k] = None \/ other.owner[k] = None

\* The fields of a person's row and of the cells of a roster row.
LEMMA PersonFields ==
  ASSUME NEW row \in PersonRow
  PROVE  /\ row.there \in BOOLEAN /\ row.linked \in Users \cup {None}
         /\ row.roster \in RosterType \cup {None} /\ row.id \in Values \cup {None}
         /\ \A f \in Aliases : row[f] \in Values \cup {None}
BY DEF PersonRow, Aliases

LEMMA CellValues ==
  ASSUME NEW cells \in Cells
  PROVE  \A f \in Fields : cells[f] \in Values \cup {None}
BY DEF Cells

LEMMA RegistryParts ==
  ASSUME NEW reg \in Registry
  PROVE  /\ reg.people \in [People -> PersonRow]
         /\ reg.owner \in [Pairs -> People \cup {None}]
BY DEF Registry, Pairs

LEMMA EmptyTyped == NoPerson \in PersonRow /\ EmptyRegistry \in Registry
BY DEF NoPerson, PersonRow, EmptyRegistry, Registry

LEMMA EmptyKeeps ==
  ASSUME NEW base
  PROVE  /\ Secured(base, EmptyRegistry)
         /\ \A wrote : Apart(EmptyRegistry, wrote) /\ Apart(wrote, EmptyRegistry)
BY DEF Secured, Apart, EmptyRegistry, NoPerson, Pairs

\* The row a roster row makes of a person's.
LEMMA AppliedRow ==
  ASSUME NEW row \in PersonRow, NEW cells \in Cells, NEW type \in RosterType
  PROVE  /\ Applied(row, cells, type) \in PersonRow
         /\ Applied(row, cells, type).there
         /\ \A f \in Aliases : Applied(row, cells, type)[f]
                                 = IF cells[f] # None THEN cells[f] ELSE row[f]
<1>. DEFINE e == IF cells["email"] # None THEN cells["email"] ELSE row["email"]
            p == IF cells["phone"] # None THEN cells["phone"] ELSE row["phone"]
            i == IF cells["id"] # None THEN cells["id"] ELSE row["id"]
<1>1. /\ cells["email"] \in Values \cup {None} /\ cells["phone"] \in Values \cup {None}
      /\ cells["id"] \in Values \cup {None}
  BY CellValues DEF Fields
<1>2. /\ e \in Values \cup {None} /\ p \in Values \cup {None} /\ i \in Values \cup {None}
  BY <1>1, PersonFields DEF Aliases
<1>3. Applied(row, cells, type)
        = [row EXCEPT !.there = TRUE, !.roster = type, !.email = e, !.phone = p, !.id = i]
  BY DEF Applied
<1>. HIDE DEF e, p, i
<1>4. /\ Applied(row, cells, type) \in PersonRow
      /\ Applied(row, cells, type).there
      /\ Applied(row, cells, type)["email"] = e /\ Applied(row, cells, type)["phone"] = p
  BY <1>2, <1>3 DEF PersonRow
<1>. QED  BY <1>4 DEF Aliases, e, p

\* The row a resolution makes of a person's.
LEMMA ResolvedRow ==
  ASSUME NEW row \in PersonRow, NEW seen \in PersonRow, NEW c \in Contact
  PROVE  /\ Resolved(row, seen, c) \in PersonRow
         /\ \A f \in Aliases : Resolved(row, seen, c)[f]
                                 = IF seen[f] = None /\ c[f] # None THEN c[f] ELSE row[f]
<1>. DEFINE u == IF seen.linked = None /\ c.user # None THEN c.user ELSE row.linked
            e == IF seen["email"] = None /\ c["email"] # None THEN c["email"] ELSE row["email"]
            p == IF seen["phone"] = None /\ c["phone"] # None THEN c["phone"] ELSE row["phone"]
<1>1. /\ c["email"] \in Values \cup {None} /\ c["phone"] \in Values \cup {None}
      /\ c.user \in Users \cup {None}
  BY DEF Contact
<1>2. /\ u \in Users \cup {None} /\ e \in Values \cup {None} /\ p \in Values \cup {None}
  BY <1>1, PersonFields DEF Aliases
<1>3. Resolved(row, seen, c) = [row EXCEPT !.there = TRUE, !.linked = u, !.email = e, !.phone = p]
  BY DEF Resolved
<1>. HIDE DEF u, e, p
<1>4. /\ Resolved(row, seen, c) \in PersonRow
      /\ Resolved(row, seen, c)["email"] = e /\ Resolved(row, seen, c)["phone"] = p
  BY <1>2, <1>3 DEF PersonRow
<1>. QED  BY <1>4 DEF Aliases, e, p

\* A registry after one person and that person's identifiers were written.
LEMMA WrittenTyped ==
  ASSUME NEW reg \in Registry, NEW p \in People, NEW row \in PersonRow, NEW keys
  PROVE  /\ Written(reg, p, row, keys) \in Registry
         /\ \A q \in People : Written(reg, p, row, keys).people[q] = IF q = p THEN row ELSE reg.people[q]
         /\ \A k \in Pairs : Written(reg, p, row, keys).owner[k] = IF k \in keys THEN p ELSE reg.owner[k]
BY RegistryParts DEF Written, Registry, Pairs

LEMMA OverlayTyped ==
  ASSUME NEW base \in Registry, NEW wrote \in Registry
  PROVE  /\ Overlay(base, wrote) \in Registry
         /\ \A p \in People : Overlay(base, wrote).people[p]
                                = IF wrote.people[p].there THEN wrote.people[p] ELSE base.people[p]
         /\ \A k \in Pairs : Overlay(base, wrote).owner[k]
                                = IF wrote.owner[k] # None THEN wrote.owner[k] ELSE base.owner[k]
BY RegistryParts DEF Overlay, Registry, Pairs

\* The identifiers of the cells of a row, or of a contact.
LEMMA KeysOf ==
  ASSUME NEW cells, \A f \in Aliases : cells[f] \in Values \cup {None}
  PROVE  /\ AliasKeys(cells) \subseteq Pairs
         /\ \A f \in Aliases : cells[f] # None => <<f, cells[f]>> \in AliasKeys(cells)
         /\ \A k \in AliasKeys(cells) : \E f \in Aliases : cells[f] # None /\ k = <<f, cells[f]>>
BY DEF AliasKeys, Pairs

LEMMA GrowsOn ==
  ASSUME NEW base, NEW new, NEW wrote, Secured(base, wrote), Grows(base, new),
         wrote \in Registry, base \in Registry, None \notin People,
         \A k \in Pairs : wrote.owner[k] # None => new.owner[k] = base.owner[k]
  PROVE  Secured(new, wrote)
<1>1. ASSUME NEW p \in People, NEW f \in Aliases, wrote.people[p].there, wrote.people[p][f] # None
      PROVE  LET k == <<f, wrote.people[p][f]>> IN
             wrote.owner[k] = p \/ (wrote.owner[k] = None /\ new.owner[k] = p)
  <2>1. wrote.people[p][f] \in Values
    BY <1>1, RegistryParts, PersonFields
  <2>2. <<f, wrote.people[p][f]>> \in Pairs
    BY <2>1 DEF Pairs
  <2>. QED  BY <1>1, <2>2 DEF Secured, Grows
<1>2. \A k \in Pairs : wrote.owner[k] # None => new.owner[k] \in {None, wrote.owner[k]}
  BY DEF Secured
<1>. QED  BY <1>1, <1>2 DEF Secured

\* A commit keeps what is backed, and takes no identifier from anyone.
LEMMA CommitKeeps ==
  ASSUME NEW base \in Registry, NEW wrote \in Registry, Backed(base), Secured(base, wrote),
         None \notin People
  PROVE  /\ Backed(Overlay(base, wrote))
         /\ Grows(base, Overlay(base, wrote))
         /\ \A k \in Pairs : wrote.owner[k] = None => Overlay(base, wrote).owner[k] = base.owner[k]
<1>. DEFINE new == Overlay(base, wrote)
<1>1. /\ new \in Registry
      /\ \A p \in People : new.people[p] = IF wrote.people[p].there THEN wrote.people[p] ELSE base.people[p]
      /\ \A k \in Pairs : new.owner[k] = IF wrote.owner[k] # None THEN wrote.owner[k] ELSE base.owner[k]
  BY OverlayTyped
<1>. HIDE DEF new
<1>2. Grows(base, new)
  BY <1>1 DEF Secured, Grows
<1>3. ASSUME NEW p \in People, NEW f \in Aliases, new.people[p][f] # None
      PROVE  new.owner[<<f, new.people[p][f]>>] = p
  <2>. DEFINE k == <<f, new.people[p][f]>>
  <2>1. new.people[p][f] \in Values
    BY <1>1, <1>3, RegistryParts, PersonFields
  <2>2. k \in Pairs
    BY <2>1 DEF Pairs
  <2>3. CASE wrote.people[p].there
    <3>1. wrote.people[p][f] # None /\ k = <<f, wrote.people[p][f]>>
      BY <1>1, <1>3, <2>3
    <3>2. wrote.owner[k] = p \/ (wrote.owner[k] = None /\ base.owner[k] = p)
      BY <3>1, <2>3 DEF Secured
    <3>. QED  BY <3>2, <2>2, <1>1
  <2>4. CASE ~wrote.people[p].there
    <3>1. base.people[p][f] # None /\ k = <<f, base.people[p][f]>>
      BY <1>1, <1>3, <2>4
    <3>2. base.owner[k] = p
      BY <3>1 DEF Backed
    <3>. QED  BY <3>2, <2>2, <1>1 DEF Secured
  <2>. QED  BY <2>3, <2>4
<1>4. Backed(new)
  BY <1>3 DEF Backed
<1>. QED  BY <1>1, <1>2, <1>4 DEF new

\* Writing one person's row over a transaction's writes: the row's own identifiers
\* are written with it, and they were nobody else's.
LEMMA WritingSecures ==
  ASSUME NEW base \in Registry, NEW wrote \in Registry, Backed(base), Secured(base, wrote),
         None \notin People, NEW p \in People, NEW row \in PersonRow, NEW keys \in SUBSET Pairs,
         \A k \in keys : Overlay(base, wrote).owner[k] \in {None, p},
         \A f \in Aliases : row[f] # None =>
           <<f, row[f]>> \in keys \/ Overlay(base, wrote).owner[<<f, row[f]>>] = p
  PROVE  Secured(base, Written(wrote, p, row, keys))
<1>. DEFINE new == Written(wrote, p, row, keys)
            seen == Overlay(base, wrote)
<1>1. /\ new \in Registry
      /\ \A q \in People : new.people[q] = IF q = p THEN row ELSE wrote.people[q]
      /\ \A k \in Pairs : new.owner[k] = IF k \in keys THEN p ELSE wrote.owner[k]
  BY WrittenTyped
<1>2. \A k \in Pairs : seen.owner[k] = IF wrote.owner[k] # None THEN wrote.owner[k] ELSE base.owner[k]
  BY OverlayTyped
<1>3. /\ \A k \in keys : seen.owner[k] \in {None, p}
      /\ \A f \in Aliases : row[f] # None => <<f, row[f]>> \in keys \/ seen.owner[<<f, row[f]>>] = p
  OBVIOUS
<1>. HIDE DEF new, seen
<1>4. ASSUME NEW q \in People, NEW f \in Aliases, new.people[q].there, new.people[q][f] # None
      PROVE  LET k == <<f, new.people[q][f]>> IN
             new.owner[k] = q \/ (new.owner[k] = None /\ base.owner[k] = q)
  <2>. DEFINE k == <<f, new.people[q][f]>>
  <2>1. new.people[q][f] \in Values
    BY <1>1, <1>4, RegistryParts, PersonFields
  <2>2. k \in Pairs
    BY <2>1 DEF Pairs
  <2>3. CASE q = p
    <3>1. row[f] # None /\ k = <<f, row[f]>>
      BY <1>1, <1>4, <2>3
    <3>2. k \in keys \/ seen.owner[k] = p
      BY <3>1, <1>3
    <3>. QED  BY <3>2, <2>2, <2>3, <1>1, <1>2
  <2>4. CASE q # p
    <3>1. wrote.people[q].there /\ wrote.people[q][f] # None /\ k = <<f, wrote.people[q][f]>>
      BY <1>1, <1>4, <2>4
    <3>2. wrote.owner[k] = q \/ (wrote.owner[k] = None /\ base.owner[k] = q)
      BY <3>1 DEF Secured
    <3>3. seen.owner[k] = q
      BY <3>2, <2>2, <1>2
    <3>4. k \notin keys
      BY <3>3, <1>3, <2>4
    <3>. QED  BY <3>2, <3>4, <2>2, <1>1
  <2>. QED  BY <2>3, <2>4
<1>5. ASSUME NEW k \in Pairs, new.owner[k] # None
      PROVE  base.owner[k] \in {None, new.owner[k]}
  <2>1. CASE k \in keys
    <3>1. new.owner[k] = p /\ seen.owner[k] \in {None, p}
      BY <2>1, <1>1, <1>3
    <3>. QED  BY <3>1, <1>2 DEF Secured
  <2>2. CASE k \notin keys
    BY <2>2, <1>1, <1>5 DEF Secured
  <2>. QED  BY <2>1, <2>2
<1>6. Secured(base, new)
  BY <1>4, <1>5 DEF Secured
<1>. QED  BY <1>6 DEF new

\* Writing one person's row to the registry itself.
LEMMA WritingBacks ==
  ASSUME NEW base \in Registry, Backed(base), None \notin People,
         NEW p \in People, NEW row \in PersonRow, NEW keys \in SUBSET Pairs,
         \A k \in keys : base.owner[k] \in {None, p},
         \A f \in Aliases : row[f] # None =>
           <<f, row[f]>> \in keys \/ base.owner[<<f, row[f]>>] = p
  PROVE  /\ Backed(Written(base, p, row, keys))
         /\ Grows(base, Written(base, p, row, keys))
         /\ \A k \in Pairs : k \notin keys => Written(base, p, row, keys).owner[k] = base.owner[k]
<1>. DEFINE new == Written(base, p, row, keys)
<1>1. /\ new \in Registry
      /\ \A q \in People : new.people[q] = IF q = p THEN row ELSE base.people[q]
      /\ \A k \in Pairs : new.owner[k] = IF k \in keys THEN p ELSE base.owner[k]
  BY WrittenTyped
<1>. HIDE DEF new
<1>2. ASSUME NEW q \in People, NEW f \in Aliases, new.people[q][f] # None
      PROVE  new.owner[<<f, new.people[q][f]>>] = q
  <2>. DEFINE k == <<f, new.people[q][f]>>
  <2>1. new.people[q][f] \in Values
    BY <1>1, <1>2, RegistryParts, PersonFields
  <2>2. k \in Pairs
    BY <2>1 DEF Pairs
  <2>3. CASE q = p
    <3>1. row[f] # None /\ k = <<f, row[f]>>
      BY <1>1, <1>2, <2>3
    <3>. QED  BY <3>1, <2>2, <2>3, <1>1
  <2>4. CASE q # p
    <3>1. base.people[q][f] # None /\ k = <<f, base.people[q][f]>>
      BY <1>1, <1>2, <2>4
    <3>2. base.owner[k] = q
      BY <3>1 DEF Backed
    <3>. QED  BY <3>2, <2>2, <2>4, <1>1
  <2>. QED  BY <2>3, <2>4
<1>3. Backed(new) /\ Grows(base, new)
  BY <1>1, <1>2 DEF Backed, Grows
<1>. QED  BY <1>1, <1>3 DEF new

-----------------------------------------------------------------------------
(* Previews: what BuildPreview makes of the rows of a file.                 *)

AllFiles == UNION {Files[i] : i \in Imports}

LEMMA FilesTyped == AllFiles \subseteq UploadedFile /\ None \notin AllFiles
BY RosterAssumption, NullAssumption DEF AllFiles

LEMMA FileFields ==
  ASSUME NEW file \in AllFiles
  PROVE  file.type \in RosterType /\ file.rows \in Seq(SourceRow)
BY FilesTyped DEF UploadedFile

LEMMA OwnersArePeople ==
  ASSUME NEW reg \in Registry, NEW type, NEW cells \in Cells
  PROVE  /\ Owners(reg, type, cells) \subseteq People
         /\ \A f \in Aliases : cells[f] # None => reg.owner[<<f, cells[f]>>] \in Owners(reg, type, cells) \cup {None}
<1>1. \A f \in Aliases : cells[f] \in Values \cup {None}
  BY CellValues DEF Aliases, Fields
<1>2. \A f \in Aliases : AliasOwners(reg, f, cells[f]) \subseteq People
  <2>. SUFFICES ASSUME NEW f \in Aliases, cells[f] # None
                PROVE  reg.owner[<<f, cells[f]>>] \in People \cup {None}
    BY DEF AliasOwners
  <2>. QED  BY <1>1, RegistryParts DEF Pairs
<1>3. \A f \in Aliases : PrimaryOwners(reg, f, cells[f]) \subseteq People
  BY DEF PrimaryOwners
<1>4. IdOwners(reg, type, cells["id"]) \subseteq People
  BY DEF IdOwners
<1>5. \A f \in Aliases : cells[f] # None => reg.owner[<<f, cells[f]>>] \in AliasOwners(reg, f, cells[f]) \cup {None}
  BY DEF AliasOwners
<1>. QED  BY <1>2, <1>3, <1>4, <1>5 DEF Owners

LEMMA MappedCells ==
  ASSUME NEW row \in SourceRow, NEW m
  PROVE  Mapped(row, m) \in Cells
BY DEF Mapped, SourceRow, Cells

LEMMA Classified ==
  ASSUME NEW reg, NEW type, NEW rows, NEW m, NEW n,
         rows[n].skipped \in BOOLEAN
  PROVE  /\ Classify(reg, type, rows, m, n) \in Disposition
         /\ Classify(reg, type, rows, m, n) = "valid_update" =>
              Owners(reg, type, Mapped(rows[n], m)) # {}
<1>. DEFINE found == Owners(reg, type, Mapped(rows[n], m))
            usable == Usable(rows[n], m)
            contradicted == n \in Contradicted(rows, m)
            repeated == n \in Repeated(rows, m) \ Contradicted(rows, m)
            last == IF Cardinality(found) > 1 THEN "invalid"
                    ELSE IF found = {} THEN "valid_new" ELSE "valid_update"
<1>1. Classify(reg, type, rows, m, n)
        = CASE rows[n].skipped -> "skipped"
            [] ~rows[n].skipped /\ ~usable -> "invalid"
            [] contradicted -> "invalid"
            [] repeated -> "duplicate"
            [] OTHER -> last
  BY DEF Classify
<1>2. /\ last \in {"invalid", "valid_new", "valid_update"}
      /\ last = "valid_update" => found # {}
  OBVIOUS
<1>. HIDE DEF usable, contradicted, repeated, last
<1>3. Classify(reg, type, rows, m, n) \in {"skipped", "invalid", "duplicate", last}
  BY <1>1
<1>. QED  BY <1>2, <1>3 DEF Disposition

LEMMA PreviewTyped ==
  ASSUME NEW reg \in Registry, NEW type, NEW rows \in Seq(SourceRow), NEW m
  PROVE  BuildPreview(reg, type, rows, m) \in Seq(PreviewRow)
<1>. DEFINE cells(n) == IF rows[n].skipped THEN [f \in Fields |-> None] ELSE Mapped(rows[n], m)
            matched(n) == IF Classify(reg, type, rows, m, n) = "valid_update"
                          THEN CHOOSE p \in Owners(reg, type, Mapped(rows[n], m)) : TRUE ELSE None
            row(n) == [cells |-> cells(n), disposition |-> Classify(reg, type, rows, m, n),
                       matched |-> matched(n), status |-> "pending"]
<1>1. ASSUME NEW n \in DOMAIN rows
      PROVE  row(n) \in PreviewRow
  <2>. rows[n] \in SourceRow
    OBVIOUS
  <2>1. rows[n].skipped \in BOOLEAN
    BY DEF SourceRow
  <2>2. Mapped(rows[n], m) \in Cells
    BY MappedCells
  <2>3. cells(n) \in Cells
    BY <2>2 DEF Cells
  <2>4. matched(n) \in People \cup {None}
    <3>1. Owners(reg, type, Mapped(rows[n], m)) \subseteq People
      BY <2>2, OwnersArePeople
    <3>2. Classify(reg, type, rows, m, n) = "valid_update" =>
            Owners(reg, type, Mapped(rows[n], m)) # {}
      BY <2>1, Classified
    <3>. QED  BY <3>1, <3>2
  <2>5. Classify(reg, type, rows, m, n) \in Disposition
    BY <2>1, Classified
  <2>. HIDE DEF cells, matched
  <2>. QED  BY <2>3, <2>4, <2>5 DEF PreviewRow
<1>2. BuildPreview(reg, type, rows, m) = [n \in DOMAIN rows |-> row(n)]
  BY DEF BuildPreview
<1>. HIDE DEF row
<1>3. DOMAIN rows = 1..Len(rows) /\ Len(rows) \in Nat
  OBVIOUS
<1>4. BuildPreview(reg, type, rows, m) \in [1..Len(rows) -> PreviewRow]
  BY <1>1, <1>2, <1>3
<1>. QED  BY <1>3, <1>4

-----------------------------------------------------------------------------
(* Types of what the sessions do.                                           *)

SessionIs(k) ==
  /\ k.pc # "idle" => k.imp \in Imports
  /\ k.pc \in {"match", "apply"} => k.seen.file \in AllFiles
  /\ k.pc = "apply" => k.at \in DOMAIN k.rows
  /\ k.pc = "remap" => k.state \in ImportState
SessionsHeld == \A s \in Sessions : SessionIs(session[s])
ImportsHeld == \A i \in Imports : imports[i].state # None => imports[i].file \in AllFiles
LookupsHeld == \A r \in Resolvers : lookup[r].pc = "found" => lookup[r].contact \in Contacts
\* The import a session is on was uploaded.
Begun == \A s \in Sessions : session[s].pc # "idle" => imports[session[s].imp].state # None
Typed == TypeOK /\ SessionsHeld /\ ImportsHeld /\ LookupsHeld /\ Begun

LEMMA NothingTyped ==
  /\ NoImport \in ImportRow /\ Idle \in SessionRow /\ SessionIs(Idle) /\ NoLookup \in Lookup
  /\ Idle.wrote = EmptyRegistry /\ Idle.pc = "idle" /\ NoImport.state = None
<1>1. NoCounts \in Counts
  BY DEF NoCounts, Counts
<1>2. NoImport \in ImportRow
  BY <1>1 DEF NoImport, ImportRow
<1>3. Idle \in SessionRow
  BY <1>1, <1>2, EmptyTyped DEF Idle, SessionRow
<1>4. NoLookup \in Lookup
  BY EmptyTyped DEF NoLookup, Lookup
<1>. QED  BY <1>2, <1>3, <1>4 DEF Idle, SessionIs, NoImport

LEMMA InitTyped == Init => Typed
<1>. SUFFICES ASSUME Init PROVE Typed
  OBVIOUS
<1>1. TypeOK
  <2>1. imports \in [Imports -> ImportRow] /\ registry \in Registry
    BY NothingTyped, EmptyTyped DEF Init
  <2>2. session \in [Sessions -> SessionRow] /\ lookup \in [Resolvers -> Lookup]
    BY NothingTyped DEF Init
  <2>3. audit \in [Imports -> SUBSET AuditKeys] /\ applied \in [Imports -> Nat]
    BY DEF Init
  <2>4. faults \in 0..MaxFaults
    BY RosterAssumption DEF Init
  <2>. QED  BY <2>1, <2>2, <2>3, <2>4 DEF TypeOK
<1>2. SessionsHeld
  BY NothingTyped DEF Init, SessionsHeld
<1>3. ImportsHeld
  BY NothingTyped DEF Init, ImportsHeld
<1>4. LookupsHeld
  BY DEF Init, LookupsHeld, NoLookup
<1>5. Begun
  BY NothingTyped DEF Init, Begun
<1>. QED  BY <1>1, <1>2, <1>3, <1>4, <1>5 DEF Typed

\* The fields of a session, and of the row it works on.
LEMMA SessionFields ==
  ASSUME NEW k \in SessionRow
  PROVE  /\ k.pc \in {"idle", "remap", "match", "apply", "failing"}
         /\ k.imp \in Imports \cup {None} /\ k.seen \in ImportRow /\ k.state \in ImportState \cup {None}
         /\ k.rows \in Seq(PreviewRow) /\ k.at \in Nat /\ k.match \in SUBSET People
         /\ k.wrote \in Registry /\ k.done \in Counts
BY DEF SessionRow

LEMMA ImportFields ==
  ASSUME NEW m \in ImportRow
  PROVE  /\ m.state \in ImportState \cup {None} /\ m.rows \in Seq(PreviewRow)
         /\ m.gen \in Nat /\ m.done \in Counts
BY DEF ImportRow

LEMMA PreviewFields ==
  ASSUME NEW row \in PreviewRow
  PROVE  /\ row.cells \in Cells /\ row.disposition \in Disposition
         /\ row.matched \in People \cup {None}
BY DEF PreviewRow

\* A session goes on as k, and no other session moves.
Goes(s, k) ==
  /\ k \in SessionRow /\ SessionIs(k) /\ session' = [session EXCEPT ![s] = k]
  /\ k.pc # "idle" => imports[k.imp].state # None
\* What is uploaded stays.
Lasts == \A i \in Imports : imports[i].state # None => imports'[i].state # None

LEMMA GoesTyped ==
  ASSUME Typed, NEW s \in Sessions, NEW k, Goes(s, k), Lasts
  PROVE  /\ session' \in [Sessions -> SessionRow] /\ SessionsHeld' /\ Begun'
         /\ session'[s] = k /\ \A t \in Sessions \ {s} : session'[t] = session[t]
<1>1. session \in [Sessions -> SessionRow]
  BY DEF Typed, TypeOK
<1>2. session' \in [Sessions -> SessionRow]
  BY <1>1 DEF Goes
<1>3. session'[s] = k /\ \A t \in Sessions \ {s} : session'[t] = session[t]
  BY <1>1 DEF Goes
<1>4. \A t \in Sessions : SessionIs(session'[t])
  BY <1>3 DEF Typed, SessionsHeld, Goes
<1>5. ASSUME NEW t \in Sessions, session'[t].pc # "idle"
      PROVE  imports'[session'[t].imp].state # None
  <2>1. session'[t].imp \in Imports
    BY <1>4, <1>5 DEF SessionIs
  <2>2. imports[session'[t].imp].state # None
    BY <1>3, <1>5 DEF Typed, Begun, Goes
  <2>. QED  BY <2>1, <2>2 DEF Lasts
<1>. QED  BY <1>2, <1>3, <1>4, <1>5 DEF SessionsHeld, Begun

LEMMA IdleGoes ==
  ASSUME NEW s \in Sessions, session' = [session EXCEPT ![s] = Idle]
  PROVE  Goes(s, Idle)
BY NothingTyped DEF Goes

LEMMA FailingGoes ==
  ASSUME NEW s \in Sessions, NEW i \in Imports, imports[i].state # None,
         session' = [session EXCEPT ![s] = [Idle EXCEPT !.pc = "failing", !.imp = i]]
  PROVE  \E k : Goes(s, k) /\ k.pc = "failing" /\ k.wrote = EmptyRegistry
<1>. DEFINE k == [Idle EXCEPT !.pc = "failing", !.imp = i]
<1>1. k \in SessionRow /\ k.pc = "failing" /\ k.imp = i /\ k.wrote = EmptyRegistry
  BY NothingTyped DEF SessionRow
<1>2. SessionIs(k)
  BY <1>1 DEF SessionIs
<1>3. session' = [session EXCEPT ![s] = k]
  OBVIOUS
<1>. HIDE DEF k
<1>. QED  BY <1>1, <1>2, <1>3 DEF Goes

\* What a session holds of an import that is there.
LEMMA FileKnown ==
  ASSUME Typed, NEW i \in Imports, imports[i].state \in ImportState
  PROVE  /\ imports[i] \in ImportRow /\ imports[i].file \in AllFiles
         /\ imports[i].rows \in Seq(PreviewRow) /\ imports[i].state # None
BY NullAssumption, ImportFields DEF Typed, TypeOK, ImportsHeld

LEMMA LoadGoes ==
  ASSUME Typed, NEW s \in Sessions, NEW i \in Imports, NEW fields, LoadForMapping(s, i, fields)
  PROVE  \E k : Goes(s, k) /\ k.pc = "remap" /\ k.wrote = EmptyRegistry
<1>. DEFINE m == Manual(fields)
            st == StateFor(m)
            rows == BuildPreview(registry, imports[i].file.type, imports[i].file.rows, m)
            k == [Idle EXCEPT !.pc = "remap", !.imp = i, !.seen = imports[i], !.state = st, !.rows = rows]
<1>1. imports[i] \in ImportRow /\ imports[i].file \in AllFiles /\ imports[i].state # None
  BY FileKnown DEF LoadForMapping, ImportState
<1>2. rows \in Seq(PreviewRow)
  BY <1>1, FileFields, PreviewTyped DEF Typed, TypeOK
<1>3. st \in ImportState
  BY DEF StateFor, ImportState
<1>4. session' = [session EXCEPT ![s] = k]
  BY DEF LoadForMapping
<1>. HIDE DEF rows, st
<1>5. k \in SessionRow /\ k.pc = "remap" /\ k.imp = i /\ k.wrote = EmptyRegistry /\ k.state = st
  BY <1>1, <1>2, <1>3, NothingTyped DEF SessionRow
<1>6. SessionIs(k)
  BY <1>3, <1>5 DEF SessionIs
<1>. HIDE DEF k
<1>. QED  BY <1>1, <1>4, <1>5, <1>6 DEF Goes

LEMMA LockGoes ==
  ASSUME Typed, NEW s \in Sessions, NEW i \in Imports, LockForConfirm(s, i)
  PROVE  \E k : /\ Goes(s, k) /\ k.imp = i /\ k.wrote = EmptyRegistry
                /\ k.pc = IF "confirmed" \in audit[i] THEN "failing" ELSE "match"
<1>. DEFINE k == [Idle EXCEPT !.pc = "match", !.imp = i, !.seen = imports[i],
                              !.rows = imports[i].rows, !.at = 1]
<1>1. /\ imports[i] \in ImportRow /\ imports[i].file \in AllFiles /\ imports[i].rows \in Seq(PreviewRow)
      /\ imports[i].state # None
  BY FileKnown DEF LockForConfirm, ImportState
<1>2. CASE "confirmed" \in audit[i]
  <2>. DEFINE f == [Idle EXCEPT !.pc = "failing", !.imp = i]
  <2>1. f \in SessionRow /\ f.pc = "failing" /\ f.imp = i /\ f.wrote = EmptyRegistry
    BY NothingTyped DEF SessionRow
  <2>2. session' = [session EXCEPT ![s] = f]
    BY <1>2 DEF LockForConfirm
  <2>3. SessionIs(f)
    BY <2>1 DEF SessionIs
  <2>. HIDE DEF f
  <2>. QED  BY <1>1, <1>2, <2>1, <2>2, <2>3 DEF Goes
<1>3. CASE "confirmed" \notin audit[i]
  <2>1. /\ k \in SessionRow /\ k.pc = "match" /\ k.imp = i /\ k.wrote = EmptyRegistry
        /\ k.seen = imports[i]
    BY <1>1, NothingTyped DEF SessionRow
  <2>2. session' = [session EXCEPT ![s] = k]
    BY <1>3 DEF LockForConfirm
  <2>3. SessionIs(k)
    BY <2>1, <1>1 DEF SessionIs
  <2>. HIDE DEF k
  <2>. QED  BY <1>1, <1>3, <2>1, <2>2, <2>3 DEF Goes
<1>. QED  BY <1>2, <1>3

\* A row is done: the session marks it, counts it and moves to the next.
LEMMA CountedTyped ==
  ASSUME NEW done \in Counts, NEW status \in {"created", "updated", "failed"}
  PROVE  Counted(done, status) \in Counts
<1>1. CASE status = "created"
  BY <1>1 DEF Counts, Counted
<1>2. CASE status = "updated"
  BY <1>2 DEF Counts, Counted
<1>3. CASE status = "failed"
  BY <1>3 DEF Counts, Counted
<1>. QED  BY <1>1, <1>2, <1>3

LEMMA MarkedTyped ==
  ASSUME Typed, NEW s \in Sessions, NEW status \in {"ignored", "created", "updated", "failed"}
  PROVE  Marked(s, status) \in Seq(PreviewRow)
<1>. DEFINE rows == session[s].rows  at == session[s].at
            row == [rows[at] EXCEPT !.status = status]
<1>1. rows \in Seq(PreviewRow)
  BY SessionFields DEF Typed, TypeOK
<1>2. Marked(s, status) = [rows EXCEPT ![at] = row]
  BY DEF Marked
<1>. HIDE DEF rows, at
<1>3. at \in DOMAIN rows => row \in PreviewRow
  <2>. SUFFICES ASSUME at \in DOMAIN rows PROVE row \in PreviewRow
    OBVIOUS
  <2>1. rows[at] \in PreviewRow
    BY <1>1
  <2>. QED  BY <2>1 DEF PreviewRow
<1>. HIDE DEF row
<1>4. rows \in [1..Len(rows) -> PreviewRow] /\ Len(rows) \in Nat
  BY <1>1
<1>5. [rows EXCEPT ![at] = row] \in [1..Len(rows) -> PreviewRow]
  BY <1>3, <1>4
<1>. QED  BY <1>2, <1>4, <1>5

LEMMA AdvanceGoes ==
  ASSUME Typed, NEW s \in Sessions, session[s].pc \in {"match", "apply"},
         NEW status \in {"ignored", "created", "updated", "failed"},
         NEW wrote \in Registry, Advance(s, status, wrote)
  PROVE  \E k : Goes(s, k) /\ k.pc = "match" /\ k.imp = session[s].imp /\ k.wrote = wrote
<1>. DEFINE old == session[s]
            rows == Marked(s, status)
            done == IF status = "ignored" THEN old.done ELSE Counted(old.done, status)
            at == old.at + 1
            k == [old EXCEPT !.pc = "match", !.at = at, !.match = {}, !.wrote = wrote,
                             !.rows = rows, !.done = done]
<1>1. old \in SessionRow /\ SessionIs(old)
  BY DEF Typed, TypeOK, SessionsHeld
<1>2. rows \in Seq(PreviewRow)
  BY MarkedTyped
<1>3. done \in Counts
  <2>1. old.done \in Counts
    BY <1>1, SessionFields
  <2>2. status # "ignored" => Counted(old.done, status) \in Counts
    BY <2>1, CountedTyped
  <2>. QED  BY <2>1, <2>2
<1>4. session' = [session EXCEPT ![s] = k]
  BY DEF Advance, Typed, TypeOK
<1>7. at \in Nat
  BY <1>1, SessionFields
<1>. HIDE DEF rows, done, at, old
<1>5. /\ k \in SessionRow /\ k.pc = "match" /\ k.imp = old.imp /\ k.wrote = wrote
      /\ k.seen = old.seen
  <2>1. {} \in SUBSET People /\ "match" \in {"match", "apply"}
    OBVIOUS
  <2>. QED  BY <1>1, <1>2, <1>3, <1>7, <2>1 DEF SessionRow
<1>8. old.pc \in {"match", "apply"}
  BY DEF old
<1>6. SessionIs(k)
  BY <1>1, <1>5, <1>8 DEF SessionIs
<1>9. imports[old.imp].state # None
  BY <1>8 DEF Typed, Begun, old
<1>. HIDE DEF k
<1>. QED  BY <1>4, <1>5, <1>6, <1>9 DEF Goes, old

\* What a session that works on a row has before it.
LEMMA Working ==
  ASSUME Typed, NEW s \in Sessions, session[s].pc \in {"match", "apply"},
         session[s].at \in DOMAIN session[s].rows
  PROVE  /\ session[s] \in SessionRow /\ session[s].imp \in Imports /\ session[s].wrote \in Registry
         /\ Row(s) \in PreviewRow /\ Row(s).cells \in Cells /\ TypeOf(s) \in RosterType
         /\ Row(s).disposition \in Disposition /\ Row(s).matched \in People \cup {None}
         /\ View(s) \in Registry
<1>1. session[s] \in SessionRow /\ SessionIs(session[s]) /\ registry \in Registry
  BY DEF Typed, TypeOK, SessionsHeld
<1>2. session[s].rows \in Seq(PreviewRow) /\ session[s].wrote \in Registry
  BY <1>1, SessionFields
<1>3. Row(s) \in PreviewRow
  BY <1>2 DEF Row
<1>4. session[s].seen.file \in AllFiles /\ session[s].imp \in Imports
  BY <1>1 DEF SessionIs
<1>5. TypeOf(s) \in RosterType
  BY <1>4, FileFields DEF TypeOf
<1>6. View(s) \in Registry
  BY <1>1, <1>2, OverlayTyped DEF View
<1>. QED  BY <1>1, <1>2, <1>3, <1>4, <1>5, <1>6, PreviewFields

LEMMA MatchGoes ==
  ASSUME Typed, NEW s \in Sessions, MatchRow(s)
  PROVE  \E k : /\ Goes(s, k) /\ k.imp = session[s].imp /\ k.wrote = session[s].wrote
                /\ k.pc \in {"match", "apply"}
<1>. DEFINE old == session[s]
            found == Owners(View(s), TypeOf(s), Row(s).cells)
            k == [old EXCEPT !.pc = "apply", !.match = found]
<1>1. old.pc = "match" /\ old.at \in DOMAIN old.rows
  BY DEF MatchRow
<1>2. /\ old \in SessionRow /\ old.wrote \in Registry
      /\ Row(s).cells \in Cells /\ View(s) \in Registry
  BY <1>1, Working
<1>3. CASE Row(s).disposition \in {"valid_new", "valid_update"}
  <2>1. found \in SUBSET People
    BY <1>2, OwnersArePeople
  <2>2. session' = [session EXCEPT ![s] = k]
    BY <1>3 DEF MatchRow
  <2>3. SessionIs(old)
    BY DEF Typed, SessionsHeld
  <2>6. imports[old.imp].state # None
    BY <1>1 DEF Typed, Begun
  <2>. HIDE DEF found, old
  <2>4. /\ k \in SessionRow /\ k.pc = "apply" /\ k.imp = old.imp /\ k.wrote = old.wrote
        /\ k.seen = old.seen /\ k.at = old.at /\ k.rows = old.rows
    BY <1>2, <2>1 DEF SessionRow
  <2>5. SessionIs(k)
    BY <1>1, <2>3, <2>4 DEF SessionIs
  <2>. HIDE DEF k
  <2>. QED  BY <2>2, <2>4, <2>5, <2>6 DEF Goes, old
<1>4. CASE Row(s).disposition \notin {"valid_new", "valid_update"}
  <2>1. Advance(s, "ignored", old.wrote)
    BY <1>4 DEF MatchRow
  <2>. QED  BY <1>1, <1>2, <2>1, AdvanceGoes
<1>. QED  BY <1>3, <1>4

LEMMA FreshFree ==
  ASSUME NEW p \in Fresh
  PROVE  p \in People /\ Free(p)
BY DEF Fresh

\* What a row that is not rejected writes: the identifiers were free or the person's,
\* and no other session has written them.
Writes(s, p, row, wrote) ==
  LET keys == AliasKeys(Row(s).cells) IN
  /\ p \in People /\ row \in PersonRow /\ keys \subseteq Pairs
  /\ wrote = Written(session[s].wrote, p, row, keys)
  /\ \A k \in keys : View(s).owner[k] \in {None, p}
  /\ \A f \in Aliases : row[f] # None =>
       <<f, row[f]>> \in keys \/ row[f] = View(s).people[p][f]
  /\ \A t \in Sessions \ {s} : \A k \in keys : session[t].wrote.owner[k] = None

LEMMA NotContended ==
  ASSUME NEW s \in Sessions, session[s].pc = "apply", \A t \in Sessions : ~WaitsFor(s, t)
  PROVE  \A t \in Sessions \ {s} : \A k \in AliasKeys(Row(s).cells) : session[t].wrote.owner[k] = None
BY DEF WaitsFor, Contends

LEMMA CreateWrites ==
  ASSUME Typed, NEW s \in Sessions, ApplyRow(s), NEW p \in Fresh, NEW wrote,
         ~Rejected(s), Row(s).disposition = "valid_new",
         wrote = Written(session[s].wrote, p, Applied(NoPerson, Row(s).cells, TypeOf(s)),
                         AliasKeys(Row(s).cells))
  PROVE  \E row : Writes(s, p, row, wrote)
<1>. DEFINE cells == Row(s).cells
            row == Applied(NoPerson, cells, TypeOf(s))
<1>1. session[s].pc = "apply" /\ \A t \in Sessions : ~WaitsFor(s, t)
  BY DEF ApplyRow
<1>2. session[s].at \in DOMAIN session[s].rows
  BY <1>1 DEF Typed, SessionsHeld, SessionIs
<1>3. cells \in Cells /\ TypeOf(s) \in RosterType /\ View(s) \in Registry
  BY <1>1, <1>2, Working
<1>4. \A f \in Aliases : cells[f] \in Values \cup {None}
  BY <1>3, CellValues DEF Aliases, Fields
<1>5. /\ AliasKeys(cells) \subseteq Pairs
      /\ \A f \in Aliases : cells[f] # None => <<f, cells[f]>> \in AliasKeys(cells)
      /\ \A k \in AliasKeys(cells) : \E f \in Aliases : cells[f] # None /\ k = <<f, cells[f]>>
  BY <1>4, KeysOf
<1>6. /\ row \in PersonRow
      /\ \A f \in Aliases : row[f] = IF cells[f] # None THEN cells[f] ELSE NoPerson[f]
  BY <1>3, EmptyTyped, AppliedRow
<1>7. \A f \in Aliases : NoPerson[f] = None
  BY DEF NoPerson, Aliases
<1>8. Owners(View(s), TypeOf(s), cells) = {}
  BY DEF Rejected
<1>9. \A k \in AliasKeys(cells) : View(s).owner[k] \in {None, p}
  BY <1>3, <1>5, <1>8, OwnersArePeople
<1>10. \A t \in Sessions \ {s} : \A k \in AliasKeys(cells) : session[t].wrote.owner[k] = None
  BY <1>1, NotContended
<1>. HIDE DEF row
<1>11. \A f \in Aliases : row[f] # None => <<f, row[f]>> \in AliasKeys(cells)
  BY <1>5, <1>6, <1>7
<1>12. wrote = Written(session[s].wrote, p, row, AliasKeys(cells))
  BY DEF row
<1>. QED  BY <1>5, <1>6, <1>9, <1>10, <1>11, <1>12, FreshFree DEF Writes

LEMMA UpdateWrites ==
  ASSUME Typed, NEW s \in Sessions, ApplyRow(s), NEW wrote,
         ~Rejected(s), Row(s).disposition = "valid_update",
         wrote = Written(session[s].wrote, Row(s).matched,
                         Applied(View(s).people[Row(s).matched], Row(s).cells, TypeOf(s)),
                         AliasKeys(Row(s).cells))
  PROVE  \E row : Writes(s, Row(s).matched, row, wrote)
<1>. DEFINE cells == Row(s).cells
            p == Row(s).matched
            row == Applied(View(s).people[p], cells, TypeOf(s))
<1>1. session[s].pc = "apply" /\ \A t \in Sessions : ~WaitsFor(s, t)
  BY DEF ApplyRow
<1>2. session[s].at \in DOMAIN session[s].rows
  BY <1>1 DEF Typed, SessionsHeld, SessionIs
<1>3. /\ cells \in Cells /\ TypeOf(s) \in RosterType /\ View(s) \in Registry
      /\ session[s] \in SessionRow
  BY <1>1, <1>2, Working
<1>4. \A f \in Aliases : cells[f] \in Values \cup {None}
  BY <1>3, CellValues DEF Aliases, Fields
<1>5. /\ AliasKeys(cells) \subseteq Pairs
      /\ \A f \in Aliases : cells[f] # None => <<f, cells[f]>> \in AliasKeys(cells)
      /\ \A k \in AliasKeys(cells) : \E f \in Aliases : cells[f] # None /\ k = <<f, cells[f]>>
  BY <1>4, KeysOf
<1>6. p \in People
  <2>1. session[s].match = {p}
    BY DEF Rejected
  <2>2. session[s].match \subseteq People
    BY <1>3, SessionFields
  <2>. QED  BY <2>1, <2>2
<1>7. /\ row \in PersonRow
      /\ \A f \in Aliases : row[f] = IF cells[f] # None THEN cells[f] ELSE View(s).people[p][f]
  <2>1. View(s).people[p] \in PersonRow
    BY <1>3, <1>6, RegistryParts
  <2>. QED  BY <1>3, <2>1, AppliedRow
<1>8. Owners(View(s), TypeOf(s), cells) \subseteq {p}
  BY DEF Rejected
<1>9. \A k \in AliasKeys(cells) : View(s).owner[k] \in {None, p}
  BY <1>3, <1>5, <1>8, OwnersArePeople
<1>10. \A t \in Sessions \ {s} : \A k \in AliasKeys(cells) : session[t].wrote.owner[k] = None
  BY <1>1, NotContended
<1>12. wrote = Written(session[s].wrote, p, row, AliasKeys(cells))
  OBVIOUS
<1>. HIDE DEF row
<1>11. \A f \in Aliases : row[f] # None =>
         <<f, row[f]>> \in AliasKeys(cells) \/ row[f] = View(s).people[p][f]
  BY <1>5, <1>7
<1>. QED  BY <1>5, <1>6, <1>7, <1>9, <1>10, <1>11, <1>12 DEF Writes

LEMMA ApplyGoes ==
  ASSUME Typed, NEW s \in Sessions, ApplyRow(s)
  PROVE  \E k : /\ Goes(s, k) /\ k.pc = "match" /\ k.imp = session[s].imp
                /\ k.wrote = session[s].wrote \/ \E p, row : Writes(s, p, row, k.wrote)
<1>1. session[s].pc = "apply"
  BY DEF ApplyRow
<1>2. session[s].at \in DOMAIN session[s].rows
  BY <1>1 DEF Typed, SessionsHeld, SessionIs
<1>3. session[s].wrote \in Registry
  BY <1>1, <1>2, Working
<1>4. CASE Advance(s, "failed", session[s].wrote)
  BY <1>1, <1>3, <1>4, AdvanceGoes
<1>5. ASSUME NEW wrote, NEW p, NEW row, Writes(s, p, row, wrote), NEW status \in {"created", "updated"},
             Advance(s, status, wrote)
      PROVE  \E k : /\ Goes(s, k) /\ k.pc = "match" /\ k.imp = session[s].imp
                    /\ k.wrote = wrote
  <2>1. wrote \in Registry
    BY <1>3, <1>5, WrittenTyped DEF Writes
  <2>. QED  BY <1>1, <1>5, <2>1, AdvanceGoes
<1>6. ASSUME ~Rejected(s), Row(s).disposition = "valid_new", NEW p \in Fresh,
             Advance(s, "created", Written(session[s].wrote, p, Applied(NoPerson, Row(s).cells, TypeOf(s)),
                                           AliasKeys(Row(s).cells)))
      PROVE  \E k : /\ Goes(s, k) /\ k.pc = "match" /\ k.imp = session[s].imp
                    /\ \E q, row : Writes(s, q, row, k.wrote)
  <2>. DEFINE wrote == Written(session[s].wrote, p, Applied(NoPerson, Row(s).cells, TypeOf(s)),
                               AliasKeys(Row(s).cells))
  <2>1. Advance(s, "created", wrote)
    BY <1>6
  <2>2. PICK row : Writes(s, p, row, wrote)
    BY <1>6, CreateWrites
  <2>. HIDE DEF wrote
  <2>. QED  BY <1>5, <2>1, <2>2
<1>7. ASSUME ~Rejected(s), Row(s).disposition = "valid_update",
             Advance(s, "updated", Written(session[s].wrote, Row(s).matched,
                         Applied(View(s).people[Row(s).matched], Row(s).cells, TypeOf(s)),
                         AliasKeys(Row(s).cells)))
      PROVE  \E k : /\ Goes(s, k) /\ k.pc = "match" /\ k.imp = session[s].imp
                    /\ \E q, row : Writes(s, q, row, k.wrote)
  <2>. DEFINE wrote == Written(session[s].wrote, Row(s).matched,
                         Applied(View(s).people[Row(s).matched], Row(s).cells, TypeOf(s)),
                         AliasKeys(Row(s).cells))
  <2>1. Advance(s, "updated", wrote)
    BY <1>7
  <2>2. PICK row : Writes(s, Row(s).matched, row, wrote)
    BY <1>7, UpdateWrites
  <2>. HIDE DEF wrote
  <2>. QED  BY <1>5, <2>1, <2>2
<1>. QED  BY <1>4, <1>6, <1>7 DEF ApplyRow

-----------------------------------------------------------------------------
(* What a step is to the registry: nothing, with one session going on at     *)
(* most; a commit of what a session wrote; or a resolution's write.          *)

Carries(s, k) ==
  /\ \/ k.wrote \in {EmptyRegistry, session[s].wrote}
     \/ \E p, row : Writes(s, p, row, k.wrote)
  /\ k.pc \in {"match", "apply"} =>
       Holds(s, k.imp) \/ (~Locked(k.imp) /\ "confirmed" \notin audit[k.imp])

Moves ==
  /\ UNCHANGED <<registry, applied>>
  /\ \A i \in Imports : "confirmed" \in audit'[i] <=> "confirmed" \in audit[i]
  /\ session' = session \/ \E s \in Sessions : \E k : Goes(s, k) /\ Carries(s, k)

Commits ==
  \E s \in Sessions, i \in Imports :
    /\ Holds(s, i) /\ Goes(s, Idle)
    /\ registry' = View(s)
    /\ audit' = [audit EXCEPT ![i] = @ \cup Appended]
    /\ applied' = [applied EXCEPT ![i] = @ + 1]

Settles(p, row, keys) ==
  /\ p \in People /\ row \in PersonRow /\ keys \subseteq Pairs
  /\ registry' = Written(registry, p, row, keys)
  /\ \A k \in keys : registry.owner[k] \in {None, p}
  /\ \A f \in Aliases : row[f] # None => <<f, row[f]>> \in keys \/ row[f] = registry.people[p][f]
  /\ \A t \in Sessions : \A k \in keys : session[t].wrote.owner[k] = None
Resolves == UNCHANGED <<session, audit, applied>> /\ \E p, row, keys : Settles(p, row, keys)

LEMMA OnlySession ==
  ASSUME Typed, NEW s \in Sessions, NEW k, Goes(s, k),
         UNCHANGED <<imports, audit, registry, lookup, applied>>, faults' \in 0..MaxFaults
  PROVE  Typed'
<1>1. session' \in [Sessions -> SessionRow] /\ SessionsHeld' /\ Begun'
  BY GoesTyped DEF Lasts
<1>2. TypeOK'
  BY <1>1 DEF Typed, TypeOK
<1>3. ImportsHeld' /\ LookupsHeld'
  BY DEF Typed, ImportsHeld, LookupsHeld
<1>. QED  BY <1>1, <1>2, <1>3 DEF Typed

LEMMA FaultTyped == Typed /\ (UNCHANGED faults \/ Fault) => faults' \in 0..MaxFaults
BY RosterAssumption DEF Typed, TypeOK, Fault

LEMMA UploadStep ==
  ASSUME Typed, NEW i \in Imports, NEW file \in Files[i], UploadPreview(i, file)
  PROVE  Typed' /\ Moves
<1>. DEFINE rows == BuildPreview(registry, file.type, file.rows, file.mapping)
            st == StateFor(file.mapping)
            new == [NoImport EXCEPT !.state = st, !.file = file, !.rows = rows]
<1>1. file \in AllFiles
  BY DEF AllFiles
<1>2. rows \in Seq(PreviewRow)
  BY <1>1, FileFields, PreviewTyped DEF Typed, TypeOK
<1>3. st \in ImportState
  BY DEF StateFor, ImportState
<1>4. imports' = [imports EXCEPT ![i] = new]
  BY DEF UploadPreview
<1>. HIDE DEF rows, st
<1>5. new \in ImportRow /\ new.file \in AllFiles /\ new.state = st
  BY <1>1, <1>2, <1>3, NothingTyped DEF ImportRow, AllFiles
<1>. HIDE DEF new
<1>6. imports' \in [Imports -> ImportRow] /\ ImportsHeld'
  BY <1>4, <1>5 DEF Typed, TypeOK, ImportsHeld
<1>7. TypeOK'
  BY <1>6 DEF Typed, TypeOK, UploadPreview
<1>8. SessionsHeld' /\ LookupsHeld'
  BY DEF Typed, SessionsHeld, LookupsHeld, UploadPreview
<1>9. Moves
  BY DEF Moves, UploadPreview
<1>10. Begun'
  <2>1. ASSUME NEW j \in Imports, imports[j].state # None PROVE imports'[j].state # None
    BY <1>3, <1>4, <1>5, <2>1, NullAssumption DEF Typed, TypeOK
  <2>2. session' = session
    BY DEF UploadPreview
  <2>. QED  BY <2>1, <2>2 DEF Typed, Begun, SessionsHeld, SessionIs
<1>. QED  BY <1>6, <1>7, <1>8, <1>9, <1>10 DEF Typed

LEMMA LoadStep ==
  ASSUME Typed, NEW s \in Sessions, NEW i \in Imports, NEW fields, LoadForMapping(s, i, fields)
  PROVE  Typed' /\ Moves
<1>1. PICK k : Goes(s, k) /\ k.pc = "remap" /\ k.wrote = EmptyRegistry
  BY LoadGoes
<1>2. UNCHANGED <<imports, audit, registry, lookup, applied, faults>>
  BY DEF LoadForMapping
<1>3. Typed'
  BY <1>1, <1>2, OnlySession, FaultTyped
<1>4. Moves
  BY <1>1, <1>2 DEF Moves, Carries
<1>. QED  BY <1>3, <1>4

LEMMA LockStep ==
  ASSUME Typed, NEW s \in Sessions, NEW i \in Imports, LockForConfirm(s, i)
  PROVE  Typed' /\ Moves
<1>1. PICK k : /\ Goes(s, k) /\ k.imp = i /\ k.wrote = EmptyRegistry
               /\ k.pc = IF "confirmed" \in audit[i] THEN "failing" ELSE "match"
  BY LockGoes
<1>2. UNCHANGED <<imports, audit, registry, lookup, applied, faults>> /\ ~Locked(i)
  BY DEF LockForConfirm
<1>3. Typed'
  BY <1>1, <1>2, OnlySession, FaultTyped
<1>4. Carries(s, k)
  BY <1>1, <1>2 DEF Carries
<1>5. Moves
  BY <1>1, <1>2, <1>4 DEF Moves
<1>. QED  BY <1>3, <1>5

LEMMA UpdateStep ==
  ASSUME Typed, NEW s \in Sessions, UpdateMapping(s)
  PROVE  Typed' /\ Moves
<1>. DEFINE i == session[s].imp  old == imports[i]  k == session[s]
            st == IF k.state # k.seen.state THEN k.state ELSE old.state
            gen == old.gen + 1
            new == [old EXCEPT !.gen = gen, !.rows = k.rows, !.state = st]
<1>0. session' = [session EXCEPT ![s] = Idle] /\ UNCHANGED <<audit, registry, lookup, applied, faults>>
  BY DEF UpdateMapping
<1>1. Goes(s, Idle)
  BY <1>0, IdleGoes
<1>2. k \in SessionRow /\ i \in Imports /\ old \in ImportRow
  BY DEF Typed, TypeOK, SessionsHeld, SessionIs, UpdateMapping
<1>7. k.state # None
  BY NullAssumption DEF Typed, SessionsHeld, SessionIs, UpdateMapping
<1>3. imports' \in [Imports -> ImportRow] /\ ImportsHeld' /\ Lasts
  <2>1. CASE old.gen # k.seen.gen
    BY <2>1 DEF UpdateMapping, Typed, TypeOK, ImportsHeld, Lasts
  <2>2. CASE old.gen = k.seen.gen
    <3>1. imports' = [imports EXCEPT ![i] = new]
      BY <1>2, <2>2 DEF UpdateMapping, Typed, TypeOK
    <3>2. st \in ImportState \cup {None} /\ gen \in Nat /\ k.rows \in Seq(PreviewRow)
      BY <1>2, SessionFields, ImportFields
    <3>3. new \in ImportRow /\ new.file = old.file /\ new.state = st
      <4>. HIDE DEF st, gen, old, k
      <4>. QED  BY <1>2, <3>2 DEF ImportRow
    <3>4. old.state # None => old.file \in AllFiles
      BY <1>2 DEF Typed, ImportsHeld
    <3>5. old.state # None
      BY DEF UpdateMapping, Typed, Begun
    <3>6. st # None
      BY <3>5, <1>7
    <3>. HIDE DEF new, st
    <3>. QED  BY <1>2, <3>1, <3>3, <3>4, <3>5, <3>6 DEF Typed, TypeOK, ImportsHeld, Lasts
  <2>. QED  BY <2>1, <2>2
<1>4. TypeOK' /\ SessionsHeld' /\ Begun'
  BY <1>0, <1>1, <1>3, GoesTyped DEF Typed, TypeOK
<1>5. LookupsHeld'
  BY <1>0 DEF Typed, LookupsHeld
<1>6. Moves
  BY <1>0, <1>1, NothingTyped DEF Moves, Carries
<1>. QED  BY <1>3, <1>4, <1>5, <1>6 DEF Typed

LEMMA MatchStep ==
  ASSUME Typed, NEW s \in Sessions, MatchRow(s)
  PROVE  Typed' /\ Moves
<1>1. PICK k : /\ Goes(s, k) /\ k.imp = session[s].imp /\ k.wrote = session[s].wrote
               /\ k.pc \in {"match", "apply"}
  BY MatchGoes
<1>2. UNCHANGED <<imports, audit, registry, lookup, applied, faults>> /\ Holds(s, session[s].imp)
  BY DEF MatchRow, Holds
<1>3. Typed'
  BY <1>1, <1>2, OnlySession, FaultTyped
<1>4. Carries(s, k)
  BY <1>1, <1>2 DEF Carries
<1>5. Moves
  BY <1>1, <1>2, <1>4 DEF Moves
<1>. QED  BY <1>3, <1>5

LEMMA ApplyStep ==
  ASSUME Typed, NEW s \in Sessions, ApplyRow(s)
  PROVE  Typed' /\ Moves
<1>1. PICK k : /\ Goes(s, k) /\ k.pc = "match" /\ k.imp = session[s].imp
               /\ k.wrote = session[s].wrote \/ \E p, row : Writes(s, p, row, k.wrote)
  BY ApplyGoes
<1>2. UNCHANGED <<imports, audit, registry, lookup, applied, faults>> /\ Holds(s, session[s].imp)
  BY DEF ApplyRow, Holds
<1>3. Typed'
  BY <1>1, <1>2, OnlySession, FaultTyped
<1>4. Carries(s, k)
  BY <1>1, <1>2 DEF Carries
<1>5. Moves
  BY <1>1, <1>2, <1>4 DEF Moves
<1>. QED  BY <1>3, <1>5

LEMMA FailsStep ==
  ASSUME Typed, NEW s \in Sessions, RowFails(s)
  PROVE  Typed' /\ Moves
<1>1. session[s].pc = "apply"
  BY DEF RowFails
<1>2. session[s].at \in DOMAIN session[s].rows
  BY <1>1 DEF Typed, SessionsHeld, SessionIs
<1>3. session[s].wrote \in Registry
  BY <1>1, <1>2, Working
<1>4. PICK k : Goes(s, k) /\ k.pc = "match" /\ k.imp = session[s].imp /\ k.wrote = session[s].wrote
  BY <1>1, <1>3, AdvanceGoes DEF RowFails
<1>5. UNCHANGED <<imports, audit, registry, lookup, applied>> /\ Holds(s, session[s].imp)
  BY <1>1 DEF RowFails, Holds
<1>6. faults' \in 0..MaxFaults
  BY FaultTyped DEF RowFails
<1>7. Typed'
  BY <1>4, <1>5, <1>6, OnlySession
<1>8. Carries(s, k)
  BY <1>4, <1>5 DEF Carries
<1>9. Moves
  BY <1>4, <1>5, <1>8 DEF Moves
<1>. QED  BY <1>7, <1>9

LEMMA UnexpectedStep ==
  ASSUME Typed, NEW s \in Sessions, UnexpectedError(s)
  PROVE  Typed' /\ Moves
<1>1. session[s].imp \in Imports /\ imports[session[s].imp].state # None
  BY DEF UnexpectedError, Typed, SessionsHeld, SessionIs, Begun
<1>2. PICK k : Goes(s, k) /\ k.pc = "failing" /\ k.wrote = EmptyRegistry
  BY <1>1, FailingGoes DEF UnexpectedError
<1>3. UNCHANGED <<imports, audit, registry, lookup, applied>> /\ faults' \in 0..MaxFaults
  BY FaultTyped DEF UnexpectedError
<1>4. Typed'
  BY <1>2, <1>3, OnlySession
<1>5. Moves
  BY <1>2, <1>3 DEF Moves, Carries
<1>. QED  BY <1>4, <1>5

LEMMA CrashStep ==
  ASSUME Typed, NEW s \in Sessions, Crash(s)
  PROVE  Typed' /\ Moves
<1>1. Goes(s, Idle)
  BY IdleGoes DEF Crash
<1>2. UNCHANGED <<imports, audit, registry, lookup, applied>> /\ faults' \in 0..MaxFaults
  BY FaultTyped DEF Crash
<1>3. Typed'
  BY <1>1, <1>2, OnlySession
<1>4. Moves
  BY <1>1, <1>2, NothingTyped DEF Moves, Carries
<1>. QED  BY <1>3, <1>4

\* An import whose state is set is typed as before.
LEMMA StateSet ==
  ASSUME Typed, NEW i \in Imports, NEW new \in ImportRow, new.state \in ImportState,
         new.file = imports[i].file, imports[i].state # None,
         imports' = [imports EXCEPT ![i] = new]
  PROVE  imports' \in [Imports -> ImportRow] /\ ImportsHeld' /\ Lasts
BY NullAssumption DEF Typed, TypeOK, ImportsHeld, Lasts

LEMMA FinishStep ==
  ASSUME Typed, NEW s \in Sessions, FinishConfirm(s)
  PROVE  Typed' /\ (Moves \/ Commits)
<1>. DEFINE i == session[s].imp  k == session[s]
            st == Outcome(s)
            new == [imports[i] EXCEPT !.state = st, !.rows = k.rows, !.done = k.done]
<1>1. k.pc = "match" /\ UNCHANGED <<lookup, faults>>
  BY DEF FinishConfirm
<1>2. /\ k \in SessionRow /\ i \in Imports /\ imports[i] \in ImportRow /\ imports[i].state # None
      /\ Holds(s, i)
  BY <1>1 DEF Typed, TypeOK, SessionsHeld, SessionIs, Begun, Holds
<1>3. CASE "terminal" \in audit[i]
  <2>1. UNCHANGED <<imports, audit, registry, applied>>
    BY <1>3 DEF FinishConfirm
  <2>2. session' = [session EXCEPT ![s] = [Idle EXCEPT !.pc = "failing", !.imp = i]]
    BY <1>3 DEF FinishConfirm
  <2>3. PICK f : Goes(s, f) /\ f.pc = "failing" /\ f.wrote = EmptyRegistry
    BY <1>2, <2>2, FailingGoes
  <2>4. Typed'
    BY <1>1, <2>1, <2>3, OnlySession, FaultTyped
  <2>5. Moves
    BY <2>1, <2>3 DEF Moves, Carries
  <2>. QED  BY <2>4, <2>5
<1>4. CASE "terminal" \notin audit[i]
  <2>1. /\ imports' = [imports EXCEPT ![i].state = Outcome(s), ![i].rows = session[s].rows,
                                      ![i].done = session[s].done]
        /\ audit' = [audit EXCEPT ![i] = @ \cup Appended]
        /\ registry' = View(s)
        /\ applied' = [applied EXCEPT ![i] = @ + 1]
        /\ session' = [session EXCEPT ![s] = Idle]
    BY <1>4 DEF FinishConfirm
  <2>2. Goes(s, Idle)
    BY <2>1, IdleGoes
  <2>3. imports' = [imports EXCEPT ![i] = new]
    BY <1>2, <2>1 DEF Typed, TypeOK
  <2>4. st \in ImportState
    BY DEF Outcome, ImportState
  <2>5. k.rows \in Seq(PreviewRow) /\ k.done \in Counts /\ k.wrote \in Registry
    BY <1>2, SessionFields
  <2>6. new \in ImportRow /\ new.state = st /\ new.file = imports[i].file
    <3>. HIDE DEF st, k, i
    <3>. QED  BY <1>2, <2>4, <2>5 DEF ImportRow
  <2>7. imports' \in [Imports -> ImportRow] /\ ImportsHeld' /\ Lasts
    <3>. HIDE DEF new, st
    <3>. QED  BY <1>2, <2>3, <2>4, <2>6, StateSet
  <2>8. registry' \in Registry
    BY <2>1, <2>5, OverlayTyped DEF View, Typed, TypeOK
  <2>9. audit' \in [Imports -> SUBSET AuditKeys]
    BY <2>1 DEF Typed, TypeOK, Appended, AuditKeys
  <2>10. applied' \in [Imports -> Nat]
    <3>1. applied \in [Imports -> Nat] /\ applied[i] + 1 \in Nat
      BY <1>2 DEF Typed, TypeOK
    <3>. QED  BY <3>1, <2>1
  <2>11. session' \in [Sessions -> SessionRow] /\ SessionsHeld' /\ Begun'
    BY <2>2, <2>7, GoesTyped
  <2>12. LookupsHeld'
    BY <1>1 DEF Typed, LookupsHeld
  <2>13. TypeOK'
    BY <1>1, <2>7, <2>8, <2>9, <2>10, <2>11 DEF Typed, TypeOK
  <2>14. Commits
    BY <1>2, <2>1, <2>2 DEF Commits
  <2>. QED  BY <2>7, <2>11, <2>12, <2>13, <2>14 DEF Typed
<1>. QED  BY <1>3, <1>4

LEMMA RecordStep ==
  ASSUME Typed, NEW s \in Sessions, RecordFailure(s)
  PROVE  Typed' /\ Moves
<1>. DEFINE i == session[s].imp
            new == [imports[i] EXCEPT !.state = "failed"]
<1>1. UNCHANGED <<registry, lookup, applied, faults>> /\ session[s].pc = "failing"
  BY DEF RecordFailure
<1>2. Goes(s, Idle)
  BY IdleGoes DEF RecordFailure
<1>3. i \in Imports /\ imports[i] \in ImportRow /\ imports[i].state # None
  BY <1>1 DEF Typed, TypeOK, SessionsHeld, SessionIs, Begun
<1>4. CASE UNCHANGED <<imports, audit>>
  <2>1. Typed'
    BY <1>1, <1>2, <1>4, OnlySession, FaultTyped
  <2>2. Moves
    BY <1>1, <1>2, <1>4, NothingTyped DEF Moves, Carries
  <2>. QED  BY <2>1, <2>2
<1>5. CASE /\ imports' = [imports EXCEPT ![i].state = "failed"]
           /\ audit' = [audit EXCEPT ![i] = @ \cup {"terminal"}]
  <2>1. imports' = [imports EXCEPT ![i] = new]
    BY <1>3, <1>5 DEF Typed, TypeOK
  <2>2. new \in ImportRow /\ new.state \in ImportState /\ new.file = imports[i].file
    <3>. HIDE DEF i
    <3>. QED  BY <1>3 DEF ImportRow, ImportState
  <2>3. imports' \in [Imports -> ImportRow] /\ ImportsHeld' /\ Lasts
    <3>. HIDE DEF new
    <3>. QED  BY <1>3, <2>1, <2>2, StateSet
  <2>4. audit' \in [Imports -> SUBSET AuditKeys]
    BY <1>5 DEF Typed, TypeOK, AuditKeys
  <2>5. session' \in [Sessions -> SessionRow] /\ SessionsHeld' /\ Begun'
    BY <1>2, <2>3, GoesTyped
  <2>6. LookupsHeld'
    BY <1>1 DEF Typed, LookupsHeld
  <2>7. TypeOK'
    BY <1>1, <2>3, <2>4, <2>5 DEF Typed, TypeOK
  <2>8. \A j \in Imports : "confirmed" \in audit'[j] <=> "confirmed" \in audit[j]
    BY <1>5 DEF Typed, TypeOK
  <2>9. Moves
    BY <1>1, <1>2, <2>8, NothingTyped DEF Moves, Carries
  <2>. QED  BY <2>3, <2>5, <2>6, <2>7, <2>9 DEF Typed
<1>. QED  BY <1>4, <1>5 DEF RecordFailure

LEMMA ReadStep ==
  ASSUME Typed, NEW r \in Resolvers, NEW c \in Contacts, NEW e \in People \cup {None}, ResolveRead(r, c, e)
  PROVE  Typed' /\ Moves
<1>. DEFINE found == IF e # None THEN {e} ELSE Matching(c)
<1>1. UNCHANGED <<imports, audit, registry, session, applied, faults>>
  BY DEF ResolveRead
<1>2. c \in Contact
  BY RosterAssumption
<1>3. found \subseteq People
  <2>1. /\ c["email"] \in Values \cup {None} /\ c["phone"] \in Values \cup {None}
    BY <1>2 DEF Contact
  <2>2. \A f \in Aliases : PrimaryOwners(registry, f, c[f]) \subseteq People
    BY DEF PrimaryOwners
  <2>3. \A f \in Aliases : AliasOwners(registry, f, c[f]) \subseteq People
    <3>. SUFFICES ASSUME NEW f \in Aliases, c[f] # None
                  PROVE  registry.owner[<<f, c[f]>>] \in People \cup {None}
      BY DEF AliasOwners
    <3>1. <<f, c[f]>> \in Pairs
      BY <2>1 DEF Pairs, Aliases
    <3>. QED  BY <3>1, RegistryParts DEF Typed, TypeOK
  <2>4. "email" \in Aliases /\ "phone" \in Aliases
    BY DEF Aliases
  <2>5. Matching(c) \subseteq People
    BY <2>2, <2>3, <2>4 DEF Matching
  <2>. QED  BY <2>5
<1>4. PICK p \in IF found = {} THEN {None} ELSE found :
        lookup' = [lookup EXCEPT ![r] =
          [pc |-> "found", contact |-> c, found |-> p,
           seen |-> IF p = None THEN NoPerson ELSE registry.people[p]]]
  BY DEF ResolveRead
<1>. DEFINE seen == IF p = None THEN NoPerson ELSE registry.people[p]
            new == [pc |-> "found", contact |-> c, found |-> p, seen |-> seen]
<1>5. p \in People \cup {None}
  BY <1>3
<1>6. seen \in PersonRow
  BY <1>5, EmptyTyped, RegistryParts DEF Typed, TypeOK
<1>7. lookup' = [lookup EXCEPT ![r] = new]
  BY <1>4
<1>. HIDE DEF seen, found
<1>8. new \in Lookup /\ new.contact \in Contacts
  BY <1>5, <1>6 DEF Lookup
<1>. HIDE DEF new
<1>9. lookup' \in [Resolvers -> Lookup] /\ LookupsHeld'
  BY <1>7, <1>8 DEF Typed, TypeOK, LookupsHeld
<1>10. TypeOK'
  BY <1>1, <1>9 DEF Typed, TypeOK
<1>11. SessionsHeld' /\ ImportsHeld' /\ Begun'
  BY <1>1 DEF Typed, SessionsHeld, ImportsHeld, Begun
<1>12. Moves
  BY <1>1 DEF Moves
<1>. QED  BY <1>9, <1>10, <1>11, <1>12 DEF Typed

LEMMA WriteStep ==
  ASSUME Typed, NEW r \in Resolvers, ResolveWrite(r)
  PROVE  Typed' /\ (Moves \/ Resolves)
<1>. DEFINE k == lookup[r]
            c == k.contact
            done == [NoLookup EXCEPT !.pc = "done"]
            keys == AliasKeys(c)
<1>1. UNCHANGED <<imports, audit, session, applied, faults>> /\ k.pc = "found"
      /\ lookup' = [lookup EXCEPT ![r] = done]
  BY DEF ResolveWrite
<1>2. k \in Lookup /\ c \in Contact
  BY <1>1, RosterAssumption DEF Typed, TypeOK, LookupsHeld
<1>3. k.found \in People \cup {None} /\ k.seen \in PersonRow
  BY <1>2 DEF Lookup
<1>4. \A f \in Aliases : c[f] \in Values \cup {None}
  BY <1>2 DEF Contact, Aliases
<1>5. /\ keys \subseteq Pairs
      /\ \A f \in Aliases : c[f] # None => <<f, c[f]>> \in keys
  BY <1>4, KeysOf
<1>6. done \in Lookup /\ done.pc = "done"
  BY NothingTyped DEF Lookup
<1>7. lookup' \in [Resolvers -> Lookup] /\ LookupsHeld'
  <2>. HIDE DEF done
  <2>. QED  BY <1>1, <1>6 DEF Typed, TypeOK, LookupsHeld
<1>8. SessionsHeld' /\ ImportsHeld' /\ Begun'
  BY <1>1 DEF Typed, SessionsHeld, ImportsHeld, Begun
<1>9. PICK p \in IF k.found # None THEN {k.found} ELSE Fresh :
        /\ \A t \in Sessions : ~Contends({p}, keys, None, None, t)
        /\ registry' = IF Violates(p, Resolved(registry.people[p], k.seen, c), c) THEN registry
                       ELSE Written(registry, p, Resolved(registry.people[p], k.seen, c), keys)
  BY DEF ResolveWrite
<1>. DEFINE row == Resolved(registry.people[p], k.seen, c)
<1>10. p \in People
  BY <1>3, FreshFree
<1>11. registry \in Registry /\ registry.people[p] \in PersonRow
  BY <1>10, RegistryParts DEF Typed, TypeOK
<1>12. /\ row \in PersonRow
       /\ \A f \in Aliases : row[f] = IF k.seen[f] = None /\ c[f] # None THEN c[f] ELSE registry.people[p][f]
  BY <1>2, <1>3, <1>11, ResolvedRow
<1>. HIDE DEF k, keys
<1>13. CASE Violates(p, row, c)
  <2>1. registry' = registry
    BY <1>9, <1>13
  <2>2. TypeOK'
    BY <1>1, <1>7, <2>1 DEF Typed, TypeOK
  <2>3. Moves
    BY <1>1, <2>1 DEF Moves
  <2>. QED  BY <1>7, <1>8, <2>2, <2>3 DEF Typed
<1>14. CASE ~Violates(p, row, c)
  <2>1. registry' = Written(registry, p, row, keys)
    BY <1>9, <1>14
  <2>2. \A x \in keys : registry.owner[x] \in {None, p}
    BY <1>14 DEF Violates, keys
  <2>3. \A t \in Sessions : \A x \in keys : session[t].wrote.owner[x] = None
    BY <1>9 DEF Contends
  <2>. HIDE DEF row, c
  <2>4. \A f \in Aliases : row[f] # None => <<f, row[f]>> \in keys \/ row[f] = registry.people[p][f]
    BY <1>5, <1>12
  <2>5. Resolves
    <3>1. Settles(p, row, keys)
      BY <1>5, <1>10, <1>12, <2>1, <2>2, <2>3, <2>4 DEF Settles
    <3>. QED  BY <1>1, <3>1 DEF Resolves
  <2>6. registry' \in Registry
    BY <1>10, <1>11, <1>12, <2>1, WrittenTyped
  <2>7. TypeOK'
    BY <1>1, <1>7, <2>6 DEF Typed, TypeOK
  <2>. QED  BY <1>7, <1>8, <2>5, <2>7 DEF Typed
<1>. QED  BY <1>13, <1>14

LEMMA StepTyped == Typed /\ [Next]_vars => Typed' /\ (Moves \/ Commits \/ Resolves)
<1>. SUFFICES ASSUME Typed, [Next]_vars PROVE Typed' /\ (Moves \/ Commits \/ Resolves)
  OBVIOUS
<1>1. CASE UNCHANGED vars
  <2>1. Typed'
    BY <1>1 DEF vars, Typed, TypeOK, SessionsHeld, ImportsHeld, LookupsHeld, Begun
  <2>2. Moves
    BY <1>1 DEF vars, Moves
  <2>. QED  BY <2>1, <2>2
<1>2. ASSUME NEW i \in Imports, NEW file \in Files[i], UploadPreview(i, file)
      PROVE  Typed' /\ (Moves \/ Commits \/ Resolves)
  BY <1>2, UploadStep
<1>3. ASSUME NEW s \in Sessions, NEW i \in Imports,
             LockForConfirm(s, i) \/ \E fields \in Remappings : LoadForMapping(s, i, fields)
      PROVE  Typed' /\ (Moves \/ Commits \/ Resolves)
  BY <1>3, LockStep, LoadStep
<1>4. ASSUME NEW s \in Sessions,
             UpdateMapping(s) \/ MatchRow(s) \/ ApplyRow(s) \/ RowFails(s)
               \/ UnexpectedError(s) \/ RecordFailure(s) \/ Crash(s)
      PROVE  Typed' /\ (Moves \/ Commits \/ Resolves)
  BY <1>4, UpdateStep, MatchStep, ApplyStep, FailsStep, UnexpectedStep, RecordStep, CrashStep
<1>5. ASSUME NEW s \in Sessions, FinishConfirm(s)
      PROVE  Typed' /\ (Moves \/ Commits \/ Resolves)
  BY <1>5, FinishStep
<1>6. ASSUME NEW r \in Resolvers, \E c \in Contacts, p \in People \cup {None} : ResolveRead(r, c, p)
      PROVE  Typed' /\ (Moves \/ Commits \/ Resolves)
  BY <1>6, ReadStep
<1>7. ASSUME NEW r \in Resolvers, ResolveWrite(r)
      PROVE  Typed' /\ (Moves \/ Commits \/ Resolves)
  BY <1>7, WriteStep
<1>. QED  BY <1>1, <1>2, <1>3, <1>4, <1>5, <1>6, <1>7 DEF Next

-----------------------------------------------------------------------------
(* An import reaches the registry once: whoever confirms it holds its lock,  *)
(* alone, and finds no trace of an earlier confirmation, which would have    *)
(* left one when it committed.                                               *)

Once ==
  /\ AppliedOnce
  /\ \A i \in Imports : applied[i] > 0 => "confirmed" \in audit[i]
  /\ \A s, t \in Sessions, i \in Imports : Holds(s, i) /\ Holds(t, i) => s = t
  /\ \A s \in Sessions, i \in Imports : Holds(s, i) => "confirmed" \notin audit[i]

\* Whoever holds an import's lock after a step held it before, or found it free.
LEMMA HoldsAfter ==
  ASSUME Typed, NEW s \in Sessions, NEW k, Goes(s, k), Carries(s, k),
         NEW t \in Sessions, NEW i \in Imports, Holds(t, i)'
  PROVE  \/ Holds(t, i)
         \/ t = s /\ ~Locked(i) /\ "confirmed" \notin audit[i]
<1>1. /\ session'[s] = k /\ \A u \in Sessions \ {s} : session'[u] = session[u]
  BY DEF Typed, TypeOK, Goes
<1>2. CASE t # s
  BY <1>1, <1>2 DEF Holds
<1>3. CASE t = s
  <2>1. k.imp = i /\ k.pc \in {"match", "apply"}
    BY <1>1, <1>3 DEF Holds
  <2>. QED  BY <1>3, <2>1 DEF Carries
<1>. QED  BY <1>2, <1>3

LEMMA OnceMoves ==
  ASSUME Typed, Once, Moves
  PROVE  Once'
<1>1. /\ applied' = applied /\ \A i \in Imports : "confirmed" \in audit'[i] <=> "confirmed" \in audit[i]
  BY DEF Moves
<1>2. AppliedOnce' /\ \A i \in Imports : applied'[i] > 0 => "confirmed" \in audit'[i]
  BY <1>1 DEF Once, AppliedOnce
<1>3. CASE session' = session
  BY <1>1, <1>2, <1>3 DEF Once, Holds
<1>4. ASSUME NEW s \in Sessions, NEW k, Goes(s, k), Carries(s, k)
      PROVE  Once'
  <2>1. ASSUME NEW t \in Sessions, NEW i \in Imports, Holds(t, i)'
        PROVE  Holds(t, i) \/ (t = s /\ ~Locked(i) /\ "confirmed" \notin audit[i])
    BY <1>4, <2>1, HoldsAfter
  <2>2. ASSUME NEW t \in Sessions, NEW u \in Sessions, NEW i \in Imports, Holds(t, i)', Holds(u, i)'
        PROVE  t = u
    BY <2>1, <2>2 DEF Once, Locked
  <2>3. ASSUME NEW t \in Sessions, NEW i \in Imports, Holds(t, i)'
        PROVE  "confirmed" \notin audit'[i]
    BY <1>1, <2>1, <2>3 DEF Once
  <2>. QED  BY <1>2, <2>2, <2>3 DEF Once
<1>. QED  BY <1>3, <1>4 DEF Moves

LEMMA OnceCommits ==
  ASSUME Typed, Once, Commits
  PROVE  Once'
<1>1. PICK s \in Sessions, i \in Imports :
        /\ Holds(s, i) /\ Goes(s, Idle)
        /\ audit' = [audit EXCEPT ![i] = @ \cup Appended]
        /\ applied' = [applied EXCEPT ![i] = @ + 1]
  BY DEF Commits
<1>2. /\ session'[s] = Idle /\ \A u \in Sessions \ {s} : session'[u] = session[u]
  BY <1>1 DEF Typed, TypeOK, Goes
<1>3. /\ \A j \in Imports : audit'[j] = IF j = i THEN audit[j] \cup Appended ELSE audit[j]
      /\ \A j \in Imports : applied'[j] = IF j = i THEN applied[j] + 1 ELSE applied[j]
      /\ \A j \in Imports : applied[j] \in Nat
  BY <1>1 DEF Typed, TypeOK
<1>4. "confirmed" \notin audit[i] /\ applied[i] = 0
  BY <1>1, <1>3 DEF Once
<1>5. AppliedOnce' /\ \A j \in Imports : applied'[j] > 0 => "confirmed" \in audit'[j]
  <2>1. applied'[i] = 1 /\ "confirmed" \in audit'[i]
    <3>1. audit'[i] = audit[i] \cup Appended /\ applied'[i] = applied[i] + 1
      BY <1>3
    <3>2. "confirmed" \in audit[i] \cup Appended
      BY Zenon DEF Appended
    <3>. QED  BY <1>4, <3>1, <3>2
  <2>2. ASSUME NEW j \in Imports
        PROVE  applied'[j] \in {0, 1} /\ (applied'[j] > 0 => "confirmed" \in audit'[j])
    <3>1. CASE j = i
      <4>1. applied'[j] = 1 /\ "confirmed" \in audit'[j]
        BY <2>1, <3>1
      <4>. QED  BY <4>1
    <3>2. CASE j # i
      <4>1. applied'[j] = applied[j] /\ audit'[j] = audit[j]
        BY <1>3, <3>2
      <4>2. applied[j] \in {0, 1} /\ (applied[j] > 0 => "confirmed" \in audit[j])
        BY <1>3 DEF Once, AppliedOnce
      <4>. QED  BY <4>1, <4>2
    <3>. QED  BY <3>1, <3>2
  <2>. QED  BY <2>2 DEF AppliedOnce
<1>6. ASSUME NEW t \in Sessions, NEW j \in Imports, Holds(t, j)'
      PROVE  Holds(t, j) /\ t # s /\ j # i
  <2>1. t # s
    BY <1>2, <1>6, NothingTyped DEF Holds
  <2>2. Holds(t, j)
    BY <1>2, <1>6, <2>1 DEF Holds
  <2>. QED  BY <1>1, <2>1, <2>2 DEF Once
<1>7. /\ \A t, u \in Sessions, j \in Imports : Holds(t, j)' /\ Holds(u, j)' => t = u
      /\ \A t \in Sessions, j \in Imports : Holds(t, j)' => "confirmed" \notin audit'[j]
  BY <1>3, <1>6 DEF Once
<1>. QED  BY <1>5, <1>7 DEF Once

LEMMA OnceResolves ==
  ASSUME Once, Resolves
  PROVE  Once'
BY DEF Once, AppliedOnce, Resolves, Holds

-----------------------------------------------------------------------------
(* Identifiers: what is primary in the registry is backed, and so is what a *)
(* session wrote over it; two sessions wrote no identifier in common.       *)

Entrusted ==
  /\ Backed(registry)
  /\ \A s \in Sessions : Secured(registry, session[s].wrote)
  /\ \A s, t \in Sessions : s # t => Apart(session[s].wrote, session[t].wrote)

LEMMA WrotesTyped ==
  ASSUME Typed
  PROVE  /\ registry \in Registry /\ None \notin People
         /\ \A s \in Sessions : session[s].wrote \in Registry
BY SessionFields, NullAssumption DEF Typed, TypeOK

LEMMA EntrustedMoves ==
  ASSUME Typed, Entrusted, Moves
  PROVE  Entrusted'
<1>1. registry' = registry
  BY DEF Moves
<1>2. CASE session' = session
  BY <1>1, <1>2 DEF Entrusted
<1>3. ASSUME NEW s \in Sessions, NEW k, Goes(s, k), Carries(s, k)
      PROVE  Entrusted'
  <2>1. session'[s] = k /\ \A t \in Sessions \ {s} : session'[t] = session[t]
    BY <1>3 DEF Typed, TypeOK, Goes
  <2>2. /\ Secured(registry, k.wrote)
        /\ \A t \in Sessions \ {s} : /\ Apart(k.wrote, session[t].wrote)
                                     /\ Apart(session[t].wrote, k.wrote)
    <3>1. CASE k.wrote = EmptyRegistry
      BY <3>1, EmptyKeeps
    <3>2. CASE k.wrote = session[s].wrote
      BY <3>2 DEF Entrusted
    <3>3. ASSUME NEW p, NEW row, Writes(s, p, row, k.wrote)
          PROVE  /\ Secured(registry, k.wrote)
                 /\ \A t \in Sessions \ {s} : /\ Apart(k.wrote, session[t].wrote)
                                              /\ Apart(session[t].wrote, k.wrote)
      <4>. DEFINE keys == AliasKeys(Row(s).cells)  old == session[s].wrote
      <4>1. /\ p \in People /\ row \in PersonRow /\ keys \subseteq Pairs
            /\ k.wrote = Written(old, p, row, keys)
            /\ \A x \in keys : View(s).owner[x] \in {None, p}
            /\ \A f \in Aliases : row[f] # None =>
                 <<f, row[f]>> \in keys \/ row[f] = View(s).people[p][f]
            /\ \A t \in Sessions \ {s} : \A x \in keys : session[t].wrote.owner[x] = None
        BY <3>3 DEF Writes
      <4>. HIDE DEF keys
      <4>2. /\ registry \in Registry /\ old \in Registry /\ None \notin People
            /\ Backed(registry) /\ Secured(registry, old) /\ View(s) = Overlay(registry, old)
        BY WrotesTyped DEF Entrusted, View
      <4>. HIDE DEF old
      <4>3. Backed(View(s))
        BY <4>2, CommitKeeps
      <4>4. \A f \in Aliases : row[f] # None =>
              <<f, row[f]>> \in keys \/ View(s).owner[<<f, row[f]>>] = p
        BY <4>1, <4>3 DEF Backed
      <4>5. Secured(registry, k.wrote)
        <5>1. Secured(registry, Written(old, p, row, keys))
          BY <4>1, <4>2, <4>4, WritingSecures
        <5>. QED  BY <5>1, <4>1
      <4>6. \A x \in Pairs : k.wrote.owner[x] = IF x \in keys THEN p ELSE old.owner[x]
        BY <4>1, <4>2, WrittenTyped
      <4>7. \A t \in Sessions \ {s} : Apart(old, session[t].wrote)
        BY DEF Entrusted, old
      <4>8. \A t \in Sessions \ {s} : /\ Apart(k.wrote, session[t].wrote)
                                      /\ Apart(session[t].wrote, k.wrote)
        BY <4>1, <4>6, <4>7 DEF Apart
      <4>. QED  BY <4>5, <4>8
    <3>. QED  BY <1>3, <3>1, <3>2, <3>3 DEF Carries
  <2>3. \A t \in Sessions : Secured(registry, session'[t].wrote)
    BY <2>1, <2>2 DEF Entrusted
  <2>4. \A t, u \in Sessions : t # u => Apart(session'[t].wrote, session'[u].wrote)
    BY <2>1, <2>2 DEF Entrusted
  <2>. QED  BY <1>1, <2>3, <2>4 DEF Entrusted
<1>. QED  BY <1>2, <1>3 DEF Moves

LEMMA EntrustedCommits ==
  ASSUME Typed, Entrusted, Commits
  PROVE  Entrusted' /\ Grows(registry, registry')
<1>1. PICK s \in Sessions : Goes(s, Idle) /\ registry' = Overlay(registry, session[s].wrote)
  BY DEF Commits, View
<1>. DEFINE wrote == session[s].wrote
<1>2. /\ registry \in Registry /\ wrote \in Registry /\ None \notin People
      /\ Backed(registry) /\ Secured(registry, wrote)
  BY WrotesTyped DEF Entrusted
<1>. HIDE DEF wrote
<1>3. /\ Backed(registry') /\ Grows(registry, registry')
      /\ \A k \in Pairs : wrote.owner[k] = None => registry'.owner[k] = registry.owner[k]
  BY <1>1, <1>2, CommitKeeps DEF wrote
<1>4. session'[s] = Idle /\ \A t \in Sessions \ {s} : session'[t] = session[t]
  BY <1>1 DEF Typed, TypeOK, Goes
<1>5. ASSUME NEW t \in Sessions \ {s}
      PROVE  Secured(registry', session[t].wrote)
  <2>1. Apart(wrote, session[t].wrote)
    BY <1>5 DEF Entrusted, wrote
  <2>2. \A k \in Pairs : session[t].wrote.owner[k] # None => registry'.owner[k] = registry.owner[k]
    BY <1>3, <2>1 DEF Apart
  <2>3. session[t].wrote \in Registry /\ Secured(registry, session[t].wrote)
    BY WrotesTyped DEF Entrusted
  <2>. QED  BY <1>2, <1>3, <2>2, <2>3, GrowsOn
<1>6. \A t \in Sessions : Secured(registry', session'[t].wrote)
  BY <1>4, <1>5, EmptyKeeps, NothingTyped
<1>7. \A t, u \in Sessions : t # u => Apart(session'[t].wrote, session'[u].wrote)
  BY <1>4, EmptyKeeps, NothingTyped DEF Entrusted
<1>. QED  BY <1>3, <1>6, <1>7 DEF Entrusted

LEMMA EntrustedResolves ==
  ASSUME Typed, Entrusted, Resolves
  PROVE  Entrusted' /\ Grows(registry, registry')
<1>1. PICK p, row, keys : Settles(p, row, keys)
  BY DEF Resolves
<1>2. session' = session
  BY DEF Resolves
<1>3. /\ registry \in Registry /\ None \notin People /\ Backed(registry)
  BY WrotesTyped DEF Entrusted
<1>4. \A f \in Aliases : row[f] # None => <<f, row[f]>> \in keys \/ registry.owner[<<f, row[f]>>] = p
  BY <1>1, <1>3 DEF Settles, Backed
<1>5. /\ Backed(registry') /\ Grows(registry, registry')
      /\ \A k \in Pairs : k \notin keys => registry'.owner[k] = registry.owner[k]
  BY <1>1, <1>3, <1>4, WritingBacks DEF Settles
<1>6. ASSUME NEW t \in Sessions
      PROVE  Secured(registry', session[t].wrote)
  <2>1. \A k \in Pairs : session[t].wrote.owner[k] # None => registry'.owner[k] = registry.owner[k]
    BY <1>1, <1>5 DEF Settles
  <2>2. session[t].wrote \in Registry /\ Secured(registry, session[t].wrote)
    BY WrotesTyped DEF Entrusted
  <2>. QED  BY <1>3, <1>5, <2>1, <2>2, GrowsOn
<1>. QED  BY <1>2, <1>5, <1>6 DEF Entrusted

-----------------------------------------------------------------------------
(* The theorems.                                                            *)

Held == Typed /\ Once /\ Entrusted

LEMMA InitHeld == Init => Held
<1>. SUFFICES ASSUME Init PROVE Held
  OBVIOUS
<1>1. \A s \in Sessions : session[s] = Idle
  BY DEF Init
<1>2. Once
  BY <1>1, NothingTyped DEF Init, Once, AppliedOnce, Holds
<1>3. Backed(registry)
  BY DEF Init, Backed, EmptyRegistry, NoPerson, Aliases
<1>4. Entrusted
  BY <1>1, <1>3, EmptyKeeps, NothingTyped DEF Entrusted
<1>. QED  BY <1>2, <1>4, InitTyped DEF Held

LEMMA StepHeld == Held /\ [Next]_vars => Held' /\ Grows(registry, registry')
<1>. SUFFICES ASSUME Held, [Next]_vars PROVE Held' /\ Grows(registry, registry')
  OBVIOUS
<1>1. Typed' /\ (Moves \/ Commits \/ Resolves)
  BY StepTyped DEF Held
<1>2. CASE Moves
  BY <1>1, <1>2, OnceMoves, EntrustedMoves DEF Held, Moves, Grows
<1>3. CASE Commits
  BY <1>1, <1>3, OnceCommits, EntrustedCommits DEF Held
<1>4. CASE Resolves
  BY <1>1, <1>4, OnceResolves, EntrustedResolves DEF Held
<1>. QED  BY <1>1, <1>2, <1>3, <1>4

LEMMA AlwaysHeld == Spec => []Held
<1>1. Init => Held
  BY InitHeld
<1>2. Held /\ [Next]_vars => Held'
  BY StepHeld
<1>. QED  BY <1>1, <1>2, PTL DEF Spec

(* Every table and every open transaction of the imports keeps its type.    *)
THEOREM RosterTyped == Spec => []TypeOK
<1>1. Held => TypeOK
  BY DEF Held, Typed
<1>. QED  BY <1>1, AlwaysHeld, PTL

(* However imports, retries, stale remappings and resolutions interleave,   *)
(* a person's primary e-mail and phone are identifiers of that person, an   *)
(* import's rows reach the registry at most once, and an identifier given   *)
(* to a person is never given to another: confirm_import writes under the   *)
(* lock of the import and of the people and identifiers it touches.         *)
THEOREM RosterKept == Spec => RegistryInOrder
<1>1. Held => PrimaryBacked /\ AppliedOnce
  BY DEF Held, Once, Entrusted, Backed, PrimaryBacked
<1>2. Held /\ [Next]_vars =>
        [\A k \in Aliases \X Values :
           registry.owner[k] # None => registry'.owner[k] = registry.owner[k]]_vars
  BY StepHeld DEF Grows, Pairs
<1>. QED  BY <1>1, <1>2, AlwaysHeld, PTL DEF Spec, RegistryInOrder, IdentifiersStay
================================================================================
