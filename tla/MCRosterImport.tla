--------------------------- MODULE MCRosterImport ----------------------------
(* Two uploads whose rows overlap: a two-row roster with a repeated value, and a *)
(* single row for the same person under another e-mail.                          *)
EXTENDS RosterImport, TLC

CONSTANTS i1, i2, v1, v2, u1

Cell(n, i, e, p) == ("name" :> n) @@ ("id" :> i) @@ ("email" :> e) @@ ("phone" :> p)
Source(cells) == [raw |-> cells, bad |-> FALSE, skipped |-> FALSE]
Automatic == [fields |-> {"name", "id", "email"}, ambiguous |-> {}]
MCFiles ==
  i1 :> {[type |-> "employee", mapping |-> Automatic,
          rows |-> <<Source(Cell(v1, v1, v1, None)), Source(Cell(v2, None, v2, None))>>]}
  @@ i2 :> {[type |-> "employee", mapping |-> Automatic,
             rows |-> <<Source(Cell(v1, None, v2, None)), Source(Cell(v2, v1, v1, None))>>]}
MCRemappings == {{"name", "email"}, {"name"}}
MCMaxRemaps == i1 :> 2 @@ i2 :> 0
MCContacts == {[user |-> u1, email |-> v1, phone |-> None]}
==============================================================================
