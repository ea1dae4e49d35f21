\* Requests served one at a time: every handler sees the current rows.
SPECIFICATION Spec
CONSTANTS
  s1 = s1
  Sessions = {s1}
  NoSession = NoSession
  Reads = {"review", "claim", "link"}
  Kinds = {"employment", "unlinked"}
  Deliveries = {TRUE, FALSE}
  MaxRounds = 4
  MaxCorrections = 2
  MaxTokens = 2
  MaxEdits = 2
INVARIANTS TypeOK ServedInOrder
PROPERTIES DispatchedOnce DecisionsAreKept ResponseGivenOnce ImplementsLifecycle
