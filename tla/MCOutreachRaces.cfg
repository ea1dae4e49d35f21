\* Two requests at a time: review, corrections, approval, outreach, answer, withdrawal.
\* Sessions that read the claim or the link without a lock stay out: what they write
\* is neither the request's status nor its corrections.
SPECIFICATION Spec
CONSTANTS
  s1 = s1
  s2 = s2
  Sessions = {s1, s2}
  NoSession = NoSession
  Reads = {"review"}
  Kinds = {"employment", "unlinked"}
  Deliveries = {TRUE}
  MaxRounds = 1
  MaxCorrections = 1
  MaxTokens = 1
  MaxEdits = 1
SYMMETRY Symmetry
INVARIANTS OrganizationStageApproved AwaitedCorrectionIsOpen
PROPERTY WithdrawnStays
