\* Two requests at a time: an approval that read the request before it was withdrawn.
SPECIFICATION Spec
CONSTANTS
  s1 = s1
  s2 = s2
  Sessions = {s1, s2}
  NoSession = NoSession
  Reads = {"review"}
  Kinds = {"employment"}
  Deliveries = {TRUE}
  MaxRounds = 1
  MaxCorrections = 0
  MaxTokens = 1
  MaxEdits = 1
INVARIANT WithdrawalIsFinal
