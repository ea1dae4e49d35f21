SPECIFICATION Spec
CONSTANTS
  None = None
  p1 = p1
  p2 = p2
  People = {p1, p2}
  Invites = {1, 2}
  Calls = {1, 2, 3, 4, 5}
  AtATime = 2
  Subjects = {s1, s2}
  Candidates = {s1}
  Cases = {1, 2, 3}
  Incidents = {1}
  Threshold = 2
  k1 = k1
  Keys = {k1, k2}
  Fanned = {k1}
  Notices = {1, 2, 3}
  Starts <- MCStarts
INVARIANTS TypeOK AdministrationInOrder
PROPERTY ClosedForGood
CHECK_DEADLOCK FALSE
