SPECIFICATION Spec
CONSTANTS
  None = None
  u1 = u1
  e1 = e1
  p1 = p1
  s1 = s1
  d1 = d1
  h1 = h1
  x1 = x1
  jpg = jpg
  Google = google
  Users = {u1, u2}
  Emails = {e1, e2}
  Phones = {p1}
  Providers = {google, linkedin}
  Signups = {s1, s2}
  Tokens = {t1, t2}
  Resets = {k1, k2}
  Shares = {h1, h2}
  Formats = {jpg, gif}
  Unfit = {gif}
  Spellings = {x1, x2}
  MaxEvents = 3
  Documents = {d1, d2}
  Requests = {q1}
  Calls = {c1, c2, c3}
  MaxTries = 1
  MaxSends = 1
  Starts <- MCStarts
SYMMETRY Symmetric
INVARIANTS TypeOK SessionsInOrder ErasedForGood
PROPERTY CompletedStays
CHECK_DEADLOCK FALSE
