SPECIFICATION Spec
CONSTANTS
  None = None
  x1 = x1
  x2 = x2
  f1 = f1
  f2 = f2
  d1 = d1
  e1 = e1
  e2 = e2
  s1 = s1
  p1 = p1
  p2 = p2
  h1 = h1
  u1 = u1
  Employers = {e1, e2}
  Dates = {1, 2}
  Cases = {x1, x2}
  Files = {f1, f2}
  Names = {"cv"}
  Digests = {h1}
  Calls = {1, 2, 3, 4, 5}
  Resumes = {d1}
  Jobs = {1, 2, 3}
  MaxRetries = 1
  Skills = {s1}
  Places = {1, 2}
  Parsed <- MCParsed
  Changes <- MCChanges
  Keys = {k1, k2}
  Papers = {p1, p2}
  Entries = {r1, r2}
  Sheets = {t1}
  r1 = r1
  r2 = r2
  t1 = t1
  Addresses = {a1}
  Accounts = {b1, b2}
  Snapshots = {1, 2, 3, 4}
  Visits = {1, 2, 3}
  MaxConsents = 2
  Studies = {u1}
  Requests = {1, 2}
  MaxTokens = 2
  MaxEdits = 2
  AtATime = 2
  Items = {1, 2}
  Scopes = {"letters", "grades"}
  Staff = {m1}
  Catalog = {1, 2, 3}
  Implemented = {1, 2}
  Mock = 1
  Runs = {1, 2, 3}
  RegistryOf <- MCRegistryOf
  ModeKept <- MCModeKept
  Starts <- MCStarts
INVARIANTS TypeOK CasesInOrder ResumesInOrder ProfileInOrder StudiesInOrder
PROPERTIES ImportKept StandsAndStays
CHECK_DEADLOCK FALSE
