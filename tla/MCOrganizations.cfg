SPECIFICATION Spec
CONSTANTS
  None = None
  o1 = o1
  o2 = o2
  u1 = u1
  u2 = u2
  m1 = m1
  m2 = m2
  m3 = m3
  m4 = m4
  r1 = r1
  r2 = r2
  n1 = n1
  n2 = n2
  d1 = d1
  d2 = d2
  q1 = q1
  Users = {u1, u2, u3}
  Orgs = {o1, o2}
  Rows = {m1, m2, m3, m4}
  Invites = {i1, i2}
  Calls = {1, 2, 3}
  Records = {r1, r2, r3}
  Requests = {q1}
  Names = {n1, n2}
  Domains = {d1, d2}
  Labels <- MCLabels
  Kinds <- MCKinds
  Edits = {1, 2, 3}
  Starts <- MCStarts
  Founders = {u3}
INVARIANTS TypeOK MembershipsInOrder RegistryLinked
PROPERTY MergesKeep
CHECK_DEADLOCK FALSE
