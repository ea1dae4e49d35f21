SPECIFICATION Spec
CONSTANTS
  None = None
  u1 = u1
  u2 = u2
  e1 = e1
  e2 = e2
  t1 = t1
  Users = {u1, u2}
  Emails = {e1, e2}
  Phones = {t1}
  EmailOf <- MCEmailOf
  PhoneOf <- MCPhoneOf
  Persons = {1, 2}
  Calls = {1, 2, 3, 4, 5}
  Invites = {1, 2}
  Requests = {1, 2}
  Claims = {x1}
  Shares = {s1}
  Sections = {"education"}
  Viewers = {w1}
  Views = {1, 2, 3, 4}
  Starts <- MCStarts
INVARIANTS TypeOK PrimaryIsIdentifier OnePersonPerAddress WorkspaceInOrder
PROPERTY NeverTakenBack
CHECK_DEADLOCK FALSE
