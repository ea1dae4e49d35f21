SPECIFICATION Spec
CONSTANTS
  None = None
  i1 = i1
  i2 = i2
  v1 = v1
  v2 = v2
  u1 = u1
  People = {p1, p2}
  Values = {v1, v2}
  Users = {u1}
  Imports = {i1, i2}
  Sessions = {s1, s2}
  Resolvers = {r1}
  Files <- MCFiles
  Remappings <- MCRemappings
  Contacts <- MCContacts
  MaxFaults = 1
  MaxRemaps <- MCMaxRemaps
INVARIANT TypeOK
PROPERTIES RegistryInOrder EveryConfirmationEnds
CHECK_DEADLOCK FALSE
