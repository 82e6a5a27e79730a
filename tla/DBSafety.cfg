SPECIFICATION Spec
CONSTANTS
  e1 = e1
  e2 = e2
  p1 = p1
  p2 = p2
  s1 = s1
  Emails = {e1, e2}
  Passwords = {p1, p2}
  Salts = {s1}
  NONE = NONE
  MaxId = 3
  MaxTime = 1
  Mishaps = 2
INVARIANTS
  TypeOK
  UniqueEmails
  OwnersAreDistinct
  OrphansAreMishaps
PROPERTIES
  StampsOwnUntilMishap
  ImplementsStore
