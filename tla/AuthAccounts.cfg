SPECIFICATION Spec
CONSTANTS
  a1 = a1
  a2 = a2
  a3 = a3
  e1 = e1
  p1 = p1
  p2 = p2
  Peers = {a1, a2, a3}
  NULL = NULL
  NoText = NoText
  DEFAULT_BUFLEN = 8
  FD_SETSIZE = 2
  Emails = {e1}
  Passwords = {p1, p2}
  Connectable = {TRUE, FALSE}
  DBMayFail = TRUE
  KeepsCount = FALSE
  MayReset = {}
  Waiting = {a1, a2, a3}
  MaxRequests = 3
SYMMETRY Symmetry
INVARIANTS
  TypeOK
  SuccessIsTrue
  BlankIsHarmlessAtFirst
CHECK_DEADLOCK FALSE
