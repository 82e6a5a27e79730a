SPECIFICATION Spec
CONSTANTS
  c1 = c1
  c2 = c2
  t1 = t1
  t2 = t2
  Clients = {c1, c2}
  NULL = NULL
  NoText = NoText
  DEFAULT_BUFLEN = 8
  FD_SETSIZE = 3
  Texts = {t1, t2}
  Sends = {"SEND_MESSAGE", "LOGIN_USER"}
  Leftover = {"NONE", "LEAVE_ROOM", "LOGIN_USER"}
  KeepsCount = TRUE
  MayReset = {c1}
  AuthMayClose = TRUE
  MaxAsks = 3
SYMMETRY TextSymmetry
INVARIANTS
  WholeOnce
  EveryoneHearsEverything
  CrashNeedsThreeAsks
PROPERTIES
  HealthyStayConnected
  TornHasNoType
CHECK_DEADLOCK FALSE
