SPECIFICATION Spec
CONSTANTS
  c1 = c1
  c2 = c2
  c3 = c3
  c4 = c4
  t1 = t1
  t2 = t2
  Clients = {c1, c2, c3, c4}
  NULL = NULL
  NoText = NoText
  DEFAULT_BUFLEN = 512
  FD_SETSIZE = 3
  Texts = {t1, t2}
  Sends = {"JOIN_ROOM", "LOGIN_USER"}
  Leftover = {"NONE"}
  KeepsCount = FALSE
  MayReset = {}
  AuthMayClose = FALSE
  MaxAsks = 9
SYMMETRY Symmetry
INVARIANTS
  TypeOK
  TableInArrivalOrder
  NobodyLeftNobodyMisled
  RouteExact
  RouteNeverBack
  RepliesGoForward
PROPERTIES
  UsesService
CHECK_DEADLOCK FALSE
