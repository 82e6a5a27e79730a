SPECIFICATION Spec
CONSTANTS
  c1 = c1
  c2 = c2
  c3 = c3
  t1 = t1
  Clients = {c1, c2, c3}
  NULL = NULL
  NoText = NoText
  DEFAULT_BUFLEN = 512
  FD_SETSIZE = 4
  Texts = {t1}
  Sends = {"LOGIN_USER"}
  Leftover = {"NONE"}
  KeepsCount = FALSE
  MayReset = {}
  AuthMayClose = FALSE
  MaxAsks = 9
SYMMETRY Symmetry
INVARIANTS
  ReplyToAsker
CHECK_DEADLOCK FALSE
