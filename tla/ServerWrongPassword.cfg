SPECIFICATION FairSpec
CONSTANTS
  c1 = c1
  t1 = t1
  Clients = {c1}
  NULL = NULL
  NoText = NoText
  DEFAULT_BUFLEN = 512
  FD_SETSIZE = 2
  Texts = {t1}
  Sends = {"LOGIN_USER"}
  Leftover = {"NONE"}
  KeepsCount = FALSE
  MayReset = {}
  AuthMayClose = FALSE
  MaxAsks = 9
PROPERTIES
  WrongPasswordIsReported
CHECK_DEADLOCK FALSE
