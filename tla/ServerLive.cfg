SPECIFICATION FairSpec
CONSTANTS
  c1 = c1
  c2 = c2
  c3 = c3
  t1 = t1
  Clients = {c1, c2, c3}
  NULL = NULL
  NoText = NoText
  DEFAULT_BUFLEN = 512
  FD_SETSIZE = 3
  Texts = {t1}
  Sends = {"SEND_MESSAGE", "LOGIN_USER", "REGISTER_USER"}
  Leftover = {"NONE"}
  KeepsCount = TRUE
  MayReset = {c1}
  AuthMayClose = FALSE
  MaxAsks = 2
PROPERTIES
  WatchedStaysWatched
  WatchedAreServed
  ConnectedAreAccepted
CHECK_DEADLOCK FALSE
