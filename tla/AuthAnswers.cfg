SPECIFICATION FairSpec
CONSTANTS
  a1 = a1
  a2 = a2
  e1 = e1
  p1 = p1
  Peers = {a1, a2}
  NULL = NULL
  NoText = NoText
  DEFAULT_BUFLEN = 8
  FD_SETSIZE = 3
  Emails = {e1}
  Passwords = {p1}
  Connectable = {TRUE}
  DBMayFail = TRUE
  KeepsCount = TRUE
  MayReset = {a1}
  Waiting = {a2}
  MaxRequests = 3
INVARIANTS
  AnswersAreOwn
PROPERTIES
  OnlyLeaversAreClosed
  ImplementsService
  WaitersAreAnswered
CHECK_DEADLOCK FALSE
