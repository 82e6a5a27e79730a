SPECIFICATION FairSpec
CONSTANTS
  NoText = NoText
  DEFAULT_BUFLEN = 512
  Words <- Strings
  Lines <- UserLines
  RoomNames <- Rooms
  Inbound = {"RECV_MESSAGE", "G_AUTHENTICATE_SUCCESS", "G_AUTHENTICATE_FAILURE", "GARBAGE"}
  HeapTypes = {"NONE", "LOGIN_USER", "G_CREATE_ACCOUNT_SUCCESS"}
  MayClose = TRUE
  MayReset = TRUE
  MaxLines = 3
  MaxFrames = 2
INVARIANTS
  TypeOK
  RoomsMatchWire
  WireIsOrderly
  ShownOnce
  ShownWhileInside
  OneRequestAtATime
PROPERTIES
  EscQuits
  ResetEnds
CHECK_DEADLOCK FALSE
