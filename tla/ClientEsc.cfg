SPECIFICATION AnsweredSpec
CONSTANTS
  NoText = NoText
  DEFAULT_BUFLEN = 512
  Words <- Strings
  Lines <- LoginLines
  RoomNames <- OneRoom
  Inbound = {"G_AUTHENTICATE_SUCCESS", "G_AUTHENTICATE_FAILURE"}
  HeapTypes = {}
  MayClose = FALSE
  MayReset = FALSE
  MaxLines = 2
  MaxFrames = 2
PROPERTIES
  EscAlwaysQuits
CHECK_DEADLOCK FALSE
