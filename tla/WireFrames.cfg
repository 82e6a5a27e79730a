SPECIFICATION Spec
CONSTANTS
  DEFAULT_BUFLEN = 24
  Strings <- MCStrings
  MaxFrames = 2
INVARIANTS
  FitsStaysInside
  MadeIsEncoding
  RoundTrip
  AgreesWithProtocol
CHECK_DEADLOCK FALSE
