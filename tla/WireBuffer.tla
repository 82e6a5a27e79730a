----------------------------- MODULE WireBuffer -----------------------------
(***************************************************************************)
(* Buffer.cpp and ProtocolMethods.cpp byte by byte: how a frame is written *)
(* into a Buffer, what PayloadToString copies out of it each time it is    *)
(* called, and what ParseBuffer makes of the bytes that arrive.            *)
(*                                                                         *)
(* The state is one "outgoing" Buffer, as each program has it: assigned by *)
(* MakeProtocol, sent from any number of times, assigned again; and the    *)
(* array recv fills at the other end.  Protocol.tla abstracts it to a type *)
(* and a count of readings; AgreesWithProtocol ties the two together.      *)
(*                                                                         *)
(* Bytes are 0 .. 127 (ASCII), so that a word is a nonnegative int.        *)
(***************************************************************************)
EXTENDS Integers, Sequences

CONSTANTS
  DEFAULT_BUFLEN,  \* bytes of a new Buffer, and of every array recv fills
  Strings,         \* the names, rooms and messages that are written
  MaxFrames        \* bound: frames ever made

Byte == 0 .. 127
Heap == 128        \* a byte of an array that nobody has written

ASSUME LengthAssumption == DEFAULT_BUFLEN \in Nat /\ DEFAULT_BUFLEN >= 8
ASSUME StringsAssumption == \A s \in Strings : s \in Seq(Byte)
(* MakeProtocol keeps a frame's length in an int.                          *)
MaxInt == ((127 * 256 + 255) * 256 + 255) * 256 + 255
ASSUME SizesAssumption ==
  \A a, b, c \in Strings : 20 + Len(a) + Len(b) + Len(c) <= MaxInt

ASSUME FramesAssumption == MaxFrames \in Nat

P == INSTANCE Protocol WITH NoText <- <<>>

VARIABLES
  frames,   \* ghost: calls of MakeProtocol
  made,     \* ghost: the arguments of the last MakeProtocol
  outgoing, \* the Buffer: its bytes and its two indexes
  reads,    \* ghost: calls of PayloadToString since then
  payload,  \* the bytes last sent
  recvbuf,  \* the receiver's array
  fault     \* what ended the program; none while it runs

vars == <<frames, made, outgoing, reads, payload, recvbuf, fault>>

-----------------------------------------------------------------------------
(***************************************************************************)
(* Buffer.  "outside" says that a write has gone past the vector's end.    *)
(***************************************************************************)
Zeros(n) == [k \in 1 .. n |-> 0]

(* A seeded fault: the header's eight bytes are not allowed for.           *)
NewBuffer_Short == [bytes |-> Zeros(DEFAULT_BUFLEN - 8), indexRead |-> 0,
                    indexWrite |-> 0, outside |-> FALSE]

NewBuffer == [bytes |-> Zeros(DEFAULT_BUFLEN), indexRead |-> 0,
              indexWrite |-> 0, outside |-> FALSE]

WordBytes(v) ==
  <<(((v \div 256) \div 256) \div 256) % 256, ((v \div 256) \div 256) % 256,
    (v \div 256) % 256, v % 256>>

(* readUInt32BE: the word at offset "at".                                  *)
Word(s, at) ==
  ((s[at + 1] * 256 + s[at + 2]) * 256 + s[at + 3]) * 256 + s[at + 4]

(* s with "item" in place of what is at offset "at"; and s resized.        *)
Overlay(s, at, item) ==
  [k \in 1 .. Len(s) |->
     IF at < k /\ k <= at + Len(item) THEN item[k - at] ELSE s[k]]

Resize(s, n) == [k \in 1 .. n |-> IF k <= Len(s) THEN s[k] ELSE 0]

(* A seeded fault: the vector that grows loses what it held.               *)
Write_Fresh(b, item) ==
  LET room == IF b.indexWrite + Len(item) >= Len(b.bytes)
              THEN Zeros(b.indexWrite + Len(item)) ELSE b.bytes
  IN [b EXCEPT !.bytes = Overlay(room, b.indexWrite, item),
               !.indexWrite = @ + Len(item)]

(* writeUInt32BE(value) and writeUInt8BE(value): the vector grows only     *)
(* when the write starts at its end or behind it.                          *)
Write(b, item) ==
  LET room == IF b.indexWrite >= Len(b.bytes)
              THEN Resize(b.bytes, b.indexWrite + Len(item)) ELSE b.bytes
  IN [b EXCEPT !.bytes = Overlay(room, b.indexWrite, item),
               !.indexWrite = @ + Len(item),
               !.outside = @ \/ b.indexWrite + Len(item) > Len(room)]

(* A seeded fault: the word takes the place of the first bytes.            *)
InsertWord_Over(b, at, v) ==
  [b EXCEPT !.bytes = Overlay(@, at, WordBytes(v)), !.indexWrite = @ + 4]

(* writeUInt32BE(index, value): four bytes are inserted.                   *)
InsertWord(b, at, v) ==
  [b EXCEPT !.bytes = SubSeq(@, 1, at) \o WordBytes(v) \o SubSeq(@, at + 1, Len(@)),
            !.indexWrite = @ + 4]

-----------------------------------------------------------------------------
(***************************************************************************)
(* ProtocolMethods.                                                        *)
(***************************************************************************)
RoomTypes == {"JOIN_ROOM", "LEAVE_ROOM"}
TextTypes == {"SEND_MESSAGE", "RECV_MESSAGE", "LOGIN_USER", "REGISTER_USER"}

(* A string goes behind its length.                                        *)
WriteString(b, s) == Write(Write(b, WordBytes(Len(s))), s)

Body(frame) ==
  CASE frame.type \in RoomTypes ->
         WriteString(WriteString(NewBuffer, frame.userName), frame.room)
    [] frame.type \in TextTypes ->
         WriteString(WriteString(WriteString(NewBuffer, frame.userName), frame.room),
                     frame.message)
    [] OTHER -> WriteString(NewBuffer, frame.message)

MakeProtocol(frame) ==
  LET body == Body(frame)
      sized == InsertWord(body, 0, body.indexWrite + 8)
  IN InsertWord(sized, 4, P!ProtocolType[frame.type])

(* ParseBuffer of the bytes s.  A string that would end behind them is     *)
(* read from whatever is there: "inside" is FALSE.                         *)
End(s, at) == IF at + 4 <= Len(s) THEN at + 4 + Word(s, at) ELSE Len(s) + 1
Upto(s, end) == IF end <= Len(s) THEN end ELSE Len(s)
Text(s, at) == SubSeq(s, at + 5, Upto(s, End(s, at)))

TypeRead(s) ==
  LET code == Word(s, 4)
  IN IF \E k \in 5 .. 8 : s[k] = Heap THEN P!Garbage
     ELSE IF \E t \in P!FrameType : P!ProtocolType[t] = code
     THEN CHOOSE t \in P!FrameType : P!ProtocolType[t] = code
     ELSE P!Garbage

Frame(type, name, room, message) ==
  [type |-> type, userName |-> name, room |-> room, message |-> message]

(* A seeded fault: the room is looked for where the name starts.           *)
Second_Same(s, at) == at
Second(s, at) == End(s, at)

(* The text of a JOIN_ROOM or LEAVE_ROOM is put together from the others.  *)
ParseBuffer(s) ==
  LET type == TypeRead(s)
      second == Second(s, 8)
      third == End(s, second)
  IN CASE type \in RoomTypes ->
            [frame |-> Frame(type, Text(s, 8), Text(s, second), <<>>),
             inside |-> third <= Len(s)]
       [] type \in TextTypes ->
            [frame |-> Frame(type, Text(s, 8), Text(s, second), Text(s, third)),
             inside |-> End(s, third) <= Len(s)]
       [] OTHER ->
            [frame |-> Frame(type, <<>>, <<>>, Text(s, 8)),
             inside |-> End(s, 8) <= Len(s)]

-----------------------------------------------------------------------------
Init ==
  /\ frames = 0
  /\ made = Frame(P!NoType, <<>>, <<>>, <<>>)
  /\ outgoing = NewBuffer
  /\ reads = 0
  /\ payload = <<>>
  /\ recvbuf = [k \in 1 .. DEFAULT_BUFLEN |-> Heap]
  /\ fault = "none"

(* Only what a type carries is an argument that is not empty.              *)
Arguments(type) ==
  IF type \in RoomTypes
  THEN {Frame(type, n, r, <<>>) : n \in Strings, r \in Strings}
  ELSE IF type \in TextTypes
  THEN {Frame(type, n, r, m) : n \in Strings, r \in Strings, m \in Strings}
  ELSE {Frame(type, <<>>, <<>>, m) : m \in Strings}

Make ==
  /\ fault = "none"
  /\ frames < MaxFrames
  /\ frames' = frames + 1
  /\ \E type \in P!FrameType : \E frame \in Arguments(type) :
       /\ made' = frame
       /\ outgoing' = MakeProtocol(frame)
  /\ reads' = 0
  /\ payload' = <<>>
  /\ fault' = IF outgoing'.outside THEN "write_outside" ELSE "none"
  /\ UNCHANGED recvbuf

(* readUInt32BE() and the copy of totalLength bytes.                       *)
CopyOutside(b) ==
  b.indexRead + 4 <= Len(b.bytes) => Word(b.bytes, b.indexRead) > Len(b.bytes)

(* A seeded fault: the read index returns to the frame's start.            *)
Advanced_Rewound(b) == [b EXCEPT !.indexRead = 0]
Advanced(b) == [b EXCEPT !.indexRead = @ + 4]

Copied(b) ==
  LET totalLength == Word(b.bytes, b.indexRead)
  IN [k \in 1 .. Word(b.bytes, 0) |->
        IF k <= totalLength THEN b.bytes[k] ELSE Heap]

(* PayloadToString, a send of readUInt32BE(0) bytes of its copy, and the   *)
(* recv of at most DEFAULT_BUFLEN of them.                                 *)
Send ==
  /\ fault = "none"
  /\ ~CopyOutside(outgoing)
  /\ payload' = Copied(outgoing)
  /\ recvbuf' = Overlay(recvbuf, 0, Copied(outgoing))
  /\ outgoing' = Advanced(outgoing)
  /\ reads' = reads + 1
  /\ UNCHANGED <<frames, made, fault>>

SendOutside ==
  /\ fault = "none"
  /\ CopyOutside(outgoing)
  /\ fault' = "read_outside"
  /\ UNCHANGED <<frames, made, outgoing, reads, payload, recvbuf>>

Next == Make \/ Send \/ SendOutside

Spec == Init /\ [][Next]_vars

-----------------------------------------------------------------------------
(***************************************************************************)
(* Properties.                                                             *)
(***************************************************************************)
IsMade == made.type # P!NoType

(* The strings of a frame, in the order of the comment that begins         *)
(* ProtocolMethods.cpp, and the bytes they should become.                  *)
Parts == IF made.type \in RoomTypes THEN <<made.userName, made.room>>
         ELSE IF made.type \in TextTypes
         THEN <<made.userName, made.room, made.message>>
         ELSE <<made.message>>

(* The bytes the strings and their lengths take, before the header is      *)
(* inserted, and with it.                                                  *)
BodyLength ==
  IF made.type \in RoomTypes THEN 8 + Len(made.userName) + Len(made.room)
  ELSE IF made.type \in TextTypes
  THEN 12 + Len(made.userName) + Len(made.room) + Len(made.message)
  ELSE 4 + Len(made.message)

FrameLength == BodyLength + 8

PartEnd[k \in 0 .. 3] ==
  IF k = 0 THEN 8 ELSE PartEnd[k - 1] + 4 + Len(Parts[k])

IsEncoding(s) ==
  /\ Word(s, 0) = FrameLength
  /\ Word(s, 4) = P!ProtocolType[made.type]
  /\ \A k \in 1 .. Len(Parts) :
       /\ Word(s, PartEnd[k - 1]) = Len(Parts[k])
       /\ SubSeq(s, PartEnd[k - 1] + 5, PartEnd[k]) = Parts[k]

(* A frame whose strings fit in a new Buffer is written inside the vector. *)
FitsStaysInside ==
  IsMade /\ BodyLength <= DEFAULT_BUFLEN => ~outgoing.outside

(* Whatever was written inside the vector, growing it or not, is the       *)
(* encoding of the arguments, and the write index is at its end.           *)
MadeIsEncoding ==
  IsMade /\ ~outgoing.outside =>
    IsEncoding(outgoing.bytes) /\ outgoing.indexWrite = FrameLength

(* The first payload of a frame that fits in the receiver's array is       *)
(* parsed back to the arguments: by a server from the bytes that arrived,  *)
(* by a client from all of its array, whatever earlier frames left there.  *)
(* Of a longer frame more is read than has arrived: ParseBuffer looks at   *)
(* no length but the words it reads.                                       *)
Arrived == SubSeq(payload, 1, Upto(payload, DEFAULT_BUFLEN))

RoundTrip ==
  IsMade /\ reads = 1 =>
    IF FrameLength <= DEFAULT_BUFLEN
    THEN /\ ParseBuffer(Arrived) = [frame |-> made, inside |-> TRUE]
         /\ ParseBuffer(recvbuf) = [frame |-> made, inside |-> TRUE]
    ELSE ~ParseBuffer(Arrived).inside

(* The buffers that a server sends from again: a broadcast, in the name of *)
(* a client, which is empty, or of "Server"; a reply; and a new Buffer.    *)
SentAgain ==
  \/ made.type = "RECV_MESSAGE" /\ Len(made.userName) \in {0, 6}
  \/ made.type \in P!ReplyTypes
  \/ ~IsMade

AbstractBuffer(k) ==
  [type |-> made.type, text |-> <<>>,
   reads |-> IF k < P!SafeReads([type |-> made.type]) THEN k
             ELSE P!SafeReads([type |-> made.type])]

(* Protocol's count of readings says all there is to know of a buffer that *)
(* is sent again: the types a receiver may read, and when a copy may fail. *)
AgreesWithProtocol ==
  SentAgain =>
    /\ reads > 0 /\ IsMade => TypeRead(payload) \in
                                P!TypesOnTheWire(AbstractBuffer(reads - 1))
    /\ reads > 0 /\ ~IsMade => payload = <<>>
    /\ fault = "read_outside" => P!PayloadMayFail(AbstractBuffer(reads))
=============================================================================
