-------------------------- MODULE WireBuffer_proofs --------------------------
(***************************************************************************)
(* Proofs about WireBuffer, for every buffer length and all strings.       *)
(*                                                                         *)
(* First: a word is read back as it was written, and a frame whose strings *)
(* fit in a new Buffer is written inside the vector.  Then the bytes:      *)
(* Holds says what a Buffer holds while MakeProtocol writes into it, and   *)
(* Encoded what a frame becomes; Layout says where the words and strings   *)
(* of an encoding are, ParseWhole that ParseBuffer finds them there, and   *)
(* ParseCut that it reads past a frame that was cut short.  Last: WireInv, *)
(* which relates Buffer, payload and array to the last call's arguments,   *)
(* and the three invariants that follow from it.                           *)
(***************************************************************************)
EXTENDS WireBuffer, SequenceTheorems, TLAPS

BufferType == [bytes : Seq(Int), indexRead : Nat, indexWrite : Nat,
               outside : BOOLEAN]

(* A Buffer that still has the length it was made with.                    *)
Unstretched(b) ==
  b \in BufferType /\ Len(b.bytes) = DEFAULT_BUFLEN /\ ~b.outside

(* What writeUInt32BE writes, readUInt32BE reads: for every nonnegative    *)
(* 32-bit integer.                                                         *)
THEOREM WordRoundTrip ==
  ASSUME NEW v \in Nat, ((v \div 256) \div 256) \div 256 < 256
  PROVE  Word(WordBytes(v), 0) = v
<1>. DEFINE C == v \div 256
            B == C \div 256
            A == B \div 256
<1>1. C \in Nat /\ v % 256 = v - 256 * C
  OBVIOUS
<1>2. B \in Nat /\ C % 256 = C - 256 * B
  BY <1>1
<1>3. A \in Nat /\ B % 256 = B - 256 * A
  BY <1>2
<1>4. A % 256 = A
  BY <1>3
<1>5. WordBytes(v) = <<A, B - 256 * A, C - 256 * B, v - 256 * C>>
  <2>1. WordBytes(v) = <<A % 256, B % 256, C % 256, v % 256>>
    BY DEF WordBytes
  <2>. QED
    BY <1>1, <1>2, <1>3, <1>4, <2>1
<1>. HIDE DEF A, B, C
<1>6. Word(WordBytes(v), 0) =
        ((A * 256 + (B - 256 * A)) * 256 + (C - 256 * B)) * 256 + (v - 256 * C)
  BY <1>5 DEF Word
<1>. QED
  BY <1>1, <1>2, <1>3, <1>6

(* The four fields that make a Buffer.                                     *)
LEMMA BufferRecord ==
  ASSUME NEW s \in Seq(Int), NEW r \in Nat, NEW w \in Nat
  PROVE  [bytes |-> s, indexRead |-> r, indexWrite |-> w, outside |-> FALSE]
           \in BufferType
  BY DEF BufferType

(* A new Buffer has the length it should have.                             *)
LEMMA NewIsUnstretched == Unstretched(NewBuffer)
  BY LengthAssumption DEF Unstretched, NewBuffer, BufferType, Zeros

(* A copy into the vector leaves its length alone.                         *)
LEMMA OverlayType ==
  ASSUME NEW s \in Seq(Int), NEW at \in Nat, NEW item \in Seq(Int)
  PROVE  Overlay(s, at, item) \in Seq(Int) /\ Len(Overlay(s, at, item)) = Len(s)
  BY DEF Overlay

(* A write that fits in a new Buffer makes it no longer.                   *)
LEMMA WriteFits ==
  ASSUME NEW b, Unstretched(b), NEW item \in Seq(Int),
         b.indexWrite + Len(item) <= DEFAULT_BUFLEN
  PROVE  Unstretched(Write(b, item)) /\
         Write(b, item).indexWrite = b.indexWrite + Len(item)
<1>. DEFINE room == IF b.indexWrite >= Len(b.bytes)
                    THEN Resize(b.bytes, b.indexWrite + Len(item)) ELSE b.bytes
<1>1. room \in Seq(Int) /\ Len(room) = DEFAULT_BUFLEN
  <2>1. /\ b.bytes \in Seq(Int) /\ Len(b.bytes) = DEFAULT_BUFLEN
        /\ b.indexWrite \in Nat /\ Len(item) \in Nat /\ DEFAULT_BUFLEN \in Nat
    BY LengthAssumption DEF Unstretched, BufferType
  <2>2. CASE b.indexWrite >= Len(b.bytes)
    <3>1. b.indexWrite + Len(item) = DEFAULT_BUFLEN
      BY <2>1, <2>2
    <3>2. room = Resize(b.bytes, DEFAULT_BUFLEN)
      BY <2>2, <3>1, Zenon
    <3>3. \A k \in 1 .. DEFAULT_BUFLEN : b.bytes[k] \in Int
      BY <2>1
    <3>4. Resize(b.bytes, DEFAULT_BUFLEN) \in Seq(Int)
          /\ Len(Resize(b.bytes, DEFAULT_BUFLEN)) = DEFAULT_BUFLEN
      BY <2>1, <3>3 DEF Resize
    <3>. QED
      BY <3>2, <3>4
  <2>. QED
    BY <2>1, <2>2, Zenon
<1>2. Overlay(room, b.indexWrite, item) \in Seq(Int)
      /\ Len(Overlay(room, b.indexWrite, item)) = DEFAULT_BUFLEN
  BY <1>1, OverlayType DEF Unstretched, BufferType
<1>3. Write(b, item) =
        [b EXCEPT !.bytes = Overlay(room, b.indexWrite, item),
                  !.indexWrite = b.indexWrite + Len(item),
                  !.outside = b.outside \/ b.indexWrite + Len(item) > Len(room)]
  BY Zenon DEF Write
<1>. HIDE DEF room
<1>4. /\ Write(b, item).bytes = Overlay(room, b.indexWrite, item)
      /\ Write(b, item).indexWrite = b.indexWrite + Len(item)
      /\ Write(b, item).indexRead = b.indexRead
      /\ Write(b, item).outside = (b.outside \/ b.indexWrite + Len(item) > Len(room))
  BY <1>3 DEF Unstretched, BufferType
<1>5. Write(b, item).outside = FALSE
  BY <1>1, <1>4, LengthAssumption DEF Unstretched, BufferType
<1>6. Write(b, item) \in BufferType
  <2>1. DOMAIN b = {"bytes", "indexRead", "indexWrite", "outside"}
    BY DEF Unstretched, BufferType
  <2>2. DOMAIN Write(b, item) = DOMAIN b
    BY <1>3
  <2>3. Write(b, item) =
          [bytes |-> Write(b, item).bytes, indexRead |-> b.indexRead,
           indexWrite |-> b.indexWrite + Len(item), outside |-> FALSE]
    BY <1>3, <1>4, <1>5, <2>1, <2>2 DEF Unstretched, BufferType
  <2>4. b.indexRead \in Nat /\ b.indexWrite + Len(item) \in Nat
    BY DEF Unstretched, BufferType
  <2>5. Write(b, item).bytes \in Seq(Int)
    BY <1>2, <1>4
  <2>. QED
    BY <2>3, <2>4, <2>5, BufferRecord, Zenon
<1>. QED
  BY <1>2, <1>4, <1>5, <1>6 DEF Unstretched

(* A word is four bytes.                                                   *)
LEMMA WordBytesType ==
  ASSUME NEW v \in Nat
  PROVE  WordBytes(v) \in Seq(Int) /\ Len(WordBytes(v)) = 4
<1>1. \A n \in Nat : n \div 256 \in Nat /\ n % 256 \in Int
  OBVIOUS
<1>. QED
  BY <1>1 DEF WordBytes

(* A string with its length goes into what is left of the vector.          *)
LEMMA WriteStringFits ==
  ASSUME NEW b, Unstretched(b), NEW s \in Seq(Int),
         b.indexWrite + 4 + Len(s) <= DEFAULT_BUFLEN
  PROVE  Unstretched(WriteString(b, s)) /\
         WriteString(b, s).indexWrite = b.indexWrite + 4 + Len(s)
<1>. DEFINE word == WordBytes(Len(s))
            half == Write(b, word)
<1>1. word \in Seq(Int) /\ Len(word) = 4 /\ Len(s) \in Nat
  BY WordBytesType
<1>2. b.indexWrite \in Nat
  BY DEF Unstretched, BufferType
<1>. HIDE DEF word
<1>3. Unstretched(half) /\ half.indexWrite = b.indexWrite + 4
  <2>1. b.indexWrite + Len(word) <= DEFAULT_BUFLEN
    BY <1>1, <1>2, LengthAssumption
  <2>2. Unstretched(half) /\ half.indexWrite = b.indexWrite + Len(word)
    BY <1>1, <2>1, WriteFits, Zenon DEF half
  <2>. QED
    BY <1>1, <2>2
<1>. HIDE DEF half
<1>4. Unstretched(Write(half, s))
      /\ Write(half, s).indexWrite = half.indexWrite + Len(s)
  BY <1>1, <1>2, <1>3, WriteFits, LengthAssumption
<1>5. WriteString(b, s) = Write(half, s)
  BY DEF WriteString, half, word
<1>. QED
  BY <1>1, <1>2, <1>3, <1>4, <1>5

(* The arguments of MakeProtocol.                                          *)
LEMMA ArgumentsType ==
  ASSUME NEW type, NEW frame \in Arguments(type)
  PROVE  /\ frame.type = type
         /\ frame.userName \in Seq(Int)
         /\ frame.room \in Seq(Int)
         /\ frame.message \in Seq(Int)
<1>1. ASSUME NEW s \in Strings PROVE s \in Seq(Int)
  <2>1. s \in Seq(Byte)
    BY StringsAssumption
  <2>2. Byte \subseteq Int
    BY DEF Byte
  <2>. QED
    BY <2>1, <2>2, SeqMonotonic
<1>2. <<>> \in Seq(Int)
  OBVIOUS
<1>3. PICK n \in Strings \cup {<<>>}, r \in Strings \cup {<<>>},
           m \in Strings \cup {<<>>} : frame = Frame(type, n, r, m)
  BY DEF Arguments
<1>4. n \in Seq(Int) /\ r \in Seq(Int) /\ m \in Seq(Int)
  BY <1>1, <1>2
<1>. QED
  BY <1>3, <1>4 DEF Frame

(* BodyLength of any frame.                                                *)
Size(frame) ==
  IF frame.type \in RoomTypes THEN 8 + Len(frame.userName) + Len(frame.room)
  ELSE IF frame.type \in TextTypes
  THEN 12 + Len(frame.userName) + Len(frame.room) + Len(frame.message)
  ELSE 4 + Len(frame.message)

(* The strings of a frame go into a new Buffer they fit in.                *)
LEMMA BodyFits ==
  ASSUME NEW frame, Size(frame) <= DEFAULT_BUFLEN,
         frame.userName \in Seq(Int), frame.room \in Seq(Int),
         frame.message \in Seq(Int)
  PROVE  Unstretched(Body(frame)) /\ Body(frame).indexWrite = Size(frame)
<1>. DEFINE one == WriteString(NewBuffer, frame.userName)
            two == WriteString(one, frame.room)
            three == WriteString(two, frame.message)
            l == Len(frame.userName)
            m == Len(frame.room)
            n == Len(frame.message)
<1>1. l \in Nat /\ m \in Nat /\ n \in Nat /\ DEFAULT_BUFLEN \in Nat
  BY LengthAssumption
<1>2. NewBuffer.indexWrite = 0
  BY DEF NewBuffer
<1>. HIDE DEF l, m, n
<1>3. ASSUME 4 + l <= DEFAULT_BUFLEN
      PROVE  Unstretched(one) /\ one.indexWrite = 4 + l
  <2>1. NewBuffer.indexWrite + 4 + l <= DEFAULT_BUFLEN
    BY <1>1, <1>2, <1>3
  <2>2. Unstretched(one) /\ one.indexWrite = NewBuffer.indexWrite + 4 + l
    BY <2>1, NewIsUnstretched, WriteStringFits, Zenon DEF one, l
  <2>. QED
    BY <1>1, <1>2, <2>2
<1>. HIDE DEF one
<1>4. ASSUME 8 + l + m <= DEFAULT_BUFLEN
      PROVE  Unstretched(two) /\ two.indexWrite = 8 + l + m
  <2>1. Unstretched(one) /\ one.indexWrite = 4 + l
    BY <1>1, <1>3, <1>4
  <2>2. one.indexWrite + 4 + m <= DEFAULT_BUFLEN
    BY <1>1, <1>4, <2>1
  <2>3. Unstretched(two) /\ two.indexWrite = one.indexWrite + 4 + m
    BY <2>1, <2>2, WriteStringFits, Zenon DEF two, m
  <2>. QED
    BY <1>1, <2>1, <2>3
<1>. HIDE DEF two
<1>5. ASSUME 12 + l + m + n <= DEFAULT_BUFLEN
      PROVE  Unstretched(three) /\ three.indexWrite = 12 + l + m + n
  <2>1. Unstretched(two) /\ two.indexWrite = 8 + l + m
    BY <1>1, <1>4, <1>5
  <2>2. two.indexWrite + 4 + n <= DEFAULT_BUFLEN
    BY <1>1, <1>5, <2>1
  <2>3. Unstretched(three) /\ three.indexWrite = two.indexWrite + 4 + n
    BY <2>1, <2>2, WriteStringFits, Zenon DEF three, n
  <2>. QED
    BY <1>1, <2>1, <2>3
<1>. HIDE DEF three
<1>6. CASE frame.type \in RoomTypes
  <2>1. Body(frame) = two
    BY <1>6 DEF Body, two, one, RoomTypes, TextTypes
  <2>2. Size(frame) = 8 + l + m
    BY <1>6, Zenon DEF Size, l, m
  <2>. QED
    BY <1>4, <2>1, <2>2
<1>7. CASE frame.type \notin RoomTypes /\ frame.type \in TextTypes
  <2>1. Body(frame) = three
    BY <1>7 DEF Body, three, two, one, RoomTypes, TextTypes
  <2>2. Size(frame) = 12 + l + m + n
    BY <1>7, Zenon DEF Size, l, m, n
  <2>. QED
    BY <1>5, <2>1, <2>2
<1>8. CASE frame.type \notin RoomTypes /\ frame.type \notin TextTypes
  <2>. DEFINE only == WriteString(NewBuffer, frame.message)
  <2>1. Body(frame) = only /\ Size(frame) = 4 + n
    BY <1>8, Zenon DEF Body, Size, n
  <2>2. NewBuffer.indexWrite + 4 + n <= DEFAULT_BUFLEN
    BY <1>1, <1>2, <2>1
  <2>3. Unstretched(only) /\ only.indexWrite = NewBuffer.indexWrite + 4 + n
    BY <2>2, NewIsUnstretched, WriteStringFits, Zenon DEF n
  <2>. QED
    BY <1>1, <1>2, <2>1, <2>3
<1>. QED
  BY <1>6, <1>7, <1>8

-----------------------------------------------------------------------------
(* FitsStaysInside, with what makes the flag of a Buffer meaningful.       *)
Inv == FitsStaysInside /\ "outside" \in DOMAIN outgoing

(* MakeProtocol returns a Buffer with its flag, whatever it writes.        *)
LEMMA MakeDomain ==
  ASSUME NEW frame
  PROVE  "outside" \in DOMAIN MakeProtocol(frame)
<1>1. \A b, item : DOMAIN Write(b, item) = DOMAIN b
  BY DEF Write
<1>2. \A b, s : DOMAIN WriteString(b, s) = DOMAIN b
  BY <1>1, Zenon DEF WriteString
<1>3. DOMAIN Body(frame) = DOMAIN NewBuffer
  BY <1>2, Zenon DEF Body
<1>4. \A b, at, v : DOMAIN InsertWord(b, at, v) = DOMAIN b
  BY DEF InsertWord
<1>5. DOMAIN MakeProtocol(frame) = DOMAIN Body(frame)
  BY <1>4, Zenon DEF MakeProtocol
<1>6. "outside" \in DOMAIN NewBuffer
  BY DEF NewBuffer
<1>. QED
  BY <1>3, <1>5, <1>6

(* The header is inserted, not written: it sets no flag.                   *)
LEMMA InsertKeepsOutside ==
  ASSUME NEW b, "outside" \in DOMAIN b, NEW at, NEW v
  PROVE  /\ InsertWord(b, at, v).outside = b.outside
         /\ "outside" \in DOMAIN InsertWord(b, at, v)
  BY DEF InsertWord

(* A frame that fits is made inside the vector.                            *)
LEMMA MakeFits ==
  ASSUME NEW type, NEW frame \in Arguments(type), Size(frame) <= DEFAULT_BUFLEN
  PROVE  ~MakeProtocol(frame).outside
<1>. DEFINE body == Body(frame)
            sized == InsertWord(body, 0, body.indexWrite + 8)
<1>1. Unstretched(body)
  BY ArgumentsType, BodyFits
<1>2. ~body.outside /\ "outside" \in DOMAIN body
  BY <1>1 DEF Unstretched, BufferType
<1>. HIDE DEF body
<1>3. ~sized.outside /\ "outside" \in DOMAIN sized
  BY <1>2, InsertKeepsOutside
<1>4. MakeProtocol(frame) = InsertWord(sized, 4, P!ProtocolType[frame.type])
  BY Zenon DEF MakeProtocol, sized, body
<1>. HIDE DEF sized
<1>. QED
  BY <1>3, <1>4, InsertKeepsOutside

(* The theorem: for every buffer length and all strings, a frame whose     *)
(* strings fit in a new Buffer is written inside the vector, and stays so  *)
(* however often it is sent (Buffer.cpp:28 grows nothing in the middle of  *)
(* a string).                                                              *)
THEOREM FittingFramesStayInside == Spec => []FitsStaysInside
<1>1. Init => Inv
  BY DEF Init, Inv, FitsStaysInside, IsMade, Frame, NewBuffer
<1>2. Inv /\ [Next]_vars => Inv'
  <2>. SUFFICES ASSUME Inv, [Next]_vars PROVE Inv'
    OBVIOUS
  <2>1. CASE Make
    <3>1. PICK type \in P!FrameType : \E frame \in Arguments(type) :
            made' = frame /\ outgoing' = MakeProtocol(frame)
      BY <2>1 DEF Make
    <3>2. PICK frame \in Arguments(type) :
            made' = frame /\ outgoing' = MakeProtocol(frame)
      BY <3>1
    <3>3. BodyLength' = Size(frame)
      BY <3>2 DEF BodyLength, Size
    <3>. QED
      BY <3>2, <3>3, MakeFits, MakeDomain DEF Inv, FitsStaysInside
  <2>2. CASE Send
    BY <2>2 DEF Send, Advanced, Inv, FitsStaysInside, IsMade, BodyLength
  <2>3. CASE SendOutside \/ UNCHANGED vars
    BY <2>3 DEF SendOutside, vars, Inv, FitsStaysInside, IsMade, BodyLength
  <2>. QED
    BY <2>1, <2>2, <2>3 DEF Next
<1>. QED
  BY <1>1, <1>2, PTL DEF Spec, Inv

-----------------------------------------------------------------------------
(* The recursive function exists: four values, each from the one before.   *)
LEMMA PartEndDef ==
  PartEnd = [k \in 0 .. 3 |-> IF k = 0 THEN 8 ELSE PartEnd[k - 1] + 4 + Len(Parts[k])]
<1>. DEFINE f1 == 8 + 4 + Len(Parts[1])
            f2 == f1 + 4 + Len(Parts[2])
            f3 == f2 + 4 + Len(Parts[3])
            f == [k \in 0 .. 3 |-> IF k = 0 THEN 8 ELSE IF k = 1 THEN f1 ELSE IF k = 2 THEN f2 ELSE f3]
<1>1. f = [k \in 0 .. 3 |-> IF k = 0 THEN 8 ELSE f[k - 1] + 4 + Len(Parts[k])]
  OBVIOUS
<1>. QED
  BY <1>1 DEF PartEnd

(* Its equations, one string at a time.                                    *)
LEMMA PartEnds ==
  /\ PartEnd[0] = 8
  /\ \A k \in 1 .. 3 : PartEnd[k] = PartEnd[k - 1] + 4 + Len(Parts[k])
  BY PartEndDef

(* b holds the bytes w, and nothing has been read from it.                 *)
Holds(b, w) ==
  /\ b \in BufferType /\ b.indexRead = 0
  /\ w \in Seq(Int) /\ b.indexWrite = Len(w) /\ Len(w) <= Len(b.bytes)
  /\ \A k \in 1 .. Len(w) : b.bytes[k] = w[k]

Room(b, item) ==
  IF b.indexWrite >= Len(b.bytes)
  THEN Resize(b.bytes, b.indexWrite + Len(item)) ELSE b.bytes

(* Write, field by field.                                                  *)
LEMMA WriteFields ==
  ASSUME NEW b \in BufferType, NEW item
  PROVE  /\ Write(b, item).bytes = Overlay(Room(b, item), b.indexWrite, item)
         /\ Write(b, item).indexWrite = b.indexWrite + Len(item)
         /\ Write(b, item).indexRead = b.indexRead
         /\ Write(b, item).outside =
              (b.outside \/ b.indexWrite + Len(item) > Len(Room(b, item)))
         /\ Write(b, item) = [bytes |-> Write(b, item).bytes,
                              indexRead |-> b.indexRead,
                              indexWrite |-> b.indexWrite + Len(item),
                              outside |-> Write(b, item).outside]
<1>1. Write(b, item) =
        [b EXCEPT !.bytes = Overlay(Room(b, item), b.indexWrite, item),
                  !.indexWrite = b.indexWrite + Len(item),
                  !.outside = b.outside \/ b.indexWrite + Len(item) > Len(Room(b, item))]
  BY Zenon DEF Write, Room
<1>. QED
  BY <1>1 DEF BufferType

(* Making room keeps every byte that is there.                             *)
LEMMA RoomType ==
  ASSUME NEW b \in BufferType, NEW item \in Seq(Int)
  PROVE  /\ Room(b, item) \in Seq(Int)
         /\ Len(Room(b, item)) >= Len(b.bytes)
         /\ \A k \in 1 .. Len(b.bytes) : Room(b, item)[k] = b.bytes[k]
<1>1. b.bytes \in Seq(Int) /\ b.indexWrite \in Nat /\ Len(item) \in Nat
      /\ Len(b.bytes) \in Nat
  BY DEF BufferType
<1>2. CASE b.indexWrite >= Len(b.bytes)
  <2>. DEFINE n == b.indexWrite + Len(item)
  <2>1. n \in Nat /\ n >= Len(b.bytes)
    BY <1>1, <1>2
  <2>2. Room(b, item) = Resize(b.bytes, n)
    BY <1>2, Zenon DEF Room
  <2>. HIDE DEF n
  <2>3. \A k \in 1 .. Len(b.bytes) : b.bytes[k] \in Int
    BY <1>1
  <2>4. /\ Resize(b.bytes, n) \in Seq(Int) /\ Len(Resize(b.bytes, n)) = n
        /\ \A k \in 1 .. Len(b.bytes) : Resize(b.bytes, n)[k] = b.bytes[k]
    BY <1>1, <2>1, <2>3 DEF Resize
  <2>. QED
    BY <2>1, <2>2, <2>4
<1>3. CASE ~(b.indexWrite >= Len(b.bytes))
  BY <1>1, <1>3 DEF Room
<1>. QED
  BY <1>2, <1>3

(* What has been written stays, and the item goes behind it, unless it     *)
(* goes outside.                                                           *)
LEMMA WriteHolds ==
  ASSUME NEW b, NEW w, Holds(b, w), NEW item \in Seq(Int),
         ~Write(b, item).outside
  PROVE  Holds(Write(b, item), w \o item) /\ ~b.outside
<1>. DEFINE room == Room(b, item)
            s == Overlay(room, b.indexWrite, item)
<1>1. /\ b \in BufferType /\ w \in Seq(Int) /\ b.indexWrite = Len(w)
      /\ b.indexRead = 0 /\ b.outside \in BOOLEAN
      /\ Len(w) \in Nat /\ Len(item) \in Nat /\ Len(w) <= Len(b.bytes)
      /\ Len(b.bytes) \in Nat
      /\ \A k \in 1 .. Len(w) : b.bytes[k] = w[k]
  BY DEF Holds, BufferType
<1>2. /\ room \in Seq(Int) /\ Len(room) >= Len(b.bytes)
      /\ \A k \in 1 .. Len(b.bytes) : room[k] = b.bytes[k]
  BY <1>1, RoomType
<1>. HIDE DEF room
<1>3. ~b.outside /\ Len(w) + Len(item) <= Len(room)
  <2>1. Write(b, item).outside =
          (b.outside \/ b.indexWrite + Len(item) > Len(room))
    BY <1>1, WriteFields, Zenon DEF room
  <2>2. ~b.outside /\ ~(b.indexWrite + Len(item) > Len(room))
    BY <2>1, Zenon
  <2>. QED
    BY <1>1, <1>2, <2>2
<1>4. /\ s \in Seq(Int) /\ Len(s) = Len(room)
      /\ \A k \in 1 .. Len(room) :
           s[k] = IF Len(w) < k /\ k <= Len(w) + Len(item)
                  THEN item[k - Len(w)] ELSE room[k]
  <2>1. s \in Seq(Int) /\ Len(s) = Len(room)
    BY <1>1, <1>2, OverlayType
  <2>. QED
    BY <1>1, <2>1 DEF Overlay
<1>. HIDE DEF s
<1>5. /\ w \o item \in Seq(Int) /\ Len(w \o item) = Len(w) + Len(item)
      /\ \A k \in 1 .. Len(w) + Len(item) :
           (w \o item)[k] = IF k <= Len(w) THEN w[k] ELSE item[k - Len(w)]
  BY <1>1, ConcatProperties
<1>6. \A k \in 1 .. Len(w) + Len(item) : s[k] = (w \o item)[k]
  <2>. SUFFICES ASSUME NEW k \in 1 .. Len(w) + Len(item)
                PROVE  s[k] = (w \o item)[k]
    OBVIOUS
  <2>1. k \in 1 .. Len(room)
    BY <1>1, <1>2, <1>3
  <2>2. CASE k <= Len(w)
    <3>1. k \in 1 .. Len(w) /\ k \in 1 .. Len(b.bytes)
      BY <1>1, <2>2
    <3>2. s[k] = room[k]
      BY <1>1, <1>4, <2>1, <2>2
    <3>. QED
      BY <1>1, <1>2, <1>5, <2>2, <3>1, <3>2
  <2>3. CASE ~(k <= Len(w))
    BY <1>1, <1>4, <1>5, <2>1, <2>3
  <2>. QED
    BY <2>2, <2>3
<1>7. /\ Write(b, item).bytes = s
      /\ Write(b, item).indexWrite = Len(w) + Len(item)
      /\ Write(b, item).indexRead = 0
      /\ Write(b, item) = [bytes |-> s, indexRead |-> 0,
                           indexWrite |-> Len(w) + Len(item), outside |-> FALSE]
  <2>1. /\ Write(b, item).bytes = s
        /\ Write(b, item).indexWrite = Len(w) + Len(item)
        /\ Write(b, item).indexRead = 0
    BY <1>1, WriteFields, Zenon DEF s, room
  <2>2. Write(b, item) =
          [bytes |-> s, indexRead |-> 0,
           indexWrite |-> Len(w) + Len(item), outside |-> Write(b, item).outside]
    BY <1>1, <2>1, WriteFields, Zenon
  <2>3. Write(b, item).outside \in BOOLEAN
    BY <1>1, WriteFields
  <2>4. Write(b, item).outside = FALSE
    BY <2>3
  <2>. QED
    BY <2>1, <2>2, <2>4, Zenon
<1>8. Write(b, item) \in BufferType
  <2>1. Len(w) + Len(item) \in Nat /\ 0 \in Nat
    BY <1>1
  <2>. QED
    BY <2>1, <1>4, <1>7, BufferRecord, Zenon
<1>. QED
  BY <1>1, <1>2, <1>3, <1>4, <1>5, <1>6, <1>7, <1>8 DEF Holds

(* A string as it travels.                                                 *)
Item(s) == WordBytes(Len(s)) \o s

(* st is s, of length m, followed by t, of length n.                       *)
IsJoin(st, s, t, m, n) ==
  /\ st \in Seq(Int) /\ Len(st) = m + n
  /\ \A k \in 1 .. m : st[k] = s[k]
  /\ \A k \in 1 .. n : st[m + k] = t[k]

(* The library's facts on concatenation, in the form used below.           *)
LEMMA Joined ==
  ASSUME NEW s \in Seq(Int), NEW t \in Seq(Int)
  PROVE  IsJoin(s \o t, s, t, Len(s), Len(t))
  BY ConcatProperties DEF IsJoin

(* A string and its length go behind what the Buffer holds.                *)
LEMMA WriteStringHolds ==
  ASSUME NEW b, NEW w, Holds(b, w), NEW s \in Seq(Int),
         ~WriteString(b, s).outside
  PROVE  Holds(WriteString(b, s), w \o Item(s)) /\ ~b.outside
<1>. DEFINE word == WordBytes(Len(s))
            half == Write(b, word)
<1>1. word \in Seq(Int) /\ w \in Seq(Int) /\ b \in BufferType
  BY WordBytesType DEF Holds
<1>2. WriteString(b, s) = Write(half, s)
  BY Zenon DEF WriteString
<1>. HIDE DEF word
<1>3. half \in BufferType
  <2>1. Overlay(Room(b, word), b.indexWrite, word) \in Seq(Int)
    BY <1>1, RoomType, OverlayType DEF BufferType
  <2>2. /\ b.indexRead \in Nat /\ b.indexWrite + Len(word) \in Nat
        /\ half.outside \in BOOLEAN
    <3>1. b.indexRead \in Nat /\ b.indexWrite \in Nat /\ Len(word) \in Nat
          /\ b.outside \in BOOLEAN
      BY <1>1 DEF BufferType
    <3>2. half.outside = (b.outside \/ b.indexWrite + Len(word) > Len(Room(b, word)))
      BY <1>1, WriteFields, Zenon
    <3>. QED
      BY <3>1, <3>2
  <2>. QED
    BY <1>1, <2>1, <2>2, WriteFields DEF BufferType
<1>4. ~half.outside
  <2>1. half.outside \in BOOLEAN
    BY <1>3 DEF BufferType
  <2>2. Write(half, s).outside =
          (half.outside \/ half.indexWrite + Len(s) > Len(Room(half, s)))
    BY <1>3, WriteFields, Zenon
  <2>. QED
    BY <1>2, <2>1, <2>2
<1>5. Holds(half, w \o word) /\ ~b.outside
  BY <1>1, <1>4, WriteHolds
<1>. HIDE DEF half
<1>6. Holds(Write(half, s), (w \o word) \o s)
  BY <1>2, <1>5, WriteHolds
<1>7. (w \o word) \o s = w \o (word \o s)
  BY <1>1, ConcatAssociative
<1>. QED
  BY <1>2, <1>5, <1>6, <1>7 DEF Item, word

(* The bytes of a string with its length.                                  *)
LEMMA ItemType ==
  ASSUME NEW s \in Seq(Int)
  PROVE  Item(s) \in Seq(Int) /\ Len(Item(s)) = 4 + Len(s)
<1>1. WordBytes(Len(s)) \in Seq(Int) /\ Len(WordBytes(Len(s))) = 4
  BY WordBytesType
<1>2. IsJoin(Item(s), WordBytes(Len(s)), s, 4, Len(s))
  BY <1>1, Joined DEF Item
<1>. QED
  BY <1>2 DEF IsJoin

(* A word goes in between what is before it and what is behind it.         *)
LEMMA InsertHolds ==
  ASSUME NEW b, NEW u \in Seq(Int), NEW w \in Seq(Int), Holds(b, u \o w),
         NEW v \in Nat
  PROVE  Holds(InsertWord(b, Len(u), v), u \o (WordBytes(v) \o w))
<1>. DEFINE word == WordBytes(v)
            l == Len(u)
            m == Len(b.bytes)
            head == SubSeq(b.bytes, 1, l)
            tail == SubSeq(b.bytes, l + 1, m)
            hw == head \o word
            ww == word \o w
            s == hw \o tail
            t == u \o ww
<1>1. word \in Seq(Int) /\ Len(word) = 4 /\ l \in Nat /\ Len(w) \in Nat
  BY WordBytesType
<1>2. IsJoin(u \o w, u, w, l, Len(w))
  BY Joined
<1>3. /\ b \in BufferType /\ b.bytes \in Seq(Int) /\ m \in Nat
      /\ b.indexRead = 0 /\ b.indexWrite = l + Len(w) /\ l + Len(w) <= m
      /\ \A k \in 1 .. l + Len(w) : b.bytes[k] = (u \o w)[k]
      /\ b.outside \in BOOLEAN
  BY <1>2 DEF Holds, BufferType, IsJoin
<1>4. /\ head \in Seq(Int) /\ Len(head) = l
      /\ \A k \in 1 .. l : head[k] = b.bytes[k]
  <2>1. \A k \in 1 .. l : b.bytes[k] \in Int
    BY <1>1, <1>3
  <2>. QED
    BY <1>1, <2>1, SubSeqProperties
<1>5. /\ tail \in Seq(Int) /\ Len(tail) = m - l
      /\ \A k \in 1 .. m - l : tail[k] = b.bytes[l + k]
  <2>1. \A k \in l + 1 .. m : b.bytes[k] \in Int
    BY <1>1, <1>3
  <2>2. /\ tail \in Seq(Int)
        /\ Len(tail) = IF l + 1 <= m THEN m - (l + 1) + 1 ELSE 0
        /\ \A k \in 1 .. m - (l + 1) + 1 : tail[k] = b.bytes[(l + 1) + k - 1]
    BY <1>1, <1>3, <2>1, SubSeqProperties
  <2>. QED
    BY <1>1, <1>3, <2>2
<1>. HIDE DEF word, l, m, head, tail
<1>6. IsJoin(hw, head, word, l, 4)
  BY <1>1, <1>4, Joined DEF hw
<1>7. IsJoin(s, hw, tail, l + 4, m - l)
  <2>1. hw \in Seq(Int) /\ Len(hw) = l + 4
    BY <1>6 DEF IsJoin
  <2>. HIDE DEF hw
  <2>. QED
    BY <1>5, <2>1, Joined DEF s
<1>8. IsJoin(ww, word, w, 4, Len(w))
  BY <1>1, Joined DEF ww
<1>9. IsJoin(t, u, ww, l, 4 + Len(w))
  <2>1. ww \in Seq(Int) /\ Len(ww) = 4 + Len(w)
    BY <1>8 DEF IsJoin
  <2>. HIDE DEF ww
  <2>. QED
    BY <2>1, Joined DEF l, t
<1>. HIDE DEF s, t, hw, ww
<1>10. \A k \in 1 .. Len(t) : s[k] = t[k]
  <2>. SUFFICES ASSUME NEW k \in 1 .. Len(t) PROVE s[k] = t[k]
    OBVIOUS
  <2>1. k \in 1 .. l + 4 + (m - l) /\ k \in 1 .. l + (4 + Len(w))
    BY <1>1, <1>3, <1>9 DEF IsJoin
  <2>2. CASE k \in 1 .. l
    <3>1. k \in 1 .. l + 4 /\ k \in 1 .. l + Len(w)
      BY <1>1, <2>2
    <3>2. s[k] = hw[k] /\ hw[k] = head[k] /\ head[k] = b.bytes[k]
      BY <1>4, <1>6, <1>7, <2>2, <3>1 DEF IsJoin
    <3>3. t[k] = u[k] /\ b.bytes[k] = u[k]
      BY <1>2, <1>3, <1>9, <2>2, <3>1 DEF IsJoin
    <3>. QED
      BY <3>2, <3>3
  <2>3. ASSUME NEW j \in 1 .. 4, k = l + j PROVE s[k] = t[k]
    <3>1. k \in 1 .. l + 4 /\ j \in 1 .. 4 + Len(w)
      BY <1>1, <2>3
    <3>2. s[k] = hw[k] /\ hw[k] = word[j]
      BY <1>6, <1>7, <2>3, <3>1 DEF IsJoin
    <3>3. t[k] = ww[j] /\ ww[j] = word[j]
      BY <1>8, <1>9, <2>3, <3>1 DEF IsJoin
    <3>. QED
      BY <3>2, <3>3
  <2>4. ASSUME NEW j \in 1 .. Len(w), k = l + 4 + j PROVE s[k] = t[k]
    <3>1. /\ j \in 1 .. m - l /\ 4 + j \in 1 .. 4 + Len(w)
          /\ l + j \in 1 .. l + Len(w) /\ k = l + (4 + j)
      BY <1>1, <1>3, <2>4
    <3>2. s[k] = tail[j] /\ tail[j] = b.bytes[l + j]
      BY <1>5, <1>7, <2>4, <3>1 DEF IsJoin
    <3>3. t[k] = ww[4 + j] /\ ww[4 + j] = w[j]
      BY <1>8, <1>9, <3>1 DEF IsJoin
    <3>4. b.bytes[l + j] = w[j]
      BY <1>2, <1>3, <3>1 DEF IsJoin
    <3>. QED
      BY <3>2, <3>3, <3>4
  <2>5. k \in 1 .. l \/ k - l \in 1 .. 4 \/ k - l - 4 \in 1 .. Len(w)
    BY <1>1, <2>1
  <2>6. k = l + (k - l) /\ k = l + 4 + (k - l - 4)
    BY <1>1, <2>1
  <2>. QED
    BY <2>2, <2>3, <2>4, <2>5, <2>6
<1>11. InsertWord(b, l, v) =
         [bytes |-> s, indexRead |-> 0, indexWrite |-> Len(t),
          outside |-> b.outside]
  <2>1. InsertWord(b, l, v) =
          [b EXCEPT !.bytes = s, !.indexWrite = b.indexWrite + 4]
    BY Zenon DEF InsertWord, s, hw, head, tail, word, m
  <2>2. b.indexWrite + 4 = Len(t)
    BY <1>1, <1>3, <1>9 DEF IsJoin
  <2>. QED
    BY <1>3, <2>1, <2>2 DEF BufferType
<1>12. Len(t) \in Nat /\ Len(t) <= Len(s) /\ 0 \in Nat
  BY <1>1, <1>3, <1>7, <1>9 DEF IsJoin
<1>13. InsertWord(b, l, v) \in BufferType
  BY <1>3, <1>7, <1>11, <1>12 DEF BufferType, IsJoin
<1>14. Holds(InsertWord(b, l, v), t)
  BY <1>7, <1>9, <1>10, <1>11, <1>12, <1>13 DEF Holds, IsJoin
<1>. QED
  BY <1>14 DEF l, t, ww, word

(* The bytes of a frame: its strings, and the two words before them.       *)
EncodedBody(frame) ==
  IF frame.type \in RoomTypes THEN Item(frame.userName) \o Item(frame.room)
  ELSE IF frame.type \in TextTypes
  THEN (Item(frame.userName) \o Item(frame.room)) \o Item(frame.message)
  ELSE Item(frame.message)

Encoded(frame) ==
  WordBytes(Size(frame) + 8)
    \o (WordBytes(P!ProtocolType[frame.type]) \o EncodedBody(frame))

IsFrame(frame) ==
  /\ frame.type \in P!FrameType
  /\ frame.userName \in Seq(Int)
  /\ frame.room \in Seq(Int)
  /\ frame.message \in Seq(Int)

(* Every type has a code from 1 to 12.                                     *)
LEMMA Codes == \A t \in P!FrameType : P!ProtocolType[t] \in 1 .. 12
  BY DEF P!FrameType, P!ProtocolType

(* The size of a frame's body is a number.                                 *)
LEMMA SizeType ==
  ASSUME NEW frame, IsFrame(frame)
  PROVE  Size(frame) \in Nat
<1>. DEFINE l == Len(frame.userName)
            lr == Len(frame.room)
            lm == Len(frame.message)
<1>1. l \in Nat /\ lr \in Nat /\ lm \in Nat
  BY DEF IsFrame
<1>2. Size(frame) = IF frame.type \in RoomTypes THEN 8 + l + lr
                    ELSE IF frame.type \in TextTypes THEN 12 + l + lr + lm
                    ELSE 4 + lm
  BY Zenon DEF Size
<1>. HIDE DEF l, lr, lm
<1>. QED
  BY <1>1, <1>2

(* The body's encoding is as long as its size says.                        *)
LEMMA EncodedBodyType ==
  ASSUME NEW frame, IsFrame(frame)
  PROVE  EncodedBody(frame) \in Seq(Int) /\ Len(EncodedBody(frame)) = Size(frame)
<1>. DEFINE n == Item(frame.userName)
            r == Item(frame.room)
            m == Item(frame.message)
            l == Len(frame.userName)
            lr == Len(frame.room)
            lm == Len(frame.message)
<1>1. /\ n \in Seq(Int) /\ Len(n) = 4 + l
      /\ r \in Seq(Int) /\ Len(r) = 4 + lr
      /\ m \in Seq(Int) /\ Len(m) = 4 + lm
      /\ l \in Nat /\ lr \in Nat /\ lm \in Nat
  <2>1. /\ frame.userName \in Seq(Int) /\ frame.room \in Seq(Int)
        /\ frame.message \in Seq(Int)
    BY DEF IsFrame
  <2>2. \A s \in Seq(Int) :
          Item(s) \in Seq(Int) /\ Len(Item(s)) = 4 + Len(s) /\ Len(s) \in Nat
    BY ItemType
  <2>. QED
    BY <2>1, <2>2, Zenon
<1>2. Size(frame) = IF frame.type \in RoomTypes THEN 8 + l + lr
                    ELSE IF frame.type \in TextTypes THEN 12 + l + lr + lm
                    ELSE 4 + lm
  BY Zenon DEF Size
<1>3. EncodedBody(frame) = IF frame.type \in RoomTypes THEN n \o r
                           ELSE IF frame.type \in TextTypes THEN (n \o r) \o m
                           ELSE m
  BY Zenon DEF EncodedBody
<1>. HIDE DEF n, r, m, l, lr, lm
<1>. DEFINE nr == n \o r
            nrm == nr \o m
<1>4. nr \in Seq(Int) /\ Len(nr) = 8 + l + lr
  <2>1. nr \in Seq(Int) /\ Len(nr) = (4 + l) + (4 + lr)
    BY <1>1, Joined DEF IsJoin
  <2>. QED
    BY <1>1, <2>1
<1>. HIDE DEF nr
<1>5. nrm \in Seq(Int) /\ Len(nrm) = 12 + l + lr + lm
  <2>1. nrm \in Seq(Int) /\ Len(nrm) = (8 + l + lr) + (4 + lm)
    BY <1>1, <1>4, Joined DEF IsJoin
  <2>. QED
    BY <1>1, <2>1
<1>. QED
  BY <1>1, <1>2, <1>3, <1>4, <1>5 DEF nr

(* A new Buffer holds no bytes.                                            *)
LEMMA NewHoldsNothing == Holds(NewBuffer, <<>>)
<1>1. Unstretched(NewBuffer)
  BY NewIsUnstretched
<1>2. /\ NewBuffer \in BufferType /\ Len(NewBuffer.bytes) = DEFAULT_BUFLEN
      /\ NewBuffer.indexRead = 0 /\ NewBuffer.indexWrite = 0
  BY <1>1 DEF Unstretched, NewBuffer
<1>. QED
  BY <1>2, LengthAssumption DEF Holds

(* After the first string it holds just that.                              *)
LEMMA FirstStringHolds ==
  ASSUME NEW s \in Seq(Int), ~WriteString(NewBuffer, s).outside
  PROVE  Holds(WriteString(NewBuffer, s), Item(s))
<1>1. Holds(WriteString(NewBuffer, s), <<>> \o Item(s))
  BY NewHoldsNothing, WriteStringHolds
<1>2. <<>> \o Item(s) = Item(s)
  BY ItemType, ConcatEmptySeq
<1>. QED
  BY <1>1, <1>2

(* A write that went outside stays on record.                              *)
LEMMA OutsideStays ==
  ASSUME NEW b, "outside" \in DOMAIN b, NEW s
  PROVE  /\ ~Write(b, s).outside => ~b.outside
         /\ ~WriteString(b, s).outside => ~b.outside
         /\ "outside" \in DOMAIN WriteString(b, s)
<1>1. ASSUME NEW c, "outside" \in DOMAIN c, NEW t
      PROVE  /\ "outside" \in DOMAIN Write(c, t)
             /\ ~Write(c, t).outside => ~c.outside
  <2>1. DOMAIN Write(c, t) = DOMAIN c
    BY DEF Write
  <2>2. \E x \in BOOLEAN : Write(c, t).outside = (c.outside \/ x)
    <3>. DEFINE room == IF c.indexWrite >= Len(c.bytes)
                        THEN Resize(c.bytes, c.indexWrite + Len(t)) ELSE c.bytes
                x == c.indexWrite + Len(t) > Len(room)
    <3>1. Write(c, t) =
            [c EXCEPT !.bytes = Overlay(room, c.indexWrite, t),
                      !.indexWrite = c.indexWrite + Len(t),
                      !.outside = c.outside \/ x]
      BY Zenon DEF Write
    <3>. HIDE DEF room, x
    <3>2. Write(c, t).outside = (c.outside \/ x)
      BY <1>1, <3>1
    <3>3. (c.outside \/ x) = (c.outside \/ (x = TRUE))
      BY DEF x
    <3>. QED
      BY <3>2, <3>3
  <2>. QED
    BY <1>1, <2>1, <2>2, Zenon
<1>. QED
  BY <1>1, Zenon DEF WriteString

(* A body written inside the vector is its encoding.                       *)
LEMMA BodyHolds ==
  ASSUME NEW frame, IsFrame(frame), ~Body(frame).outside
  PROVE  Holds(Body(frame), EncodedBody(frame))
<1>. DEFINE one == WriteString(NewBuffer, frame.userName)
            two == WriteString(one, frame.room)
            three == WriteString(two, frame.message)
            n == Item(frame.userName)
            r == Item(frame.room)
            m == Item(frame.message)
<1>1. /\ frame.userName \in Seq(Int) /\ frame.room \in Seq(Int)
      /\ frame.message \in Seq(Int)
  BY DEF IsFrame
<1>2. "outside" \in DOMAIN NewBuffer
  BY DEF NewBuffer
<1>3. "outside" \in DOMAIN one /\ "outside" \in DOMAIN two
  BY <1>2, OutsideStays, Zenon
<1>4. ~one.outside => Holds(one, n)
  BY <1>1, FirstStringHolds, Zenon
<1>5. ~two.outside => Holds(two, n \o r)
  BY <1>1, <1>3, <1>4, OutsideStays, WriteStringHolds, Zenon
<1>6. ~three.outside => Holds(three, (n \o r) \o m)
  BY <1>1, <1>3, <1>5, OutsideStays, WriteStringHolds, Zenon
<1>7. ~WriteString(NewBuffer, frame.message).outside
        => Holds(WriteString(NewBuffer, frame.message), m)
  BY <1>1, FirstStringHolds, Zenon
<1>8. CASE frame.type \in RoomTypes
  <2>1. Body(frame) = two
    BY <1>8 DEF Body, RoomTypes, TextTypes
  <2>2. EncodedBody(frame) = n \o r
    BY <1>8, Zenon DEF EncodedBody
  <2>. QED
    BY <1>5, <2>1, <2>2, Zenon
<1>9. CASE frame.type \notin RoomTypes /\ frame.type \in TextTypes
  <2>1. Body(frame) = three
    BY <1>9 DEF Body, RoomTypes, TextTypes
  <2>2. EncodedBody(frame) = (n \o r) \o m
    BY <1>9, Zenon DEF EncodedBody
  <2>. QED
    BY <1>6, <2>1, <2>2, Zenon
<1>10. CASE frame.type \notin RoomTypes /\ frame.type \notin TextTypes
  <2>1. Body(frame) = WriteString(NewBuffer, frame.message)
    BY <1>10, Zenon DEF Body
  <2>2. EncodedBody(frame) = m
    BY <1>10, Zenon DEF EncodedBody
  <2>. QED
    BY <1>7, <2>1, <2>2, Zenon
<1>. QED
  BY <1>8, <1>9, <1>10

(* MakeProtocol: the length and the type go before the strings.            *)
LEMMA MakeHolds ==
  ASSUME NEW frame, IsFrame(frame), ~MakeProtocol(frame).outside
  PROVE  Holds(MakeProtocol(frame), Encoded(frame))
<1>. DEFINE body == Body(frame)
            size == Size(frame) + 8
            code == P!ProtocolType[frame.type]
            e == EncodedBody(frame)
            w == WordBytes(size) \o e
            sized == InsertWord(body, 0, body.indexWrite + 8)
<1>1. "outside" \in DOMAIN body
  <2>1. "outside" \in DOMAIN NewBuffer
    BY DEF NewBuffer
  <2>. QED
    BY <2>1, OutsideStays, Zenon DEF Body
<1>2. MakeProtocol(frame) = InsertWord(sized, 4, code)
  BY Zenon DEF MakeProtocol
<1>3. ~body.outside
  <2>. HIDE DEF body
  <2>1. sized.outside = body.outside /\ "outside" \in DOMAIN sized
    BY <1>1, InsertKeepsOutside
  <2>. HIDE DEF sized, code
  <2>2. InsertWord(sized, 4, code).outside = sized.outside
    BY <2>1, InsertKeepsOutside
  <2>. QED
    BY <1>2, <2>1, <2>2
<1>4. Holds(body, e) /\ e \in Seq(Int) /\ Len(e) = Size(frame)
  BY <1>3, BodyHolds, EncodedBodyType
<1>5. Size(frame) \in Nat /\ size \in Nat /\ code \in Nat
  <2>1. Size(frame) \in Nat
    BY SizeType
  <2>2. code \in 1 .. 12
    BY Codes, Zenon DEF IsFrame
  <2>. QED
    BY <2>1, <2>2
<1>6. body.indexWrite + 8 = size
  BY <1>4 DEF Holds
<1>. HIDE DEF body, size, code, e
<1>7. Holds(sized, w) /\ WordBytes(size) \in Seq(Int) /\ Len(WordBytes(size)) = 4
  <2>1. <<>> \in Seq(Int) /\ Len(<<>>) = 0
    OBVIOUS
  <2>2. WordBytes(size) \in Seq(Int) /\ Len(WordBytes(size)) = 4
    BY <1>5, WordBytesType
  <2>3. w \in Seq(Int)
    BY <1>4, <2>2, Joined DEF IsJoin
  <2>. HIDE DEF w
  <2>4. <<>> \o e = e /\ <<>> \o w = w
    BY <1>4, <2>3, ConcatEmptySeq
  <2>5. Holds(InsertWord(body, Len(<<>>), size), <<>> \o (WordBytes(size) \o e))
    BY <1>4, <1>5, <2>1, <2>4, InsertHolds
  <2>. QED
    BY <1>6, <2>1, <2>2, <2>4, <2>5 DEF w
<1>. HIDE DEF sized
<1>8. Holds(InsertWord(sized, Len(WordBytes(size)), code),
            WordBytes(size) \o (WordBytes(code) \o e))
  BY <1>4, <1>5, <1>7, InsertHolds
<1>9. Encoded(frame) = WordBytes(size) \o (WordBytes(code) \o e)
  BY DEF Encoded, size, code, e
<1>. QED
  BY <1>2, <1>7, <1>8, <1>9, Zenon

(* s and w are the same bytes as far as both go.                           *)
Agree(s, w) ==
  /\ s \in Seq(Int) /\ w \in Seq(Int)
  /\ \A k \in 1 .. Len(w) : k <= Len(s) => s[k] = w[k]

WordAt(w, at, v) ==
  /\ v \in Nat /\ v <= MaxInt /\ at \in Nat /\ w \in Seq(Int) /\ at + 4 <= Len(w)
  /\ \A k \in 1 .. 4 : w[at + k] = WordBytes(v)[k]

ItemAt(w, at, str) ==
  /\ WordAt(w, at, Len(str)) /\ str \in Seq(Int)
  /\ at + 4 + Len(str) <= Len(w)
  /\ \A k \in 1 .. Len(str) : w[at + 4 + k] = str[k]

(* A word of w is read from any s that agrees with w so far.               *)
LEMMA WordIsRead ==
  ASSUME NEW s, NEW w, NEW at, NEW v, Agree(s, w), WordAt(w, at, v),
         at + 4 <= Len(s)
  PROVE  Word(s, at) = v
<1>1. /\ v \in Nat /\ v <= ((127 * 256 + 255) * 256 + 255) * 256 + 255 /\ at \in Nat
      /\ Len(s) \in Nat /\ Len(w) \in Nat /\ at + 4 <= Len(w)
  <2>1. /\ v \in Nat /\ v <= MaxInt /\ at \in Nat /\ s \in Seq(Int)
        /\ w \in Seq(Int) /\ at + 4 <= Len(w)
    BY Zenon DEF WordAt, Agree
  <2>. QED
    BY <2>1 DEF MaxInt
<1>2. ((v \div 256) \div 256) \div 256 < 256
  <2>. DEFINE c == v \div 256
              b == c \div 256
              a == b \div 256
  <2>1. c \in Nat /\ 256 * c <= v
    BY <1>1
  <2>2. b \in Nat /\ 256 * b <= c
    BY <2>1
  <2>3. a \in Nat /\ 256 * a <= b
    BY <2>2
  <2>. HIDE DEF a, b, c
  <2>4. a < 256
    BY <1>1, <2>1, <2>2, <2>3
  <2>. QED
    BY <2>4 DEF a, b, c
<1>3. Word(WordBytes(v), 0) = v
  BY <1>1, <1>2, WordRoundTrip
<1>4. \A k \in 1 .. 4 : s[at + k] = WordBytes(v)[k]
  <2>. SUFFICES ASSUME NEW k \in 1 .. 4 PROVE s[at + k] = WordBytes(v)[k]
    OBVIOUS
  <2>1. at + k \in 1 .. Len(w) /\ at + k <= Len(s)
    BY <1>1
  <2>2. s[at + k] = w[at + k]
    BY <2>1 DEF Agree
  <2>. QED
    BY <2>2 DEF WordAt
<1>5. /\ s[at + 1] = WordBytes(v)[0 + 1] /\ s[at + 2] = WordBytes(v)[0 + 2]
      /\ s[at + 3] = WordBytes(v)[0 + 3] /\ s[at + 4] = WordBytes(v)[0 + 4]
  BY <1>4
<1>. QED
  BY <1>3, <1>5, Zenon DEF Word

(* So is a string with its length, by ParseBuffer's own operators.         *)
LEMMA ItemIsRead ==
  ASSUME NEW s, NEW w, NEW at, NEW str, Agree(s, w), ItemAt(w, at, str),
         at + 4 + Len(str) <= Len(s)
  PROVE  /\ Word(s, at) = Len(str)
         /\ End(s, at) = at + 4 + Len(str)
         /\ SubSeq(s, at + 5, at + 4 + Len(str)) = str
         /\ Text(s, at) = str
<1>1. /\ Len(str) \in Nat /\ at \in Nat /\ Len(s) \in Nat /\ Len(w) \in Nat
      /\ str \in Seq(Int) /\ s \in Seq(Int)
      /\ at + 4 <= Len(s) /\ at + 4 + Len(str) <= Len(w)
  <2>1. /\ at \in Nat /\ s \in Seq(Int) /\ w \in Seq(Int) /\ str \in Seq(Int)
        /\ at + 4 + Len(str) <= Len(w)
    BY Zenon DEF WordAt, ItemAt, Agree
  <2>. QED
    BY <2>1
<1>2. Word(s, at) = Len(str)
  BY <1>1, WordIsRead DEF ItemAt
<1>3. End(s, at) = at + 4 + Len(str)
  BY <1>1, <1>2, Zenon DEF End
<1>4. SubSeq(s, at + 5, at + 4 + Len(str)) = str
  <2>. DEFINE i == at + 5
              j == at + 4 + Len(str)
              t == SubSeq(s, i, j)
  <2>1. /\ i \in Int /\ j \in Int /\ i = at + 5 /\ j = at + 4 + Len(str)
        /\ \A k \in i .. j : s[k] \in Int
    BY <1>1
  <2>. HIDE DEF i, j
  <2>3. /\ t \in Seq(Int)
        /\ Len(t) = IF i <= j THEN j - i + 1 ELSE 0
        /\ \A k \in 1 .. j - i + 1 : t[k] = s[i + k - 1]
    BY <2>1, SubSeqProperties
  <2>. HIDE DEF t
  <2>4. Len(t) = Len(str)
    BY <1>1, <2>1, <2>3
  <2>5. \A k \in 1 .. Len(t) : t[k] = str[k]
    <3>. SUFFICES ASSUME NEW k \in 1 .. Len(t) PROVE t[k] = str[k]
      OBVIOUS
    <3>1. /\ k \in 1 .. j - i + 1 /\ k \in 1 .. Len(str)
          /\ i + k - 1 = at + 4 + k
          /\ at + 4 + k \in 1 .. Len(w) /\ at + 4 + k <= Len(s)
      BY <1>1, <2>1, <2>4
    <3>2. t[k] = s[at + 4 + k]
      BY <2>3, <3>1
    <3>3. s[at + 4 + k] = w[at + 4 + k]
      BY <3>1 DEF Agree
    <3>4. w[at + 4 + k] = str[k]
      BY <3>1 DEF ItemAt
    <3>. QED
      BY <3>2, <3>3, <3>4
  <2>6. t = str
    BY <1>1, <2>3, <2>4, <2>5, SeqEqual
  <2>. QED
    BY <2>6 DEF i, j, t
<1>5. Text(s, at) = str
  BY <1>3, <1>4, Zenon DEF Text, Upto
<1>. QED
  BY <1>2, <1>3, <1>4, <1>5

(* Where the bytes end too early, the end that is read is behind them.     *)
LEMMA ItemIsCut ==
  ASSUME NEW s, NEW w, NEW at, NEW str, Agree(s, w), ItemAt(w, at, str),
         Len(s) < at + 4 + Len(str)
  PROVE  End(s, at) > Len(s) /\ End(s, at) \in Nat
<1>1. Len(str) \in Nat /\ at \in Nat /\ Len(s) \in Nat
  BY DEF Agree, ItemAt, WordAt
<1>2. CASE at + 4 <= Len(s)
  <2>1. Word(s, at) = Len(str)
    BY <1>2, WordIsRead DEF ItemAt
  <2>2. End(s, at) = at + 4 + Len(str)
    BY <1>2, <2>1, Zenon DEF End
  <2>. QED
    BY <1>1, <2>2
<1>3. CASE ~(at + 4 <= Len(s))
  <2>1. End(s, at) = Len(s) + 1
    BY <1>3, Zenon DEF End
  <2>. QED
    BY <1>1, <2>1
<1>. QED
  BY <1>2, <1>3

(* From behind the end nothing is read to its end.                         *)
LEMMA BehindIsCut ==
  ASSUME NEW s \in Seq(Int), NEW at \in Nat, at > Len(s)
  PROVE  End(s, at) > Len(s) /\ End(s, at) \in Nat
<1>1. ~(at + 4 <= Len(s)) /\ Len(s) \in Nat
  OBVIOUS
<1>2. End(s, at) = Len(s) + 1
  BY <1>1, Zenon DEF End
<1>. QED
  BY <1>1, <1>2

-----------------------------------------------------------------------------
(* Where the strings of a frame lie.                                       *)
LEMMA ItemHere ==
  ASSUME NEW str \in Seq(Int), Len(str) <= MaxInt
  PROVE  ItemAt(Item(str), 0, str)
<1>1. WordBytes(Len(str)) \in Seq(Int) /\ Len(WordBytes(Len(str))) = 4
  BY WordBytesType
<1>2. IsJoin(Item(str), WordBytes(Len(str)), str, 4, Len(str))
  BY <1>1, Joined DEF Item
<1>3. Len(str) <= MaxInt /\ Len(str) \in Nat
  OBVIOUS
<1>4. WordAt(Item(str), 0, Len(str))
  <2>1. /\ Item(str) \in Seq(Int) /\ 0 + 4 <= Len(Item(str))
        /\ \A k \in 1 .. 4 : Item(str)[k] = WordBytes(Len(str))[k]
    BY <1>2, <1>3 DEF IsJoin
  <2>2. \A k \in 1 .. 4 : 0 + k = k
    OBVIOUS
  <2>. QED
    BY <1>3, <2>1, <2>2 DEF WordAt
<1>. QED
  BY <1>2, <1>3, <1>4 DEF ItemAt, IsJoin

(* A word stays where it is when bytes follow.                             *)
LEMMA WordBefore ==
  ASSUME NEW w, NEW at, NEW v, WordAt(w, at, v), NEW t \in Seq(Int)
  PROVE  WordAt(w \o t, at, v)
<1>1. /\ w \in Seq(Int) /\ at \in Nat /\ Len(w) \in Nat /\ Len(t) \in Nat
      /\ at + 4 <= Len(w)
  <2>1. w \in Seq(Int) /\ at \in Nat /\ at + 4 <= Len(w)
    BY Zenon DEF WordAt
  <2>. QED
    BY <2>1
<1>. DEFINE wt == w \o t
<1>2. IsJoin(wt, w, t, Len(w), Len(t))
  BY <1>1, Joined
<1>. HIDE DEF wt
<1>3. at + 4 <= Len(wt) /\ wt \in Seq(Int)
  BY <1>1, <1>2 DEF IsJoin
<1>4. \A k \in 1 .. 4 : wt[at + k] = WordBytes(v)[k]
  <2>. SUFFICES ASSUME NEW k \in 1 .. 4 PROVE wt[at + k] = WordBytes(v)[k]
    OBVIOUS
  <2>1. at + k \in 1 .. Len(w)
    BY <1>1
  <2>. QED
    BY <1>2, <2>1 DEF IsJoin, WordAt
<1>. QED
  BY <1>1, <1>3, <1>4 DEF WordAt, wt

(* A string stays where it is when bytes follow.                           *)
LEMMA ItemBefore ==
  ASSUME NEW w, NEW at, NEW str, ItemAt(w, at, str), NEW t \in Seq(Int)
  PROVE  ItemAt(w \o t, at, str)
<1>1. /\ w \in Seq(Int) /\ at \in Nat /\ Len(w) \in Nat /\ Len(t) \in Nat
      /\ str \in Seq(Int) /\ Len(str) \in Nat /\ at + 4 + Len(str) <= Len(w)
      /\ WordAt(w, at, Len(str))
  <2>1. /\ w \in Seq(Int) /\ at \in Nat /\ str \in Seq(Int)
        /\ at + 4 + Len(str) <= Len(w) /\ WordAt(w, at, Len(str))
    BY Zenon DEF ItemAt, WordAt
  <2>. QED
    BY <2>1
<1>. DEFINE wt == w \o t
<1>2. IsJoin(wt, w, t, Len(w), Len(t)) /\ WordAt(wt, at, Len(str))
  BY <1>1, Joined, WordBefore
<1>. HIDE DEF wt
<1>3. at + 4 + Len(str) <= Len(wt)
  BY <1>1, <1>2 DEF IsJoin
<1>4. \A k \in 1 .. Len(str) : wt[at + 4 + k] = str[k]
  <2>. SUFFICES ASSUME NEW k \in 1 .. Len(str) PROVE wt[at + 4 + k] = str[k]
    OBVIOUS
  <2>1. at + 4 + k \in 1 .. Len(w)
    BY <1>1
  <2>. QED
    BY <1>2, <2>1 DEF IsJoin, ItemAt
<1>5. ItemAt(wt, at, str)
  BY <1>1, <1>2, <1>3, <1>4 DEF ItemAt
<1>. QED
  BY <1>5 DEF wt

(* A word moves by the length of what goes before it.                      *)
LEMMA WordBehind ==
  ASSUME NEW w, NEW at, NEW v, WordAt(w, at, v), NEW u \in Seq(Int)
  PROVE  WordAt(u \o w, Len(u) + at, v)
<1>1. /\ w \in Seq(Int) /\ at \in Nat /\ Len(w) \in Nat /\ Len(u) \in Nat
      /\ at + 4 <= Len(w)
  <2>1. w \in Seq(Int) /\ at \in Nat /\ at + 4 <= Len(w)
    BY Zenon DEF WordAt
  <2>. QED
    BY <2>1
<1>. DEFINE uw == u \o w
            l == Len(u)
<1>2. IsJoin(uw, u, w, l, Len(w)) /\ l \in Nat
  BY <1>1, Joined
<1>. HIDE DEF uw, l
<1>3. l + at + 4 <= Len(uw) /\ uw \in Seq(Int) /\ l + at \in Nat
  BY <1>1, <1>2 DEF IsJoin
<1>4. \A k \in 1 .. 4 : uw[l + at + k] = WordBytes(v)[k]
  <2>. SUFFICES ASSUME NEW k \in 1 .. 4 PROVE uw[l + at + k] = WordBytes(v)[k]
    OBVIOUS
  <2>1. at + k \in 1 .. Len(w) /\ l + at + k = l + (at + k)
    BY <1>1, <1>2
  <2>. QED
    BY <1>2, <2>1 DEF IsJoin, WordAt
<1>5. WordAt(uw, l + at, v)
  BY <1>3, <1>4 DEF WordAt
<1>. QED
  BY <1>5 DEF uw, l

(* A string moves by the length of what goes before it.                    *)
LEMMA ItemBehind ==
  ASSUME NEW w, NEW at, NEW str, ItemAt(w, at, str), NEW u \in Seq(Int)
  PROVE  ItemAt(u \o w, Len(u) + at, str)
<1>1. /\ w \in Seq(Int) /\ at \in Nat /\ Len(w) \in Nat /\ Len(u) \in Nat
      /\ str \in Seq(Int) /\ Len(str) \in Nat /\ at + 4 + Len(str) <= Len(w)
      /\ WordAt(w, at, Len(str))
  <2>1. /\ w \in Seq(Int) /\ at \in Nat /\ str \in Seq(Int)
        /\ at + 4 + Len(str) <= Len(w) /\ WordAt(w, at, Len(str))
    BY Zenon DEF ItemAt, WordAt
  <2>. QED
    BY <2>1
<1>. DEFINE uw == u \o w
            l == Len(u)
<1>2. IsJoin(uw, u, w, l, Len(w)) /\ WordAt(uw, l + at, Len(str)) /\ l \in Nat
  BY <1>1, Joined, WordBehind
<1>. HIDE DEF uw, l
<1>3. l + at + 4 + Len(str) <= Len(uw)
  BY <1>1, <1>2 DEF IsJoin
<1>4. \A k \in 1 .. Len(str) : uw[l + at + 4 + k] = str[k]
  <2>. SUFFICES ASSUME NEW k \in 1 .. Len(str) PROVE uw[l + at + 4 + k] = str[k]
    OBVIOUS
  <2>1. at + 4 + k \in 1 .. Len(w) /\ l + at + 4 + k = l + (at + 4 + k)
    BY <1>1, <1>2
  <2>. QED
    BY <1>2, <2>1 DEF IsJoin, ItemAt
<1>5. ItemAt(uw, l + at, str)
  BY <1>1, <1>2, <1>3, <1>4 DEF ItemAt
<1>. QED
  BY <1>5 DEF uw, l

(* The arguments of MakeProtocol, and their length an int.                 *)
IsArgument(frame) ==
  /\ IsFrame(frame)
  /\ Size(frame) + 8 <= MaxInt
  /\ frame.type \in RoomTypes => frame = Frame(frame.type, frame.userName, frame.room, <<>>)
  /\ frame.type \notin RoomTypes /\ frame.type \in TextTypes =>
       frame = Frame(frame.type, frame.userName, frame.room, frame.message)
  /\ frame.type \notin RoomTypes /\ frame.type \notin TextTypes =>
       frame = Frame(frame.type, <<>>, <<>>, frame.message)

(* Whatever MakeProtocol is called with is an argument.                    *)
LEMMA ArgumentsAre ==
  ASSUME NEW type \in P!FrameType, NEW frame \in Arguments(type)
  PROVE  IsArgument(frame) /\ frame.type = type
<1>1. /\ frame.type = type
      /\ frame.userName \in Seq(Int) /\ frame.room \in Seq(Int)
      /\ frame.message \in Seq(Int)
  BY ArgumentsType
<1>2. \A s \in Strings : Len(s) \in Nat
  BY StringsAssumption
<1>3. \A a, b, c \in Strings : 20 + Len(a) + Len(b) + Len(c) <= MaxInt
  BY SizesAssumption
<1>. HIDE DEF MaxInt
<1>4. MaxInt \in Nat
  BY DEF MaxInt
<1>5. CASE type \in RoomTypes
  <2>1. PICK n \in Strings, r \in Strings : frame = Frame(type, n, r, <<>>)
    BY <1>5 DEF Arguments
  <2>2. frame.userName = n /\ frame.room = r /\ frame.message = <<>>
    BY <2>1 DEF Frame
  <2>3. Size(frame) = 8 + Len(n) + Len(r)
    BY <1>1, <1>5, <2>2, Zenon DEF Size
  <2>4. 20 + Len(n) + Len(r) + Len(n) <= MaxInt /\ Len(n) \in Nat /\ Len(r) \in Nat
    BY <1>2, <1>3
  <2>5. Size(frame) + 8 <= MaxInt
    BY <1>4, <2>3, <2>4
  <2>. QED
    BY <1>1, <1>5, <2>1, <2>2, <2>5 DEF IsArgument, IsFrame
<1>6. CASE type \notin RoomTypes /\ type \in TextTypes
  <2>1. PICK n \in Strings, r \in Strings, m \in Strings : frame = Frame(type, n, r, m)
    BY <1>6 DEF Arguments
  <2>2. frame.userName = n /\ frame.room = r /\ frame.message = m
    BY <2>1 DEF Frame
  <2>3. Size(frame) = 12 + Len(n) + Len(r) + Len(m)
    BY <1>1, <1>6, <2>2, Zenon DEF Size
  <2>4. /\ 20 + Len(n) + Len(r) + Len(m) <= MaxInt
        /\ Len(n) \in Nat /\ Len(r) \in Nat /\ Len(m) \in Nat
    BY <1>2, <1>3
  <2>5. Size(frame) + 8 <= MaxInt
    BY <1>4, <2>3, <2>4
  <2>. QED
    BY <1>1, <1>6, <2>1, <2>2, <2>5 DEF IsArgument, IsFrame
<1>7. CASE type \notin RoomTypes /\ type \notin TextTypes
  <2>1. PICK m \in Strings : frame = Frame(type, <<>>, <<>>, m)
    BY <1>7 DEF Arguments
  <2>2. frame.userName = <<>> /\ frame.room = <<>> /\ frame.message = m
    BY <2>1 DEF Frame
  <2>3. Size(frame) = 4 + Len(m)
    BY <1>1, <1>7, <2>2, Zenon DEF Size
  <2>4. 20 + Len(m) + Len(m) + Len(m) <= MaxInt /\ Len(m) \in Nat
    BY <1>2, <1>3
  <2>5. Size(frame) + 8 <= MaxInt
    BY <1>4, <2>3, <2>4
  <2>. QED
    BY <1>1, <1>7, <2>1, <2>2, <2>5 DEF IsArgument, IsFrame
<1>. QED
  BY <1>5, <1>6, <1>7

(* Where the words and the strings of a frame lie.                         *)
LEMMA Layout ==
  ASSUME NEW frame, IsArgument(frame)
  PROVE  LET e == Encoded(frame)
             l == Len(frame.userName)
             r == Len(frame.room)
         IN /\ e \in Seq(Int) /\ Len(e) = Size(frame) + 8
            /\ WordAt(e, 0, Size(frame) + 8)
            /\ WordAt(e, 4, P!ProtocolType[frame.type])
            /\ frame.type \in RoomTypes =>
                 /\ ItemAt(e, 8, frame.userName)
                 /\ ItemAt(e, 12 + l, frame.room)
            /\ frame.type \notin RoomTypes /\ frame.type \in TextTypes =>
                 /\ ItemAt(e, 8, frame.userName)
                 /\ ItemAt(e, 12 + l, frame.room)
                 /\ ItemAt(e, 16 + l + r, frame.message)
            /\ frame.type \notin RoomTypes /\ frame.type \notin TextTypes =>
                 ItemAt(e, 8, frame.message)
<1>. DEFINE size == Size(frame) + 8
            code == P!ProtocolType[frame.type]
            body == EncodedBody(frame)
            cb == WordBytes(code) \o body
            e == WordBytes(size) \o cb
            n == frame.userName
            o == frame.room
            m == frame.message
            l == Len(n)
            r == Len(o)
            lm == Len(m)
<1>1. n \in Seq(Int) /\ o \in Seq(Int) /\ m \in Seq(Int)
  BY DEF IsArgument, IsFrame
<1>2. l \in Nat /\ r \in Nat /\ lm \in Nat
  BY <1>1
<1>3. /\ Size(frame) \in Nat /\ size <= MaxInt /\ size \in Nat
      /\ code <= MaxInt /\ code \in Nat
  <2>1. Size(frame) \in Nat /\ Size(frame) + 8 <= MaxInt
    BY SizeType DEF IsArgument
  <2>2. code \in 1 .. 12
    BY Codes, Zenon DEF IsArgument, IsFrame
  <2>. QED
    BY <2>1, <2>2 DEF MaxInt
<1>4. body \in Seq(Int) /\ Len(body) = Size(frame)
  BY EncodedBodyType DEF IsArgument
<1>5. Size(frame) = IF frame.type \in RoomTypes THEN 8 + l + r
                    ELSE IF frame.type \in TextTypes THEN 12 + l + r + lm
                    ELSE 4 + lm
  BY Zenon DEF Size
<1>6. body = IF frame.type \in RoomTypes THEN Item(n) \o Item(o)
             ELSE IF frame.type \in TextTypes THEN (Item(n) \o Item(o)) \o Item(m)
             ELSE Item(m)
  BY Zenon DEF EncodedBody
<1>7. Size(frame) + 8 <= MaxInt /\ MaxInt \in Nat
  BY DEF IsArgument, MaxInt
<1>8. Encoded(frame) = e
  BY Zenon DEF Encoded
<1>. HIDE DEF size, code, body, cb, e, n, o, m, l, r, lm
<1>9. /\ WordBytes(code) \in Seq(Int) /\ Len(WordBytes(code)) = 4
      /\ WordBytes(size) \in Seq(Int) /\ Len(WordBytes(size)) = 4
  BY <1>3, WordBytesType
<1>10. cb \in Seq(Int) /\ Len(cb) = 4 + Size(frame)
  <2>1. IsJoin(cb, WordBytes(code), body, 4, Size(frame))
    BY <1>4, <1>9, Joined DEF cb
  <2>. QED
    BY <2>1, Zenon DEF IsJoin
<1>11. e \in Seq(Int) /\ Len(e) = 4 + (4 + Size(frame))
  <2>1. IsJoin(e, WordBytes(size), cb, 4, 4 + Size(frame))
    BY <1>9, <1>10, Joined DEF e
  <2>. QED
    BY <2>1, Zenon DEF IsJoin
<1>12. ASSUME NEW v \in Nat, v <= MaxInt PROVE WordAt(WordBytes(v), 0, v)
  <2>1. WordBytes(v) \in Seq(Int) /\ Len(WordBytes(v)) = 4
    BY WordBytesType
  <2>. QED
    BY <1>12, <2>1 DEF WordAt
<1>13. WordAt(e, 0, size)
  BY <1>3, <1>10, <1>12, WordBefore, Zenon DEF e
<1>14. WordAt(e, 4, code)
  <2>1. WordAt(cb, 0, code)
    BY <1>3, <1>4, <1>12, WordBefore, Zenon DEF cb
  <2>2. WordAt(e, 4 + 0, code)
    BY <1>9, <2>1, WordBehind DEF e
  <2>. QED
    BY <2>2
(* A string that lies in the body lies eight bytes further in the frame.   *)
<1>15. ASSUME NEW at \in Nat, NEW str, ItemAt(body, at, str)
       PROVE  ItemAt(e, 8 + at, str)
  <2>1. ItemAt(cb, 4 + at, str)
    BY <1>9, <1>15, ItemBehind DEF cb
  <2>2. ItemAt(e, 4 + (4 + at), str)
    BY <1>9, <2>1, ItemBehind DEF e
  <2>3. 4 + (4 + at) = 8 + at
    OBVIOUS
  <2>. QED
    BY <2>2, <2>3
<1>16. /\ Item(n) \in Seq(Int) /\ Len(Item(n)) = 4 + l
       /\ Item(o) \in Seq(Int) /\ Len(Item(o)) = 4 + r
       /\ Item(m) \in Seq(Int) /\ Len(Item(m)) = 4 + lm
  BY <1>1, ItemType DEF l, r, lm
<1>17. ASSUME frame.type \in RoomTypes \/ frame.type \in TextTypes
       PROVE  ItemAt(e, 8, n) /\ ItemAt(e, 12 + l, o)
  <2>. DEFINE no == Item(n) \o Item(o)
  <2>1. l <= MaxInt /\ r <= MaxInt
    BY <1>2, <1>5, <1>7, <1>17
  <2>2. no \in Seq(Int) /\ Len(no) = (4 + l) + (4 + r)
    BY <1>16, Joined DEF IsJoin
  <2>3. ItemAt(no, 0, n)
    BY <1>1, <1>16, <2>1, ItemHere, ItemBefore, Zenon DEF l
  <2>4. ItemAt(no, 4 + l, o)
    <3>1. ItemAt(Item(o), 0, o)
      BY <1>1, <2>1, ItemHere DEF r
    <3>2. ItemAt(no, (4 + l) + 0, o)
      BY <1>16, <3>1, ItemBehind
    <3>. QED
      BY <1>2, <3>2
  <2>. HIDE DEF no
  <2>5. ItemAt(body, 0, n) /\ ItemAt(body, 4 + l, o)
    <3>1. CASE frame.type \in RoomTypes
      BY <1>6, <2>3, <2>4, <3>1 DEF no
    <3>2. CASE frame.type \notin RoomTypes
      <4>1. body = no \o Item(m)
        BY <1>6, <1>17, <3>2 DEF no
      <4>. QED
        BY <1>16, <2>3, <2>4, <4>1, ItemBefore, Zenon
    <3>. QED
      BY <3>1, <3>2
  <2>6. ItemAt(e, 8 + 0, n) /\ ItemAt(e, 8 + (4 + l), o)
    BY <1>2, <1>15, <2>5
  <2>. QED
    BY <1>2, <2>6
<1>18. ASSUME frame.type \notin RoomTypes, frame.type \in TextTypes
       PROVE  ItemAt(e, 16 + l + r, m)
  <2>. DEFINE no == Item(n) \o Item(o)
  <2>1. lm <= MaxInt
    BY <1>2, <1>5, <1>7, <1>18
  <2>2. no \in Seq(Int) /\ Len(no) = (4 + l) + (4 + r)
    BY <1>16, Joined DEF IsJoin
  <2>. HIDE DEF no
  <2>3. ItemAt(Item(m), 0, m)
    BY <1>1, <2>1, ItemHere DEF lm
  <2>4. ItemAt(no \o Item(m), ((4 + l) + (4 + r)) + 0, m)
    BY <2>2, <2>3, ItemBehind
  <2>5. body = no \o Item(m)
    BY <1>6, <1>18 DEF no
  <2>6. ItemAt(e, 8 + (((4 + l) + (4 + r)) + 0), m)
    BY <1>2, <1>15, <2>4, <2>5
  <2>7. 8 + (((4 + l) + (4 + r)) + 0) = 16 + l + r
    BY <1>2
  <2>. QED
    BY <2>6, <2>7
<1>19. ASSUME frame.type \notin RoomTypes, frame.type \notin TextTypes
       PROVE  ItemAt(e, 8, m)
  <2>1. lm <= MaxInt
    BY <1>2, <1>5, <1>7, <1>19
  <2>2. ItemAt(body, 0, m)
    BY <1>1, <1>6, <1>19, <2>1, ItemHere DEF lm
  <2>3. ItemAt(e, 8 + 0, m)
    BY <1>15, <2>2
  <2>. QED
    BY <2>3
<1>20. Len(e) = Size(frame) + 8
  BY <1>3, <1>11
<1>. QED
  BY <1>8, <1>11, <1>13, <1>14, <1>17, <1>18, <1>19, <1>20, Zenon
     DEF size, code, l, r, n, o, m

(* No two types share a code.                                              *)
LEMMA CodesDiffer ==
  \A t, u \in P!FrameType : P!ProtocolType[t] = P!ProtocolType[u] => t = u
  BY DEF P!FrameType, P!ProtocolType

(* Its four bytes are enough to tell a frame's type.                       *)
LEMMA TypeIsRead ==
  ASSUME NEW frame, IsArgument(frame), NEW s,
         \A k \in 5 .. 8 : s[k] = Encoded(frame)[k]
  PROVE  TypeRead(s) = frame.type
<1>. DEFINE e == Encoded(frame)
            type == frame.type
            code == P!ProtocolType[type]
<1>1. /\ e \in Seq(Int) /\ Len(e) = Size(frame) + 8 /\ Size(frame) \in Nat
      /\ WordAt(e, 4, code)
  BY Layout, SizeType, Zenon DEF IsArgument
<1>2. type \in P!FrameType /\ code \in 1 .. 12
  BY Codes, Zenon DEF IsArgument, IsFrame
<1>. HIDE DEF e
<1>3. Word(e, 4) = code
  <2>1. Agree(e, e) /\ 4 + 4 <= Len(e)
    BY <1>1 DEF Agree
  <2>. QED
    BY <1>1, <2>1, WordIsRead
<1>4. /\ s[4 + 1] = e[4 + 1] /\ s[4 + 2] = e[4 + 2]
      /\ s[4 + 3] = e[4 + 3] /\ s[4 + 4] = e[4 + 4]
  BY DEF e
<1>5. Word(s, 4) = code
  BY <1>3, <1>4, Zenon DEF Word
<1>6. \A k \in 5 .. 8 : s[k] # Heap
  <2>1. WordBytes(code) = <<0, 0, 0, code>>
    BY <1>2 DEF WordBytes
  <2>2. \A k \in 1 .. 4 : e[4 + k] = WordBytes(code)[k]
    BY <1>1, Zenon DEF WordAt
  <2>3. e[4 + 1] = 0 /\ e[4 + 2] = 0 /\ e[4 + 3] = 0 /\ e[4 + 4] = code
    BY <2>1, <2>2
  <2>4. s[5] = 0 /\ s[6] = 0 /\ s[7] = 0 /\ s[8] = code
    BY <1>4, <2>3
  <2>. QED
    BY <1>2, <2>4 DEF Heap
<1>. HIDE DEF code
<1>7. TypeRead(s) = CHOOSE t \in P!FrameType : P!ProtocolType[t] = code
  <2>1. P!ProtocolType[type] = code
    BY DEF code
  <2>. QED
    BY <1>2, <1>5, <1>6, <2>1, Zenon DEF TypeRead
<1>8. ASSUME NEW t \in P!FrameType, P!ProtocolType[t] = code PROVE t = type
  BY <1>2, <1>8, CodesDiffer, Zenon DEF code
<1>9. type \in P!FrameType /\ P!ProtocolType[type] = code
  BY <1>2 DEF code
<1>. QED
  BY <1>7, <1>8, <1>9, Zenon

(* A byte that nobody wrote spoils the type.                               *)
LEMMA TornType ==
  ASSUME NEW s, \E k \in 5 .. 8 : s[k] = Heap
  PROVE  TypeRead(s) = P!Garbage
  BY Zenon DEF TypeRead

(* So are the first eight bytes of its encoding.                           *)
LEMMA TypeOfPrefix ==
  ASSUME NEW frame, IsArgument(frame), NEW s, Agree(s, Encoded(frame)),
         Len(s) >= 8
  PROVE  TypeRead(s) = frame.type
<1>1. Len(Encoded(frame)) = Size(frame) + 8 /\ Size(frame) \in Nat
  BY Layout, SizeType, Zenon DEF IsArgument
<1>2. Len(s) \in Nat
  BY DEF Agree
<1>3. \A k \in 5 .. 8 : k \in 1 .. Len(Encoded(frame)) /\ k <= Len(s)
  BY <1>1, <1>2
<1>4. \A k \in 5 .. 8 : s[k] = Encoded(frame)[k]
  BY <1>3, Zenon DEF Agree
<1>. QED
  BY <1>4, TypeIsRead

(* What ParseBuffer makes of bytes of which its type is known.             *)
LEMMA ParseCases ==
  ASSUME NEW s, NEW type, TypeRead(s) = type
  PROVE  LET second == End(s, 8)
             third == End(s, second)
         IN /\ type \in RoomTypes =>
                 ParseBuffer(s) =
                   [frame |-> Frame(type, Text(s, 8), Text(s, second), <<>>),
                    inside |-> third <= Len(s)]
            /\ type \notin RoomTypes /\ type \in TextTypes =>
                 ParseBuffer(s) =
                   [frame |-> Frame(type, Text(s, 8), Text(s, second), Text(s, third)),
                    inside |-> End(s, third) <= Len(s)]
            /\ type \notin RoomTypes /\ type \notin TextTypes =>
                 ParseBuffer(s) =
                   [frame |-> Frame(type, <<>>, <<>>, Text(s, 8)),
                    inside |-> second <= Len(s)]
<1>1. ~(type \in RoomTypes /\ type \in TextTypes)
  BY DEF RoomTypes, TextTypes
<1>. QED
  BY <1>1 DEF ParseBuffer, Second

(* A whole frame is parsed back to its arguments, whatever lies behind it. *)
LEMMA ParseWhole ==
  ASSUME NEW frame, IsArgument(frame), NEW s, Agree(s, Encoded(frame)),
         Size(frame) + 8 <= Len(s)
  PROVE  ParseBuffer(s) = [frame |-> frame, inside |-> TRUE]
<1>. DEFINE type == frame.type
            e == Encoded(frame)
            l == Len(frame.userName)
            r == Len(frame.room)
            lm == Len(frame.message)
<1>1. /\ l \in Nat /\ r \in Nat /\ lm \in Nat /\ Len(s) \in Nat
      /\ Size(frame) \in Nat
  BY SizeType DEF IsArgument, IsFrame, Agree
<1>2. TypeRead(s) = type
  BY <1>1, TypeOfPrefix
<1>3. Size(frame) = IF type \in RoomTypes THEN 8 + l + r
                    ELSE IF type \in TextTypes THEN 12 + l + r + lm
                    ELSE 4 + lm
  BY Zenon DEF Size
<1>4. Agree(s, e)
  OBVIOUS
<1>. HIDE DEF e, l, r, lm
<1>5. CASE type \in RoomTypes
  <2>1. ItemAt(e, 8, frame.userName) /\ ItemAt(e, 12 + l, frame.room)
    BY <1>5, Layout, Zenon DEF e, l
  <2>2. 8 + 4 + l <= Len(s) /\ 12 + l + 4 + r <= Len(s)
    BY <1>1, <1>3, <1>5
  <2>3. Text(s, 8) = frame.userName /\ End(s, 8) = 8 + 4 + l
    BY <1>4, <2>1, <2>2, ItemIsRead DEF l, r, lm
  <2>4. Text(s, 12 + l) = frame.room /\ End(s, 12 + l) = 12 + l + 4 + r
    BY <1>4, <2>1, <2>2, ItemIsRead DEF l, r, lm
  <2>5. 8 + 4 + l = 12 + l
    BY <1>1
  <2>6. frame = Frame(type, frame.userName, frame.room, <<>>)
    BY <1>5, Zenon DEF IsArgument
  <2>. HIDE DEF type
  <2>7. ParseBuffer(s) = [frame |-> Frame(type, Text(s, 8), Text(s, End(s, 8)), <<>>),
                          inside |-> End(s, End(s, 8)) <= Len(s)]
    BY <1>2, <1>5, ParseCases, Zenon
  <2>8. (End(s, End(s, 8)) <= Len(s)) = TRUE
    BY <2>2, <2>3, <2>4, <2>5
  <2>. QED
    BY <2>3, <2>4, <2>5, <2>6, <2>7, <2>8
<1>6. CASE type \notin RoomTypes /\ type \in TextTypes
  <2>1. /\ ItemAt(e, 8, frame.userName) /\ ItemAt(e, 12 + l, frame.room)
        /\ ItemAt(e, 16 + l + r, frame.message)
    BY <1>6, Layout, Zenon DEF e, l, r
  <2>2. /\ 8 + 4 + l <= Len(s) /\ 12 + l + 4 + r <= Len(s)
        /\ 16 + l + r + 4 + lm <= Len(s)
    BY <1>1, <1>3, <1>6
  <2>3. Text(s, 8) = frame.userName /\ End(s, 8) = 8 + 4 + l
    BY <1>4, <2>1, <2>2, ItemIsRead DEF l, r, lm
  <2>4. Text(s, 12 + l) = frame.room /\ End(s, 12 + l) = 12 + l + 4 + r
    BY <1>4, <2>1, <2>2, ItemIsRead DEF l, r, lm
  <2>5. /\ Text(s, 16 + l + r) = frame.message
        /\ End(s, 16 + l + r) = 16 + l + r + 4 + lm
    BY <1>4, <2>1, <2>2, ItemIsRead DEF l, r, lm
  <2>6. 8 + 4 + l = 12 + l /\ 12 + l + 4 + r = 16 + l + r
    BY <1>1
  <2>7. frame = Frame(type, frame.userName, frame.room, frame.message)
    BY <1>6, Zenon DEF IsArgument
  <2>. HIDE DEF type
  <2>8. ParseBuffer(s) =
          [frame |-> Frame(type, Text(s, 8), Text(s, End(s, 8)), Text(s, End(s, End(s, 8)))),
           inside |-> End(s, End(s, End(s, 8))) <= Len(s)]
    BY <1>2, <1>6, ParseCases, Zenon
  <2>9. (End(s, End(s, End(s, 8))) <= Len(s)) = TRUE
    BY <2>2, <2>3, <2>4, <2>5, <2>6
  <2>. QED
    BY <2>3, <2>4, <2>5, <2>6, <2>7, <2>8, <2>9
<1>7. CASE type \notin RoomTypes /\ type \notin TextTypes
  <2>1. ItemAt(e, 8, frame.message)
    BY <1>7, Layout, Zenon DEF e, l
  <2>2. 8 + 4 + lm <= Len(s)
    BY <1>1, <1>3, <1>7
  <2>3. Text(s, 8) = frame.message /\ End(s, 8) = 8 + 4 + lm
    BY <1>4, <2>1, <2>2, ItemIsRead DEF l, r, lm
  <2>4. frame = Frame(type, <<>>, <<>>, frame.message)
    BY <1>7, Zenon DEF IsArgument
  <2>. HIDE DEF type
  <2>5. ParseBuffer(s) = [frame |-> Frame(type, <<>>, <<>>, Text(s, 8)),
                          inside |-> End(s, 8) <= Len(s)]
    BY <1>2, <1>7, ParseCases, Zenon
  <2>6. (End(s, 8) <= Len(s)) = TRUE
    BY <2>2, <2>3
  <2>. QED
    BY <2>3, <2>4, <2>5, <2>6
<1>. QED
  BY <1>5, <1>6, <1>7

(* Of a frame that did not arrive whole, more is read than has arrived.    *)
LEMMA ParseCut ==
  ASSUME NEW frame, IsArgument(frame), NEW s, Agree(s, Encoded(frame)),
         8 <= Len(s), Len(s) < Size(frame) + 8
  PROVE  ~ParseBuffer(s).inside
<1>. DEFINE type == frame.type
            e == Encoded(frame)
            l == Len(frame.userName)
            r == Len(frame.room)
            lm == Len(frame.message)
            second == End(s, 8)
            third == End(s, second)
<1>1. /\ l \in Nat /\ r \in Nat /\ lm \in Nat /\ Len(s) \in Nat
      /\ Size(frame) \in Nat /\ s \in Seq(Int)
  BY SizeType DEF IsArgument, IsFrame, Agree
<1>2. TypeRead(s) = type
  BY <1>1, TypeOfPrefix
<1>3. Size(frame) = IF type \in RoomTypes THEN 8 + l + r
                    ELSE IF type \in TextTypes THEN 12 + l + r + lm
                    ELSE 4 + lm
  BY Zenon DEF Size
<1>4. Agree(s, e)
  OBVIOUS
<1>. HIDE DEF e, l, r, lm
(* The end of a string is where it lies, or behind what is there.          *)
<1>5. ASSUME NEW at, NEW str, ItemAt(e, at, str), Len(str) \in Nat, at \in Nat
      PROVE  /\ End(s, at) \in Nat
             /\ End(s, at) = at + 4 + Len(str) \/ End(s, at) > Len(s)
  <2>1. CASE at + 4 + Len(str) <= Len(s)
    <3>1. End(s, at) = at + 4 + Len(str)
      BY <1>4, <1>5, <2>1, ItemIsRead
    <3>. QED
      BY <1>5, <3>1
  <2>2. CASE ~(at + 4 + Len(str) <= Len(s))
    <3>1. Len(s) < at + 4 + Len(str)
      BY <1>1, <1>5, <2>2
    <3>. QED
      BY <1>4, <1>5, <3>1, ItemIsCut
  <2>. QED
    BY <2>1, <2>2
<1>6. ASSUME ItemAt(e, 8, frame.userName), ItemAt(e, 12 + l, frame.room)
      PROVE  /\ second \in Nat /\ third \in Nat
             /\ third = 16 + l + r \/ third > Len(s)
  <2>1. second \in Nat /\ (second = 12 + l \/ second > Len(s))
    <3>1. second \in Nat /\ (second = 8 + 4 + l \/ second > Len(s))
      BY <1>1, <1>5, <1>6 DEF l
    <3>. QED
      BY <1>1, <3>1
  <2>2. CASE second = 12 + l
    <3>1. third \in Nat /\ (third = 12 + l + 4 + r \/ third > Len(s))
      BY <1>1, <1>5, <1>6, <2>1, <2>2 DEF r
    <3>. QED
      BY <1>1, <2>1, <3>1
  <2>3. CASE second > Len(s)
    <3>. HIDE DEF second
    <3>. QED
      BY <1>1, <2>1, <2>3, BehindIsCut
  <2>. QED
    BY <2>1, <2>2, <2>3
<1>7. CASE type \in RoomTypes
  <2>1. ItemAt(e, 8, frame.userName) /\ ItemAt(e, 12 + l, frame.room)
    BY <1>7, Layout, Zenon DEF e, l
  <2>2. third \in Nat /\ (third = 16 + l + r \/ third > Len(s))
    BY <1>6, <2>1
  <2>3. (third <= Len(s)) = FALSE
    BY <1>1, <1>3, <1>7, <2>2
  <2>. HIDE DEF type
  <2>4. ParseBuffer(s) = [frame |-> Frame(type, Text(s, 8), Text(s, second), <<>>),
                          inside |-> third <= Len(s)]
    BY <1>2, <1>7, ParseCases, Zenon
  <2>5. ParseBuffer(s).inside = (third <= Len(s))
    BY <2>4
  <2>. QED
    BY <2>3, <2>5, Zenon
<1>8. CASE type \notin RoomTypes /\ type \in TextTypes
  <2>1. /\ ItemAt(e, 8, frame.userName) /\ ItemAt(e, 12 + l, frame.room)
        /\ ItemAt(e, 16 + l + r, frame.message)
    BY <1>8, Layout, Zenon DEF e, l, r
  <2>2. third \in Nat /\ (third = 16 + l + r \/ third > Len(s))
    BY <1>6, <2>1
  <2>. HIDE DEF third
  <2>3. /\ End(s, third) \in Nat
        /\ End(s, third) = 16 + l + r + 4 + lm \/ End(s, third) > Len(s)
    <3>1. CASE third = 16 + l + r
      BY <1>1, <1>5, <2>1, <2>2, <3>1 DEF lm
    <3>2. CASE third > Len(s)
      BY <1>1, <2>2, <3>2, BehindIsCut
    <3>. QED
      BY <2>2, <3>1, <3>2
  <2>4. (End(s, third) <= Len(s)) = FALSE
    BY <1>1, <1>3, <1>8, <2>3
  <2>. HIDE DEF type
  <2>5. ParseBuffer(s) =
          [frame |-> Frame(type, Text(s, 8), Text(s, second), Text(s, third)),
           inside |-> End(s, third) <= Len(s)]
    BY <1>2, <1>8, ParseCases, Zenon DEF third
  <2>6. ParseBuffer(s).inside = (End(s, third) <= Len(s))
    BY <2>5
  <2>. QED
    BY <2>4, <2>6, Zenon
<1>9. CASE type \notin RoomTypes /\ type \notin TextTypes
  <2>1. ItemAt(e, 8, frame.message)
    BY <1>9, Layout, Zenon DEF e
  <2>2. second \in Nat /\ (second = 8 + 4 + lm \/ second > Len(s))
    BY <1>1, <1>5, <2>1 DEF lm
  <2>3. (second <= Len(s)) = FALSE
    BY <1>1, <1>3, <1>9, <2>2
  <2>. HIDE DEF type
  <2>4. ParseBuffer(s) = [frame |-> Frame(type, <<>>, <<>>, Text(s, 8)),
                          inside |-> second <= Len(s)]
    BY <1>2, <1>9, ParseCases, Zenon
  <2>5. ParseBuffer(s).inside = (second <= Len(s))
    BY <2>4
  <2>. QED
    BY <2>3, <2>5, Zenon
<1>. QED
  BY <1>7, <1>8, <1>9

(* A frame's bytes are the encoding that MakeProtocol's comments describe. *)
LEMMA EncodingIsMeant ==
  ASSUME IsArgument(made), NEW s, Agree(s, Encoded(made)),
         Size(made) + 8 <= Len(s)
  PROVE  IsEncoding(s)
<1>. DEFINE type == made.type
            e == Encoded(made)
            l == Len(made.userName)
            r == Len(made.room)
            lm == Len(made.message)
<1>1. /\ l \in Nat /\ r \in Nat /\ lm \in Nat /\ Len(s) \in Nat
      /\ Size(made) \in Nat
  BY SizeType DEF IsArgument, IsFrame, Agree
<1>2. FrameLength = Size(made) + 8
  BY Zenon DEF FrameLength, BodyLength, Size
<1>3. Size(made) = IF type \in RoomTypes THEN 8 + l + r
                   ELSE IF type \in TextTypes THEN 12 + l + r + lm
                   ELSE 4 + lm
  BY Zenon DEF Size
<1>4. Agree(s, e)
  OBVIOUS
<1>5. WordAt(e, 0, Size(made) + 8) /\ WordAt(e, 4, P!ProtocolType[type])
  BY Layout, Zenon
<1>0. l = Len(made.userName) /\ r = Len(made.room) /\ lm = Len(made.message)
  OBVIOUS
<1>. HIDE DEF e, l, r, lm
<1>6. Word(s, 0) = FrameLength /\ Word(s, 4) = P!ProtocolType[type]
  <2>1. 0 + 4 <= Len(s) /\ 4 + 4 <= Len(s)
    BY <1>1
  <2>. QED
    BY <1>2, <1>4, <1>5, <2>1, WordIsRead
<1>7. /\ PartEnd[0] = 8
      /\ PartEnd[1] = PartEnd[0] + 4 + Len(Parts[1])
      /\ PartEnd[2] = PartEnd[1] + 4 + Len(Parts[2])
      /\ PartEnd[3] = PartEnd[2] + 4 + Len(Parts[3])
  BY PartEnds
<1>. DEFINE Good(k) == /\ Word(s, PartEnd[k - 1]) = Len(Parts[k])
                       /\ SubSeq(s, PartEnd[k - 1] + 5, PartEnd[k]) = Parts[k]
<1>8. ASSUME NEW k \in 1 .. 3, NEW at \in Nat, PartEnd[k - 1] = at,
             NEW str \in Seq(Int), Parts[k] = str, ItemAt(e, at, str),
             at + 4 + Len(str) <= Len(s), PartEnd[k] = PartEnd[k - 1] + 4 + Len(Parts[k])
      PROVE  Good(k) /\ PartEnd[k] = at + 4 + Len(str)
  <2>1. /\ Word(s, at) = Len(str)
        /\ SubSeq(s, at + 5, at + 4 + Len(str)) = str
    BY <1>4, <1>8, ItemIsRead
  <2>. QED
    BY <1>8, <2>1
<1>. HIDE DEF Good
<1>9. made.userName \in Seq(Int) /\ made.room \in Seq(Int) /\ made.message \in Seq(Int)
  BY DEF IsArgument, IsFrame
<1>10. \A k \in 1 .. Len(Parts) : Good(k)
  <2>1. CASE type \in RoomTypes
    <3>1. ItemAt(e, 8, made.userName) /\ ItemAt(e, 12 + l, made.room)
      BY <2>1, Layout, Zenon DEF e, l
    <3>2. Parts = <<made.userName, made.room>>
      BY <2>1 DEF Parts
    <3>3. Len(Parts) = 2 /\ Parts[1] = made.userName /\ Parts[2] = made.room
      BY <3>2
    <3>4. 8 + 4 + l <= Len(s) /\ 12 + l + 4 + r <= Len(s) /\ 8 + 4 + l = 12 + l
      BY <1>1, <1>3, <2>1
    <3>5. Good(1) /\ PartEnd[1] = 8 + 4 + l
      BY <1>7, <1>8, <1>9, <3>1, <3>3, <3>4 DEF l
    <3>6. Good(2)
      <4>0. 2 - 1 = 1
        OBVIOUS
      <4>1. /\ 12 + l \in Nat /\ PartEnd[2 - 1] = 12 + l
            /\ 12 + l + 4 + Len(made.room) <= Len(s)
            /\ PartEnd[2] = PartEnd[2 - 1] + 4 + Len(Parts[2])
        <5>1. 12 + l \in Nat
          BY <1>1
        <5>2. PartEnd[2 - 1] = 12 + l
          BY <3>4, <3>5, <4>0, Zenon
        <5>3. 12 + l + 4 + Len(made.room) <= Len(s)
          BY <1>0, <3>4, Zenon
        <5>4. PartEnd[2] = PartEnd[2 - 1] + 4 + Len(Parts[2])
          BY <1>7, <4>0, Zenon
        <5>. QED
          BY <5>1, <5>2, <5>3, <5>4, Zenon
      <4>. QED
        BY <1>8, <1>9, <3>1, <3>3, <4>1
    <3>. QED
      BY <3>3, <3>5, <3>6
  <2>2. CASE type \notin RoomTypes /\ type \in TextTypes
    <3>1. /\ ItemAt(e, 8, made.userName) /\ ItemAt(e, 12 + l, made.room)
          /\ ItemAt(e, 16 + l + r, made.message)
      BY <2>2, Layout, Zenon DEF e, l, r
    <3>2. Parts = <<made.userName, made.room, made.message>>
      BY <2>2 DEF Parts
    <3>3. /\ Len(Parts) = 3 /\ Parts[1] = made.userName
          /\ Parts[2] = made.room /\ Parts[3] = made.message
      BY <3>2
    <3>4. /\ 8 + 4 + l <= Len(s) /\ 12 + l + 4 + r <= Len(s)
          /\ 16 + l + r + 4 + lm <= Len(s)
          /\ 8 + 4 + l = 12 + l /\ 12 + l + 4 + r = 16 + l + r
      BY <1>1, <1>3, <2>2
    <3>5. Good(1) /\ PartEnd[1] = 8 + 4 + l
      BY <1>7, <1>8, <1>9, <3>1, <3>3, <3>4 DEF l
    <3>6. Good(2) /\ PartEnd[2] = 12 + l + 4 + r
      <4>0. 2 - 1 = 1
        OBVIOUS
      <4>1. /\ 12 + l \in Nat /\ PartEnd[2 - 1] = 12 + l
            /\ 12 + l + 4 + Len(made.room) <= Len(s)
            /\ PartEnd[2] = PartEnd[2 - 1] + 4 + Len(Parts[2])
        <5>1. 12 + l \in Nat
          BY <1>1
        <5>2. PartEnd[2 - 1] = 12 + l
          BY <3>4, <3>5, <4>0, Zenon
        <5>3. 12 + l + 4 + Len(made.room) <= Len(s)
          BY <1>0, <3>4, Zenon
        <5>4. PartEnd[2] = PartEnd[2 - 1] + 4 + Len(Parts[2])
          BY <1>7, <4>0, Zenon
        <5>. QED
          BY <5>1, <5>2, <5>3, <5>4, Zenon
      <4>2. Good(2) /\ PartEnd[2] = 12 + l + 4 + Len(made.room)
        BY <1>8, <1>9, <3>1, <3>3, <4>1
      <4>. QED
        BY <1>0, <4>2
    <3>7. Good(3)
      <4>0. 3 - 1 = 2
        OBVIOUS
      <4>1. /\ 16 + l + r \in Nat /\ PartEnd[3 - 1] = 16 + l + r
            /\ 16 + l + r + 4 + Len(made.message) <= Len(s)
            /\ PartEnd[3] = PartEnd[3 - 1] + 4 + Len(Parts[3])
        <5>1. 16 + l + r \in Nat
          BY <1>1
        <5>2. PartEnd[3 - 1] = 16 + l + r
          BY <3>4, <3>6, <4>0, Zenon
        <5>3. 16 + l + r + 4 + Len(made.message) <= Len(s)
          BY <1>0, <3>4, Zenon
        <5>4. PartEnd[3] = PartEnd[3 - 1] + 4 + Len(Parts[3])
          BY <1>7, <4>0, Zenon
        <5>. QED
          BY <5>1, <5>2, <5>3, <5>4, Zenon
      <4>. QED
        BY <1>8, <1>9, <3>1, <3>3, <4>1
    <3>. QED
      BY <3>3, <3>5, <3>6, <3>7
  <2>3. CASE type \notin RoomTypes /\ type \notin TextTypes
    <3>1. ItemAt(e, 8, made.message)
      BY <2>3, Layout, Zenon DEF e
    <3>2. Parts = <<made.message>>
      BY <2>3 DEF Parts
    <3>3. Len(Parts) = 1 /\ Parts[1] = made.message
      BY <3>2
    <3>4. 8 + 4 + lm <= Len(s)
      BY <1>1, <1>3, <2>3
    <3>5. Good(1)
      BY <1>7, <1>8, <1>9, <3>1, <3>3, <3>4 DEF lm
    <3>. QED
      BY <3>3, <3>5
  <2>. QED
    BY <2>1, <2>2, <2>3
<1>. QED
  BY <1>6, <1>10, Zenon DEF IsEncoding, Good

-----------------------------------------------------------------------------
(* b was made of the frame, and perhaps read from.                         *)
Keeps(b, frame) ==
  /\ b \in BufferType
  /\ IsArgument(frame)
  /\ b.indexWrite = Size(frame) + 8 /\ Size(frame) + 8 <= Len(b.bytes)
  /\ Agree(b.bytes, Encoded(frame))

(* What MakeProtocol writes inside the vector, the Buffer keeps.           *)
LEMMA MadeKeeps ==
  ASSUME NEW frame, IsArgument(frame), ~MakeProtocol(frame).outside
  PROVE  /\ Keeps(MakeProtocol(frame), frame)
         /\ MakeProtocol(frame).indexRead = 0
<1>. DEFINE b == MakeProtocol(frame)
            e == Encoded(frame)
<1>1. Holds(b, e)
  BY MakeHolds DEF IsArgument
<1>2. e \in Seq(Int) /\ Len(e) = Size(frame) + 8
  BY Layout, Zenon
<1>. HIDE DEF b, e
<1>3. /\ b \in BufferType /\ b.indexRead = 0 /\ b.indexWrite = Len(e)
      /\ Len(e) <= Len(b.bytes) /\ \A k \in 1 .. Len(e) : b.bytes[k] = e[k]
  BY <1>1, Zenon DEF Holds
<1>4. b.bytes \in Seq(Int)
  BY <1>3 DEF BufferType
<1>5. Agree(b.bytes, e)
  BY <1>2, <1>3, <1>4 DEF Agree
<1>. QED
  BY <1>2, <1>3, <1>5 DEF Keeps, b, e

(* The words that PayloadToString reads first: the length, the type and    *)
(* the length of the first string.                                         *)
First(frame) == IF frame.type \in RoomTypes \cup TextTypes
                THEN Len(frame.userName) ELSE Len(frame.message)

(* The first three words of a frame: its length, its code, First.          *)
LEMMA FirstWords ==
  ASSUME NEW b, NEW frame, Keeps(b, frame)
  PROVE  /\ Word(b.bytes, 0) = Size(frame) + 8
         /\ Word(b.bytes, 4) = P!ProtocolType[frame.type]
         /\ Word(b.bytes, 8) = First(frame)
         /\ First(frame) \in Nat /\ First(frame) <= Len(b.bytes)
         /\ Len(b.bytes) \in Nat /\ Len(b.bytes) >= 12
         /\ Size(frame) \in Nat
<1>. DEFINE s == b.bytes
            type == frame.type
            e == Encoded(frame)
            l == Len(frame.userName)
            r == Len(frame.room)
            lm == Len(frame.message)
<1>1. /\ IsArgument(frame) /\ Agree(s, e) /\ Size(frame) + 8 <= Len(s)
  BY Zenon DEF Keeps
<1>2. /\ l \in Nat /\ r \in Nat /\ lm \in Nat /\ Len(s) \in Nat
      /\ Size(frame) \in Nat
  BY <1>1, SizeType DEF IsArgument, IsFrame, Agree
<1>3. Size(frame) = IF type \in RoomTypes THEN 8 + l + r
                    ELSE IF type \in TextTypes THEN 12 + l + r + lm
                    ELSE 4 + lm
  BY Zenon DEF Size
<1>4. First(frame) = IF type \in RoomTypes \/ type \in TextTypes THEN l ELSE lm
  BY DEF First
<1>5. WordAt(e, 0, Size(frame) + 8) /\ WordAt(e, 4, P!ProtocolType[type])
  BY <1>1, Layout, Zenon
<1>6. WordAt(e, 8, First(frame))
  <2>1. CASE type \in RoomTypes
    <3>1. ItemAt(e, 8, frame.userName)
      BY <1>1, <2>1, Layout, Zenon
    <3>. QED
      BY <1>4, <2>1, <3>1, Zenon DEF ItemAt
  <2>2. CASE type \notin RoomTypes /\ type \in TextTypes
    <3>1. ItemAt(e, 8, frame.userName)
      BY <1>1, <2>2, Layout, Zenon
    <3>. QED
      BY <1>4, <2>2, <3>1, Zenon DEF ItemAt
  <2>3. CASE type \notin RoomTypes /\ type \notin TextTypes
    <3>1. ItemAt(e, 8, frame.message)
      BY <1>1, <2>3, Layout, Zenon
    <3>. QED
      BY <1>4, <2>3, <3>1, Zenon DEF ItemAt
  <2>. QED
    BY <2>1, <2>2, <2>3
<1>. HIDE DEF e, l, r, lm, s
<1>7. 0 + 4 <= Len(s) /\ 4 + 4 <= Len(s) /\ 8 + 4 <= Len(s)
  BY <1>1, <1>2, <1>3
<1>8. /\ Word(s, 0) = Size(frame) + 8 /\ Word(s, 4) = P!ProtocolType[type]
      /\ Word(s, 8) = First(frame)
  BY <1>1, <1>5, <1>6, <1>7, WordIsRead
<1>9. First(frame) \in Nat /\ First(frame) <= Len(s)
  BY <1>1, <1>2, <1>3, <1>4
<1>. QED
  BY <1>2, <1>7, <1>8, <1>9 DEF s

(* What PayloadToString copies of a made frame when its n-th reading is    *)
(* the word t: as many bytes as the frame has, t of them its own.          *)
Copy(b, frame, t) ==
  [k \in 1 .. Size(frame) + 8 |-> IF k <= t THEN b.bytes[k] ELSE Heap]

(* A copy has as many bytes as the frame.                                  *)
LEMMA CopyType ==
  ASSUME NEW b, NEW frame, Keeps(b, frame), NEW t
  PROVE  /\ Copy(b, frame, t) \in Seq(Int)
         /\ Len(Copy(b, frame, t)) = Size(frame) + 8
         /\ \A k \in 1 .. Size(frame) + 8 :
              Copy(b, frame, t)[k] = IF k <= t THEN b.bytes[k] ELSE Heap
<1>1. /\ Size(frame) + 8 \in Nat /\ Size(frame) + 8 <= Len(b.bytes)
      /\ b.bytes \in Seq(Int)
  BY FirstWords DEF Keeps, BufferType
<1>. DEFINE n == Size(frame) + 8
<1>. HIDE DEF n
<1>2. \A k \in 1 .. n : b.bytes[k] \in Int /\ Heap \in Int
  BY <1>1 DEF n, Heap
<1>3. Copy(b, frame, t) = [k \in 1 .. n |-> IF k <= t THEN b.bytes[k] ELSE Heap]
  BY DEF Copy, n
<1>. QED
  BY <1>1, <1>2, <1>3 DEF n

(* The state of the Buffer, of the payload and of the receiver's array.    *)
BlankState ==
  /\ outgoing.bytes = Zeros(DEFAULT_BUFLEN)
  /\ outgoing.indexRead = 4 * reads
  /\ outgoing.outside = FALSE
  /\ DOMAIN outgoing = {"bytes", "indexRead", "indexWrite", "outside"}
  /\ payload = <<>>

MadeState ==
  /\ Keeps(outgoing, made)
  /\ outgoing.indexRead = 4 * reads
  /\ reads > 0 =>
       payload = Copy(outgoing, made, Word(outgoing.bytes, 4 * (reads - 1)))
  /\ reads = 1 => \A k \in 1 .. DEFAULT_BUFLEN :
                    k <= Len(payload) => recvbuf[k] = payload[k]

WireInv ==
  /\ reads \in Nat
  /\ recvbuf \in Seq(Int) /\ Len(recvbuf) = DEFAULT_BUFLEN
  /\ IsMade => IsArgument(made)
  /\ ~IsMade => BlankState
  /\ IsMade /\ ~outgoing.outside => MadeState
  /\ outgoing.outside => reads = 0 /\ fault = "write_outside"
  /\ fault = "read_outside" => CopyOutside(outgoing)

(* Every word of a new Buffer is 0.                                        *)
LEMMA ZeroWord ==
  ASSUME NEW at \in Nat, at + 4 <= DEFAULT_BUFLEN
  PROVE  Word(Zeros(DEFAULT_BUFLEN), at) = 0
<1>1. DEFAULT_BUFLEN \in Nat
  BY LengthAssumption
<1>2. \A k \in 1 .. 4 : Zeros(DEFAULT_BUFLEN)[at + k] = 0
  BY <1>1 DEF Zeros
<1>. QED
  BY <1>2 DEF Word

(* WireInv holds at first.                                                 *)
LEMMA InitWire == Init => WireInv
<1>. SUFFICES ASSUME Init PROVE WireInv
  OBVIOUS
<1>1. ~IsMade /\ reads = 0 /\ payload = <<>> /\ fault = "none" /\ outgoing = NewBuffer
  BY DEF Init, IsMade, Frame
<1>2. recvbuf \in Seq(Int) /\ Len(recvbuf) = DEFAULT_BUFLEN
  BY LengthAssumption DEF Init, Heap
<1>3. BlankState /\ ~outgoing.outside
  BY <1>1 DEF BlankState, NewBuffer
<1>. QED
  BY <1>1, <1>2, <1>3 DEF WireInv

(* A call of MakeProtocol preserves WireInv.                               *)
LEMMA MakeWire ==
  ASSUME WireInv, Make
  PROVE  WireInv'
<1>0. PICK type \in P!FrameType : \E frame \in Arguments(type) :
        made' = frame /\ outgoing' = MakeProtocol(frame)
  BY DEF Make
<1>1. PICK frame \in Arguments(type) :
        made' = frame /\ outgoing' = MakeProtocol(frame)
  BY <1>0
<1>2. /\ reads' = 0 /\ payload' = <<>> /\ recvbuf' = recvbuf
      /\ fault' = IF outgoing'.outside THEN "write_outside" ELSE "none"
  BY DEF Make
<1>3. IsArgument(frame) /\ frame.type = type
  BY ArgumentsAre
<1>4. IsMade' /\ IsArgument(made')
  <2>1. P!NoType \notin P!FrameType
    BY DEF P!NoType, P!FrameType, P!ProtocolType
  <2>. QED
    BY <1>1, <1>3, <2>1 DEF IsMade
<1>5. ~outgoing'.outside => MadeState'
  <2>. SUFFICES ASSUME ~outgoing'.outside PROVE MadeState'
    OBVIOUS
  <2>1. Keeps(outgoing', made') /\ outgoing'.indexRead = 0
    BY <1>1, <1>3, MadeKeeps
  <2>. QED
    BY <1>2, <2>1 DEF MadeState
<1>6. WireInv'
  BY <1>2, <1>4, <1>5 DEF WireInv
<1>. QED
  BY <1>6

(* PayloadToString, send and recv preserve it.                             *)
LEMMA SendWire ==
  ASSUME WireInv, Send
  PROVE  WireInv'
<1>1. /\ fault = "none" /\ fault' = fault /\ made' = made /\ ~CopyOutside(outgoing)
      /\ payload' = Copied(outgoing)
      /\ recvbuf' = Overlay(recvbuf, 0, Copied(outgoing))
      /\ outgoing' = [outgoing EXCEPT !.indexRead = @ + 4]
      /\ reads' = reads + 1
  BY DEF Send, Advanced
<1>2. ~outgoing.outside /\ reads \in Nat /\ reads' \in Nat /\ reads' > 0
  BY <1>1 DEF WireInv
<1>3. IsMade' = IsMade /\ (IsMade => IsArgument(made))
  BY <1>1 DEF IsMade, WireInv
<1>4. CASE ~IsMade
  <2>1. BlankState
    BY <1>4 DEF WireInv
  <2>2. /\ outgoing'.bytes = Zeros(DEFAULT_BUFLEN)
        /\ outgoing'.indexRead = 4 * reads'
        /\ outgoing'.outside = FALSE
        /\ DOMAIN outgoing' = {"bytes", "indexRead", "indexWrite", "outside"}
    BY <1>1, <1>2, <2>1 DEF BlankState
  <2>3. Word(outgoing.bytes, 0) = 0
    <3>1. 0 + 4 <= DEFAULT_BUFLEN
      BY LengthAssumption
    <3>. QED
      BY <2>1, <3>1, ZeroWord DEF BlankState
  <2>4. Copied(outgoing) = <<>>
    BY <2>3 DEF Copied
  <2>5. recvbuf' \in Seq(Int) /\ Len(recvbuf') = DEFAULT_BUFLEN
    <3>1. <<>> \in Seq(Int) /\ 0 \in Nat
      OBVIOUS
    <3>2. recvbuf \in Seq(Int) /\ Len(recvbuf) = DEFAULT_BUFLEN
      BY DEF WireInv
    <3>. QED
      BY <1>1, <2>4, <3>1, <3>2, OverlayType
  <2>6. BlankState'
    BY <1>1, <2>2, <2>4 DEF BlankState
  <2>. QED
    BY <1>1, <1>2, <1>3, <1>4, <2>2, <2>5, <2>6 DEF WireInv
<1>5. CASE IsMade
  <2>. DEFINE t == Word(outgoing.bytes, 4 * reads)
  <2>1. MadeState
    BY <1>2, <1>5 DEF WireInv
  <2>2. /\ outgoing.indexRead = 4 * reads /\ Keeps(outgoing, made)
        /\ Word(outgoing.bytes, 0) = Size(made) + 8
    BY <2>1, FirstWords DEF MadeState
  <2>3. Copied(outgoing) = Copy(outgoing, made, t)
    BY <2>2, Zenon DEF Copied, Copy
  <2>4. /\ outgoing'.bytes = outgoing.bytes /\ outgoing'.indexRead = 4 * reads'
        /\ outgoing'.indexWrite = outgoing.indexWrite /\ outgoing'.outside = FALSE
        /\ outgoing' \in BufferType
    <3>1. outgoing \in BufferType
      BY <2>2 DEF Keeps
    <3>2. outgoing.outside = FALSE
      BY <1>2, <3>1 DEF BufferType
    <3>. QED
      BY <1>1, <1>2, <2>2, <3>1, <3>2 DEF BufferType
  <2>5. Keeps(outgoing', made')
    BY <1>1, <2>2, <2>4 DEF Keeps
  <2>6. payload' = Copy(outgoing', made', Word(outgoing'.bytes, 4 * (reads' - 1)))
    <3>1. 4 * (reads' - 1) = 4 * reads
      BY <1>1, <1>2
    <3>. QED
      BY <1>1, <2>3, <2>4, <3>1, Zenon DEF Copy
  <2>7. payload' \in Seq(Int) /\ Len(payload') \in Nat
    BY <2>5, <2>6, CopyType
  <2>8. recvbuf \in Seq(Int) /\ Len(recvbuf) = DEFAULT_BUFLEN /\ DEFAULT_BUFLEN \in Nat
    BY LengthAssumption DEF WireInv
  <2>9. recvbuf' = Overlay(recvbuf, 0, payload')
    BY <1>1
  <2>10. recvbuf' \in Seq(Int) /\ Len(recvbuf') = DEFAULT_BUFLEN
    BY <2>7, <2>8, <2>9, OverlayType
  <2>11. \A k \in 1 .. DEFAULT_BUFLEN : k <= Len(payload') => recvbuf'[k] = payload'[k]
    <3>. SUFFICES ASSUME NEW k \in 1 .. DEFAULT_BUFLEN, k <= Len(payload')
                  PROVE  recvbuf'[k] = payload'[k]
      OBVIOUS
    <3>1. 0 < k /\ k <= 0 + Len(payload') /\ k - 0 = k
      BY <2>7, <2>8
    <3>. QED
      BY <2>8, <2>9, <3>1 DEF Overlay
  <2>12. MadeState'
    BY <2>4, <2>5, <2>6, <2>11 DEF MadeState
  <2>. QED
    BY <1>1, <1>2, <1>3, <1>5, <2>4, <2>10, <2>12 DEF WireInv
<1>. QED
  BY <1>4, <1>5

(* A copy from behind the vector preserves it.                             *)
LEMMA OutsideWire ==
  ASSUME WireInv, SendOutside
  PROVE  WireInv'
<1>1. /\ fault = "none" /\ fault' = "read_outside" /\ CopyOutside(outgoing)
      /\ UNCHANGED <<made, outgoing, reads, payload, recvbuf>>
  BY DEF SendOutside
<1>. QED
  BY <1>1 DEF WireInv, BlankState, MadeState, IsMade

(* So does a step of nothing.                                              *)
LEMMA StillWire ==
  ASSUME WireInv, UNCHANGED vars
  PROVE  WireInv'
  BY DEF vars, WireInv, BlankState, MadeState, IsMade

(* WireInv is an invariant.                                                *)
LEMMA WireAlways == Spec => []WireInv
<1>1. WireInv /\ [Next]_vars => WireInv'
  BY MakeWire, SendWire, OutsideWire, StillWire DEF Next
<1>. QED
  BY <1>1, InitWire, PTL DEF Spec

(* The length the property speaks of is the size proved about.             *)
LEMMA SameLength == FrameLength = Size(made) + 8
  BY Zenon DEF FrameLength, BodyLength, Size

(* However the vector had to grow, what MakeProtocol has written inside it *)
(* is the encoding of its arguments, and the write index is at its end.    *)
THEOREM MadeIsEncodingAlways == Spec => []MadeIsEncoding
<1>1. WireInv => MadeIsEncoding
  <2>. SUFFICES ASSUME WireInv, IsMade, ~outgoing.outside
                PROVE  IsEncoding(outgoing.bytes) /\ outgoing.indexWrite = FrameLength
    BY DEF MadeIsEncoding
  <2>1. Keeps(outgoing, made)
    BY DEF WireInv, MadeState
  <2>. QED
    BY <2>1, EncodingIsMeant, SameLength DEF Keeps
<1>. QED
  BY <1>1, WireAlways, PTL

(* The first payload of a frame.                                           *)
LEMMA FirstPayload ==
  ASSUME WireInv, IsMade, reads = 1
  PROVE  /\ payload \in Seq(Int) /\ Len(payload) = Size(made) + 8
         /\ Agree(payload, Encoded(made))
         /\ \A k \in 1 .. DEFAULT_BUFLEN :
              k <= Len(payload) => recvbuf[k] = payload[k]
         /\ IsArgument(made) /\ Size(made) \in Nat
<1>1. ~outgoing.outside
  BY DEF WireInv
<1>2. MadeState /\ IsArgument(made)
  BY <1>1 DEF WireInv
<1>3. /\ Keeps(outgoing, made)
      /\ \A k \in 1 .. DEFAULT_BUFLEN :
           k <= Len(payload) => recvbuf[k] = payload[k]
  BY <1>2 DEF MadeState
<1>4. payload = Copy(outgoing, made, Size(made) + 8)
  <2>1. payload = Copy(outgoing, made, Word(outgoing.bytes, 4 * (1 - 1)))
    BY <1>2 DEF MadeState
  <2>2. 4 * (1 - 1) = 0 /\ Word(outgoing.bytes, 0) = Size(made) + 8
    BY <1>3, FirstWords
  <2>. QED
    BY <2>1, <2>2
<1>. DEFINE n == Size(made) + 8
            e == Encoded(made)
<1>5. n \in Nat /\ Size(made) \in Nat
  BY <1>3, FirstWords
<1>6. e \in Seq(Int) /\ Len(e) = n
  BY <1>2, Layout, Zenon
<1>7. Agree(outgoing.bytes, e) /\ n <= Len(outgoing.bytes)
  BY <1>3 DEF Keeps
<1>8. /\ payload \in Seq(Int) /\ Len(payload) = n
      /\ \A k \in 1 .. n : payload[k] = IF k <= n THEN outgoing.bytes[k] ELSE Heap
  BY <1>3, <1>4, CopyType
<1>. HIDE DEF n, e
<1>9. \A k \in 1 .. n : payload[k] = e[k]
  <2>. SUFFICES ASSUME NEW k \in 1 .. n PROVE payload[k] = e[k]
    OBVIOUS
  <2>1. payload[k] = outgoing.bytes[k]
    BY <1>5, <1>8
  <2>2. Len(outgoing.bytes) \in Nat
    BY <1>7 DEF Agree
  <2>3. outgoing.bytes[k] = e[k]
    BY <1>5, <1>6, <1>7, <2>2 DEF Agree
  <2>. QED
    BY <2>1, <2>3
<1>10. Agree(payload, e)
  BY <1>6, <1>8, <1>9 DEF Agree
<1>. QED
  BY <1>2, <1>3, <1>5, <1>8, <1>10 DEF n, e

(* A frame that fits in the receiver's array is parsed back to what it was *)
(* made of, by either end; a longer one is read past what has arrived.     *)
THEOREM RoundTripAlways == Spec => []RoundTrip
<1>1. WireInv => RoundTrip
  <2>. DEFINE n == Size(made) + 8
              e == Encoded(made)
  <2>. SUFFICES ASSUME WireInv, IsMade, reads = 1
                PROVE  IF FrameLength <= DEFAULT_BUFLEN
                       THEN /\ ParseBuffer(Arrived) = [frame |-> made, inside |-> TRUE]
                            /\ ParseBuffer(recvbuf) = [frame |-> made, inside |-> TRUE]
                       ELSE ~ParseBuffer(Arrived).inside
    BY DEF RoundTrip
  <2>1. /\ payload \in Seq(Int) /\ Len(payload) = n
        /\ Agree(payload, e)
        /\ \A k \in 1 .. DEFAULT_BUFLEN :
             k <= Len(payload) => recvbuf[k] = payload[k]
        /\ IsArgument(made) /\ n \in Nat
    BY FirstPayload
  <2>2. e \in Seq(Int) /\ Len(e) = n
    BY <2>1, Layout, Zenon
  <2>3. /\ recvbuf \in Seq(Int) /\ Len(recvbuf) = DEFAULT_BUFLEN
        /\ DEFAULT_BUFLEN \in Nat /\ DEFAULT_BUFLEN >= 8
    BY LengthAssumption DEF WireInv
  <2>4. FrameLength = n
    BY SameLength
  <2>. HIDE DEF n, e
  <2>5. CASE n <= DEFAULT_BUFLEN
    <3>1. Arrived = payload
      <4>1. Upto(payload, DEFAULT_BUFLEN) = Len(payload)
        BY <2>1, <2>3, <2>5 DEF Upto
      <4>. QED
        BY <2>1, <4>1, SubSeqFull DEF Arrived
    <3>2. ParseBuffer(payload) = [frame |-> made, inside |-> TRUE]
      BY <2>1, ParseWhole DEF n, e
    <3>3. Agree(recvbuf, e)
      <4>1. \A k \in 1 .. n : recvbuf[k] = e[k]
        <5>. SUFFICES ASSUME NEW k \in 1 .. n PROVE recvbuf[k] = e[k]
          OBVIOUS
        <5>1. k \in 1 .. DEFAULT_BUFLEN /\ k <= Len(payload) /\ k \in 1 .. Len(e)
          BY <2>1, <2>2, <2>3, <2>5
        <5>. QED
          BY <2>1, <5>1 DEF Agree
      <4>. QED
        BY <2>2, <2>3, <4>1 DEF Agree
    <3>4. ParseBuffer(recvbuf) = [frame |-> made, inside |-> TRUE]
      BY <2>1, <2>3, <2>5, <3>3, ParseWhole DEF n, e
    <3>. QED
      BY <2>4, <2>5, <3>1, <3>2, <3>4
  <2>6. CASE ~(n <= DEFAULT_BUFLEN)
    <3>1. Upto(payload, DEFAULT_BUFLEN) = DEFAULT_BUFLEN
      BY <2>1, <2>3, <2>6 DEF Upto
    <3>2. /\ Arrived \in Seq(Int) /\ Len(Arrived) = DEFAULT_BUFLEN
          /\ \A k \in 1 .. DEFAULT_BUFLEN : Arrived[k] = payload[k]
      <4>1. \A k \in 1 .. DEFAULT_BUFLEN : payload[k] \in Int
        BY <2>1, <2>3, <2>6
      <4>. QED
        BY <2>3, <3>1, <4>1, SubSeqProperties DEF Arrived
    <3>. HIDE DEF Arrived
    <3>3. \A k \in 1 .. Len(e) : k <= Len(Arrived) => Arrived[k] = e[k]
      <4>. SUFFICES ASSUME NEW k \in 1 .. Len(e), k <= Len(Arrived)
                    PROVE  Arrived[k] = e[k]
        OBVIOUS
      <4>1. k \in 1 .. DEFAULT_BUFLEN /\ k <= Len(payload)
        BY <2>1, <2>2, <2>3, <3>2
      <4>. QED
        BY <2>1, <3>2, <4>1 DEF Agree
    <3>4. Agree(Arrived, e)
      BY <2>2, <3>2, <3>3 DEF Agree
    <3>5. 8 <= Len(Arrived) /\ Len(Arrived) < n
      BY <2>1, <2>3, <2>6, <3>2
    <3>6. ~ParseBuffer(Arrived).inside
      BY <2>1, <3>4, <3>5, ParseCut DEF n, e
    <3>. QED
      BY <2>4, <2>6, <3>6
  <2>. QED
    BY <2>5, <2>6
<1>. QED
  BY <1>1, WireAlways, PTL

-----------------------------------------------------------------------------
(* Protocol's abstraction of a Buffer.                                     *)

(* What a receiver takes for the type after t bytes were copied.           *)
LEMMA CopiedType ==
  ASSUME NEW b, NEW frame, Keeps(b, frame), NEW t
  PROVE  /\ TypeRead(Copy(b, frame, t)) \in {frame.type, P!Garbage}
         /\ t \in Nat /\ t >= 8 => TypeRead(Copy(b, frame, t)) = frame.type
         /\ t \in Nat /\ t < 8 => TypeRead(Copy(b, frame, t)) = P!Garbage
<1>. DEFINE s == Copy(b, frame, t)
            e == Encoded(frame)
<1>1. /\ IsArgument(frame) /\ Agree(b.bytes, e) /\ Size(frame) + 8 <= Len(b.bytes)
      /\ Size(frame) \in Nat /\ Len(b.bytes) \in Nat
  BY FirstWords DEF Keeps
<1>2. \A k \in 1 .. Size(frame) + 8 : s[k] = IF k <= t THEN b.bytes[k] ELSE Heap
  BY CopyType
<1>3. Len(e) = Size(frame) + 8
  BY <1>1, Layout, Zenon
<1>. HIDE DEF s, e
<1>4. \A k \in 5 .. 8 : b.bytes[k] = e[k]
  <2>1. \A k \in 5 .. 8 : k \in 1 .. Len(e) /\ k <= Len(b.bytes)
    BY <1>1, <1>3
  <2>. QED
    BY <1>1, <2>1, Zenon DEF Agree
<1>5. \A k \in 5 .. 8 : s[k] = IF k <= t THEN e[k] ELSE Heap
  BY <1>1, <1>2, <1>4
<1>6. (\A k \in 5 .. 8 : s[k] = e[k]) => TypeRead(s) = frame.type
  BY <1>1, TypeIsRead DEF e
<1>7. (\E k \in 5 .. 8 : s[k] = Heap) => TypeRead(s) = P!Garbage
  BY TornType
<1>8. (\A k \in 5 .. 8 : s[k] = e[k]) \/ (\E k \in 5 .. 8 : s[k] = Heap)
  BY <1>5, Zenon
<1>9. t \in Nat /\ t >= 8 => \A k \in 5 .. 8 : s[k] = e[k]
  BY <1>5
<1>10. t \in Nat /\ t < 8 => \E k \in 5 .. 8 : s[k] = Heap
  <2>1. 8 \in 5 .. 8
    OBVIOUS
  <2>2. t \in Nat /\ t < 8 => s[8] = Heap
    BY <1>5, <2>1
  <2>. QED
    BY <2>1, <2>2, Zenon
<1>11. TypeRead(s) \in {frame.type, P!Garbage}
  BY <1>6, <1>7, <1>8, Zenon
<1>. QED
  BY <1>6, <1>7, <1>9, <1>10, <1>11, Zenon DEF s

(* The codes that decide what a later reading copies.                      *)
LEMMA Replies ==
  /\ \A t \in P!ReplyTypes : /\ P!ProtocolType[t] >= 8
                             /\ t \notin RoomTypes \cup TextTypes
                             /\ t # P!NoType
  /\ P!ProtocolType["RECV_MESSAGE"] = 4
  /\ "RECV_MESSAGE" \in TextTypes /\ "RECV_MESSAGE" \notin P!ReplyTypes
  /\ P!NoType # "RECV_MESSAGE"
  BY DEF P!ReplyTypes, P!ProtocolType, RoomTypes, TextTypes, P!NoType

(* The number of readings that Protocol keeps of a made frame.             *)
LEMMA Counted ==
  ASSUME IsMade, NEW k \in Nat
  PROVE  /\ AbstractBuffer(k).type = made.type
         /\ AbstractBuffer(k).reads = IF k < 3 THEN k ELSE 3
         /\ P!PayloadMayFail(AbstractBuffer(k)) <=> k >= 3
<1>1. P!SafeReads([type |-> made.type]) = 3
  BY DEF P!SafeReads, P!MaxReads, IsMade
<1>2. AbstractBuffer(k) = [type |-> made.type, text |-> <<>>,
                           reads |-> IF k < 3 THEN k ELSE 3]
  BY <1>1, Zenon DEF AbstractBuffer
<1>3. P!SafeReads(AbstractBuffer(k)) = 3
  BY <1>2 DEF P!SafeReads, P!MaxReads, IsMade
<1>. QED
  BY <1>2, <1>3 DEF P!PayloadMayFail

(* The types that a receiver may read of a buffer that is sent again.      *)
LEMMA TypesAgree ==
  ASSUME WireInv, SentAgain, reads > 0, IsMade
  PROVE  TypeRead(payload) \in P!TypesOnTheWire(AbstractBuffer(reads - 1))
<1>. DEFINE k == reads - 1
            t == Word(outgoing.bytes, 4 * k)
            a == AbstractBuffer(k)
            type == made.type
<1>1. k \in Nat
  BY DEF WireInv
<1>2. Keeps(outgoing, made) /\ payload = Copy(outgoing, made, t)
  BY DEF WireInv, MadeState
<1>3. /\ TypeRead(payload) \in {type, P!Garbage}
      /\ t \in Nat /\ t >= 8 => TypeRead(payload) = type
      /\ t \in Nat /\ t < 8 => TypeRead(payload) = P!Garbage
  BY <1>2, CopiedType
<1>4. /\ Word(outgoing.bytes, 0) = Size(made) + 8 /\ Size(made) \in Nat
      /\ Word(outgoing.bytes, 4) = P!ProtocolType[type]
      /\ Word(outgoing.bytes, 8) = First(made)
  BY <1>2, FirstWords
<1>5. a.type = type /\ a.reads = IF k < 3 THEN k ELSE 3
  BY <1>1, Counted
<1>6. \/ type = "RECV_MESSAGE" /\ Len(made.userName) \in {0, 6}
      \/ type \in P!ReplyTypes
  BY DEF SentAgain
<1>. SUFFICES TypeRead(payload) \in P!TypesOnTheWire(a)
  OBVIOUS
<1>. HIDE DEF k, t, a, type
<1>7. P!TypesOnTheWire(a) =
        CASE a.reads = 0 -> {a.type}
          [] a.reads = 1 -> {IF P!ProtocolType[a.type] >= 8 THEN a.type ELSE P!Garbage}
          [] a.reads = 2 -> {P!Garbage} \cup ({a.type} \cap P!ReplyTypes)
          [] OTHER       -> {P!Garbage, a.type}
  BY Zenon DEF P!TypesOnTheWire
<1>8. CASE k = 0
  <2>1. P!TypesOnTheWire(a) = {type}
    BY <1>5, <1>7, <1>8
  <2>2. t = Size(made) + 8
    BY <1>4, <1>8 DEF t
  <2>3. TypeRead(payload) = type
    BY <1>3, <1>4, <2>2
  <2>. QED
    BY <2>1, <2>3
<1>9. CASE k = 1
  <2>1. P!TypesOnTheWire(a) =
          {IF P!ProtocolType[type] >= 8 THEN type ELSE P!Garbage}
    BY <1>5, <1>7, <1>9
  <2>2. t = P!ProtocolType[type]
    BY <1>4, <1>9 DEF t
  <2>3. t \in Nat
    <3>1. type \in P!FrameType
      BY <1>2 DEF Keeps, IsArgument, IsFrame, type
    <3>. QED
      BY <2>2, <3>1, Codes
  <2>4. TypeRead(payload) = IF t >= 8 THEN type ELSE P!Garbage
    BY <1>3, <2>3
  <2>. QED
    BY <2>1, <2>2, <2>4
<1>10. CASE k = 2
  <2>1. P!TypesOnTheWire(a) = {P!Garbage} \cup ({type} \cap P!ReplyTypes)
    BY <1>5, <1>7, <1>10
  <2>2. t = First(made)
    BY <1>4, <1>10 DEF t
  <2>3. CASE type \in P!ReplyTypes
    BY <1>3, <2>1, <2>3
  <2>4. CASE type = "RECV_MESSAGE" /\ Len(made.userName) \in {0, 6}
    <3>1. t = Len(made.userName)
      BY <2>2, <2>4, Replies DEF First, type
    <3>2. t \in Nat /\ t < 8
      <4>1. t \in {0, 6}
        BY <2>4, <3>1, Zenon
      <4>. QED
        BY <4>1
    <3>. QED
      BY <1>3, <2>1, <3>2
  <2>. QED
    BY <1>6, <2>3, <2>4
<1>11. CASE k >= 3
  <2>1. P!TypesOnTheWire(a) = {P!Garbage, type}
    BY <1>1, <1>5, <1>7, <1>11
  <2>. QED
    BY <1>3, <2>1
<1>. QED
  BY <1>1, <1>8, <1>9, <1>10, <1>11

(* When a copy may fail.                                                   *)
LEMMA FailuresAgree ==
  ASSUME WireInv, SentAgain, fault = "read_outside"
  PROVE  P!PayloadMayFail(AbstractBuffer(reads))
<1>1. /\ CopyOutside(outgoing) /\ reads \in Nat /\ ~outgoing.outside
      /\ DEFAULT_BUFLEN \in Nat
  BY LengthAssumption DEF WireInv
<1>2. CASE IsMade
  <2>1. Keeps(outgoing, made) /\ outgoing.indexRead = 4 * reads
    BY <1>1, <1>2 DEF WireInv, MadeState
  <2>. DEFINE s == outgoing.bytes
  <2>2. /\ Word(s, 0) = Size(made) + 8 /\ Size(made) \in Nat
        /\ Word(s, 4) = P!ProtocolType[made.type]
        /\ Word(s, 8) = First(made)
        /\ First(made) <= Len(s)
        /\ Len(s) \in Nat /\ Len(s) >= 12 /\ Size(made) + 8 <= Len(s)
    BY <2>1, FirstWords DEF Keeps
  <2>3. P!ProtocolType[made.type] <= 12
    <3>1. made.type \in P!FrameType
      BY <2>1 DEF Keeps, IsArgument, IsFrame
    <3>. QED
      BY <3>1, Codes
  <2>4. P!ProtocolType[made.type] \in Nat /\ First(made) \in Nat
    <3>1. made.type \in P!FrameType
      BY <2>1 DEF Keeps, IsArgument, IsFrame
    <3>2. P!ProtocolType[made.type] \in 1 .. 12
      BY <3>1, Codes
    <3>. QED
      BY <2>1, <3>2, FirstWords
  <2>5. 4 * reads + 4 <= Len(s) => Word(s, 4 * reads) > Len(s)
    BY <1>1, <2>1 DEF CopyOutside
  <2>. HIDE DEF s
  <2>6. reads # 0
    BY <2>2, <2>5
  <2>7. reads # 1
    BY <2>2, <2>3, <2>4, <2>5
  <2>8. reads # 2
    BY <2>2, <2>4, <2>5
  <2>9. reads >= 3
    BY <1>1, <2>6, <2>7, <2>8
  <2>. QED
    BY <1>1, <1>2, <2>9, Counted
<1>3. CASE ~IsMade
  <2>1. outgoing.bytes = Zeros(DEFAULT_BUFLEN) /\ outgoing.indexRead = 4 * reads
    BY <1>3 DEF WireInv, BlankState
  <2>2. Len(Zeros(DEFAULT_BUFLEN)) = DEFAULT_BUFLEN
    BY <1>1 DEF Zeros
  <2>3. 4 * reads + 4 > DEFAULT_BUFLEN
    <3>. SUFFICES ASSUME 4 * reads + 4 <= DEFAULT_BUFLEN PROVE FALSE
      BY <1>1
    <3>1. 4 * reads \in Nat
      BY <1>1
    <3>2. Word(Zeros(DEFAULT_BUFLEN), 4 * reads) = 0
      BY <3>1, ZeroWord
    <3>3. Word(Zeros(DEFAULT_BUFLEN), 4 * reads) > DEFAULT_BUFLEN
      BY <1>1, <2>1, <2>2 DEF CopyOutside
    <3>. QED
      BY <1>1, <3>2, <3>3
  <2>. DEFINE w == DEFAULT_BUFLEN \div 4
  <2>4. w \in Nat /\ w <= reads
    BY <1>1, <2>3
  <2>5. P!SafeReads([type |-> made.type]) = w
    BY <1>3 DEF P!SafeReads, P!BlankWords, IsMade
  <2>. HIDE DEF w
  <2>6. AbstractBuffer(reads) = [type |-> made.type, text |-> <<>>, reads |-> w]
    <3>1. ~(reads < w)
      BY <1>1, <2>4
    <3>. QED
      BY <2>5, <3>1, Zenon DEF AbstractBuffer
  <2>7. P!SafeReads(AbstractBuffer(reads)) = w
    BY <1>3, <2>6 DEF P!SafeReads, P!BlankWords, IsMade, w
  <2>. QED
    BY <2>4, <2>6, <2>7 DEF P!PayloadMayFail
<1>. QED
  BY <1>2, <1>3

(* The count of readings in Protocol says all there is to know: which      *)
(* types are read of a buffer sent again, and when its copy may fail.      *)
THEOREM AgreesWithProtocolAlways == Spec => []AgreesWithProtocol
<1>1. WireInv => AgreesWithProtocol
  <2>. SUFFICES ASSUME WireInv, SentAgain
                PROVE  /\ reads > 0 /\ IsMade =>
                            TypeRead(payload) \in P!TypesOnTheWire(AbstractBuffer(reads - 1))
                       /\ reads > 0 /\ ~IsMade => payload = <<>>
                       /\ fault = "read_outside" =>
                            P!PayloadMayFail(AbstractBuffer(reads))
    BY DEF AgreesWithProtocol
  <2>1. ~IsMade => payload = <<>>
    BY DEF WireInv, BlankState
  <2>. QED
    BY <2>1, TypesAgree, FailuresAgree
<1>. QED
  BY <1>1, WireAlways, PTL
=============================================================================
