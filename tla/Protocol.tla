------------------------------ MODULE Protocol ------------------------------
(***************************************************************************)
(* The frames that clients, chat server and authentication server exchange *)
(* (ProtocolHelper.h, ProtocolMethods.cpp) and the part of Buffer's state   *)
(* that outlives one message: the read index that PayloadToString moves.   *)
(*                                                                         *)
(* A frame is its type and its text.  "text" stands for the strings of the *)
(* frame (name, room, message): the servers copy them and never look in.   *)
(***************************************************************************)
EXTENDS Integers

CONSTANTS
  NoText,          \* the strings of a frame whose strings are all empty
  DEFAULT_BUFLEN   \* bytes of a new Buffer, and of every array recv fills

ASSUME BufferAssumption == DEFAULT_BUFLEN \in Nat /\ DEFAULT_BUFLEN >= 8

(* enum ProtocolType, with the codes that travel as the second word.       *)
ProtocolType ==
  [JOIN_ROOM |-> 1, LEAVE_ROOM |-> 2, SEND_MESSAGE |-> 3, RECV_MESSAGE |-> 4,
   REGISTER_USER |-> 5, LOGIN_USER |-> 6,
   G_CREATE_ACCOUNT |-> 7, G_CREATE_ACCOUNT_SUCCESS |-> 8,
   G_CREATE_ACCOUNT_FAILURE |-> 9, G_AUTHENTICATE |-> 10,
   G_AUTHENTICATE_SUCCESS |-> 11, G_AUTHENTICATE_FAILURE |-> 12]

FrameType == DOMAIN ProtocolType

ChatTypes == {"JOIN_ROOM", "LEAVE_ROOM", "SEND_MESSAGE"}
AuthTypes == {"REGISTER_USER", "LOGIN_USER"}
RequestTypes == {"G_CREATE_ACCOUNT", "G_AUTHENTICATE"}
ReplyTypes == {"G_CREATE_ACCOUNT_SUCCESS", "G_CREATE_ACCOUNT_FAILURE",
               "G_AUTHENTICATE_SUCCESS", "G_AUTHENTICATE_FAILURE"}
SuccessTypes == {"G_CREATE_ACCOUNT_SUCCESS", "G_AUTHENTICATE_SUCCESS"}

(* Garbage: the type word is not the frame's.  It is heap memory behind    *)
(* the bytes that were copied, whatever that holds: a receiver may take it *)
(* for any type, as ChatClient does.  NoType: the type word is zero.       *)
Garbage == "GARBAGE"
NoType == "NONE"

-----------------------------------------------------------------------------
(***************************************************************************)
(* A Buffer between two uses: the frame MakeProtocol wrote into it, and    *)
(* the words PayloadToString has read from it since (indexRead / 4).  The  *)
(* count stops mattering where the next word may be text (MaxReads), and   *)
(* in a new buffer where its zeros end (BlankWords).                       *)
(***************************************************************************)
MaxReads == 3
BlankWords == DEFAULT_BUFLEN \div 4

MakeProtocol(type, text) == [type |-> type, text |-> text, reads |-> 0]

(* Buffer(DEFAULT_BUFLEN): zeros.  Its length word is 0, so nothing is     *)
(* sent from it.                                                           *)
BlankBuffer == MakeProtocol(NoType, NoText)

SafeReads(b) == IF b.type = NoType THEN BlankWords ELSE MaxReads

(* Seeded faults: PayloadToString restores the read index; it reads two    *)
(* words.                                                                  *)
AfterPayload_Rewound(b) == [b EXCEPT !.reads = 0]
AfterPayload_TwoWords(b) ==
  [b EXCEPT !.reads = IF @ + 1 < SafeReads(b) THEN @ + 2 ELSE SafeReads(b)]

(* PayloadToString reads its totalLength at indexRead and leaves indexRead *)
(* behind it: the next call reads the next word of the same frame.         *)
AfterPayload(b) ==
  [b EXCEPT !.reads = IF @ < SafeReads(b) THEN @ + 1 ELSE @]

(* The copy is whole when totalLength was the frame's length word.         *)
Whole(b) == b.reads = 0

(***************************************************************************)
(* The type a receiver reads.  The caller sends as many bytes as the       *)
(* length word says (readUInt32BE(0)) from the copy; what the copy did not *)
(* fill is heap memory.  The type word is in bytes 4..7.                   *)
(*   0 reads: the copy is the frame.                                       *)
(*   1 read:  as many bytes are copied as the type code says.              *)
(*   2 reads: as many as the first string is long: 0 or 6 in a chat frame  *)
(*            (the client's empty name, or "Server"), any in a reply.      *)
(*   later:   as many as the next word says, a string's length or text.    *)
(***************************************************************************)
(* A seeded fault: the header is copied besides totalLength bytes.         *)
TypesOnTheWire_Header(b) == {b.type}

TypesOnTheWire(b) ==
  CASE b.reads = 0 -> {b.type}
    [] b.reads = 1 -> {IF ProtocolType[b.type] >= 8 THEN b.type ELSE Garbage}
    [] b.reads = 2 -> {Garbage} \cup ({b.type} \cap ReplyTypes)
    [] OTHER       -> {Garbage, b.type}

(* From the fourth word of a frame on, totalLength may be text read as a   *)
(* number, and past a blank buffer's words it is whatever lies behind it:  *)
(* the allocation or the copy may fail, which ends the process.            *)
PayloadMayFail(b) == b.reads >= SafeReads(b)
=============================================================================
