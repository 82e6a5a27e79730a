----------------------- MODULE ChatServerCasts_proofs -----------------------
(***************************************************************************)
(* What is broadcast, for every number of clients, slots, texts and        *)
(* logins.  SendMoves sorts the steps of the server by what they do to     *)
(* outgoing, to the streams and to the table; each property is then a      *)
(* matter of these few cases.                                              *)
(***************************************************************************)
EXTENDS ChatServerReplies_proofs

(* The buffer a login broadcasts has been read once for each request since *)
(* it was written, and a new message or reply once at most.                *)
ReadsInv ==
  /\ madeAt <= asks
  /\ outgoing.type = NoType => outgoing.reads <= asks - madeAt
  /\ outgoing.reads <= asks - madeAt + 1

-----------------------------------------------------------------------------
(* The steps, by what they do to outgoing.                                 *)
SameTable == UNCHANGED <<ClientArray, TotalClients, joined, ticket>>

Kept == UNCHANGED outVars /\ asks <= asks'

(* A chat frame is parsed from the head of a client's queue.               *)
ChatMove(j, n) ==
  /\ RecvChat(j, n)
  /\ SameTable /\ UNCHANGED asks /\ madeAt' = asks

(* A login: outgoing is sent as it is.                                     *)
AskMove ==
  /\ Broadcast(outgoing) /\ UNCHANGED madeAt
  /\ asks' = asks + 1
  /\ SameTable

(* outgoing is written and not sent.                                       *)
Overwrite ==
  /\ UNCHANGED <<toClient, casts, asks>> /\ madeAt' = asks
  /\ \E text \in SomeText :
       /\ outgoing' = MakeProtocol("RECV_MESSAGE", text)
       /\ \/ text = NoText
          \/ \E c \in Clients : StaleCount(c) /\ buffer[c].text = text

ReplyMove ==
  \E n \in 1 .. Len(authRep) :
    /\ ForwardReply(n) \/ (ReplyToNobody(n) /\ UNCHANGED <<toClient, casts>>)
    /\ SameTable /\ UNCHANGED asks /\ madeAt' = asks

LEMMA FrameTexts ==
  ASSUME Inv, NEW j \in Due
  PROVE  /\ ClientArray[j] \in Clients /\ j \in Used
         /\ buffer[ClientArray[j]].text \in SomeText
<1>1. ClientArray[j] \in Clients /\ j \in Used
  BY UsedSlots DEF Inv
<1>2. buffer[ClientArray[j]] \in ClientFrame \cup {[type |-> NoType, text |-> NoText]}
  BY <1>1 DEF Inv, TypeOK, RecvTypeOK
<1>. QED
  BY <1>1, <1>2 DEF ClientFrame, SomeText

LEMMA AsksStay == ASSUME Inv, UNCHANGED asks PROVE asks <= asks'
  BY DEF Inv, TypeOK, AuthTypeOK

LEMMA SendMoves ==
  ASSUME Inv, [Next]_vars
  PROVE  \/ Kept
         \/ \E j \in Due : \E n \in 1 .. Len(toServer[ClientArray[j]]) : ChatMove(j, n)
         \/ AskMove
         \/ Overwrite
         \/ ReplyMove
<1>1. CASE \/ Select \/ AcceptClient \/ AcceptOverflow \/ AcceptFails \/ EndScan
           \/ NoReply \/ ClientStep \/ UNCHANGED vars
  <2>1. UNCHANGED <<outVars, asks>>
    BY <1>1 DEF Select, AcceptClient, AcceptOverflow, AcceptFails, EndScan,
      NoReply, ClientStep, vars, authVars
  <2>. QED
    BY <2>1, AsksStay DEF Kept, outVars
<1>2. CASE AuthStep
  <2>1. UNCHANGED <<outVars, asks>>
    BY <1>2 DEF AuthStep, AuthAnswers, AuthCloses
  <2>. QED
    BY <2>1, AsksStay DEF Kept, outVars
<1>3. ASSUME NEW j \in Due, NEW n \in 1 .. Len(toServer[ClientArray[j]]),
             RecvChat(j, n)
      PROVE  ChatMove(j, n)
  BY <1>3 DEF ChatMove, RecvChat, SameTable, tableVars, authVars
<1>4. ASSUME NEW j \in Due, NEW n \in 1 .. Len(toServer[ClientArray[j]]),
             RecvAuth(j, n)
      PROVE  AskMove
  BY <1>4 DEF AskMove, RecvAuth, Forward, SameTable, tableVars
<1>5. ASSUME NEW j \in Due, NEW n \in 1 .. Len(toServer[ClientArray[j]]),
             RecvAuthCrash(j, n) \/ RecvAuthUnsent(j, n)
      PROVE  Kept
  <2>1. UNCHANGED outVars /\ (asks' = asks \/ asks' = asks + 1)
    BY <1>5 DEF RecvAuthCrash, RecvAuthUnsent, Forward, ForwardFails, authVars
  <2>. QED
    BY <2>1 DEF Kept, outVars, Inv, TypeOK, AuthTypeOK
<1>6. ASSUME NEW j \in Due, RecvNothing(j) PROVE Kept \/ Overwrite
  <2>1. UNCHANGED <<toClient, casts>>
    BY <1>6 DEF RecvNothing
  <2>2. PICK type \in Leftover : Phantom(type, j)
    BY <1>6 DEF RecvNothing
  <2>3. CASE type \in ChatTypes /\ Writes(NewMessage(NoText)) /\ UNCHANGED authVars
    <3>1. NoText \in SomeText
      BY DEF SomeText
    <3>. QED
      BY <2>1, <2>3, <3>1 DEF Overwrite, Writes, NewMessage, authVars
  <2>4. CASE /\ UNCHANGED <<outgoing, madeAt>>
             /\ asks' = asks \/ asks' = asks + 1
    BY <2>1, <2>4 DEF Kept, outVars, Inv, TypeOK, AuthTypeOK
  <2>. QED
    BY <2>2, <2>3, <2>4 DEF Phantom, Forward, ForwardFails, authVars
<1>7. ASSUME NEW j \in Due, ReparseOther(j) PROVE Kept \/ Overwrite
  <2>. DEFINE c == ClientArray[j]
  <2>1. UNCHANGED <<toClient, casts>> /\ UNCHANGED asks /\ StaleCount(c)
    BY <1>7 DEF ReparseOther, ForwardFails, authVars
  <2>2. c \in Clients /\ buffer[c].text \in SomeText
    BY FrameTexts
  <2>3. CASE Writes(NewMessage(buffer[c].text))
    BY <2>1, <2>2, <2>3 DEF Overwrite, Writes, NewMessage
  <2>4. CASE UNCHANGED <<outgoing, madeAt>>
    BY <2>1, <2>4, AsksStay DEF Kept, outVars
  <2>. QED
    BY <1>7, <2>3, <2>4 DEF ReparseOther
<1>8. ASSUME NEW j \in Due, ReparseAuth(j) PROVE AskMove
  BY <1>8 DEF AskMove, ReparseAuth, Forward, SameTable, tableVars
<1>9. ASSUME NEW j \in Due, ReparseCrash(j) PROVE Kept
  <2>1. UNCHANGED outVars /\ asks' = asks + 1
    BY <1>9 DEF ReparseCrash, Forward
  <2>. QED
    BY <2>1 DEF Kept, outVars, Inv, TypeOK, AuthTypeOK
<1>10. ASSUME NEW n \in 1 .. Len(authRep), ForwardReply(n) \/ ReplyToNobody(n)
       PROVE  ReplyMove
  <2>1. SameTable /\ UNCHANGED asks /\ madeAt' = asks
    BY <1>10 DEF ForwardReply, ReplyToNobody, TakeReplies, SameTable, tableVars,
      Writes
  <2>2. CASE ForwardReply(n)
    BY <2>1, <2>2 DEF ReplyMove
  <2>3. CASE ReplyToNobody(n)
    <3>1. UNCHANGED <<toClient, casts>>
      BY <2>3 DEF ReplyToNobody
    <3>. QED
      BY <2>1, <2>3, <3>1 DEF ReplyMove
  <2>. QED
    BY <1>10, <2>2, <2>3
<1>11. ASSUME NEW n \in 1 .. Len(authRep), DropReply(n) PROVE Kept
  <2>1. UNCHANGED outVars /\ UNCHANGED asks
    BY <1>11 DEF DropReply, TakeReplies
  <2>. QED
    BY <2>1, AsksStay DEF Kept, outVars
<1>. QED
  BY <1>1, <1>2, <1>3, <1>4, <1>5, <1>6, <1>7, <1>8, <1>9, <1>10, <1>11
    DEF Next, Server

-----------------------------------------------------------------------------
(* How often outgoing has been read.                                       *)
LEMMA OneReading ==
  ASSUME NEW type \in FrameType, NEW text
  PROVE  /\ AfterPayload(MakeProtocol(type, text)).reads = 1
         /\ AfterPayload(MakeProtocol(type, text)).type = type
         /\ type # NoType
<1>1. type # NoType
  BY DEF FrameType, ProtocolType, NoType
<1>. QED
  BY <1>1 DEF AfterPayload, MakeProtocol, SafeReads, MaxReads

LEMMA ReadsStep == Inv /\ ReadsInv /\ [Next]_vars => ReadsInv'
<1>. SUFFICES ASSUME Inv, ReadsInv, [Next]_vars PROVE ReadsInv'
  OBVIOUS
<1>1. /\ outgoing \in OutBuffer /\ outgoing.reads \in Nat
      /\ asks \in Nat /\ madeAt \in Nat
  BY WordsOfBuffer DEF Inv, TypeOK, OutTypeOK, AuthTypeOK, OutBuffer
<1>2. asks' \in Nat
  <2>1. Inv'
    BY NextInv
  <2>. QED
    BY <2>1 DEF Inv, TypeOK, AuthTypeOK
<1>3. CASE Kept
  BY <1>1, <1>2, <1>3 DEF Kept, ReadsInv, outVars
<1>4. ASSUME NEW type \in FrameType, NEW text, UNCHANGED asks, madeAt' = asks,
             \/ outgoing' = AfterPayload(MakeProtocol(type, text))
             \/ outgoing' = MakeProtocol(type, text)
      PROVE  ReadsInv'
  <2>1. outgoing'.reads \in 0 .. 1 /\ outgoing'.type # NoType
    BY <1>4, OneReading DEF MakeProtocol
  <2>. QED
    BY <1>1, <1>4, <2>1 DEF ReadsInv
<1>5. "RECV_MESSAGE" \in FrameType
  BY DEF FrameType, ProtocolType
<1>6. CASE \E j \in Due : \E n \in 1 .. Len(toServer[ClientArray[j]]) : ChatMove(j, n)
  BY <1>4, <1>5, <1>6 DEF ChatMove, RecvChat, Broadcast, NewMessage
<1>7. CASE AskMove
  <2>1. outgoing' = AfterPayload(outgoing) /\ asks' = asks + 1 /\ madeAt' = madeAt
    BY <1>7 DEF AskMove, Broadcast
  <2>2. /\ outgoing'.type = outgoing.type
        /\ outgoing'.reads \in {outgoing.reads, outgoing.reads + 1}
    BY <1>1, <2>1 DEF AfterPayload, OutBuffer
  <2>. QED
    BY <1>1, <2>1, <2>2 DEF ReadsInv
<1>8. CASE Overwrite
  BY <1>4, <1>5, <1>8 DEF Overwrite
<1>9. CASE ReplyMove
  <2>1. /\ outgoing' = ReplyBuffer(Head(authRep)) /\ authRep # <<>>
        /\ UNCHANGED asks /\ madeAt' = asks
    BY <1>9 DEF ReplyMove, ForwardReply, ReplyToNobody, Writes
  <2>2. Head(authRep).type \in ReplyTypes
    <3>1. authRep \in Seq(Reply)
      BY DEF Inv, TypeOK, AuthTypeOK
    <3>2. Head(authRep) \in Reply
      BY <2>1, <3>1
    <3>. QED
      BY <3>2 DEF Reply
  <2>3. Head(authRep).type \in FrameType
    BY <2>2 DEF ReplyTypes, FrameType, ProtocolType
  <2>. QED
    BY <1>4, <2>1, <2>3 DEF ReplyBuffer
<1>. QED
  BY <1>3, <1>6, <1>7, <1>8, <1>9, SendMoves

(* The readings it takes before one may fail.                              *)
WordsRead(type) == IF type = NoType THEN BlankWords ELSE 2

(* A payload that cannot be read has been read so often since it was       *)
(* written.                                                                *)
LEMMA FailsLate ==
  ASSUME Inv, ReadsInv, PayloadMayFail(outgoing)
  PROVE  asks >= madeAt + WordsRead(outgoing.type)
BY WordsOfBuffer
DEF PayloadMayFail, SafeReads, MaxReads, ReadsInv, Inv, TypeOK, OutTypeOK,
    AuthTypeOK, OutBuffer, WordsRead

LEMMA AsksGrow == ASSUME Inv, [Next]_vars PROVE asks \in Nat /\ asks' \in Nat /\ asks <= asks'
<1>1. asks \in Nat
  BY DEF Inv, TypeOK, AuthTypeOK
<1>2. asks' \in {asks, asks + 1}
  BY AuthMoves DEF authVars, Forward, TakeReplies, AuthAnswers, AuthCloses
<1>. QED
  BY <1>1, <1>2

LEMMA CrashMoves ==
  ASSUME Inv, [Next]_vars, fault' = "bad_payload", fault # "bad_payload"
  PROVE  /\ PayloadMayFail(outgoing) /\ asks' = asks + 1
         /\ UNCHANGED <<outgoing, madeAt>> /\ pc' = "stopped"
<1>1. CASE Server
  BY <1>1
  DEF Server, Select, AcceptClient, AcceptOverflow, AcceptFails, RecvChat,
      RecvAuth, RecvAuthCrash, RecvAuthUnsent, RecvNothing, ReparseOther,
      ReparseAuth, ReparseCrash, EndScan, ForwardReply, ReplyToNobody, DropReply,
      NoReply, Turn, CrashIn, Stop, NextRound, Forward, outVars
<1>2. CASE ClientStep \/ AuthStep \/ UNCHANGED vars
  BY <1>2 DEF ClientStep, AuthStep, vars, loopVars
<1>. QED
  BY <1>1, <1>2 DEF Next

(* A process that has ended takes no step.                                 *)
LEMMA StoppedStays ==
  ASSUME Inv, [Next]_vars, pc = "stopped"
  PROVE  UNCHANGED <<outgoing, madeAt, fault, pc>>
<1>1. ~Server
  BY DEF Server, Select, AcceptClient, AcceptOverflow, AcceptFails, RecvChat,
      RecvAuth, RecvAuthCrash, RecvAuthUnsent, RecvNothing, ReparseOther,
      ReparseAuth, ReparseCrash, EndScan, ForwardReply, ReplyToNobody, DropReply,
      NoReply, Turn, CrashIn, TakeReplies
<1>. QED
  BY <1>1 DEF Next, ClientStep, AuthStep, vars, loopVars, outVars

(* A process that text or heap memory has ended is at its end.             *)
EndedInv == fault = "bad_payload" => pc = "stopped"

LEMMA CrashStep ==
  Inv /\ ReadsInv /\ EndedInv /\ CrashNeedsThreeAsks /\ [Next]_vars
    => EndedInv' /\ CrashNeedsThreeAsks'
<1>. SUFFICES ASSUME Inv, ReadsInv, EndedInv, CrashNeedsThreeAsks, [Next]_vars,
                     fault' = "bad_payload"
              PROVE  /\ pc' = "stopped"
                     /\ asks' >= madeAt' + IF outgoing'.type = NoType
                                           THEN BlankWords + 1 ELSE 3
  BY DEF EndedInv, CrashNeedsThreeAsks
<1>0. madeAt \in Nat /\ BlankWords \in Nat
  BY WordsOfBuffer DEF Inv, TypeOK, OutTypeOK
<1>1. CASE fault = "bad_payload"
  <2>1. UNCHANGED <<outgoing, madeAt, pc>> /\ pc = "stopped"
    BY <1>1, StoppedStays DEF EndedInv
  <2>2. asks >= madeAt + IF outgoing.type = NoType THEN BlankWords + 1 ELSE 3
    BY <1>1 DEF CrashNeedsThreeAsks
  <2>. QED
    BY <1>0, <2>1, <2>2, AsksGrow
<1>2. CASE fault # "bad_payload"
  <2>1. /\ PayloadMayFail(outgoing) /\ asks' = asks + 1
        /\ UNCHANGED <<outgoing, madeAt>> /\ pc' = "stopped"
    BY <1>2, CrashMoves
  <2>2. asks >= madeAt + WordsRead(outgoing.type)
    BY <2>1, FailsLate
  <2>. QED
    BY <1>0, <2>1, <2>2, AsksGrow DEF WordsRead
<1>. QED
  BY <1>1, <1>2

LEMMA Readings == Spec => [](Inv /\ ReadsInv /\ CrashNeedsThreeAsks)
<1>1. Init => ReadsInv /\ EndedInv /\ CrashNeedsThreeAsks
  BY DEF Init, ReadsInv, EndedInv, CrashNeedsThreeAsks, BlankBuffer, MakeProtocol
<1>. QED
  BY <1>1, InitInv, NextInv, ReadsStep, CrashStep, PTL DEF Spec

(* The third login after outgoing was last written is the first that can   *)
(* end the server, and of a new Buffer the first login after its last word *)
(* (server_main.cpp:527 and Buffer.cpp's PayloadToString): the logins      *)
(* before the last message or answer do not count.                         *)
THEOREM CrashNeedsThreeAsksAlways == Spec => []CrashNeedsThreeAsks
  BY Readings, PTL

-----------------------------------------------------------------------------
(* What a broadcast appends.                                               *)
LEMMA CastSent ==
  ASSUME Inv, NEW out \in OutBuffer, Broadcast(out), out.type # NoType
  PROVE  \E g \in StreamFrame :
           /\ g.type \in TypesOnTheWire(out) /\ g.text = out.text
           /\ g.whole = Whole(out) /\ g.cast = casts + 1
           /\ casts' = casts + 1
           /\ \A c \in Clients :
                toClient'[c] = IF c \in Table THEN Append(toClient[c], g)
                               ELSE toClient[c]
<1>1. PICK type \in TypesOnTheWire(out) :
        /\ toClient' =
             [c \in Clients |->
                IF c \in Recipients
                THEN Append(toClient[c],
                            [type |-> type, text |-> out.text,
                             whole |-> Whole(out), cast |-> casts + 1,
                             asker |-> NULL])
                ELSE toClient[c]]
        /\ casts' = casts + 1
  BY DEF Broadcast
<1>2. type \in FrameType \cup {Garbage}
  BY DEF TypesOnTheWire, OutBuffer
<1>. DEFINE g == [type |-> type, text |-> out.text, whole |-> Whole(out),
                  cast |-> casts + 1, asker |-> NULL]
<1>3. g \in StreamFrame
  BY <1>2 DEF StreamFrame, Whole, OutBuffer, Inv, TypeOK, OutTypeOK
<1>4. /\ g.type \in TypesOnTheWire(out) /\ g.text = out.text
      /\ g.whole = Whole(out) /\ g.cast = casts + 1
  OBVIOUS
<1>5. \A c \in Clients :
        toClient'[c] = IF c \in Table THEN Append(toClient[c], g) ELSE toClient[c]
  BY <1>1 DEF Recipients
<1>. HIDE DEF g
<1>. QED
  BY <1>1, <1>3, <1>4, <1>5

(* What an answer appends.                                                 *)
LEMMA AnswerSent ==
  ASSUME Inv, NEW n \in 1 .. Len(authRep), ForwardReply(n)
  PROVE  \E g \in StreamFrame, d \in Clients :
           /\ g.whole /\ g.cast = 0
           /\ d \in Table
           /\ toClient' = [toClient EXCEPT ![d] = Append(@, g)]
<1>. DEFINE reply == Head(authRep)
            g == [type |-> reply.type, text |-> reply.text, whole |-> TRUE,
                  cast |-> 0, asker |-> reply.asker]
            d == ClientArray[reply.requestid]
<1>1. reply \in Reply
  <2>1. authRep \in Seq(Reply) /\ authRep # <<>>
    BY DEF Inv, TypeOK, AuthTypeOK
  <2>. QED
    BY <2>1
<1>2. reply.type \in FrameType
  BY <1>1 DEF Reply, ReplyTypes, FrameType, ProtocolType
<1>3. g \in StreamFrame
  BY <1>1, <1>2 DEF Reply, StreamFrame
<1>4. reply.requestid \in Slots /\ d # NULL
  BY <1>1 DEF Reply, ForwardReply
<1>5. d \in Clients
  BY <1>4 DEF Inv, TypeOK, TableTypeOK
<1>6. d \in Table
  BY <1>4 DEF Inv, TableInArrivalOrder, Table
<1>7. g.whole /\ g.cast = 0
  OBVIOUS
<1>8. toClient' = [toClient EXCEPT ![d] = Append(@, g)]
  BY DEF ForwardReply
<1>. HIDE DEF g, d
<1>. QED
  BY <1>3, <1>5, <1>6, <1>7, <1>8

(* The frames of a stream after a step.                                    *)
LEMMA StreamAppend ==
  ASSUME Inv, NEW c \in Clients, NEW g \in StreamFrame,
         toClient'[c] = Append(toClient[c], g)
  PROVE  Stream(c)' = Stream(c) \cup {g}
<1>1. toClient[c] \in Seq(StreamFrame)
  BY DEF Inv, TypeOK, OutTypeOK
<1>2. Stream(c) = Elems(toClient[c]) /\ Stream(c)' = Elems(toClient'[c])
  BY DEF Stream, Elems
<1>. QED
  BY <1>1, <1>2, AppendElems

(* The message a chat frame becomes.                                       *)
LEMMA ChatTexts ==
  ASSUME Inv, NEW j \in Due, NEW n \in 1 .. Len(toServer[ClientArray[j]]),
         ChatMove(j, n)
  PROVE  LET text == Head(toServer[ClientArray[j]]).text
         IN text \in SomeText /\ Broadcast(NewMessage(text))
<1>1. n \in Nat /\ Receive(ClientArray[j], n)
  BY DEF ChatMove, RecvChat
<1>2. Head(toServer[ClientArray[j]]) \in ClientFrame
  BY <1>1, UsedSlots, ReceiveTypes DEF Inv
<1>. QED
  BY <1>2 DEF ClientFrame, SomeText, ChatMove, RecvChat

(* A frame that is new in a stream is a broadcast of a fresh message, a    *)
(* broadcast of outgoing by a login, or an answer.                         *)
LEMMA NewFrames ==
  ASSUME Inv, [Next]_vars, NEW c \in Clients, NEW f \in Stream(c)', f \notin Stream(c)
  PROVE  \/ \E out \in OutBuffer :
              /\ \/ asks' = asks + 1 /\ out = outgoing
                 \/ \E j \in Due, n \in Nat :
                      /\ ChatMove(j, n)
                      /\ out = NewMessage(Head(toServer[ClientArray[j]]).text)
              /\ c \in Table
              /\ f.type \in TypesOnTheWire(out) /\ f.text = out.text
              /\ f.whole = Whole(out) /\ f.cast = casts + 1
         \/ f.whole /\ IsReply(f)
<1>1. ~UNCHANGED toClient
  BY DEF Stream
<1>2. ASSUME NEW out \in OutBuffer, Broadcast(out)
      PROVE  /\ c \in Table
             /\ f.type \in TypesOnTheWire(out) /\ f.text = out.text
             /\ f.whole = Whole(out) /\ f.cast = casts + 1
  <2>1. out.type # NoType
    BY <1>1, <1>2 DEF Broadcast
  <2>2. PICK g \in StreamFrame :
           /\ g.type \in TypesOnTheWire(out) /\ g.text = out.text
           /\ g.whole = Whole(out) /\ g.cast = casts + 1
           /\ toClient'[c] = IF c \in Table THEN Append(toClient[c], g)
                             ELSE toClient[c]
    BY <1>2, <2>1, CastSent
  <2>3. c \in Table
    BY <2>2 DEF Stream
  <2>4. f = g
    BY <2>2, <2>3, StreamAppend
  <2>. QED
    BY <2>2, <2>3, <2>4
<1>3. CASE \E j \in Due : \E n \in 1 .. Len(toServer[ClientArray[j]]) : ChatMove(j, n)
  <2>0. PICK j \in Due : \E n \in 1 .. Len(toServer[ClientArray[j]]) : ChatMove(j, n)
    BY <1>3
  <2>1. PICK n \in 1 .. Len(toServer[ClientArray[j]]) : ChatMove(j, n)
    BY <2>0
  <2>. DEFINE out == NewMessage(Head(toServer[ClientArray[j]]).text)
  <2>2. out \in OutBuffer /\ Broadcast(out)
    BY <2>1, ChatTexts, MessageTypes
  <2>3. n \in Nat
    OBVIOUS
  <2>. HIDE DEF out
  <2>4. /\ c \in Table
        /\ f.type \in TypesOnTheWire(out) /\ f.text = out.text
        /\ f.whole = Whole(out) /\ f.cast = casts + 1
    BY <1>2, <2>2
  <2>. USE DEF out
  <2>. QED
    BY <2>1, <2>2, <2>3, <2>4
<1>4. CASE AskMove
  BY <1>2, <1>4 DEF AskMove, Inv, TypeOK, OutTypeOK
<1>5. CASE ReplyMove
  <2>1. PICK n \in 1 .. Len(authRep) : ForwardReply(n)
    BY <1>1, <1>5 DEF ReplyMove
  <2>2. PICK g \in StreamFrame, d \in Clients :
          /\ g.whole /\ g.cast = 0
          /\ toClient' = [toClient EXCEPT ![d] = Append(@, g)]
    BY <2>1, AnswerSent
  <2>3. toClient'[c] = IF c = d THEN Append(toClient[c], g) ELSE toClient[c]
    BY <2>2 DEF Inv, TypeOK, OutTypeOK
  <2>4. f = g
    <3>1. c = d
      BY <2>3 DEF Stream
    <3>. QED
      BY <2>3, <3>1, StreamAppend
  <2>. QED
    BY <2>2, <2>4 DEF IsReply
<1>. QED
  BY <1>1, <1>3, <1>4, <1>5, SendMoves DEF Kept, Overwrite, outVars

(* What a step adds to a stream: a frame that is whole, or outgoing once   *)
(* more, by a login.                                                       *)
OneMore(c) ==
  \E g \in StreamFrame :
    /\ toClient'[c] = Append(toClient[c], g)
    /\ \/ g.whole = TRUE
       \/ /\ asks' = asks + 1
          /\ g.type \in TypesOnTheWire(outgoing)
          /\ g.whole = Whole(outgoing)

LEMMA StreamGains ==
  ASSUME Inv, [Next]_vars, NEW c \in Clients, toClient'[c] # toClient[c]
  PROVE  OneMore(c)
<1>1. ASSUME NEW out \in OutBuffer, Broadcast(out)
      PROVE  \E g \in StreamFrame :
               /\ g.type \in TypesOnTheWire(out) /\ g.whole = Whole(out)
               /\ toClient'[c] = Append(toClient[c], g)
  <2>1. out.type # NoType
    BY <1>1 DEF Broadcast
  <2>2. PICK g \in StreamFrame :
           /\ g.type \in TypesOnTheWire(out) /\ g.whole = Whole(out)
           /\ toClient'[c] = IF c \in Table THEN Append(toClient[c], g)
                             ELSE toClient[c]
    BY <1>1, <2>1, CastSent
  <2>. QED
    BY <2>2
<1>2. CASE \E j \in Due : \E n \in 1 .. Len(toServer[ClientArray[j]]) : ChatMove(j, n)
  <2>1. PICK text \in SomeText : Broadcast(NewMessage(text))
    BY <1>2, ChatTexts
  <2>2. NewMessage(text) \in OutBuffer /\ Whole(NewMessage(text)) = TRUE
    BY MessageTypes DEF NewMessage, MakeProtocol, Whole
  <2>. QED
    BY <1>1, <2>1, <2>2 DEF OneMore
<1>3. CASE AskMove
  BY <1>1, <1>3 DEF AskMove, Inv, TypeOK, OutTypeOK, OneMore
<1>4. CASE ReplyMove
  <2>1. PICK n \in 1 .. Len(authRep) : ForwardReply(n)
    BY <1>4 DEF ReplyMove
  <2>2. PICK g \in StreamFrame, d \in Clients :
          g.whole /\ toClient' = [toClient EXCEPT ![d] = Append(@, g)]
    BY <2>1, AnswerSent
  <2>3. toClient'[c] = IF c = d THEN Append(toClient[c], g) ELSE toClient[c]
    BY <2>2 DEF Inv, TypeOK, OutTypeOK
  <2>4. g.whole = TRUE
    BY <2>2 DEF StreamFrame
  <2>. QED
    BY <2>2, <2>3, <2>4 DEF OneMore
<1>. QED
  BY <1>2, <1>3, <1>4, SendMoves DEF Kept, Overwrite, outVars

(* The last frame of a stream a step has added to.                         *)
LEMMA TornStep ==
  ASSUME Inv, ReadsInv, [Next]_vars, NEW c \in Clients, toClient'[c] # toClient[c]
  PROVE  LET last == toClient'[c][Len(toClient'[c])]
         IN last.type = "RECV_MESSAGE" => last.whole \/ asks' >= madeAt + 3
<1>1. PICK g \in StreamFrame :
        /\ toClient'[c] = Append(toClient[c], g)
        /\ \/ g.whole = TRUE
           \/ /\ asks' = asks + 1
              /\ g.type \in TypesOnTheWire(outgoing)
              /\ g.whole = Whole(outgoing)
  BY StreamGains DEF OneMore
<1>2. toClient'[c][Len(toClient'[c])] = g
  <2>1. toClient[c] \in Seq(StreamFrame)
    BY DEF Inv, TypeOK, OutTypeOK
  <2>. QED
    BY <1>1, <2>1
<1>3. ASSUME g.type = "RECV_MESSAGE", ~g.whole PROVE asks' >= madeAt + 3
  <2>1. outgoing \in OutBuffer /\ outgoing.reads \in Nat
    BY WordsOfBuffer DEF Inv, TypeOK, OutTypeOK, OutBuffer
  <2>2. outgoing.reads # 0
    BY <1>1, <1>3 DEF Whole
  <2>3. outgoing.reads \notin {1, 2}
    BY <1>1, <1>3 DEF TypesOnTheWire, ProtocolType, ReplyTypes, Garbage
  <2>. QED
    BY <1>1, <1>3, <2>1, <2>2, <2>3, AsksGrow
    DEF ReadsInv, Inv, TypeOK, OutTypeOK
<1>. QED
  BY <1>2, <1>3

(* The type word of a message that is sent again is not among the bytes    *)
(* copied, until the third login after the message was made                *)
(* (server_main.cpp:527).                                                  *)
THEOREM TornHasNoTypeAlways == Spec => TornHasNoType
<1>1. Inv /\ ReadsInv /\ [Next]_vars =>
        [\A c \in Clients : toClient'[c] # toClient[c] =>
           LET last == toClient'[c][Len(toClient'[c])]
           IN last.type = "RECV_MESSAGE" => last.whole \/ asks' >= madeAt + 3]_vars
  BY TornStep
<1>. QED
  BY <1>1, Readings, PTL DEF Spec, TornHasNoType

-----------------------------------------------------------------------------
(* Every broadcast, once and in order.                                     *)
Heard(c) == {f.cast : f \in {g \in Stream(c) : ~IsReply(g)}}
InOrder(c) ==
  \A j, k \in 1 .. Len(toClient[c]) :
    j < k /\ ~IsReply(toClient[c][j]) /\ ~IsReply(toClient[c][k])
      => toClient[c][j].cast < toClient[c][k].cast

HearsAll(c) ==
  /\ joined[c] <= casts
  /\ Heard(c) = joined[c] + 1 .. casts
  /\ InOrder(c)

HearInv ==
  /\ \A c \in Table : HearsAll(c)
  /\ \A c \in Clients : ticket[c] = 0 => toClient[c] = <<>>

(* Nobody is sent anything.                                                *)
LEMMA HearNothing ==
  ASSUME NEW c, HearsAll(c), UNCHANGED <<joined[c], casts, toClient[c]>>
  PROVE  HearsAll(c)'
<1>1. Stream(c)' = Stream(c) /\ InOrder(c)'
  BY DEF Stream, InOrder, HearsAll, IsReply
<1>2. Heard(c)' = Heard(c)
  BY <1>1 DEF Heard, IsReply
<1>. QED
  BY <1>1, <1>2 DEF HearsAll

(* One frame more: the next broadcast, or an answer.                       *)
LEMMA HearOne ==
  ASSUME Inv, NEW c \in Clients, HearsAll(c), NEW g \in StreamFrame,
         toClient'[c] = Append(toClient[c], g), UNCHANGED joined,
         \/ g.cast = casts + 1 /\ casts' = casts + 1
         \/ g.cast = 0 /\ casts' = casts
  PROVE  HearsAll(c)'
<1>. DEFINE s == toClient[c]
            n == Len(toClient[c])
<1>1. /\ s \in Seq(StreamFrame) /\ casts \in Nat /\ joined[c] \in Nat /\ n \in Nat
      /\ joined[c] <= casts
  BY DEF Inv, TypeOK, OutTypeOK, TableTypeOK, HearsAll
<1>2. \A f \in StreamFrame : f.cast \in Nat
  BY DEF StreamFrame
<1>3. Stream(c)' = Stream(c) \cup {g}
  BY StreamAppend
<1>4. Heard(c)' = IF IsReply(g) THEN Heard(c) ELSE Heard(c) \cup {g.cast}
  BY <1>3 DEF Heard, IsReply
<1>5. Heard(c) = joined[c] + 1 .. casts
  BY DEF HearsAll
<1>6. Heard(c)' = joined[c] + 1 .. casts'
  <2>1. CASE IsReply(g)
    <3>1. casts' = casts
      BY <1>1, <2>1 DEF IsReply
    <3>. QED
      BY <1>4, <1>5, <2>1, <3>1
  <2>2. CASE ~IsReply(g)
    <3>1. casts' = casts + 1 /\ g.cast = casts + 1
      BY <2>2 DEF IsReply
    <3>2. (joined[c] + 1 .. casts) \cup {casts + 1} = joined[c] + 1 .. casts + 1
      BY <1>1
    <3>. QED
      BY <1>4, <1>5, <2>2, <3>1, <3>2
  <2>. QED
    BY <2>1, <2>2
<1>7. \A k \in 1 .. n : s[k] \in StreamFrame /\ s[k] \in Stream(c)
  BY <1>1 DEF Stream
<1>8. \A k \in 1 .. n : ~IsReply(s[k]) => s[k].cast <= casts
  <2>1. \A k \in 1 .. n : ~IsReply(s[k]) => s[k].cast \in Heard(c)
    BY <1>7 DEF Heard
  <2>. QED
    BY <1>1, <1>5, <2>1
<1>9. /\ Len(toClient'[c]) = n + 1 /\ toClient'[c][n + 1] = g
      /\ \A k \in 1 .. n : toClient'[c][k] = s[k]
  BY <1>1
<1>10. InOrder(c)'
  <2>. SUFFICES ASSUME NEW j \in 1 .. n + 1, NEW k \in 1 .. n + 1, j < k,
                       ~IsReply(toClient'[c][j]), ~IsReply(toClient'[c][k])
                PROVE  toClient'[c][j].cast < toClient'[c][k].cast
    BY <1>9 DEF InOrder, IsReply
  <2>1. j \in 1 .. n /\ toClient'[c][j] = s[j]
    BY <1>1, <1>9
  <2>2. CASE k \in 1 .. n
    BY <1>9, <2>1, <2>2 DEF InOrder, HearsAll
  <2>3. CASE k = n + 1
    <3>1. toClient'[c][k] = g /\ g.cast = casts + 1
      BY <1>9, <2>3 DEF IsReply
    <3>. QED
      BY <1>1, <1>2, <1>7, <1>8, <2>1, <3>1
  <2>. QED
    BY <1>1, <2>2, <2>3
<1>. QED
  BY <1>1, <1>6, <1>10 DEF HearsAll

(* Who is in the table after a step.                                       *)
LEMMA TableAfter ==
  ASSUME Inv, [Next]_vars, NEW c \in Table'
  PROVE  /\ c \in Clients
         /\ \/ c \in Table /\ UNCHANGED joined[c]
            \/ ticket[c] = 0 /\ joined'[c] = casts /\ UNCHANGED <<toClient, casts>>
<1>1. Inv'
  BY NextInv
<1>2. c \in Clients /\ ticket'[c] > 0 /\ conn'[c] # "gone"
  <2>1. PICK k \in Used' : c = ClientArray'[k]
    BY DEF Table
  <2>2. \A k1 \in Used' : ClientArray'[k1] \in Clients
    <3>1. /\ ClientArray' \in [Slots -> Clients \cup {NULL}]
          /\ TotalClients' \in 0 .. FD_SETSIZE
          /\ \A k1 \in Slots : ClientArray'[k1] = NULL <=> k1 \notin Used'
      BY <1>1 DEF Inv, TypeOK, TableTypeOK, TableInArrivalOrder, Slots
    <3>2. Used' = 0 .. TotalClients' - 1
      BY DEF Used
    <3>3. /\ FD_SETSIZE \in Nat /\ TotalClients' \in Nat
          /\ TotalClients' <= FD_SETSIZE
      BY <3>1, SizeAssumption
    <3>4. \A n \in Nat : n <= FD_SETSIZE => 0 .. n - 1 \subseteq Slots
      BY <3>3 DEF Slots
    <3>5. Used' \subseteq Slots
      BY <3>2, <3>3, <3>4
    <3>. QED
      BY <3>1, <3>5
  <2>3. c \in Clients
    BY <2>1, <2>2
  <2>. QED
    BY <1>1, <2>3 DEF Inv, TableInArrivalOrder
<1>3. conn[c] # "gone" /\ ticket[c] \in Nat
  BY <1>2, TicketsStay
<1>4. CASE AcceptClient
  <2>1. /\ joined' = [joined EXCEPT ![Head(backlog)] = casts]
        /\ ticket' = [ticket EXCEPT ![Head(backlog)] = arrivals + 1]
        /\ UNCHANGED <<toClient, casts>>
    BY <1>4 DEF AcceptClient, outVars
  <2>2. joined \in [Clients -> Nat] /\ ticket \in [Clients -> Nat]
    BY DEF Inv, TypeOK, TableTypeOK
  <2>3. ticket[Head(backlog)] = 0
    <3>1. backlog # <<>> /\ backlog \in Seq(Clients)
      BY <1>4 DEF Inv, TypeOK, NetTypeOK, BacklogInv, AcceptClient
    <3>2. 1 \in 1 .. Len(backlog) /\ Head(backlog) = backlog[1]
      BY <3>1
    <3>. QED
      BY <3>2 DEF Inv, BacklogInv
  <2>4. CASE c = Head(backlog)
    BY <1>2, <2>1, <2>2, <2>3, <2>4
  <2>5. CASE c # Head(backlog)
    <3>1. UNCHANGED joined[c] /\ ticket[c] > 0
      BY <1>2, <2>1, <2>2, <2>5
    <3>. QED
      BY <1>2, <1>3, <3>1 DEF Inv, TableInArrivalOrder
  <2>. QED
    BY <2>4, <2>5
<1>5. CASE ~AcceptClient
  <2>1. UNCHANGED <<joined, ticket>>
    <3>1. CASE Server
      BY <1>5, <3>1
      DEF Server, Select, AcceptOverflow, AcceptFails, RecvChat, RecvAuth,
          RecvAuthCrash, RecvAuthUnsent, RecvNothing, ReparseOther, ReparseAuth,
          ReparseCrash, EndScan, ForwardReply, ReplyToNobody, DropReply, NoReply,
          RemoveClient, tableVars
    <3>2. CASE ClientStep \/ AuthStep \/ UNCHANGED vars
      BY <3>2 DEF ClientStep, AuthStep, vars, tableVars
    <3>. QED
      BY <3>1, <3>2 DEF Next
  <2>. QED
    BY <1>2, <1>3, <2>1 DEF Inv, TableInArrivalOrder
<1>. QED
  BY <1>2, <1>4, <1>5

(* What a client's stream becomes.                                         *)
LEMMA StreamAfter ==
  ASSUME Inv, [Next]_vars, NEW c \in Clients
  PROVE  \/ UNCHANGED <<toClient[c], casts>>
         \/ \E g \in StreamFrame :
              /\ c \in Table
              /\ toClient'[c] = Append(toClient[c], g) /\ UNCHANGED joined
              /\ \/ g.cast = casts + 1 /\ casts' = casts + 1
                 \/ g.cast = 0 /\ casts' = casts
         \/ c \notin Table /\ UNCHANGED toClient[c]
<1>. DEFINE Goal ==
         \/ UNCHANGED <<toClient[c], casts>>
         \/ \E g \in StreamFrame :
              /\ c \in Table
              /\ toClient'[c] = Append(toClient[c], g) /\ UNCHANGED joined
              /\ \/ g.cast = casts + 1 /\ casts' = casts + 1
                 \/ g.cast = 0 /\ casts' = casts
         \/ c \notin Table /\ UNCHANGED toClient[c]
<1>. SUFFICES Goal
  OBVIOUS
<1>1. CASE UNCHANGED <<toClient, casts>>
  BY <1>1
<1>2. ASSUME NEW out \in OutBuffer, Broadcast(out), SameTable
      PROVE  Goal
  <2>1. CASE out.type = NoType
    BY <1>1, <1>2, <2>1 DEF Broadcast
  <2>2. CASE out.type # NoType
    <3>1. PICK g \in StreamFrame :
            /\ g.cast = casts + 1 /\ casts' = casts + 1
            /\ toClient'[c] = IF c \in Table THEN Append(toClient[c], g)
                              ELSE toClient[c]
      BY <1>2, <2>2, CastSent
    <3>2. UNCHANGED joined
      BY <1>2 DEF SameTable
    <3>. QED
      BY <3>1, <3>2
  <2>. QED
    BY <2>1, <2>2
<1>3. ASSUME NEW j \in Due, NEW n \in 1 .. Len(toServer[ClientArray[j]]),
             ChatMove(j, n)
      PROVE  Goal
  <2>. DEFINE out == NewMessage(Head(toServer[ClientArray[j]]).text)
  <2>1. out \in OutBuffer /\ Broadcast(out) /\ SameTable
    BY <1>3, ChatTexts, MessageTypes DEF ChatMove
  <2>. HIDE DEF out, Goal
  <2>. QED
    BY <1>2, <2>1
<1>4. CASE AskMove
  <2>. HIDE DEF Goal
  <2>. QED
    BY <1>2, <1>4 DEF AskMove, Inv, TypeOK, OutTypeOK
<1>5. CASE ReplyMove
  <2>1. CASE \E n \in 1 .. Len(authRep) : ForwardReply(n)
    <3>1. PICK g \in StreamFrame, d \in Clients :
            /\ g.cast = 0 /\ d \in Table
            /\ toClient' = [toClient EXCEPT ![d] = Append(@, g)]
      BY <2>1, AnswerSent
    <3>2. toClient'[c] = IF c = d THEN Append(toClient[c], g) ELSE toClient[c]
      BY <3>1 DEF Inv, TypeOK, OutTypeOK
    <3>3. UNCHANGED <<joined, casts>>
      BY <1>5, <2>1 DEF ReplyMove, SameTable, ForwardReply
    <3>. QED
      BY <3>1, <3>2, <3>3
  <2>. QED
    BY <1>1, <1>5, <2>1 DEF ReplyMove
<1>. QED
  BY <1>1, <1>3, <1>4, <1>5, SendMoves DEF Kept, Overwrite, outVars

LEMMA HearStep == Inv /\ HearInv /\ [Next]_vars => HearInv'
<1>. SUFFICES ASSUME Inv, HearInv, [Next]_vars PROVE HearInv'
  OBVIOUS
<1>1. casts \in Nat
  BY DEF Inv, TypeOK, OutTypeOK
<1>2. ASSUME NEW c \in Clients, ticket'[c] = 0 PROVE toClient'[c] = <<>>
  <2>1. ticket[c] = 0 /\ c \notin Table
    BY <1>2, TicketsStay DEF Inv, TableInArrivalOrder
  <2>2. UNCHANGED toClient[c]
    BY <2>1, StreamAfter
  <2>. QED
    BY <2>1, <2>2 DEF HearInv
<1>3. ASSUME NEW c \in Table' PROVE HearsAll(c)'
  <2>1. c \in Clients
    BY <1>3, TableAfter
  <2>2. CASE c \in Table /\ UNCHANGED joined[c]
    <3>1. HearsAll(c)
      BY <2>2 DEF HearInv
    <3>. QED
      BY <2>1, <2>2, <3>1, StreamAfter, HearNothing, HearOne
  <2>3. CASE ticket[c] = 0 /\ joined'[c] = casts /\ UNCHANGED <<toClient, casts>>
    <3>1. toClient'[c] = <<>> /\ joined'[c] = casts'
      BY <2>1, <2>3 DEF HearInv
    <3>2. Stream(c)' = {}
      BY <3>1 DEF Stream
    <3>3. Heard(c)' = {} /\ InOrder(c)'
      BY <3>1, <3>2 DEF Heard, InOrder
    <3>4. joined'[c] + 1 .. casts' = {} /\ joined'[c] <= casts'
      BY <1>1, <2>3
    <3>. QED
      BY <3>3, <3>4 DEF HearsAll
  <2>. QED
    BY <1>3, <2>2, <2>3, TableAfter
<1>. QED
  BY <1>2, <1>3 DEF HearInv

(* Every client in the table has been sent every broadcast since its       *)
(* accept, once and in order (server_main.cpp:527-560), whatever else was  *)
(* accepted, removed or answered in the meantime.                          *)
THEOREM EveryoneHearsAlways == Spec => []EveryoneHearsEverything
<1>1. Init => HearInv
  BY DEF Init, HearInv, Table, Used
<1>2. HearInv => EveryoneHearsEverything
  BY DEF HearInv, HearsAll, Heard, InOrder, EveryoneHearsEverything
<1>. QED
  BY <1>1, <1>2, InitInv, NextInv, HearStep, PTL DEF Spec

-----------------------------------------------------------------------------
(* Every message whole, once.  What waits in a client's queue is the       *)
(* client's own and waits once; what was broadcast whole waits no more.    *)
Excused(t) == KeepsCount /\ author[t] \in MayReset
Waits(c, t) == \E k \in 1 .. Len(toServer[c]) : toServer[c][k].text = t
WholeCast(f) == ~IsReply(f) /\ f.whole /\ f.text # NoText

AuthorInv ==
  /\ \A c \in Clients : \A k \in 1 .. Len(toServer[c]) :
       author[toServer[c][k].text] = c
  /\ \A c \in Clients : \A j, k \in 1 .. Len(toServer[c]) :
       toServer[c][j].text = toServer[c][k].text => j = k
  /\ \A c \in Clients : buffer[c].text # NoText => author[buffer[c].text] = c
  /\ \A c \in Clients : conn[c] = "reset" => c \in MayReset

(* A message that is in outgoing and was not sent is a client's last,      *)
(* parsed again.                                                           *)
UnsentInv ==
  outgoing.reads = 0 => outgoing.text = NoText \/ Excused(outgoing.text)

SpentInv ==
  \A d \in Clients : \A f \in Stream(d) : WholeCast(f) =>
    /\ author[f.text] # NULL
    /\ Excused(f.text) \/ \A c \in Clients : ~Waits(c, f.text)

WholeInv == AuthorInv /\ UnsentInv /\ SpentInv

(* What a queue becomes: what is left of it, or one frame more.            *)
Rest(c, n) ==
  \A k \in 1 .. Len(toServer'[c]) :
    n + k \in 1 .. Len(toServer[c]) /\ toServer'[c][k] = toServer[c][n + k]

Grows(c) ==
  \E g \in ClientFrame :
    /\ author[g.text] = NULL /\ author'[g.text] = c
    /\ toServer'[c] = Append(toServer[c], g)

LEMMA SameQueue ==
  ASSUME Inv, NEW c \in Clients, UNCHANGED toServer[c]
  PROVE  Rest(c, 0)
<1>1. toServer[c] \in Seq(ClientFrame)
  BY DEF Inv, TypeOK, NetTypeOK
<1>. QED
  BY <1>1 DEF Rest

LEMMA EmptyQueue ==
  ASSUME NEW c, toServer'[c] = <<>>
  PROVE  Rest(c, 0)
  BY DEF Rest

LEMMA ShorterQueue ==
  ASSUME Inv, NEW c \in Clients, NEW n \in Nat, Consume(c, n)
  PROVE  Rest(c, n) /\ \A d \in Clients : d # c => Rest(d, 0)
<1>1. toServer[c] \in Seq(ClientFrame) /\ toServer \in [Clients -> Seq(ClientFrame)]
  BY DEF Inv, TypeOK, NetTypeOK
<1>2. toServer'[c] = SubSeq(toServer[c], n + 1, Len(toServer[c]))
  BY <1>1 DEF Consume
<1>3. Rest(c, n)
  BY <1>1, <1>2 DEF Rest
<1>4. ASSUME NEW d \in Clients, d # c PROVE Rest(d, 0)
  <2>1. UNCHANGED toServer[d]
    BY <1>1, <1>4 DEF Consume
  <2>. QED
    BY <2>1, SameQueue
<1>. QED
  BY <1>3, <1>4

LEMMA RemovedQueue ==
  ASSUME Inv, NEW j \in Used, RemoveClient(j), NEW c \in Clients
  PROVE  Rest(c, 0)
<1>1. UNCHANGED toServer[c] \/ toServer'[c] = <<>>
  BY DEF Inv, TypeOK, NetTypeOK, RemoveClient
<1>. QED
  BY <1>1, SameQueue, EmptyQueue

LEMMA QueueMoves ==
  ASSUME Inv, [Next]_vars, NEW c \in Clients
  PROVE  (\E n \in Nat : Rest(c, n)) \/ Grows(c)
<1>1. CASE UNCHANGED toServer
  BY <1>1, SameQueue
<1>2. \A j \in Due : j \in Used /\ ClientArray[j] \in Clients
  BY UsedSlots DEF Inv
<1>3. ASSUME NEW j \in Due, NEW n \in 1 .. Len(toServer[ClientArray[j]]),
             \/ RecvChat(j, n) \/ RecvAuth(j, n) \/ RecvAuthCrash(j, n)
             \/ RecvAuthUnsent(j, n)
      PROVE  \E m \in Nat : Rest(c, m)
  <2>1. n \in Nat /\ (Consume(ClientArray[j], n) \/ RemoveClient(j))
    BY <1>3 DEF RecvChat, RecvAuth, RecvAuthCrash, RecvAuthUnsent
  <2>. QED
    BY <1>2, <2>1, ShorterQueue, RemovedQueue
<1>4. ASSUME NEW j \in Due, RecvNothing(j) \/ ReparseOther(j)
      PROVE  Rest(c, 0)
  BY <1>2, <1>4, RemovedQueue DEF RecvNothing, ReparseOther
<1>5. CASE ClientStep
  <2>1. PICK d \in Clients : Connect(d) \/ Write(d) \/ Finish(d) \/ Reset(d)
    BY <1>5 DEF ClientStep
  <2>2. CASE Connect(d) \/ Finish(d)
    BY <1>1, <2>2 DEF Connect, Finish
  <2>3. CASE Reset(d)
    <3>1. UNCHANGED toServer[c] \/ toServer'[c] = <<>>
      BY <2>3 DEF Inv, TypeOK, NetTypeOK, Reset
    <3>. QED
      BY <3>1, SameQueue, EmptyQueue
  <2>4. CASE Write(d)
    <3>1. PICK t \in Texts, type \in Sends :
            /\ author[t] = NULL
            /\ author' = [author EXCEPT ![t] = d]
            /\ toServer' =
                 [toServer EXCEPT ![d] = Append(@, [type |-> type, text |-> t])]
      BY <2>4 DEF Write
    <3>2. CASE c # d
      <4>1. UNCHANGED toServer[c]
        BY <3>1, <3>2 DEF Inv, TypeOK, NetTypeOK
      <4>. QED
        BY <4>1, SameQueue
    <3>3. CASE c = d
      <4>. DEFINE g == [type |-> type, text |-> t]
      <4>1. g \in ClientFrame /\ g.text = t
        BY <3>1, TypesAssumption DEF ClientFrame
      <4>2. toServer'[c] = Append(toServer[c], g) /\ author'[t] = c
        BY <3>1, <3>3 DEF Inv, TypeOK, NetTypeOK
      <4>. HIDE DEF g
      <4>. QED
        BY <3>1, <4>1, <4>2 DEF Grows
    <3>. QED
      BY <3>2, <3>3
  <2>. QED
    BY <2>1, <2>2, <2>3, <2>4
<1>6. CASE \E j \in Due : ReparseAuth(j) \/ ReparseCrash(j)
  BY <1>1, <1>6 DEF ReparseAuth, ReparseCrash, netVars
<1>7. CASE \/ Select \/ AcceptClient \/ AcceptOverflow \/ AcceptFails
           \/ EndScan \/ NoReply
           \/ \E n \in 1 .. Len(authRep) :
                ForwardReply(n) \/ ReplyToNobody(n) \/ DropReply(n)
  BY <1>1, <1>7
  DEF Select, AcceptClient, AcceptOverflow, AcceptFails, EndScan, NoReply,
      ForwardReply, ReplyToNobody, DropReply, netVars
<1>8. CASE AuthStep \/ UNCHANGED vars
  BY <1>1, <1>8 DEF AuthStep, vars, netVars
<1>. QED
  BY <1>3, <1>4, <1>5, <1>6, <1>7, <1>8 DEF Next, Server

(* An author stays a text's author.                                        *)
LEMMA AuthorStays ==
  ASSUME Inv, [Next]_vars, NEW t \in Texts
  PROVE  /\ author[t] \in Clients \cup {NULL} /\ author'[t] \in Clients \cup {NULL}
         /\ author[t] # NULL => author'[t] = author[t]
         /\ author'[t] # author[t] => toClient' = toClient /\ outgoing' = outgoing
<1>1. author \in [Texts -> Clients \cup {NULL}]
  BY DEF Inv, TypeOK, NetTypeOK
<1>2. CASE UNCHANGED author
  BY <1>1, <1>2
<1>3. CASE ClientStep
  <2>1. PICK c \in Clients : Connect(c) \/ Write(c) \/ Finish(c) \/ Reset(c)
    BY <1>3 DEF ClientStep
  <2>2. CASE Write(c)
    BY <1>1, <1>3, <2>2 DEF Write, ClientStep, outVars
  <2>3. CASE Connect(c) \/ Finish(c) \/ Reset(c)
    BY <1>2, <2>3 DEF Connect, Finish, Reset
  <2>. QED
    BY <2>1, <2>2, <2>3
<1>4. CASE Server
  <2>1. UNCHANGED author
    BY <1>4
    DEF Server, Select, AcceptClient, AcceptOverflow, AcceptFails, RecvChat,
        RecvAuth, RecvAuthCrash, RecvAuthUnsent, RecvNothing, ReparseOther,
        ReparseAuth, ReparseCrash, EndScan, ForwardReply, ReplyToNobody, DropReply,
        NoReply, RemoveClient, Consume, netVars
  <2>. QED
    BY <1>2, <2>1
<1>5. CASE AuthStep \/ UNCHANGED vars
  BY <1>2, <1>5 DEF AuthStep, vars, netVars
<1>. QED
  BY <1>3, <1>4, <1>5 DEF Next

LEMMA BufferMoves ==
  ASSUME Inv, [Next]_vars, NEW c \in Clients
  PROVE  \/ UNCHANGED buffer[c]
         \/ /\ toServer[c] # <<>> /\ buffer'[c] = Head(toServer[c])
            /\ UNCHANGED author
<1>1. buffer \in [Clients -> ClientFrame \cup {[type |-> NoType, text |-> NoText]}]
  BY DEF Inv, TypeOK, RecvTypeOK
<1>2. ASSUME NEW j \in Due, NEW n \in 1 .. Len(toServer[ClientArray[j]]),
             \/ RecvChat(j, n) \/ RecvAuth(j, n) \/ RecvAuthCrash(j, n)
             \/ RecvAuthUnsent(j, n)
      PROVE  \/ UNCHANGED buffer[c]
             \/ /\ toServer[c] # <<>> /\ buffer'[c] = Head(toServer[c])
                /\ UNCHANGED author
  <2>1. Receive(ClientArray[j], n) /\ UNCHANGED author
    BY <1>2 DEF RecvChat, RecvAuth, RecvAuthCrash, RecvAuthUnsent, Consume,
      RemoveClient
  <2>. QED
    BY <1>1, <2>1 DEF Receive
<1>3. CASE \E j \in Due :
             RecvNothing(j) \/ ReparseOther(j) \/ ReparseAuth(j) \/ ReparseCrash(j)
  BY <1>3 DEF RecvNothing, ReparseOther, ReparseAuth, ReparseCrash, recvVars
<1>4. CASE \/ Select \/ AcceptClient \/ AcceptOverflow \/ AcceptFails
           \/ EndScan \/ NoReply
           \/ \E n \in 1 .. Len(authRep) :
                ForwardReply(n) \/ ReplyToNobody(n) \/ DropReply(n)
  BY <1>4
  DEF Select, AcceptClient, AcceptOverflow, AcceptFails, EndScan, NoReply,
      ForwardReply, ReplyToNobody, DropReply, recvVars
<1>5. CASE ClientStep \/ AuthStep \/ UNCHANGED vars
  BY <1>5 DEF ClientStep, AuthStep, vars, recvVars
<1>. QED
  BY <1>2, <1>3, <1>4, <1>5 DEF Next, Server

LEMMA ResetMoves ==
  ASSUME Inv, [Next]_vars, NEW c \in Clients, conn'[c] = "reset"
  PROVE  conn[c] = "reset" \/ c \in MayReset
<1>1. conn \in [Clients -> {"idle", "open", "finished", "reset", "gone"}]
  BY DEF Inv, TypeOK, NetTypeOK
<1>2. CASE UNCHANGED conn
  BY <1>2
<1>3. CASE ClientStep
  BY <1>1, <1>3 DEF ClientStep, Connect, Write, Finish, Reset
<1>4. CASE \E j \in Used : RemoveClient(j)
  BY <1>1, <1>4 DEF RemoveClient
<1>5. CASE Server
  <2>1. \A j \in Due : j \in Used
    BY UsedSlots DEF Inv
  <2>2. UNCHANGED conn \/ \E j \in Used : RemoveClient(j)
    BY <1>5, <2>1
    DEF Server, Select, AcceptClient, AcceptOverflow, AcceptFails, RecvChat,
        RecvAuth, RecvAuthCrash, RecvAuthUnsent, RecvNothing, ReparseOther,
        ReparseAuth, ReparseCrash, EndScan, ForwardReply, ReplyToNobody, DropReply,
        NoReply, Consume, netVars
  <2>. QED
    BY <1>2, <1>4, <2>2
<1>6. CASE AuthStep \/ UNCHANGED vars
  BY <1>2, <1>6 DEF AuthStep, vars, netVars
<1>. QED
  BY <1>3, <1>5, <1>6 DEF Next

(* What waits, and what a buffer holds, is a text.                         *)
LEMMA QueueTexts ==
  ASSUME Inv, NEW c \in Clients, NEW k \in 1 .. Len(toServer[c])
  PROVE  toServer[c] \in Seq(ClientFrame) /\ toServer[c][k].text \in Texts
<1>1. toServer[c] \in Seq(ClientFrame)
  BY DEF Inv, TypeOK, NetTypeOK
<1>2. toServer[c][k] \in ClientFrame
  BY <1>1
<1>. QED
  BY <1>1, <1>2 DEF ClientFrame

LEMMA AuthorStep == Inv /\ AuthorInv /\ [Next]_vars => AuthorInv'
<1>. SUFFICES ASSUME Inv, AuthorInv, [Next]_vars PROVE AuthorInv'
  OBVIOUS
<1>1. ASSUME NEW c \in Clients, NEW n \in Nat, Rest(c, n)
      PROVE  /\ \A k \in 1 .. Len(toServer'[c]) : author'[toServer'[c][k].text] = c
             /\ \A j, k \in 1 .. Len(toServer'[c]) :
                  toServer'[c][j].text = toServer'[c][k].text => j = k
  <2>1. ASSUME NEW k \in 1 .. Len(toServer'[c])
        PROVE  /\ n + k \in 1 .. Len(toServer[c])
               /\ toServer'[c][k] = toServer[c][n + k]
               /\ author'[toServer'[c][k].text] = c
    <3>1. n + k \in 1 .. Len(toServer[c]) /\ toServer'[c][k] = toServer[c][n + k]
      BY <1>1 DEF Rest
    <3>2. author[toServer[c][n + k].text] = c /\ toServer[c][n + k].text \in Texts
      BY <3>1, QueueTexts DEF AuthorInv
    <3>. QED
      BY <3>1, <3>2, AuthorStays, ClientsAssumption
  <2>2. ASSUME NEW j \in 1 .. Len(toServer'[c]), NEW k \in 1 .. Len(toServer'[c]),
               toServer'[c][j].text = toServer'[c][k].text
        PROVE  j = k
    <3>1. n + j = n + k
      <4>1. toServer[c][n + j].text = toServer[c][n + k].text
        BY <2>1, <2>2
      <4>2. n + j \in 1 .. Len(toServer[c]) /\ n + k \in 1 .. Len(toServer[c])
        BY <2>1, <2>2
      <4>3. \A a, b \in 1 .. Len(toServer[c]) :
              toServer[c][a].text = toServer[c][b].text => a = b
        BY DEF AuthorInv
      <4>. QED
        BY Zenon, <4>1, <4>2, <4>3
    <3>2. j \in Int /\ k \in Int
      OBVIOUS
    <3>. QED
      BY <3>1, <3>2
  <2>. QED
    BY <2>1, <2>2
<1>2. ASSUME NEW c \in Clients, Grows(c)
      PROVE  /\ \A k \in 1 .. Len(toServer'[c]) : author'[toServer'[c][k].text] = c
             /\ \A j, k \in 1 .. Len(toServer'[c]) :
                  toServer'[c][j].text = toServer'[c][k].text => j = k
  <2>. DEFINE s == toServer[c]
              m == Len(toServer[c])
  <2>1. PICK g \in ClientFrame :
          /\ author[g.text] = NULL /\ author'[g.text] = c
          /\ toServer'[c] = Append(toServer[c], g)
    BY <1>2 DEF Grows
  <2>2. s \in Seq(ClientFrame) /\ m \in Nat
    BY DEF Inv, TypeOK, NetTypeOK
  <2>3. /\ Len(toServer'[c]) = m + 1 /\ toServer'[c][m + 1] = g
        /\ \A k \in 1 .. m : toServer'[c][k] = s[k]
    BY <2>1, <2>2
  <2>4. ASSUME NEW k \in 1 .. m
        PROVE  author[s[k].text] = c /\ author'[s[k].text] = c /\ s[k].text # g.text
    <3>1. author[s[k].text] = c /\ s[k].text \in Texts
      BY QueueTexts DEF AuthorInv
    <3>. QED
      BY <2>1, <3>1, AuthorStays, ClientsAssumption
  <2>5. \A k \in 1 .. m + 1 : k \in 1 .. m \/ k = m + 1
    BY <2>2
  <2>6. \A k \in 1 .. m + 1 : author'[toServer'[c][k].text] = c
    BY <2>1, <2>3, <2>4, <2>5
  <2>7. \A j, k \in 1 .. m : s[j].text = s[k].text => j = k
    BY DEF AuthorInv
  <2>. HIDE DEF s, m
  <2>8. \A j, k \in 1 .. m + 1 :
          toServer'[c][j].text = toServer'[c][k].text => j = k
    BY <2>3, <2>4, <2>5, <2>7
  <2>. QED
    BY <2>3, <2>6, <2>8
<1>3. ASSUME NEW c \in Clients, buffer'[c].text # NoText
      PROVE  author'[buffer'[c].text] = c
  <2>1. CASE UNCHANGED buffer[c]
    <3>1. buffer[c] \in ClientFrame \cup {[type |-> NoType, text |-> NoText]}
      BY DEF Inv, TypeOK, RecvTypeOK
    <3>2. buffer[c].text \in Texts /\ author[buffer[c].text] = c
      BY <1>3, <2>1, <3>1 DEF ClientFrame, AuthorInv
    <3>. QED
      BY <2>1, <3>2, AuthorStays, ClientsAssumption
  <2>2. CASE /\ toServer[c] # <<>> /\ buffer'[c] = Head(toServer[c])
             /\ UNCHANGED author
    <3>1. toServer[c] \in Seq(ClientFrame)
      BY DEF Inv, TypeOK, NetTypeOK
    <3>2. 1 \in 1 .. Len(toServer[c]) /\ buffer'[c] = toServer[c][1]
      BY <2>2, <3>1
    <3>. QED
      BY <2>2, <3>2 DEF AuthorInv
  <2>. QED
    BY <2>1, <2>2, BufferMoves
<1>4. \A c \in Clients : conn'[c] = "reset" => c \in MayReset
  BY ResetMoves DEF AuthorInv
<1>5. \A c \in Clients :
        /\ \A k \in 1 .. Len(toServer'[c]) : author'[toServer'[c][k].text] = c
        /\ \A j, k \in 1 .. Len(toServer'[c]) :
             toServer'[c][j].text = toServer'[c][k].text => j = k
  BY <1>1, <1>2, QueueMoves
<1>. QED
  BY <1>3, <1>4, <1>5 DEF AuthorInv

(* The texts of a whole broadcast.                                         *)
LEMMA ExcusedStays ==
  ASSUME Inv, [Next]_vars, NEW t \in Texts, Excused(t)
  PROVE  Excused(t)' /\ author[t] # NULL
<1>1. author[t] # NULL
  BY ClientsAssumption DEF Excused
<1>. QED
  BY <1>1, AuthorStays DEF Excused

LEMMA UnsentStep == Inv /\ WholeInv /\ [Next]_vars => UnsentInv'
<1>. SUFFICES ASSUME Inv, WholeInv, [Next]_vars, outgoing'.reads = 0,
                     outgoing'.text # NoText
              PROVE  KeepsCount /\ author'[outgoing'.text] \in MayReset
  BY DEF UnsentInv, Excused
<1>1. outgoing \in OutBuffer /\ BlankWords >= 2
  BY BufferAssumption DEF Inv, TypeOK, OutTypeOK, BlankWords
<1>2. ASSUME outgoing.reads = 0, outgoing'.text = outgoing.text
      PROVE  KeepsCount /\ author'[outgoing'.text] \in MayReset
  <2>1. Excused(outgoing.text) /\ outgoing.text \in Texts
    BY <1>1, <1>2 DEF WholeInv, UnsentInv, OutBuffer, SomeText
  <2>. QED
    BY <1>2, <2>1, ExcusedStays DEF Excused
<1>3. CASE Kept
  BY <1>2, <1>3 DEF Kept, outVars
<1>4. CASE \E j \in Due : \E n \in 1 .. Len(toServer[ClientArray[j]]) : ChatMove(j, n)
  <2>1. "RECV_MESSAGE" \in FrameType
    BY DEF FrameType, ProtocolType
  <2>2. \E text : outgoing' = AfterPayload(MakeProtocol("RECV_MESSAGE", text))
    BY <1>4 DEF ChatMove, RecvChat, Broadcast, NewMessage
  <2>. QED
    BY <2>1, <2>2, OneReading
<1>5. CASE AskMove
  <2>1. outgoing' = AfterPayload(outgoing)
    BY <1>5 DEF AskMove, Broadcast
  <2>2. outgoing.reads = 0 /\ outgoing'.text = outgoing.text
    BY <1>1, <2>1, WordsOfBuffer DEF AfterPayload, SafeReads, MaxReads, OutBuffer
  <2>. QED
    BY <1>2, <2>2
<1>6. CASE Overwrite
  <2>1. PICK text \in SomeText :
          /\ outgoing' = MakeProtocol("RECV_MESSAGE", text)
          /\ \/ text = NoText
             \/ \E c \in Clients : StaleCount(c) /\ buffer[c].text = text
    BY <1>6 DEF Overwrite
  <2>2. outgoing'.text = text /\ text \in Texts
    BY <2>1 DEF MakeProtocol, SomeText
  <2>3. Excused(text)
    BY <2>1, <2>2 DEF StaleCount, WholeInv, AuthorInv, Excused
  <2>. QED
    BY <2>2, <2>3, ExcusedStays DEF Excused
<1>7. CASE ReplyMove
  <2>1. outgoing' = ReplyBuffer(Head(authRep)) /\ authRep # <<>>
    BY <1>7 DEF ReplyMove, ForwardReply, ReplyToNobody, Writes
  <2>2. authRep \in Seq(Reply)
    BY DEF Inv, TypeOK, AuthTypeOK
  <2>3. Head(authRep) \in Reply
    BY <2>1, <2>2
  <2>4. Head(authRep).type \in FrameType
    BY <2>3 DEF Reply, ReplyTypes, FrameType, ProtocolType
  <2>. QED
    BY <2>1, <2>4, OneReading DEF ReplyBuffer
<1>. QED
  BY <1>3, <1>4, <1>5, <1>6, <1>7, SendMoves

(* A whole broadcast that a step adds: a message that waited until then,   *)
(* or one that was parsed again.                                           *)
LEMMA WholeMoves ==
  ASSUME Inv, WholeInv, [Next]_vars, NEW c \in Clients,
         NEW f \in Stream(c)', f \notin Stream(c), WholeCast(f)
  PROVE  /\ f.cast = casts + 1
         /\ f.text \in Texts
         /\ \/ Excused(f.text)
            \/ /\ author[f.text] # NULL
               /\ \E d \in Clients : Waits(d, f.text)
               /\ \A d \in Clients : ~Waits(d, f.text)'
<1>1. PICK out \in OutBuffer :
        /\ \/ asks' = asks + 1 /\ out = outgoing
           \/ \E j \in Due, n \in Nat :
                /\ ChatMove(j, n)
                /\ out = NewMessage(Head(toServer[ClientArray[j]]).text)
        /\ f.text = out.text /\ f.whole = Whole(out) /\ f.cast = casts + 1
  BY NewFrames DEF WholeCast
<1>2. f.text \in Texts /\ out.reads = 0
  BY <1>1 DEF WholeCast, Whole, OutBuffer, SomeText
<1>3. CASE out = outgoing
  BY <1>1, <1>2, <1>3 DEF WholeInv, UnsentInv, WholeCast
<1>4. ASSUME NEW j \in Due, NEW n \in Nat, ChatMove(j, n),
             out = NewMessage(Head(toServer[ClientArray[j]]).text)
      PROVE  /\ author[f.text] # NULL
             /\ \E d \in Clients : Waits(d, f.text)
             /\ \A d \in Clients : ~Waits(d, f.text)'
  <2>. DEFINE c1 == ClientArray[j]
  <2>1. c1 \in Clients
    BY UsedSlots DEF Inv
  <2>2. n \in 1 .. Len(toServer[c1]) /\ Consume(c1, n)
    BY <1>4 DEF ChatMove, RecvChat, Receive
  <2>3. toServer[c1] \in Seq(ClientFrame)
    BY <2>1 DEF Inv, TypeOK, NetTypeOK
  <2>4. 1 \in 1 .. Len(toServer[c1]) /\ f.text = toServer[c1][1].text
    <3>1. 1 \in 1 .. Len(toServer[c1]) /\ Head(toServer[c1]) = toServer[c1][1]
      BY <2>2, <2>3
    <3>. QED
      BY <1>1, <1>4, <3>1 DEF NewMessage, MakeProtocol
  <2>. HIDE DEF c1
  <2>5. author[f.text] = c1
    BY <2>1, <2>4 DEF WholeInv, AuthorInv
  <2>6. Waits(c1, f.text)
    BY <2>4 DEF Waits
  <2>7. ASSUME NEW d \in Clients, NEW k \in 1 .. Len(toServer'[d]),
               toServer'[d][k].text = f.text
        PROVE  FALSE
    <3>1. CASE d = c1
      <4>1. n + k \in 1 .. Len(toServer[c1]) /\ toServer[c1][n + k].text = f.text
        BY <2>1, <2>2, <2>7, <3>1, ShorterQueue DEF Rest
      <4>2. n + k = 1
        BY <2>1, <2>4, <4>1 DEF WholeInv, AuthorInv
      <4>. QED
        BY <2>2, <4>2
    <3>2. CASE d # c1
      <4>1. 0 + k \in 1 .. Len(toServer[d]) /\ toServer[d][0 + k].text = f.text
        BY <2>1, <2>2, <2>7, <3>2, ShorterQueue DEF Rest
      <4>2. author[f.text] = d
        BY <4>1 DEF WholeInv, AuthorInv
      <4>. QED
        BY <2>5, <3>2, <4>2
    <3>. QED
      BY <3>1, <3>2
  <2>. QED
    BY <2>1, <2>5, <2>6, <2>7, ClientsAssumption DEF Waits
<1>. QED
  BY <1>1, <1>2, <1>3, <1>4

(* A text that waits for the first time had no author.                     *)
LEMMA WaitsMoves ==
  ASSUME Inv, [Next]_vars, NEW c \in Clients, NEW t, Waits(c, t)'
  PROVE  Waits(c, t) \/ author[t] = NULL
<1>1. PICK k \in 1 .. Len(toServer'[c]) : toServer'[c][k].text = t
  BY DEF Waits
<1>2. CASE \E n \in Nat : Rest(c, n)
  BY <1>1, <1>2 DEF Rest, Waits
<1>3. CASE Grows(c)
  <2>1. PICK g \in ClientFrame :
          author[g.text] = NULL /\ toServer'[c] = Append(toServer[c], g)
    BY <1>3 DEF Grows
  <2>2. toServer[c] \in Seq(ClientFrame)
    BY DEF Inv, TypeOK, NetTypeOK
  <2>3. toServer'[c][k] = g \/ (k \in 1 .. Len(toServer[c])
                                /\ toServer'[c][k] = toServer[c][k])
    BY <1>1, <2>1, <2>2
  <2>. QED
    BY <1>1, <2>1, <2>3 DEF Waits
<1>. QED
  BY <1>2, <1>3, QueueMoves

LEMMA SpentStep == Inv /\ WholeInv /\ [Next]_vars => SpentInv'
<1>. SUFFICES ASSUME Inv, WholeInv, [Next]_vars,
                     NEW d \in Clients, NEW f \in Stream(d)', WholeCast(f)
              PROVE  /\ author'[f.text] # NULL
                     /\ Excused(f.text)'
                          \/ \A c \in Clients : ~Waits(c, f.text)'
  BY DEF SpentInv, WholeCast, IsReply
<1>1. CASE f \in Stream(d)
  <2>1. f \in StreamFrame
    <3>1. toClient[d] \in Seq(StreamFrame)
      BY DEF Inv, TypeOK, OutTypeOK
    <3>. QED
      BY <1>1, <3>1 DEF Stream
  <2>2. f.text \in Texts
    BY <2>1 DEF StreamFrame, SomeText, WholeCast
  <2>3. /\ author[f.text] # NULL
        /\ Excused(f.text) \/ \A c \in Clients : ~Waits(c, f.text)
    BY <1>1 DEF WholeInv, SpentInv
  <2>. QED
    BY <2>2, <2>3, AuthorStays, ExcusedStays, WaitsMoves
<1>2. CASE f \notin Stream(d)
  <2>1. f.text \in Texts
    BY <1>2, WholeMoves
  <2>2. CASE Excused(f.text)
    BY <2>1, <2>2, ExcusedStays, AuthorStays
  <2>3. CASE ~Excused(f.text)
    <3>1. author[f.text] # NULL /\ \A c \in Clients : ~Waits(c, f.text)'
      BY <1>2, <2>3, WholeMoves
    <3>. QED
      BY <2>1, <3>1, AuthorStays
  <2>. QED
    BY <2>2, <2>3
<1>. QED
  BY <1>1, <1>2

LEMMA OnceStep == Inv /\ WholeInv /\ WholeOnce /\ [Next]_vars => WholeOnce'
<1>. SUFFICES ASSUME Inv, WholeInv, WholeOnce, [Next]_vars, NEW c \in Clients,
                     NEW f \in Stream(c)', NEW g \in Stream(c)',
                     WholeCast(f), WholeCast(g), f.cast # g.cast, f.text = g.text
              PROVE  Excused(f.text)'
  BY DEF WholeOnce, WholeCast, IsReply, Excused
<1>1. CASE f \in Stream(c) /\ g \in Stream(c)
  <2>1. f \in StreamFrame
    <3>1. toClient[c] \in Seq(StreamFrame)
      BY DEF Inv, TypeOK, OutTypeOK
    <3>. QED
      BY <1>1, <3>1 DEF Stream
  <2>2. f.text \in Texts
    BY <2>1 DEF StreamFrame, SomeText, WholeCast
  <2>3. Excused(f.text)
    BY <1>1 DEF WholeOnce, WholeCast, Excused
  <2>. QED
    BY <2>2, <2>3, ExcusedStays
(* One of the two is new: its text waited, or its author was reset. *)
<1>2. ASSUME NEW a \in Stream(c)', NEW b \in Stream(c), WholeCast(a), WholeCast(b),
             a \notin Stream(c), a.text = b.text
      PROVE  Excused(a.text)'
  <2>1. a.text \in Texts
    BY <1>2, WholeMoves
  <2>2. Excused(b.text) \/ \A d \in Clients : ~Waits(d, b.text)
    BY <1>2 DEF WholeInv, SpentInv
  <2>3. Excused(a.text) \/ \E d \in Clients : Waits(d, a.text)
    BY <1>2, WholeMoves
  <2>4. Excused(a.text)
    BY <1>2, <2>2, <2>3
  <2>. QED
    BY <2>1, <2>4, ExcusedStays
<1>3. CASE f \notin Stream(c) /\ g \notin Stream(c)
  BY <1>3, WholeMoves
<1>. QED
  BY <1>1, <1>2, <1>3

LEMMA Spent == Spec => [](Inv /\ WholeInv /\ WholeOnce)
<1>1. Init => WholeInv /\ WholeOnce
  BY DEF Init, WholeInv, AuthorInv, UnsentInv, SpentInv, WholeOnce, Stream,
    BlankBuffer, MakeProtocol
<1>2. Inv /\ WholeInv /\ [Next]_vars => WholeInv'
  BY AuthorStep, UnsentStep, SpentStep DEF WholeInv
<1>. QED
  BY <1>1, <1>2, InitInv, NextInv, OnceStep, PTL DEF Spec

(* A message is broadcast whole once, though a login sends outgoing again  *)
(* (server_main.cpp:527); twice only if its writer was reset and its frame *)
(* parsed again from a count that WSARecv left as it was.                  *)
THEOREM WholeOnceAlways == Spec => []WholeOnce
  BY Spent, PTL

=============================================================================
