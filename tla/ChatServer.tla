----------------------------- MODULE ChatServer -----------------------------
(***************************************************************************)
(* The chat server (PLGNetworkProj1/server_main.cpp): one thread that, in  *)
(* an endless loop, selects, accepts at most one connection, reads at most *)
(* once from every readable client, and reads at most once from its        *)
(* connection to the authentication server.                                *)
(*                                                                         *)
(* A client is a connection; the program never learns who is behind it.    *)
(* TCP keeps order, but a recv returns as many frames as have arrived, and *)
(* the server looks at the first only.  Assumed: the operating system does *)
(* not split a frame, every frame fits in a buffer of 512 bytes, and a     *)
(* send to a live peer does not block.                                     *)
(***************************************************************************)
EXTENDS Protocol, Sequences

CONSTANTS
  Clients,       \* the connections clients ever open
  NULL,          \* not a client: an empty slot of ClientArray
  FD_SETSIZE,    \* slots of ClientArray, and sockets an fd_set holds
  Texts,         \* the texts clients write; each is written once
  Sends,         \* the types of the frames clients write
  Leftover,      \* what the indeterminate type of an empty message may be
  KeepsCount,    \* TRUE: a failed WSARecv may leave RecvBytes as it was
  MayReset,      \* the clients whose connection may be reset
  AuthMayClose,  \* TRUE: the authentication server may end
  MaxAsks        \* bound: after so many requests no frame is parsed again,
                 \* and no indeterminate type is a login's

ASSUME ClientsAssumption == NULL \notin Clients /\ MayReset \subseteq Clients
ASSUME SizeAssumption == FD_SETSIZE \in Nat \ {0} /\ MaxAsks \in Nat
ASSUME TextsAssumption == NoText \notin Texts
ASSUME TypesAssumption ==
  /\ Sends \subseteq ChatTypes \cup AuthTypes
  /\ Leftover \subseteq FrameType \cup {NoType}
  /\ Leftover \ AuthTypes # {}
ASSUME SwitchesAssumption ==
  KeepsCount \in BOOLEAN /\ AuthMayClose \in BOOLEAN

VARIABLES
  conn,          \* a connection's state; gone: the server has closed it
  backlog,       \* connections the operating system holds for accept
  author,        \* ghost: who wrote a text, NULL while nobody has
  toServer,      \* frames that have arrived for the server, by connection
  toClient,      \* frames the server has sent, by connection
  ClientArray,
  TotalClients,
  arrivals,      \* ghost: clients accepted so far
  ticket,        \* ghost: a client's place in the order of acceptance, or 0
  joined,        \* ghost: casts when a client was accepted
  buffer,        \* the frame at the start of ClientInfo::buffer
  RecvBytes,     \* whether the count WSARecv stored last was above zero
  outgoing,
  madeAt,        \* ghost: asks when outgoing was last written
  casts,         \* ghost: broadcasts so far
  authUp,        \* the authentication server holds its end of the connection
  authReq,       \* requests on their way to it
  authRep,       \* replies that have arrived from it
  asks,          \* ghost: requests sent so far
  pc,            \* where the loop is
  i,             \* the index of the loop over the clients
  readSet,       \* the clients select marked
  fault          \* what ended the process; none while it runs

netVars == <<conn, backlog, author, toServer>>
tableVars == <<ClientArray, TotalClients, arrivals, ticket, joined>>
recvVars == <<buffer, RecvBytes>>
outVars == <<outgoing, madeAt, toClient, casts>>
authVars == <<authUp, authReq, authRep, asks>>
loopVars == <<pc, i, readSet, fault>>
vars == <<netVars, tableVars, recvVars, outVars, authVars, loopVars>>

Slots == 0 .. FD_SETSIZE - 1
Used == 0 .. TotalClients - 1
Table == {ClientArray[k] : k \in Used}

SomeText == Texts \cup {NoText}
ClientFrame == [type : ChatTypes \cup AuthTypes, text : Texts]
Request ==
  [type : RequestTypes, text : SomeText, requestid : Slots,
   asker : Clients, upto : SUBSET Clients]
Reply ==
  [type : ReplyTypes, text : SomeText, requestid : Slots,
   asker : Clients, upto : SUBSET Clients, returnCode : 0 .. 2]

Init ==
  /\ conn = [c \in Clients |-> "idle"]
  /\ backlog = <<>>
  /\ author = [t \in Texts |-> NULL]
  /\ toServer = [c \in Clients |-> <<>>]
  /\ toClient = [c \in Clients |-> <<>>]
  /\ ClientArray = [k \in Slots |-> NULL]
  /\ TotalClients = 0
  /\ arrivals = 0
  /\ ticket = [c \in Clients |-> 0]
  /\ joined = [c \in Clients |-> 0]
  /\ buffer = [c \in Clients |-> [type |-> NoType, text |-> NoText]]
  /\ RecvBytes = FALSE
  /\ outgoing = BlankBuffer
  /\ madeAt = 0
  /\ casts = 0
  /\ authUp = TRUE
  /\ authReq = <<>>
  /\ authRep = <<>>
  /\ asks = 0
  /\ pc = "select"
  /\ i = 0
  /\ readSet = {}
  /\ fault = "none"

Stop(why) ==
  /\ fault' = why
  /\ pc' = "stopped"
  /\ UNCHANGED <<i, readSet>>

-----------------------------------------------------------------------------
(***************************************************************************)
(* select.  The listening socket goes into ReadSet first, so FD_SET drops  *)
(* every client from slot FD_SETSIZE - 1 on.                               *)
(***************************************************************************)
(* A seeded fault: ReadSet is filled from the last client down.            *)
Monitored_LastFirst ==
  {ClientArray[k] : k \in Used \cap TotalClients + 1 - FD_SETSIZE .. FD_SETSIZE}

Monitored == {ClientArray[k] : k \in Used \cap 0 .. FD_SETSIZE - 2}

Readable(c) ==
  \/ conn[c] = "open" /\ toServer[c] # <<>>
  \/ conn[c] \in {"finished", "reset"}

(* A seeded fault: no accept while the last slot would be taken.           *)
Select_WithRoom ==
  /\ pc = "select"
  /\ readSet' = {c \in Monitored : Readable(c)}
  /\ pc' = IF backlog # <<>> /\ TotalClients < FD_SETSIZE - 1
            THEN "accept" ELSE "recv"
  /\ UNCHANGED <<netVars, tableVars, recvVars, outVars, authVars, i, fault>>

Select ==
  /\ pc = "select"
  /\ readSet' = {c \in Monitored : Readable(c)}
  /\ pc' = IF backlog # <<>> THEN "accept" ELSE "recv"
  /\ UNCHANGED <<netVars, tableVars, recvVars, outVars, authVars, i, fault>>

(* The listening socket is marked: one connection is accepted and takes    *)
(* the slot after the last.  Nothing keeps TotalClients below FD_SETSIZE.  *)
AcceptClient ==
  /\ pc = "accept"
  /\ conn[Head(backlog)] # "reset"
  /\ TotalClients < FD_SETSIZE
  /\ LET c == Head(backlog)
     IN /\ ClientArray' = [ClientArray EXCEPT ![TotalClients] = c]
        /\ ticket' = [ticket EXCEPT ![c] = arrivals + 1]
        /\ joined' = [joined EXCEPT ![c] = casts]
  /\ TotalClients' = TotalClients + 1
  /\ arrivals' = arrivals + 1
  /\ backlog' = Tail(backlog)
  /\ pc' = "recv"
  /\ UNCHANGED <<conn, author, toServer, recvVars, outVars, authVars, i,
                 readSet, fault>>

(* ClientArray[FD_SETSIZE] is written: the array's neighbour is lost.      *)
AcceptOverflow ==
  /\ pc = "accept"
  /\ conn[Head(backlog)] # "reset"
  /\ TotalClients = FD_SETSIZE
  /\ Stop("overflow")
  /\ UNCHANGED <<netVars, tableVars, recvVars, outVars, authVars>>

(* The connection was reset while it waited: accept fails, main returns 1. *)
AcceptFails ==
  /\ pc = "accept"
  /\ conn[Head(backlog)] = "reset"
  /\ Stop("exit")
  /\ UNCHANGED <<netVars, tableVars, recvVars, outVars, authVars>>

-----------------------------------------------------------------------------
(***************************************************************************)
(* The loop over the clients.  A turn is one readable slot; slots that are *)
(* not readable are passed over.                                           *)
(***************************************************************************)
Due == {j \in Used : j >= i /\ ClientArray[j] \in readSet}
IsNext(j) == j \in Due /\ \A k \in Due : j <= k

Turn(j) ==
  /\ pc = "recv"
  /\ IsNext(j)
  /\ i' = j + 1
  /\ UNCHANGED <<pc, readSet, fault>>

CrashIn(j) ==
  /\ pc = "recv"
  /\ IsNext(j)
  /\ Stop("bad_payload")

(* Seeded faults: the hole is filled with the last client; the copy stops  *)
(* one slot early; TotalClients is decremented twice; the socket is closed *)
(* after the slots have moved.                                             *)
RemoveClient_SwapLast(j) ==
  /\ ClientArray' = [ClientArray EXCEPT ![j] = ClientArray[TotalClients - 1],
                                        ![TotalClients - 1] = NULL]
  /\ TotalClients' = TotalClients - 1
  /\ conn' = [conn EXCEPT ![ClientArray[j]] = "gone"]
  /\ toServer' = [toServer EXCEPT ![ClientArray[j]] = <<>>]
  /\ UNCHANGED <<arrivals, ticket, joined, backlog, author>>

RemoveClient_OneShort(j) ==
  /\ ClientArray' =
       [k \in Slots |->
          IF k < j \/ k >= TotalClients - 1 THEN ClientArray[k]
          ELSE ClientArray[k + 1]]
  /\ TotalClients' = TotalClients - 1
  /\ conn' = [conn EXCEPT ![ClientArray[j]] = "gone"]
  /\ toServer' = [toServer EXCEPT ![ClientArray[j]] = <<>>]
  /\ UNCHANGED <<arrivals, ticket, joined, backlog, author>>

RemoveClient_Twice(j) ==
  /\ ClientArray' =
       [k \in Slots |->
          IF k < j \/ k >= TotalClients THEN ClientArray[k]
          ELSE IF k + 1 < FD_SETSIZE THEN ClientArray[k + 1] ELSE NULL]
  /\ TotalClients' = TotalClients - 2
  /\ conn' = [conn EXCEPT ![ClientArray[j]] = "gone"]
  /\ toServer' = [toServer EXCEPT ![ClientArray[j]] = <<>>]
  /\ UNCHANGED <<arrivals, ticket, joined, backlog, author>>

RemoveClient_CloseAfter(j) ==
  LET next == IF j + 1 < TotalClients THEN ClientArray[j + 1] ELSE ClientArray[j]
  IN /\ ClientArray' =
          [k \in Slots |->
             IF k < j \/ k >= TotalClients THEN ClientArray[k]
             ELSE IF k + 1 < FD_SETSIZE THEN ClientArray[k + 1] ELSE NULL]
     /\ TotalClients' = TotalClients - 1
     /\ conn' = [conn EXCEPT ![next] = "gone"]
     /\ toServer' = [toServer EXCEPT ![next] = <<>>]
     /\ UNCHANGED <<arrivals, ticket, joined, backlog, author>>

(* The socket is closed and the slots above move down by one.  The word    *)
(* after a full array is read too; it is no client.                        *)
RemoveClient(j) ==
  /\ ClientArray' =
       [k \in Slots |->
          IF k < j \/ k >= TotalClients THEN ClientArray[k]
          ELSE IF k + 1 < FD_SETSIZE THEN ClientArray[k + 1] ELSE NULL]
  /\ TotalClients' = TotalClients - 1
  /\ conn' = [conn EXCEPT ![ClientArray[j]] = "gone"]
  /\ toServer' = [toServer EXCEPT ![ClientArray[j]] = <<>>]
  /\ UNCHANGED <<arrivals, ticket, joined, backlog, author>>

(* A seeded fault: the loop that sends stops before the last client.       *)
Recipients_OneShort == {ClientArray[k] : k \in 0 .. TotalClients - 2}
Recipients == Table

(* PayloadToString once, then a WSASend to every client of the table.      *)
Broadcast(out) ==
  /\ outgoing' = AfterPayload(out)
  /\ IF out.type = NoType
     THEN UNCHANGED <<toClient, casts>>
     ELSE \E type \in TypesOnTheWire(out) :
            /\ toClient' =
                 [c \in Clients |->
                    IF c \in Recipients
                    THEN Append(toClient[c],
                                [type |-> type, text |-> out.text,
                                 whole |-> Whole(out), cast |-> casts + 1,
                                 asker |-> NULL])
                    ELSE toClient[c]]
            /\ casts' = casts + 1

(* outgoing = MakeProtocol(...); and as it is left by a login.             *)
Writes(out) == outgoing' = out /\ madeAt' = asks

(* A seeded fault: the assignment leaves the read index as it was.         *)
NewMessage_KeepsIndex(text) ==
  [MakeProtocol("RECV_MESSAGE", text) EXCEPT !.reads = outgoing.reads]
NewMessage(text) == MakeProtocol("RECV_MESSAGE", text)

(* The request for the authentication server; slot j is its requestid.     *)
RequestTo == [REGISTER_USER |-> "G_CREATE_ACCOUNT",
              LOGIN_USER |-> "G_AUTHENTICATE"]

(* Seeded faults: the requestid is the number of the last slot; it is      *)
(* never set.                                                              *)
NewRequest_LastSlot(frame, j) ==
  [type |-> RequestTo[frame.type], text |-> frame.text,
   requestid |-> TotalClients - 1, asker |-> ClientArray[j],
   upto |-> {ClientArray[k] : k \in 0 .. j}]

NewRequest_Unset(frame, j) ==
  [type |-> RequestTo[frame.type], text |-> frame.text, requestid |-> 0,
   asker |-> ClientArray[j], upto |-> {ClientArray[k] : k \in 0 .. j}]

NewRequest(frame, j) ==
  [type |-> RequestTo[frame.type], text |-> frame.text, requestid |-> j,
   asker |-> ClientArray[j], upto |-> {ClientArray[k] : k \in 0 .. j}]

(* WSASend to the authentication server succeeds, though not always for    *)
(* good: the first send after the peer has closed is accepted and lost.    *)
Forward(frame, j) ==
  /\ asks' = asks + 1
  /\ authReq' = IF authUp THEN Append(authReq, NewRequest(frame, j))
                ELSE authReq
  /\ UNCHANGED <<authUp, authRep>>

ForwardFails == ~authUp /\ UNCHANGED authVars

(* WSARecv returns the first n frames of client c; the first is parsed,    *)
(* the others are dropped.                                                 *)
Receive(c, n) ==
  /\ conn[c] = "open" \/ conn[c] = "finished"
  /\ n \in 1 .. Len(toServer[c])
  /\ buffer' = [buffer EXCEPT ![c] = Head(toServer[c])]
  /\ RecvBytes' = TRUE

Consume(c, n) ==
  /\ toServer' = [toServer EXCEPT ![c] = SubSeq(@, n + 1, Len(@))]
  /\ UNCHANGED <<conn, backlog, author>>

(* A chat frame becomes a RECV_MESSAGE for every client.                   *)
RecvChat(j, n) ==
  LET c == ClientArray[j]
      frame == Head(toServer[c])
  IN /\ Turn(j)
     /\ Receive(c, n)
     /\ frame.type \in ChatTypes
     /\ Broadcast(NewMessage(frame.text))
     /\ madeAt' = asks
     /\ Consume(c, n)
     /\ UNCHANGED <<tableVars, authVars>>

(* LOGIN_USER or REGISTER_USER: a request goes out, and the tail of the    *)
(* turn broadcasts whatever outgoing still holds.                          *)
RecvAuth(j, n) ==
  LET c == ClientArray[j]
      frame == Head(toServer[c])
  IN /\ Turn(j)
     /\ Receive(c, n)
     /\ frame.type \in AuthTypes
     /\ Forward(frame, j)
     /\ Broadcast(outgoing)
     /\ UNCHANGED madeAt
     /\ Consume(c, n)
     /\ UNCHANGED tableVars

(* The same, ended by the second reading of outgoing.                      *)
RecvAuthCrash(j, n) ==
  LET c == ClientArray[j]
      frame == Head(toServer[c])
  IN /\ CrashIn(j)
     /\ Receive(c, n)
     /\ frame.type \in AuthTypes
     /\ PayloadMayFail(outgoing)
     /\ Forward(frame, j)
     /\ Consume(c, n)
     /\ UNCHANGED <<tableVars, outVars>>

(* The send to the authentication server fails.  Its result is in the      *)
(* variable that held WSARecv's, so the client is removed.                 *)
RecvAuthUnsent(j, n) ==
  LET c == ClientArray[j]
      frame == Head(toServer[c])
  IN /\ Turn(j)
     /\ Receive(c, n)
     /\ frame.type \in AuthTypes
     /\ ForwardFails
     /\ RemoveClient(j)
     /\ UNCHANGED outVars

(***************************************************************************)
(* No bytes: the client has finished, or WSARecv failed and stored 0.      *)
(* ParseBuffer returns before it sets data.type, and the branch that the   *)
(* indeterminate type picks is taken all the same.                         *)
(***************************************************************************)
Phantom(type, j) ==
  \/ /\ type \in ChatTypes
     /\ Writes(NewMessage(NoText))
     /\ UNCHANGED authVars
  \/ /\ type \in AuthTypes
     /\ asks < MaxAsks
     /\ Forward([type |-> type, text |-> NoText], j) \/ ForwardFails
     /\ UNCHANGED <<outgoing, madeAt>>
  \/ /\ type \notin ChatTypes \cup AuthTypes
     /\ UNCHANGED <<outgoing, madeAt, authVars>>

RecvNothing(j) ==
  LET c == ClientArray[j]
  IN /\ Turn(j)
     /\ conn[c] \in {"finished", "reset"}
     /\ toServer[c] = <<>>
     /\ RecvBytes' = FALSE
     /\ \E type \in Leftover : Phantom(type, j)
     /\ RemoveClient(j)
     /\ UNCHANGED <<buffer, toClient, casts>>

(***************************************************************************)
(* WSARecv failed and left RecvBytes as an earlier call had set it: the    *)
(* client's last frame is parsed once more.                                *)
(***************************************************************************)
StaleCount(c) == KeepsCount /\ RecvBytes /\ conn[c] = "reset"

(* No request is sent: the error is seen, and the client removed.          *)
ReparseOther(j) ==
  LET c == ClientArray[j]
  IN /\ Turn(j)
     /\ StaleCount(c)
     /\ \/ /\ buffer[c].type \in ChatTypes
           /\ Writes(NewMessage(buffer[c].text))
           /\ UNCHANGED authVars
        \/ /\ buffer[c].type \in AuthTypes
           /\ ForwardFails
           /\ UNCHANGED <<outgoing, madeAt>>
        \/ /\ buffer[c].type = NoType
           /\ UNCHANGED <<outgoing, madeAt, authVars>>
     /\ RemoveClient(j)
     /\ UNCHANGED <<recvVars, toClient, casts>>

(* The request is sent again, its result hides the error, and the client   *)
(* stays in the table, for as long as WSARecv stores no count.             *)
ReparseAuth(j) ==
  LET c == ClientArray[j]
  IN /\ Turn(j)
     /\ asks < MaxAsks
     /\ StaleCount(c)
     /\ buffer[c].type \in AuthTypes
     /\ Forward(buffer[c], j)
     /\ Broadcast(outgoing)
     /\ UNCHANGED madeAt
     /\ UNCHANGED <<netVars, tableVars, recvVars>>

ReparseCrash(j) ==
  LET c == ClientArray[j]
  IN /\ CrashIn(j)
     /\ asks < MaxAsks
     /\ StaleCount(c)
     /\ buffer[c].type \in AuthTypes
     /\ PayloadMayFail(outgoing)
     /\ Forward(buffer[c], j)
     /\ UNCHANGED <<netVars, tableVars, recvVars, outVars>>

(* A seeded fault: the index is not reset for the next scan.               *)
EndScan_KeepsIndex ==
  /\ pc = "recv"
  /\ Due = {}
  /\ pc' = "auth"
  /\ readSet' = {}
  /\ UNCHANGED <<netVars, tableVars, recvVars, outVars, authVars, i, fault>>

EndScan ==
  /\ pc = "recv"
  /\ Due = {}
  /\ pc' = "auth"
  /\ i' = 0
  /\ readSet' = {}
  /\ UNCHANGED <<netVars, tableVars, recvVars, outVars, authVars, fault>>

-----------------------------------------------------------------------------
(***************************************************************************)
(* The end of the loop's body: one recv from the authentication server,    *)
(* which returns the first n replies; the first is parsed.                 *)
(***************************************************************************)
(* A seeded fault: the last of the replies is parsed, the others remain.   *)
TakeReplies_Last(n) ==
  /\ pc = "auth"
  /\ n \in 1 .. Len(authRep)
  /\ authRep' = SubSeq(authRep, 1, n - 1)
  /\ UNCHANGED <<authUp, authReq, asks>>

TakeReplies(n) ==
  /\ pc = "auth"
  /\ n \in 1 .. Len(authRep)
  /\ authRep' = SubSeq(authRep, n + 1, Len(authRep))
  /\ UNCHANGED <<authUp, authReq, asks>>

NextRound ==
  /\ pc' = "select"
  /\ UNCHANGED <<i, readSet, fault>>

(* Every failure is parsed as a CreateAccountWebFailure, whose Reason has  *)
(* the values 0 and 1: INVALID_PASSWORD, which is 2, fails to parse.       *)
Parses(reply) == reply.returnCode \in 0 .. 1

ReplyBuffer(reply) == AfterPayload(MakeProtocol(reply.type, reply.text))

(* The reply goes to the slot its requestid names.                         *)
ForwardReply(n) ==
  LET reply == Head(authRep)
      c == ClientArray[reply.requestid]
  IN /\ TakeReplies(n)
     /\ Parses(reply)
     /\ c # NULL
     /\ Writes(ReplyBuffer(reply))
     /\ toClient' =
          [toClient EXCEPT ![c] =
             Append(@, [type |-> reply.type, text |-> reply.text,
                        whole |-> TRUE, cast |-> 0, asker |-> reply.asker])]
     /\ NextRound
     /\ UNCHANGED <<netVars, tableVars, recvVars, casts>>

(* The slot is empty: its null pointer is followed.                        *)
ReplyToNobody(n) ==
  LET reply == Head(authRep)
  IN /\ TakeReplies(n)
     /\ Parses(reply)
     /\ ClientArray[reply.requestid] = NULL
     /\ Writes(ReplyBuffer(reply))
     /\ Stop("null_slot")
     /\ UNCHANGED <<netVars, tableVars, recvVars, toClient, casts>>

DropReply(n) ==
  /\ TakeReplies(n)
  /\ ~Parses(Head(authRep))
  /\ NextRound
  /\ UNCHANGED <<netVars, tableVars, recvVars, outVars>>

(* Nothing has arrived (WSAEWOULDBLOCK, or 0 once the peer has closed).    *)
NoReply ==
  /\ pc = "auth"
  /\ authRep = <<>>
  /\ NextRound
  /\ UNCHANGED <<netVars, tableVars, recvVars, outVars, authVars>>

Server ==
  \/ Select
  \/ AcceptClient \/ AcceptOverflow \/ AcceptFails
  \/ \E j \in Due :
       \/ \E n \in 1 .. Len(toServer[ClientArray[j]]) :
            \/ RecvChat(j, n)
            \/ RecvAuth(j, n) \/ RecvAuthCrash(j, n) \/ RecvAuthUnsent(j, n)
       \/ RecvNothing(j)
       \/ ReparseOther(j) \/ ReparseAuth(j) \/ ReparseCrash(j)
  \/ EndScan
  \/ \E n \in 1 .. Len(authRep) :
       ForwardReply(n) \/ ReplyToNobody(n) \/ DropReply(n)
  \/ NoReply

-----------------------------------------------------------------------------
(***************************************************************************)
(* The peers, as the chat server sees them.  Clients connect, write, close *)
(* and vanish at any time.                                                 *)
(***************************************************************************)
Connect(c) ==
  /\ conn[c] = "idle"
  /\ conn' = [conn EXCEPT ![c] = "open"]
  /\ backlog' = Append(backlog, c)
  /\ UNCHANGED <<author, toServer>>

Write(c) ==
  /\ conn[c] = "open"
  /\ \E t \in Texts, type \in Sends :
       /\ author[t] = NULL
       /\ author' = [author EXCEPT ![t] = c]
       /\ toServer' =
            [toServer EXCEPT ![c] = Append(@, [type |-> type, text |-> t])]
  /\ UNCHANGED <<conn, backlog>>

Finish(c) ==
  /\ conn[c] = "open"
  /\ conn' = [conn EXCEPT ![c] = "finished"]
  /\ UNCHANGED <<backlog, author, toServer>>

(* A reset discards what has arrived and was not read.                     *)
Reset(c) ==
  /\ c \in MayReset
  /\ conn[c] \in {"open", "finished"}
  /\ conn' = [conn EXCEPT ![c] = "reset"]
  /\ toServer' = [toServer EXCEPT ![c] = <<>>]
  /\ UNCHANGED <<backlog, author>>

ClientStep ==
  /\ \E c \in Clients : Connect(c) \/ Write(c) \/ Finish(c) \/ Reset(c)
  /\ UNCHANGED <<tableVars, recvVars, outVars, authVars, loopVars>>

(***************************************************************************)
(* The authentication server reads n requests at once and answers the      *)
(* first, or, without its database, none.                                  *)
(***************************************************************************)
Outcome(type, returnCode) == [type |-> type, returnCode |-> returnCode]

Outcomes(requestType) ==
  IF requestType = "G_CREATE_ACCOUNT"
  THEN {Outcome("G_CREATE_ACCOUNT_SUCCESS", 0)}
         \cup {Outcome("G_CREATE_ACCOUNT_FAILURE", code) : code \in 0 .. 1}
  ELSE {Outcome("G_AUTHENTICATE_SUCCESS", 0)}
         \cup {Outcome("G_AUTHENTICATE_FAILURE", code) : code \in 0 .. 2}

Answer(request, outcome) ==
  [type |-> outcome.type, text |-> request.text,
   requestid |-> request.requestid, asker |-> request.asker,
   upto |-> request.upto, returnCode |-> outcome.returnCode]

AuthAnswers(n) ==
  /\ authReq' = SubSeq(authReq, n + 1, Len(authReq))
  /\ \/ \E outcome \in Outcomes(Head(authReq).type) :
          authRep' = Append(authRep, Answer(Head(authReq), outcome))
     \/ UNCHANGED authRep
  /\ UNCHANGED <<authUp, asks>>

AuthCloses ==
  /\ AuthMayClose
  /\ authUp
  /\ authUp' = FALSE
  /\ authReq' = <<>>
  /\ UNCHANGED <<authRep, asks>>

AuthStep ==
  /\ (\E n \in 1 .. Len(authReq) : AuthAnswers(n)) \/ AuthCloses
  /\ UNCHANGED <<netVars, tableVars, recvVars, outVars, loopVars>>

Next == Server \/ ClientStep \/ AuthStep

Spec == Init /\ [][Next]_vars

(* The server is one thread that never waits longer than select's timeout: *)
(* it always takes its next step.  Nothing is assumed of its peers.        *)
FairSpec == Spec /\ WF_vars(Server)

-----------------------------------------------------------------------------
(***************************************************************************)
(* Properties.                                                             *)
(***************************************************************************)
OutBuffer ==
  [type : FrameType \cup {NoType}, text : SomeText, reads : 0 .. MaxReads + BlankWords]
StreamFrame ==
  [type : FrameType \cup {Garbage}, text : SomeText, whole : BOOLEAN,
   cast : Nat, asker : Clients \cup {NULL}]

NetTypeOK ==
  /\ conn \in [Clients -> {"idle", "open", "finished", "reset", "gone"}]
  /\ backlog \in Seq(Clients)
  /\ author \in [Texts -> Clients \cup {NULL}]
  /\ toServer \in [Clients -> Seq(ClientFrame)]

TableTypeOK ==
  /\ ClientArray \in [Slots -> Clients \cup {NULL}]
  /\ TotalClients \in 0 .. FD_SETSIZE
  /\ arrivals \in Nat
  /\ ticket \in [Clients -> Nat]
  /\ joined \in [Clients -> Nat]

RecvTypeOK ==
  /\ buffer \in [Clients -> ClientFrame \cup
                              {[type |-> NoType, text |-> NoText]}]
  /\ RecvBytes \in BOOLEAN

OutTypeOK ==
  /\ outgoing \in OutBuffer /\ madeAt \in Nat
  /\ toClient \in [Clients -> Seq(StreamFrame)]
  /\ casts \in Nat

AuthTypeOK ==
  /\ authUp \in BOOLEAN
  /\ authReq \in Seq(Request)
  /\ authRep \in Seq(Reply)
  /\ asks \in Nat

LoopTypeOK ==
  /\ pc \in {"select", "accept", "recv", "auth", "stopped"}
  /\ i \in 0 .. FD_SETSIZE
  /\ readSet \in SUBSET Clients
  /\ fault \in {"none", "overflow", "exit", "bad_payload", "null_slot"}

(* Every variable of server_main.cpp and of its peers keeps its type.      *)
TypeOK == /\ NetTypeOK /\ TableTypeOK /\ RecvTypeOK
          /\ OutTypeOK /\ AuthTypeOK /\ LoopTypeOK

(* ClientArray, through every order of accepts and removals, holds exactly *)
(* the clients accepted and not closed, in the order of their acceptance,  *)
(* in its first TotalClients slots; the slots above are NULL.              *)
TableInArrivalOrder ==
  /\ \A k \in Slots : ClientArray[k] = NULL <=> k \notin Used
  /\ \A c \in Clients : c \in Table <=> ticket[c] > 0 /\ conn[c] # "gone"
  /\ \A j, k \in Used : j < k => ticket[ClientArray[j]] < ticket[ClientArray[k]]

Pending == {authReq[k] : k \in 1 .. Len(authReq)}
             \cup {authRep[k] : k \in 1 .. Len(authRep)}

(* The slot number sent as requestid still names the client that asked     *)
(* when its reply is used, if no client accepted before it has left.       *)
RouteExact ==
  \A r \in Pending :
    (\A c \in r.upto : conn[c] # "gone") => ClientArray[r.requestid] = r.asker

(* When the slot has moved on to another client, it is one accepted later. *)
RouteNeverBack ==
  \A r \in Pending :
    ClientArray[r.requestid] # NULL =>
      ticket[r.asker] <= ticket[ClientArray[r.requestid]]

Stream(c) == {toClient[c][k] : k \in 1 .. Len(toClient[c])}
IsReply(f) == f.cast = 0

(* No client is sent the answer to a client accepted after it.             *)
RepliesGoForward ==
  \A c \in Clients : \A f \in Stream(c) :
    IsReply(f) => ticket[f.asker] <= ticket[c]

(* While no connection has been closed, every answer has gone to the       *)
(* client that asked, and no answer has met an empty slot.                 *)
NobodyLeftNobodyMisled ==
  (\A c \in Clients : conn[c] # "gone") =>
    /\ \A c \in Clients : \A f \in Stream(c) : IsReply(f) => f.asker = c
    /\ fault # "null_slot"

(* A client in the table has been sent every broadcast since it was        *)
(* accepted, once and in order, whatever others did in the meantime.       *)
EveryoneHearsEverything ==
  \A c \in Table :
    /\ {f.cast : f \in {g \in Stream(c) : ~IsReply(g)}} = joined[c] + 1 .. casts
    /\ \A j, k \in 1 .. Len(toClient[c]) :
         j < k /\ ~IsReply(toClient[c][j]) /\ ~IsReply(toClient[c][k])
           => toClient[c][j].cast < toClient[c][k].cast

(* A client that has neither finished nor been reset is closed only when   *)
(* its own request could not be sent, the authentication server being      *)
(* gone: the failure of one client, or of one receive, never closes        *)
(* another's connection.                                                   *)
HealthyStayConnected ==
  [][\A c \in Clients :
       conn[c] = "open" /\ conn'[c] = "gone"
         => /\ ~authUp
            /\ toServer[c] # <<>> /\ Head(toServer[c]).type \in AuthTypes]_vars

(* A message is broadcast whole once only, though outgoing is sent again   *)
(* after every login; twice only if a failed WSARecv left RecvBytes as it  *)
(* was and the writer's frame was parsed again.                            *)
WholeOnce ==
  \A c \in Clients : \A f, g \in Stream(c) :
    /\ ~IsReply(f) /\ f.whole
    /\ ~IsReply(g) /\ g.whole
    /\ f.cast # g.cast /\ f.text = g.text /\ f.text # NoText
    => KeepsCount /\ author[f.text] \in MayReset

(* Of a message that has been sent before, fewer than eight bytes are      *)
(* copied: the type word a client finds is heap memory, which it may take  *)
(* for any type, and not the message's own.  That word can come again from *)
(* the third login on after the message was made, however many logins and  *)
(* messages there were before.                                             *)
TornHasNoType ==
  [][\A c \in Clients : toClient'[c] # toClient[c] =>
       LET last == toClient'[c][Len(toClient'[c])]
       IN last.type = "RECV_MESSAGE" => last.whole \/ asks' >= madeAt + 3]_vars

(* Text, or what lies behind a new Buffer, is taken for a length when      *)
(* outgoing has been sent by three logins since it was last written, and a *)
(* new Buffer by more logins than it has words: every message and every    *)
(* reply starts the count again.                                           *)
CrashNeedsThreeAsks ==
  fault = "bad_payload" =>
    asks >= madeAt + IF outgoing.type = NoType THEN BlankWords + 1 ELSE 3

(* A removal or an accept never moves a client to a higher slot: a client  *)
(* that select watches is watched until it is closed.                      *)
WatchedStaysWatched ==
  [][\A c \in Monitored : c \in Monitored' \/ conn'[c] = "gone"]_vars

(* A reset client whose last frame was a login: a WSARecv that stores no   *)
(* count has the login parsed again, in every scan, and its request hides  *)
(* the error.                                                              *)
ParsedAgain(c) ==
  KeepsCount /\ conn[c] = "reset" /\ buffer[c].type \in AuthTypes

(* A watched client is served, unless the server ends: nothing it has      *)
(* written stays unread (of several frames in one recv the first is        *)
(* parsed), and when it has finished or was reset it is closed; but a      *)
(* reset client that had sent a login last may stay.  A slot skipped after *)
(* a removal, and the logins of a client parsed again, only delay others.  *)
WatchedAreServed ==
  \A c \in Clients :
    Readable(c) /\ c \in Monitored
      ~> ~Readable(c) \/ ParsedAgain(c) \/ fault # "none"

(* A connection is accepted, however busy the clients in the table are,    *)
(* unless the server ends.                                                 *)
ConnectedAreAccepted ==
  \A c \in Clients : conn[c] = "open" ~> ticket[c] > 0 \/ fault # "none"

(***************************************************************************)
(* The connection to the authentication server, as AuthService says.       *)
(***************************************************************************)
Asked(r) == [type |-> r.type, requestid |-> r.requestid]
Answered(r) ==
  [type |-> r.type, requestid |-> r.requestid, returnCode |-> r.returnCode]

AllAsked == [k \in 1 .. Len(authReq) |-> Asked(authReq[k])]
AllAnswered == [k \in 1 .. Len(authRep) |-> Answered(authRep[k])]

Chat == {"chat"}

Service == INSTANCE AuthService WITH
  Peers <- Chat,
  RequestIds <- Slots,
  req <- [p \in Chat |-> AllAsked],
  rep <- [p \in Chat |-> AllAnswered],
  up <- [p \in Chat |-> authUp]

(* Every request, answer and loss on this connection is a step that        *)
(* AuthService allows, as is every step of the authentication server's own *)
(* model: the two modules mean the same connection.                        *)
UsesService == Service!Spec

(* server_main.cpp:597: the reply is sent to the CLIENT SOCKET, while the  *)
(* client that asked is connected.                                         *)
ReplyToAsker ==
  \A c \in Clients : \A f \in Stream(c) :
    IsReply(f) => f.asker = c \/ conn[f.asker] = "gone"

(* account.proto:45 and the branch at server_main.cpp:688: the answer      *)
(* INVALID_PASSWORD is passed on to the client, unless it has been closed  *)
(* or the server has ended.                                                *)
WrongPasswordIsReported ==
  \A c \in Clients :
    (\E k \in 1 .. Len(authRep) : authRep[k].returnCode = 2 /\ authRep[k].asker = c)
      ~> \/ \E f \in Stream(c) : f.type = "G_AUTHENTICATE_FAILURE"
         \/ conn[c] = "gone"
         \/ fault # "none"
=============================================================================
