-------------------------- MODULE ChatServer_proofs --------------------------
(***************************************************************************)
(* Proofs about ChatServer, for every number of clients, slots, texts and  *)
(* requests.  The inductive invariant is Inv: the types, the table and the *)
(* backlog are proved together, since the type of a request (its "upto")   *)
(* needs the used slots to hold clients, and the table's order needs the   *)
(* backlog to hold connections that were never accepted.                   *)
(***************************************************************************)
EXTENDS ChatServer, TLAPS

(* The connections that wait are distinct, and nobody has accepted them.   *)
BacklogInv ==
  /\ pc = "accept" => backlog # <<>>
  /\ \A k \in 1 .. Len(backlog) :
       ticket[backlog[k]] = 0 /\ conn[backlog[k]] \notin {"idle", "gone"}
  /\ \A j, k \in 1 .. Len(backlog) : backlog[j] = backlog[k] => j = k
  /\ \A c \in Clients : conn[c] = "idle" => ticket[c] = 0
  /\ \A c \in Clients : ticket[c] <= arrivals

Inv == TypeOK /\ TableInArrivalOrder /\ BacklogInv

-----------------------------------------------------------------------------
(* What the variables a step leaves alone keep.                            *)
LEMMA KeepNet == NetTypeOK /\ UNCHANGED netVars => NetTypeOK'
  BY DEF NetTypeOK, netVars

LEMMA KeepTable == TableTypeOK /\ UNCHANGED tableVars => TableTypeOK'
  BY DEF TableTypeOK, tableVars

LEMMA KeepRecv == RecvTypeOK /\ UNCHANGED recvVars => RecvTypeOK'
  BY DEF RecvTypeOK, recvVars

LEMMA KeepOut == OutTypeOK /\ UNCHANGED outVars => OutTypeOK'
  BY DEF OutTypeOK, outVars

LEMMA KeepAuth == AuthTypeOK /\ UNCHANGED authVars => AuthTypeOK'
  BY DEF AuthTypeOK, authVars

LEMMA KeepLoop == LoopTypeOK /\ UNCHANGED loopVars => LoopTypeOK'
  BY DEF LoopTypeOK, loopVars

(* The table's order depends on its variables and on who is gone.          *)
LEMMA KeepOrder ==
  ASSUME TableInArrivalOrder, UNCHANGED tableVars,
         \A c \in Clients : conn'[c] = "gone" <=> conn[c] = "gone"
  PROVE  TableInArrivalOrder'
  BY DEF TableInArrivalOrder, tableVars, Slots, Used, Table

LEMMA KeepBacklog ==
  ASSUME BacklogInv, UNCHANGED <<conn, backlog, ticket, arrivals>>,
         pc' = "accept" => pc = "accept"
  PROVE  BacklogInv'
  BY DEF BacklogInv

(* A slot in use holds a client, and a due slot is in use.                 *)
LEMMA UsedSlots ==
  ASSUME TypeOK, TableInArrivalOrder
  PROVE  /\ Used \subseteq Slots
         /\ \A k \in Used : ClientArray[k] \in Clients
         /\ \A j \in Due : j \in Used /\ ClientArray[j] \in Clients
  BY SizeAssumption DEF TypeOK, TableTypeOK, TableInArrivalOrder, Used, Slots, Due

-----------------------------------------------------------------------------
(* What the pieces of a turn keep.                                         *)
LEMMA TurnTypes ==
  ASSUME TypeOK, NEW j \in Used, Turn(j)
  PROVE  LoopTypeOK' /\ pc' # "accept"
  BY SizeAssumption DEF TypeOK, LoopTypeOK, TableTypeOK, Turn, Used

LEMMA CrashTypes ==
  ASSUME TypeOK, NEW j \in Used, CrashIn(j)
  PROVE  LoopTypeOK' /\ pc' # "accept"
  BY DEF TypeOK, LoopTypeOK, CrashIn, Stop

LEMMA ReceiveTypes ==
  ASSUME TypeOK, NEW c \in Clients, NEW n \in Nat, Receive(c, n)
  PROVE  RecvTypeOK' /\ Head(toServer[c]) \in ClientFrame
  BY DEF TypeOK, NetTypeOK, RecvTypeOK, Receive

LEMMA ConsumeTypes ==
  ASSUME TypeOK, NEW c \in Clients, NEW n \in Nat, Receive(c, n), Consume(c, n)
  PROVE  NetTypeOK' /\ UNCHANGED <<conn, backlog>>
  BY DEF TypeOK, NetTypeOK, Receive, Consume

(* The counts of readings that OutBuffer allows are natural numbers.       *)
LEMMA WordsOfBuffer == BlankWords \in Nat /\ MaxReads \in Nat
  BY BufferAssumption DEF BlankWords, MaxReads

LEMMA MakeTypes ==
  ASSUME NEW type \in FrameType, NEW text \in SomeText
  PROVE  MakeProtocol(type, text) \in OutBuffer
  BY WordsOfBuffer DEF MakeProtocol, OutBuffer

LEMMA MessageTypes ==
  ASSUME NEW text \in SomeText
  PROVE  NewMessage(text) \in OutBuffer
  BY MakeTypes DEF NewMessage, FrameType, ProtocolType

LEMMA AfterPayloadTypes ==
  ASSUME NEW b \in OutBuffer
  PROVE  AfterPayload(b) \in OutBuffer
  BY WordsOfBuffer DEF AfterPayload, OutBuffer, SafeReads

LEMMA BroadcastTypes ==
  ASSUME TypeOK, NEW out \in OutBuffer, Broadcast(out), madeAt' \in Nat
  PROVE  OutTypeOK'
<1>1. outgoing' \in OutBuffer
  BY AfterPayloadTypes DEF Broadcast
<1>2. CASE out.type = NoType
  BY <1>1, <1>2 DEF TypeOK, OutTypeOK, Broadcast
<1>3. CASE out.type # NoType
  <2>1. PICK type \in TypesOnTheWire(out) :
          /\ toClient' =
               [c \in Clients |->
                  IF c \in Recipients
                  THEN Append(toClient[c],
                              [type |-> type, text |-> out.text,
                               whole |-> Whole(out), cast |-> casts + 1,
                               asker |-> NULL])
                  ELSE toClient[c]]
          /\ casts' = casts + 1
    BY <1>3 DEF Broadcast
  <2>2. type \in FrameType \cup {Garbage}
    BY <1>3 DEF TypesOnTheWire, Whole, OutBuffer
  <2>3. [type |-> type, text |-> out.text, whole |-> Whole(out),
         cast |-> casts + 1, asker |-> NULL] \in StreamFrame
    BY <2>2 DEF StreamFrame, Whole, OutBuffer, TypeOK, OutTypeOK
  <2>. QED
    BY <1>1, <2>1, <2>3 DEF TypeOK, OutTypeOK
<1>. QED
  BY <1>2, <1>3

LEMMA NewRequestTypes ==
  ASSUME TypeOK, TableInArrivalOrder, NEW j \in Used,
         NEW type \in AuthTypes, NEW text \in SomeText
  PROVE  NewRequest([type |-> type, text |-> text], j) \in Request
<1>1. j \in Slots /\ \A k \in 0 .. j : k \in Used
  BY SizeAssumption, UsedSlots DEF TypeOK, TableTypeOK, Used
<1>2. /\ ClientArray[j] \in Clients
      /\ {ClientArray[k] : k \in 0 .. j} \in SUBSET Clients
  BY <1>1, UsedSlots
<1>3. RequestTo[type] \in RequestTypes
  BY DEF RequestTo, AuthTypes, RequestTypes
<1>. QED
  BY <1>1, <1>2, <1>3 DEF NewRequest, Request

LEMMA ForwardTypes ==
  ASSUME TypeOK, TableInArrivalOrder, NEW j \in Used,
         NEW type \in AuthTypes, NEW text \in SomeText,
         Forward([type |-> type, text |-> text], j)
  PROVE  AuthTypeOK'
  BY NewRequestTypes DEF TypeOK, AuthTypeOK, Forward

(* A frame a client has sent is its type and its text.                     *)
LEMMA FrameParts ==
  ASSUME NEW frame \in ClientFrame, frame.type \in AuthTypes
  PROVE  /\ frame.text \in SomeText
         /\ frame = [type |-> frame.type, text |-> frame.text]
  BY DEF ClientFrame, SomeText

LEMMA RemoveTypes ==
  ASSUME TypeOK, NEW j \in Used, ClientArray[j] \in Clients, RemoveClient(j)
  PROVE  NetTypeOK' /\ TableTypeOK'
<1>1. TotalClients' \in 0 .. FD_SETSIZE
  BY SizeAssumption DEF TypeOK, TableTypeOK, RemoveClient, Used
<1>2. ClientArray' \in [Slots -> Clients \cup {NULL}]
  BY SizeAssumption DEF TypeOK, TableTypeOK, RemoveClient, Slots
<1>3. NetTypeOK'
  BY DEF TypeOK, NetTypeOK, RemoveClient
<1>. QED
  BY <1>1, <1>2, <1>3 DEF TypeOK, TableTypeOK, RemoveClient

(* Where a slot's client comes from when slot j is taken out.              *)
LEMMA RemovedSlots ==
  ASSUME TypeOK, TableInArrivalOrder, NEW j \in Used, RemoveClient(j)
  PROVE  /\ TotalClients' = TotalClients - 1
         /\ \A k \in Slots :
              ClientArray'[k] = IF k < j \/ k >= TotalClients THEN ClientArray[k]
                                ELSE IF k + 1 < FD_SETSIZE THEN ClientArray[k + 1]
                                ELSE NULL
         /\ \A k \in Used' : k \in Used /\ k + 1 \in Used
         /\ \A k \in Used' : ClientArray'[k] = IF k < j THEN ClientArray[k]
                                               ELSE ClientArray[k + 1]
<1>1. TotalClients \in Nat /\ TotalClients <= FD_SETSIZE /\ FD_SETSIZE \in Nat
  BY SizeAssumption DEF TypeOK, TableTypeOK
<1>2. TotalClients' = TotalClients - 1
  BY DEF RemoveClient
<1>4. \A k \in Slots :
        ClientArray'[k] = IF k < j \/ k >= TotalClients THEN ClientArray[k]
                          ELSE IF k + 1 < FD_SETSIZE THEN ClientArray[k + 1]
                          ELSE NULL
  BY DEF RemoveClient
<1>5. \A k \in Used' : k \in Used /\ k + 1 \in Used /\ k \in Slots
  BY <1>1, <1>2 DEF Used, Slots
<1>6. \A k \in Used' : ClientArray'[k] = IF k < j THEN ClientArray[k]
                                         ELSE ClientArray[k + 1]
  BY <1>1, <1>2, <1>4, <1>5 DEF Used
<1>. QED
  BY <1>2, <1>4, <1>5, <1>6

LEMMA RemoveKeepsOrder ==
  ASSUME TypeOK, TableInArrivalOrder, NEW j \in Used, RemoveClient(j)
  PROVE  TableInArrivalOrder'
<1>1. /\ TotalClients \in Nat /\ TotalClients <= FD_SETSIZE
      /\ FD_SETSIZE \in Nat /\ j \in Nat /\ j < TotalClients
  BY SizeAssumption DEF TypeOK, TableTypeOK, Used
<1>2. \A k \in Used : ClientArray[k] \in Clients
  BY UsedSlots
<1>3. \A k, m \in Used : ClientArray[k] = ClientArray[m] => k = m
  <2>1. \A k, m \in Used : k < m => ClientArray[k] # ClientArray[m]
    BY <1>2 DEF TableInArrivalOrder, TypeOK, TableTypeOK
  <2>. QED
    BY <2>1 DEF Used
<1>4. ASSUME NEW k \in Slots
      PROVE  ClientArray'[k] = NULL <=> k \notin Used'
  BY <1>1, RemovedSlots DEF TableInArrivalOrder, Used, Slots
<1>5. ASSUME NEW c \in Clients
      PROVE  c \in Table' <=> c \in Table /\ c # ClientArray[j]
  <2>1. ASSUME c \in Table' PROVE c \in Table /\ c # ClientArray[j]
    <3>1. PICK k \in Used' : c = ClientArray'[k]
      BY <2>1 DEF Table
    <3>. k \in Int
      BY DEF Used
    <3>2. CASE k < j
      BY <1>1, <1>3, <3>1, <3>2, RemovedSlots DEF Table
    <3>3. CASE ~(k < j)
      <4>1. c = ClientArray[k + 1] /\ k + 1 \in Used
        BY <3>1, <3>3, RemovedSlots
      <4>2. k + 1 # j
        BY <1>1, <3>1, <3>3, RemovedSlots
      <4>. QED
        BY <1>3, <4>1, <4>2 DEF Table
    <3>. QED
      BY <3>2, <3>3
  <2>2. ASSUME c \in Table, c # ClientArray[j] PROVE c \in Table'
    <3>1. PICK k \in Used : c = ClientArray[k] /\ k # j
      BY <2>2 DEF Table
    <3>2. CASE k < j
      <4>1. k \in Used'
        BY <1>1, <3>1, <3>2, RemovedSlots DEF Used
      <4>. QED
        BY <3>1, <3>2, <4>1, RemovedSlots DEF Table
    <3>3. CASE k > j
      <4>1. k \in Int /\ k - 1 \in Used'
        BY <1>1, <3>1, <3>3, RemovedSlots DEF Used
      <4>2. ClientArray'[k - 1] = ClientArray[(k - 1) + 1]
        BY <1>1, <3>3, <4>1, RemovedSlots
      <4>. QED
        BY <3>1, <4>1, <4>2 DEF Table
    <3>. QED
      BY <1>1, <3>1, <3>2, <3>3 DEF Used
  <2>. QED
    BY <2>1, <2>2
<1>6. ASSUME NEW c \in Clients
      PROVE  c \in Table' <=> ticket'[c] > 0 /\ conn'[c] # "gone"
  BY <1>2, <1>5 DEF TableInArrivalOrder, RemoveClient, TypeOK, NetTypeOK
<1>7. ASSUME NEW k \in Used', NEW m \in Used', k < m
      PROVE  ticket'[ClientArray'[k]] < ticket'[ClientArray'[m]]
  <2>1. PICK k1 \in Used, m1 \in Used :
           /\ ClientArray'[k] = ClientArray[k1]
           /\ ClientArray'[m] = ClientArray[m1]
           /\ k1 < m1
    BY <1>1, <1>7, RemovedSlots DEF Used
  <2>. QED
    BY <2>1 DEF TableInArrivalOrder, RemoveClient
<1>. QED
  BY <1>4, <1>6, <1>7 DEF TableInArrivalOrder

LEMMA RemoveKeepsBacklog ==
  ASSUME TypeOK, TableInArrivalOrder, BacklogInv,
         NEW j \in Used, RemoveClient(j), pc' # "accept"
  PROVE  BacklogInv'
<1>1. ClientArray[j] \in Clients /\ ticket[ClientArray[j]] > 0
  BY UsedSlots DEF TableInArrivalOrder, Table
<1>2. \A c \in Clients : c # ClientArray[j] => conn'[c] = conn[c]
  BY <1>1 DEF RemoveClient, TypeOK, NetTypeOK
<1>3. \A k \in 1 .. Len(backlog) :
        backlog[k] \in Clients /\ backlog[k] # ClientArray[j]
  BY <1>1 DEF BacklogInv, TypeOK, NetTypeOK
<1>4. \A c \in Clients : conn'[c] = "idle" => conn[c] = "idle"
  BY <1>1 DEF RemoveClient, TypeOK, NetTypeOK
<1>. QED
  BY <1>2, <1>3, <1>4 DEF BacklogInv, RemoveClient

-----------------------------------------------------------------------------
(* Inv holds at first, and every action keeps it.                          *)
LEMMA InitInv == Init => Inv
<1>. SUFFICES ASSUME Init PROVE Inv
  OBVIOUS
<1>1. TypeOK
  <2>1. OutTypeOK
    BY WordsOfBuffer DEF Init, OutTypeOK, BlankBuffer, MakeProtocol, OutBuffer,
                         SomeText
  <2>2. AuthTypeOK
    BY DEF Init, AuthTypeOK
  <2>3. TableTypeOK
    BY SizeAssumption DEF Init, TableTypeOK
  <2>4. LoopTypeOK
    BY SizeAssumption DEF Init, LoopTypeOK
  <2>5. RecvTypeOK
    BY DEF Init, RecvTypeOK
  <2>6. NetTypeOK
    <3>1. \A S : <<>> \in Seq(S)
      OBVIOUS
    <3>. QED
      BY <3>1 DEF Init, NetTypeOK
  <2>. QED
    BY <2>1, <2>2, <2>3, <2>4, <2>5, <2>6 DEF TypeOK
<1>2. TableInArrivalOrder
  BY DEF Init, TableInArrivalOrder, Used, Table
<1>3. BacklogInv
  BY DEF Init, BacklogInv
<1>. QED
  BY <1>1, <1>2, <1>3 DEF Inv

LEMMA SelectInv == Inv /\ Select => Inv'
<1>. SUFFICES ASSUME Inv, Select PROVE Inv'
  OBVIOUS
<1>1. Monitored \subseteq Clients
  BY UsedSlots DEF Inv, Monitored
<1>2. LoopTypeOK'
  BY <1>1 DEF Inv, TypeOK, LoopTypeOK, Select
<1>3. TypeOK'
  BY <1>2, KeepNet, KeepTable, KeepRecv, KeepOut, KeepAuth
  DEF Inv, TypeOK, Select
<1>4. TableInArrivalOrder'
  BY KeepOrder DEF Inv, Select, netVars
<1>5. BacklogInv'
  BY DEF Inv, BacklogInv, Select, netVars, tableVars
<1>. QED
  BY <1>3, <1>4, <1>5 DEF Inv

LEMMA AcceptClientInv == Inv /\ AcceptClient => Inv'
<1>. SUFFICES ASSUME Inv, AcceptClient PROVE Inv'
  OBVIOUS
<1>. DEFINE c == Head(backlog)
            n == TotalClients
<1>1. /\ backlog # <<>> /\ backlog \in Seq(Clients)
      /\ c \in Clients /\ c = backlog[1] /\ ticket[c] = 0
      /\ conn[c] \notin {"idle", "gone"}
  <2>1. backlog # <<>> /\ backlog \in Seq(Clients)
    BY DEF Inv, TypeOK, NetTypeOK, BacklogInv, AcceptClient
  <2>2. 1 \in 1 .. Len(backlog) /\ c = backlog[1]
    BY <2>1
  <2>. QED
    BY <2>1, <2>2 DEF Inv, BacklogInv
<1>2. n \in Slots /\ n \in Nat /\ n < FD_SETSIZE /\ TotalClients' = n + 1
  BY SizeAssumption DEF Inv, TypeOK, TableTypeOK, AcceptClient, Slots
<1>3. NetTypeOK' /\ TableTypeOK' /\ LoopTypeOK'
  <2>1. backlog' \in Seq(Clients)
    BY <1>1 DEF AcceptClient
  <2>2. TableTypeOK'
    BY SizeAssumption, <1>1, <1>2
    DEF Inv, TypeOK, TableTypeOK, OutTypeOK, AcceptClient
  <2>. QED
    BY <2>1, <2>2 DEF Inv, TypeOK, NetTypeOK, LoopTypeOK, AcceptClient
<1>4. TypeOK'
  BY <1>3, KeepRecv, KeepOut, KeepAuth DEF Inv, TypeOK, AcceptClient
<1>5. /\ Used' = Used \cup {n} /\ n \notin Used /\ Used \subseteq Slots
      /\ ClientArray'[n] = c
      /\ \A k \in Slots : k # n => ClientArray'[k] = ClientArray[k]
  <2>1. Used' = Used \cup {n} /\ n \notin Used
    BY <1>2 DEF Used
  <2>2. Used \subseteq Slots
    BY UsedSlots DEF Inv
  <2>3. ClientArray' = [ClientArray EXCEPT ![n] = c]
    BY DEF AcceptClient
  <2>. QED
    BY <1>2, <2>1, <2>2, <2>3 DEF Inv, TypeOK, TableTypeOK
<1>6. /\ ticket'[c] = arrivals + 1
      /\ \A d \in Clients : d # c => ticket'[d] = ticket[d]
      /\ \A d \in Clients : ticket[d] \in Nat /\ ticket[d] <= arrivals
      /\ arrivals \in Nat
  BY <1>1 DEF Inv, TypeOK, TableTypeOK, BacklogInv, AcceptClient
<1>7. c \notin Table
  BY <1>1, <1>6 DEF Inv, TableInArrivalOrder
<1>8. Table' = Table \cup {c}
  BY <1>5 DEF Table
<1>9. TableInArrivalOrder'
  <2>1. \A k \in Slots : ClientArray'[k] = NULL <=> k \notin Used'
    BY ClientsAssumption, <1>1, <1>5 DEF Inv, TableInArrivalOrder
  <2>2. \A d \in Clients : d \in Table' <=> ticket'[d] > 0 /\ conn'[d] # "gone"
    BY <1>1, <1>6, <1>8 DEF Inv, TableInArrivalOrder, AcceptClient
  <2>3. \A k \in Used : ClientArray'[k] = ClientArray[k]
                        /\ ClientArray[k] \in Clients /\ ClientArray[k] # c
    BY <1>5, <1>7, UsedSlots DEF Inv, Table
  <2>4. ASSUME NEW k \in Used', NEW m \in Used', k < m
        PROVE  ticket'[ClientArray'[k]] < ticket'[ClientArray'[m]]
    <3>1. k \in Used
      BY <1>2, <1>5, <2>4 DEF Used
    <3>2. CASE m = n
      BY <1>5, <1>6, <2>3, <3>1, <3>2
    <3>3. CASE m \in Used
      BY <1>6, <2>3, <2>4, <3>1, <3>3 DEF Inv, TableInArrivalOrder
    <3>. QED
      BY <1>5, <3>2, <3>3
  <2>. QED
    BY <2>1, <2>2, <2>4 DEF TableInArrivalOrder
<1>10. BacklogInv'
  <2>1. /\ Len(backlog') = Len(backlog) - 1 /\ Len(backlog) \in Nat
        /\ \A k \in 1 .. Len(backlog') :
             backlog'[k] = backlog[k + 1] /\ k + 1 \in 1 .. Len(backlog)
    BY <1>1 DEF AcceptClient
  <2>2. \A k \in 1 .. Len(backlog') : backlog'[k] # c /\ backlog'[k] \in Clients
    BY <1>1, <2>1 DEF Inv, BacklogInv
  <2>. QED
    BY <1>1, <1>6, <2>1, <2>2 DEF Inv, BacklogInv, AcceptClient
<1>. QED
  BY <1>4, <1>9, <1>10 DEF Inv

LEMMA AcceptStopsInv == Inv /\ (AcceptOverflow \/ AcceptFails) => Inv'
<1>. SUFFICES ASSUME Inv, AcceptOverflow \/ AcceptFails PROVE Inv'
  OBVIOUS
<1>1. /\ UNCHANGED <<netVars, tableVars, recvVars, outVars, authVars>>
      /\ LoopTypeOK' /\ pc' # "accept"
  BY DEF Inv, TypeOK, LoopTypeOK, AcceptOverflow, AcceptFails, Stop
<1>2. TypeOK'
  BY <1>1, KeepNet, KeepTable, KeepRecv, KeepOut, KeepAuth DEF Inv, TypeOK
<1>3. TableInArrivalOrder'
  BY <1>1, KeepOrder DEF Inv, netVars
<1>4. BacklogInv'
  BY <1>1, KeepBacklog DEF Inv, netVars, tableVars
<1>. QED
  BY <1>2, <1>3, <1>4 DEF Inv

LEMMA RecvChatInv ==
  ASSUME Inv, NEW j \in Due, NEW n \in Nat, RecvChat(j, n)
  PROVE  Inv'
<1>. DEFINE c == ClientArray[j]
<1>1. j \in Used /\ c \in Clients
  BY UsedSlots DEF Inv
<1>2. LoopTypeOK' /\ pc' # "accept"
  BY <1>1, TurnTypes DEF Inv, RecvChat
<1>3. RecvTypeOK' /\ Head(toServer[c]) \in ClientFrame
  BY <1>1, ReceiveTypes DEF Inv, RecvChat
<1>4. NetTypeOK' /\ UNCHANGED <<conn, backlog>>
  BY <1>1, ConsumeTypes DEF Inv, RecvChat
<1>5. OutTypeOK'
  <2>1. NewMessage(Head(toServer[c]).text) \in OutBuffer
    BY <1>3, MessageTypes DEF ClientFrame, SomeText
  <2>2. madeAt' \in Nat
    BY DEF Inv, TypeOK, AuthTypeOK, RecvChat
  <2>. QED
    BY <2>1, <2>2, BroadcastTypes DEF Inv, RecvChat
<1>6. TypeOK'
  BY <1>2, <1>3, <1>4, <1>5, KeepTable, KeepAuth DEF Inv, TypeOK, RecvChat
<1>7. TableInArrivalOrder'
  BY <1>4, KeepOrder DEF Inv, RecvChat
<1>8. BacklogInv'
  BY <1>2, <1>4, KeepBacklog DEF Inv, RecvChat, tableVars
<1>. QED
  BY <1>6, <1>7, <1>8 DEF Inv

LEMMA RecvAuthInv ==
  ASSUME Inv, NEW j \in Due, NEW n \in Nat,
         RecvAuth(j, n) \/ RecvAuthCrash(j, n)
  PROVE  Inv'
<1>. DEFINE c == ClientArray[j]
            frame == Head(toServer[c])
<1>1. j \in Used /\ c \in Clients
  BY UsedSlots DEF Inv
<1>2. LoopTypeOK' /\ pc' # "accept"
  BY <1>1, TurnTypes, CrashTypes DEF Inv, RecvAuth, RecvAuthCrash
<1>3. RecvTypeOK' /\ frame \in ClientFrame /\ frame.type \in AuthTypes
  BY <1>1, ReceiveTypes DEF Inv, RecvAuth, RecvAuthCrash
<1>4. NetTypeOK' /\ UNCHANGED <<conn, backlog>>
  BY <1>1, ConsumeTypes DEF Inv, RecvAuth, RecvAuthCrash
<1>5. OutTypeOK'
  <2>1. CASE RecvAuth(j, n)
    BY <2>1, BroadcastTypes DEF Inv, TypeOK, OutTypeOK, RecvAuth
  <2>2. CASE RecvAuthCrash(j, n)
    BY <2>2, KeepOut DEF Inv, TypeOK, RecvAuthCrash
  <2>. QED
    BY <2>1, <2>2
<1>6. AuthTypeOK'
  <2>1. Forward([type |-> frame.type, text |-> frame.text], j)
    BY <1>3, FrameParts DEF RecvAuth, RecvAuthCrash
  <2>. QED
    BY <1>1, <1>3, <2>1, FrameParts, ForwardTypes DEF Inv
<1>7. UNCHANGED tableVars
  BY DEF RecvAuth, RecvAuthCrash
<1>8. TypeOK'
  BY <1>2, <1>3, <1>4, <1>5, <1>6, <1>7, KeepTable DEF Inv, TypeOK
<1>9. TableInArrivalOrder'
  BY <1>4, <1>7, KeepOrder DEF Inv
<1>10. BacklogInv'
  BY <1>2, <1>4, <1>7, KeepBacklog DEF Inv, tableVars
<1>. QED
  BY <1>8, <1>9, <1>10 DEF Inv

(* The turns that end with the removal of the slot's client.               *)
LEMMA RemovalInv ==
  ASSUME Inv, NEW j \in Due, Turn(j), RemoveClient(j),
         RecvTypeOK', OutTypeOK', AuthTypeOK'
  PROVE  Inv'
<1>1. j \in Used /\ ClientArray[j] \in Clients
  BY UsedSlots DEF Inv
<1>2. LoopTypeOK' /\ pc' # "accept"
  BY <1>1, TurnTypes DEF Inv
<1>3. TypeOK'
  BY <1>1, <1>2, RemoveTypes DEF Inv, TypeOK
<1>. QED
  BY <1>1, <1>2, <1>3, RemoveKeepsOrder, RemoveKeepsBacklog DEF Inv

LEMMA RecvAuthUnsentInv ==
  ASSUME Inv, NEW j \in Due, NEW n \in Nat, RecvAuthUnsent(j, n)
  PROVE  Inv'
<1>1. RecvTypeOK'
  BY UsedSlots, ReceiveTypes DEF Inv, RecvAuthUnsent
<1>2. OutTypeOK' /\ AuthTypeOK'
  BY KeepOut, KeepAuth DEF Inv, TypeOK, RecvAuthUnsent, ForwardFails
<1>. QED
  BY <1>1, <1>2, RemovalInv DEF RecvAuthUnsent

LEMMA RecvNothingInv ==
  ASSUME Inv, NEW j \in Due, RecvNothing(j)
  PROVE  Inv'
<1>1. j \in Used /\ NoText \in SomeText
  BY UsedSlots DEF Inv, SomeText
<1>2. RecvTypeOK'
  BY DEF Inv, TypeOK, RecvTypeOK, RecvNothing
<1>3. PICK type \in Leftover : Phantom(type, j)
  BY DEF RecvNothing
<1>4. OutTypeOK' /\ AuthTypeOK'
  <2>1. UNCHANGED <<toClient, casts>>
    BY DEF RecvNothing
  <2>2. CASE Writes(NewMessage(NoText)) /\ UNCHANGED authVars
    <3>1. outgoing' \in OutBuffer /\ madeAt' \in Nat
      BY <1>1, <2>2, MessageTypes DEF Writes, Inv, TypeOK, AuthTypeOK
    <3>. QED
      BY <2>1, <2>2, <3>1, KeepAuth DEF Inv, TypeOK, OutTypeOK
  <2>3. CASE UNCHANGED <<outgoing, madeAt, authVars>>
    BY <2>1, <2>3, KeepOut, KeepAuth DEF Inv, TypeOK, outVars
  <2>4. CASE /\ type \in AuthTypes
             /\ Forward([type |-> type, text |-> NoText], j)
             /\ UNCHANGED <<outgoing, madeAt>>
    BY <1>1, <2>1, <2>4, KeepOut, ForwardTypes DEF Inv, TypeOK, outVars
  <2>. QED
    BY <1>3, <2>2, <2>3, <2>4 DEF Phantom, ForwardFails
<1>. QED
  BY <1>2, <1>4, RemovalInv DEF RecvNothing

LEMMA ReparseOtherInv ==
  ASSUME Inv, NEW j \in Due, ReparseOther(j)
  PROVE  Inv'
<1>. DEFINE c == ClientArray[j]
<1>1. c \in Clients
  BY UsedSlots DEF Inv
<1>2. RecvTypeOK' /\ AuthTypeOK' /\ UNCHANGED <<toClient, casts>>
  BY KeepRecv, KeepAuth DEF Inv, TypeOK, ReparseOther, ForwardFails
<1>3. buffer[c].text \in SomeText
  BY <1>1 DEF Inv, TypeOK, RecvTypeOK, ClientFrame, SomeText
<1>4. outgoing' \in OutBuffer /\ madeAt' \in Nat
  <2>1. NewMessage(buffer[c].text) \in OutBuffer
    BY <1>3, MessageTypes
  <2>. QED
    BY <2>1 DEF Inv, TypeOK, OutTypeOK, AuthTypeOK, ReparseOther, Writes
<1>5. OutTypeOK'
  BY <1>2, <1>4 DEF Inv, TypeOK, OutTypeOK
<1>. QED
  BY <1>2, <1>5, RemovalInv DEF ReparseOther

LEMMA ReparseAuthInv ==
  ASSUME Inv, NEW j \in Due, ReparseAuth(j) \/ ReparseCrash(j)
  PROVE  Inv'
<1>. DEFINE c == ClientArray[j]
<1>1. j \in Used /\ c \in Clients
  BY UsedSlots DEF Inv
<1>2. LoopTypeOK' /\ pc' # "accept"
  BY <1>1, TurnTypes, CrashTypes DEF Inv, ReparseAuth, ReparseCrash
<1>3. UNCHANGED <<netVars, tableVars, recvVars>>
  BY DEF ReparseAuth, ReparseCrash
<1>4. OutTypeOK'
  <2>1. CASE ReparseAuth(j)
    BY <2>1, BroadcastTypes DEF Inv, TypeOK, OutTypeOK, ReparseAuth
  <2>2. CASE ReparseCrash(j)
    BY <2>2, KeepOut DEF Inv, TypeOK, ReparseCrash
  <2>. QED
    BY <2>1, <2>2
<1>5. AuthTypeOK'
  <2>1. buffer[c] \in ClientFrame /\ buffer[c].type \in AuthTypes
    BY <1>1 DEF Inv, TypeOK, RecvTypeOK, ReparseAuth, ReparseCrash,
                AuthTypes, NoType
  <2>2. Forward([type |-> buffer[c].type, text |-> buffer[c].text], j)
    BY <2>1, FrameParts DEF ReparseAuth, ReparseCrash
  <2>. QED
    BY <1>1, <2>1, <2>2, FrameParts, ForwardTypes DEF Inv
<1>6. TypeOK'
  BY <1>2, <1>3, <1>4, <1>5, KeepNet, KeepTable, KeepRecv DEF Inv, TypeOK
<1>7. TableInArrivalOrder'
  BY <1>3, KeepOrder DEF Inv, netVars
<1>8. BacklogInv'
  BY <1>2, <1>3, KeepBacklog DEF Inv, netVars, tableVars
<1>. QED
  BY <1>6, <1>7, <1>8 DEF Inv

(* The end of a scan, and a look for replies that finds none.              *)
LEMMA IdleInv == Inv /\ (EndScan \/ NoReply) => Inv'
<1>. SUFFICES ASSUME Inv, EndScan \/ NoReply PROVE Inv'
  OBVIOUS
<1>1. /\ UNCHANGED <<netVars, tableVars, recvVars, outVars, authVars>>
      /\ LoopTypeOK' /\ pc' # "accept"
  BY SizeAssumption
  DEF Inv, TypeOK, LoopTypeOK, EndScan, NoReply, NextRound
<1>2. TypeOK'
  BY <1>1, KeepNet, KeepTable, KeepRecv, KeepOut, KeepAuth DEF Inv, TypeOK
<1>3. TableInArrivalOrder'
  BY <1>1, KeepOrder DEF Inv, netVars
<1>4. BacklogInv'
  BY <1>1, KeepBacklog DEF Inv, netVars, tableVars
<1>. QED
  BY <1>2, <1>3, <1>4 DEF Inv

LEMMA TakeRepliesTypes ==
  ASSUME TypeOK, NEW n \in Nat, TakeReplies(n)
  PROVE  AuthTypeOK' /\ Head(authRep) \in Reply
  BY DEF TypeOK, AuthTypeOK, TakeReplies

LEMMA ReplyInv ==
  ASSUME Inv, NEW n \in Nat,
         ForwardReply(n) \/ ReplyToNobody(n) \/ DropReply(n)
  PROVE  Inv'
<1>. DEFINE reply == Head(authRep)
            c == ClientArray[reply.requestid]
<1>1. AuthTypeOK' /\ reply \in Reply
  BY TakeRepliesTypes DEF Inv, ForwardReply, ReplyToNobody, DropReply
<1>2. /\ UNCHANGED <<netVars, tableVars, recvVars>>
      /\ LoopTypeOK' /\ pc' # "accept"
  BY DEF Inv, TypeOK, LoopTypeOK, ForwardReply, ReplyToNobody, DropReply,
         NextRound, Stop
<1>3. ReplyBuffer(reply) \in OutBuffer
  BY <1>1, MakeTypes, AfterPayloadTypes
  DEF Reply, ReplyBuffer, ReplyTypes, FrameType, ProtocolType
<1>4. OutTypeOK'
  <2>1. CASE ForwardReply(n)
    <3>1. c \in Clients
      BY <1>1, <2>1 DEF Inv, TypeOK, TableTypeOK, Reply, ForwardReply
    <3>2. [type |-> reply.type, text |-> reply.text, whole |-> TRUE,
           cast |-> 0, asker |-> reply.asker] \in StreamFrame
      BY <1>1 DEF Reply, StreamFrame, ReplyTypes, FrameType, ProtocolType
    <3>. QED
      BY <1>3, <2>1, <3>1, <3>2 DEF Inv, TypeOK, OutTypeOK, AuthTypeOK, ForwardReply, Writes
  <2>2. CASE ReplyToNobody(n)
    BY <1>3, <2>2 DEF Inv, TypeOK, OutTypeOK, AuthTypeOK, ReplyToNobody, Writes
  <2>3. CASE DropReply(n)
    BY <2>3, KeepOut DEF Inv, TypeOK, DropReply
  <2>. QED
    BY <2>1, <2>2, <2>3
<1>5. TypeOK'
  BY <1>1, <1>2, <1>4, KeepNet, KeepTable, KeepRecv DEF Inv, TypeOK
<1>6. TableInArrivalOrder'
  BY <1>2, KeepOrder DEF Inv, netVars
<1>7. BacklogInv'
  BY <1>2, KeepBacklog DEF Inv, netVars, tableVars
<1>. QED
  BY <1>5, <1>6, <1>7 DEF Inv

LEMMA ServerInv == Inv /\ Server => Inv'
<1>. SUFFICES ASSUME Inv, Server PROVE Inv'
  OBVIOUS
<1>1. CASE \E j \in Due : \E n \in 1 .. Len(toServer[ClientArray[j]]) :
             \/ RecvChat(j, n)
             \/ RecvAuth(j, n) \/ RecvAuthCrash(j, n) \/ RecvAuthUnsent(j, n)
  BY <1>1, RecvChatInv, RecvAuthInv, RecvAuthUnsentInv
<1>2. CASE \E j \in Due : \/ RecvNothing(j)
                          \/ ReparseOther(j) \/ ReparseAuth(j) \/ ReparseCrash(j)
  BY <1>2, RecvNothingInv, ReparseOtherInv, ReparseAuthInv
<1>3. CASE \E n \in 1 .. Len(authRep) :
             ForwardReply(n) \/ ReplyToNobody(n) \/ DropReply(n)
  BY <1>3, ReplyInv
<1>. QED
  BY <1>1, <1>2, <1>3, SelectInv, AcceptClientInv, AcceptStopsInv, IdleInv
  DEF Server

LEMMA ClientStepInv == Inv /\ ClientStep => Inv'
<1>. SUFFICES ASSUME Inv, NEW c \in Clients,
                     Connect(c) \/ Write(c) \/ Finish(c) \/ Reset(c),
                     UNCHANGED <<tableVars, recvVars, outVars, authVars, loopVars>>
              PROVE  Inv'
  BY DEF ClientStep
<1>1. NetTypeOK'
  <2>1. CASE Connect(c)
    BY <2>1 DEF Inv, TypeOK, NetTypeOK, Connect
  <2>2. CASE Write(c)
    <3>1. PICK t \in Texts, type \in Sends :
             /\ author' = [author EXCEPT ![t] = c]
             /\ toServer' = [toServer EXCEPT
                               ![c] = Append(@, [type |-> type, text |-> t])]
      BY <2>2 DEF Write
    <3>2. [type |-> type, text |-> t] \in ClientFrame
      BY TypesAssumption DEF ClientFrame
    <3>. QED
      BY <2>2, <3>1, <3>2 DEF Inv, TypeOK, NetTypeOK, Write
  <2>3. CASE Finish(c)
    BY <2>3 DEF Inv, TypeOK, NetTypeOK, Finish
  <2>4. CASE Reset(c)
    BY <2>4 DEF Inv, TypeOK, NetTypeOK, Reset
  <2>. QED
    BY <2>1, <2>2, <2>3, <2>4
<1>2. TypeOK'
  BY <1>1, KeepTable, KeepRecv, KeepOut, KeepAuth, KeepLoop DEF Inv, TypeOK
<1>3. \A d \in Clients : conn'[d] = "gone" <=> conn[d] = "gone"
  BY DEF Inv, TypeOK, NetTypeOK, Connect, Write, Finish, Reset
<1>4. TableInArrivalOrder'
  BY <1>3, KeepOrder DEF Inv
<1>5. BacklogInv'
  <2>1. CASE Connect(c)
    <3>1. ticket[c] = 0 /\ conn[c] = "idle"
      BY <2>1 DEF Inv, BacklogInv, Connect
    <3>2. /\ backlog' = Append(backlog, c) /\ backlog \in Seq(Clients)
          /\ conn' = [conn EXCEPT ![c] = "open"]
      BY <2>1 DEF Inv, TypeOK, NetTypeOK, Connect
    <3>3. /\ Len(backlog') = Len(backlog) + 1 /\ Len(backlog) \in Nat
          /\ backlog'[Len(backlog) + 1] = c
          /\ \A k \in 1 .. Len(backlog) :
               backlog'[k] = backlog[k] /\ backlog[k] \in Clients
      BY <3>2
    <3>4. \A k \in 1 .. Len(backlog) : backlog[k] # c
      BY <3>1 DEF Inv, BacklogInv
    <3>5. \A d \in Clients : conn'[d] = IF d = c THEN "open" ELSE conn[d]
      BY <3>2 DEF Inv, TypeOK, NetTypeOK
    <3>6. \A k \in 1 .. Len(backlog') : k \in 1 .. Len(backlog)
                                        \/ k = Len(backlog) + 1
      BY <3>3
    <3>. QED
      BY <3>1, <3>3, <3>4, <3>5, <3>6
      DEF Inv, BacklogInv, tableVars, loopVars
  <2>2. CASE Write(c) \/ Finish(c) \/ Reset(c)
    <3>1. UNCHANGED backlog
      BY <2>2 DEF Write, Finish, Reset
    <3>2. \A d \in Clients :
            /\ conn'[d] = "idle" <=> conn[d] = "idle"
            /\ conn'[d] = "gone" <=> conn[d] = "gone"
      BY <2>2 DEF Inv, TypeOK, NetTypeOK, Write, Finish, Reset
    <3>3. \A k \in 1 .. Len(backlog) : backlog[k] \in Clients
      BY DEF Inv, TypeOK, NetTypeOK
    <3>. QED
      BY <3>1, <3>2, <3>3 DEF Inv, BacklogInv, tableVars, loopVars
  <2>. QED
    BY <2>1, <2>2
<1>. QED
  BY <1>2, <1>4, <1>5 DEF Inv

LEMMA AnswerTypes ==
  ASSUME NEW request \in Request, NEW outcome \in Outcomes(request.type)
  PROVE  Answer(request, outcome) \in Reply
<1>1. outcome.type \in ReplyTypes /\ outcome.returnCode \in 0 .. 2
  BY DEF Outcomes, Outcome, ReplyTypes
<1>. QED
  BY <1>1 DEF Answer, Request, Reply

LEMMA AuthStepInv == Inv /\ AuthStep => Inv'
<1>. SUFFICES ASSUME Inv, AuthStep PROVE Inv'
  OBVIOUS
<1>1. UNCHANGED <<netVars, tableVars, recvVars, outVars, loopVars>>
  BY DEF AuthStep
<1>2. AuthTypeOK'
  <2>1. ASSUME NEW n \in 1 .. Len(authReq), AuthAnswers(n) PROVE AuthTypeOK'
    <3>1. Head(authReq) \in Request /\ authReq' \in Seq(Request)
      BY <2>1 DEF Inv, TypeOK, AuthTypeOK, AuthAnswers
    <3>2. CASE UNCHANGED authRep
      BY <2>1, <3>1, <3>2 DEF Inv, TypeOK, AuthTypeOK, AuthAnswers
    <3>3. ASSUME NEW outcome \in Outcomes(Head(authReq).type),
                 authRep' = Append(authRep, Answer(Head(authReq), outcome))
          PROVE  AuthTypeOK'
      <4>1. Answer(Head(authReq), outcome) \in Reply
        BY <3>1, AnswerTypes
      <4>. QED
        BY <2>1, <3>1, <3>3, <4>1 DEF Inv, TypeOK, AuthTypeOK, AuthAnswers
    <3>. QED
      BY <2>1, <3>2, <3>3 DEF AuthAnswers
  <2>2. CASE AuthCloses
    <3>1. <<>> \in Seq(Request)
      OBVIOUS
    <3>2. authUp' \in BOOLEAN
      BY <2>2 DEF AuthCloses
    <3>. QED
      BY <2>2, <3>1, <3>2 DEF Inv, TypeOK, AuthTypeOK, AuthCloses
  <2>. QED
    BY <2>1, <2>2 DEF AuthStep
<1>3. TypeOK'
  BY <1>1, <1>2, KeepNet, KeepTable, KeepRecv, KeepOut, KeepLoop
  DEF Inv, TypeOK
<1>4. TableInArrivalOrder'
  BY <1>1, KeepOrder DEF Inv, netVars
<1>5. BacklogInv'
  BY <1>1, KeepBacklog DEF Inv, netVars, tableVars, loopVars
<1>. QED
  BY <1>3, <1>4, <1>5 DEF Inv

LEMMA NextInv == Inv /\ [Next]_vars => Inv'
<1>1. Inv /\ UNCHANGED vars => Inv'
  <2>. SUFFICES ASSUME Inv, UNCHANGED vars PROVE Inv'
    OBVIOUS
  <2>1. TypeOK'
    BY KeepNet, KeepTable, KeepRecv, KeepOut, KeepAuth, KeepLoop
    DEF Inv, TypeOK, vars
  <2>2. TableInArrivalOrder'
    BY KeepOrder DEF Inv, vars, netVars
  <2>3. BacklogInv'
    BY KeepBacklog DEF Inv, vars, netVars, tableVars, loopVars
  <2>. QED
    BY <2>1, <2>2, <2>3 DEF Inv
<1>. QED
  BY <1>1, ServerInv, ClientStepInv, AuthStepInv DEF Next

LEMMA Invariance == Spec => []Inv
  BY InitInv, NextInv, PTL DEF Spec

(* server_main.cpp and its peers: every variable keeps its type; no index  *)
(* into ClientArray leaves it, whatever number of clients comes and goes.  *)
THEOREM TypeCorrect == Spec => []TypeOK
<1>1. Inv => TypeOK
  BY DEF Inv
<1>. QED
  BY <1>1, Invariance, PTL

(* ClientArray holds the clients accepted and not closed, in the order of  *)
(* their acceptance, for every number of slots and clients.                *)
THEOREM TableCorrect == Spec => []TableInArrivalOrder
<1>1. Inv => TableInArrivalOrder
  BY DEF Inv
<1>. QED
  BY <1>1, Invariance, PTL
=============================================================================
