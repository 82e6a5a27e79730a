---------------------- MODULE ChatServerReplies_proofs ----------------------
(***************************************************************************)
(* Where answers go, for every number of clients, slots and requests.  The *)
(* argument is about one request: Route is kept by every step as long as   *)
(* the request or its answer is on its way, since the table only ever      *)
(* grows at its end and closes up over removed clients (RemovedSlots).     *)
(***************************************************************************)
EXTENDS ChatServer_proofs

(* A request or its reply still finds its way.                             *)
Route(r) ==
  /\ ticket[r.asker] > 0
  /\ (\A c \in r.upto : conn[c] # "gone") =>
       /\ r.requestid \in Used
       /\ ClientArray[r.requestid] = r.asker
       /\ \A k \in 0 .. r.requestid : ClientArray[k] \in r.upto
  /\ ClientArray[r.requestid] # NULL =>
       ticket[r.asker] <= ticket[ClientArray[r.requestid]]

RouteInv == \A r \in Pending : Route(r)

(* What has been delivered.                                                *)
Went(c, f) ==
  IsReply(f) =>
    /\ f.asker \in Clients
    /\ ticket[f.asker] > 0 /\ ticket[f.asker] <= ticket[c]
    /\ (\A d \in Clients : conn[d] # "gone") => f.asker = c

DeliveryInv ==
  /\ \A c \in Clients : \A f \in Stream(c) : Went(c, f)
  /\ (\A d \in Clients : conn[d] # "gone") => fault # "null_slot"

-----------------------------------------------------------------------------
Elems(s) == {s[k] : k \in 1 .. Len(s)}

LEMMA AppendElems ==
  ASSUME NEW S, NEW s \in Seq(S), NEW x \in S
  PROVE  Elems(Append(s, x)) = Elems(s) \cup {x}
<1>. DEFINE t == Append(s, x)
<1>1. /\ Len(t) = Len(s) + 1 /\ Len(s) \in Nat /\ t[Len(s) + 1] = x
      /\ \A k \in 1 .. Len(s) : t[k] = s[k]
  OBVIOUS
<1>2. 1 .. Len(t) = (1 .. Len(s)) \cup {Len(s) + 1}
  BY <1>1
<1>. HIDE DEF t
<1>. QED
  BY <1>1, <1>2 DEF Elems, t

LEMMA SuffixElems ==
  ASSUME NEW S, NEW s \in Seq(S), NEW n \in Nat
  PROVE  Elems(SubSeq(s, n + 1, Len(s))) \subseteq Elems(s)
<1>. DEFINE t == SubSeq(s, n + 1, Len(s))
<1>1. \A k \in 1 .. Len(t) : t[k] = s[n + k] /\ n + k \in 1 .. Len(s)
  OBVIOUS
<1>. HIDE DEF t
<1>. QED
  BY <1>1 DEF Elems, t

LEMMA HeadElem ==
  ASSUME NEW S, NEW s \in Seq(S), s # <<>>
  PROVE  Head(s) \in Elems(s)
<1>1. Head(s) = s[1] /\ 1 \in 1 .. Len(s)
  OBVIOUS
<1>. QED
  BY <1>1 DEF Elems

(* What is on its way has its parts in their types.                        *)
LEMMA PendingParts ==
  ASSUME TypeOK, NEW r \in Pending
  PROVE  r.requestid \in Slots /\ r.asker \in Clients /\ r.upto \subseteq Clients
<1>1. r \in Request \/ r \in Reply
  BY DEF TypeOK, AuthTypeOK, Pending
<1>. QED
  BY <1>1 DEF Request, Reply

-----------------------------------------------------------------------------
(* One request, under the three things that may happen to the table.       *)
LEMMA KeepRoute ==
  ASSUME NEW r, r.upto \subseteq Clients, Route(r),
         UNCHANGED <<ClientArray, TotalClients, ticket>>,
         \A c \in Clients : conn'[c] = "gone" <=> conn[c] = "gone"
  PROVE  Route(r)'
  BY DEF Route, Used

LEMMA AcceptRoute ==
  ASSUME Inv, NEW r, r.requestid \in Slots, r.asker \in Clients,
         r.upto \subseteq Clients, Route(r), AcceptClient
  PROVE  Route(r)'
<1>. DEFINE c == Head(backlog)
            n == TotalClients
<1>1. c \in Clients /\ ticket[c] = 0
  <2>1. backlog # <<>> /\ backlog \in Seq(Clients)
    BY DEF Inv, TypeOK, NetTypeOK, BacklogInv, AcceptClient
  <2>2. 1 \in 1 .. Len(backlog) /\ c = backlog[1]
    BY <2>1
  <2>. QED
    BY <2>1, <2>2 DEF Inv, BacklogInv
<1>2. n \in Slots /\ n \notin Used /\ Used' = Used \cup {n} /\ n \in Nat
  BY SizeAssumption DEF Inv, TypeOK, TableTypeOK, AcceptClient, Slots, Used
<1>3. \A k \in Slots : ClientArray'[k] = IF k = n THEN c ELSE ClientArray[k]
  BY DEF Inv, TypeOK, TableTypeOK, AcceptClient
<1>4. /\ arrivals \in Nat /\ ticket'[c] = arrivals + 1
      /\ \A d \in Clients : d # c => ticket'[d] = ticket[d]
      /\ \A d \in Clients : ticket[d] \in Nat /\ ticket[d] <= arrivals
  BY <1>1 DEF Inv, TypeOK, TableTypeOK, BacklogInv, AcceptClient
<1>5. r.asker # c /\ ticket'[r.asker] = ticket[r.asker]
  BY <1>1, <1>4 DEF Route
<1>6. ASSUME \A d \in r.upto : conn'[d] # "gone"
      PROVE  /\ r.requestid \in Used'
             /\ ClientArray'[r.requestid] = r.asker
             /\ \A k \in 0 .. r.requestid : ClientArray'[k] \in r.upto
  <2>1. /\ r.requestid \in Used /\ ClientArray[r.requestid] = r.asker
        /\ \A k \in 0 .. r.requestid : ClientArray[k] \in r.upto
    BY <1>6 DEF Route, AcceptClient
  <2>2. \A k \in 0 .. r.requestid : k \in Slots /\ k # n
    BY SizeAssumption, <1>2, <2>1 DEF Used, Slots
  <2>. QED
    BY <1>2, <1>3, <2>1, <2>2
<1>7. ASSUME ClientArray'[r.requestid] # NULL
      PROVE  ticket'[r.asker] <= ticket'[ClientArray'[r.requestid]]
  <2>1. CASE r.requestid = n
    BY <1>3, <1>4, <1>5, <2>1
  <2>2. CASE r.requestid # n
    <3>1. ClientArray'[r.requestid] = ClientArray[r.requestid]
      BY <1>3, <2>2
    <3>2. r.requestid \in Used /\ ClientArray[r.requestid] \in Clients
      BY <1>7, <3>1, UsedSlots DEF Inv, TableInArrivalOrder
    <3>3. ticket[ClientArray[r.requestid]] > 0
      BY <3>2 DEF Inv, TableInArrivalOrder, Table
    <3>. QED
      BY <1>1, <1>4, <1>5, <1>7, <3>1, <3>2, <3>3 DEF Route
  <2>. QED
    BY <2>1, <2>2
<1>. QED
  BY <1>5, <1>6, <1>7 DEF Route

LEMMA RemoveRoute ==
  ASSUME Inv, NEW r, r.requestid \in Slots, r.asker \in Clients,
         r.upto \subseteq Clients, Route(r), NEW j \in Used, RemoveClient(j)
  PROVE  Route(r)'
<1>. DEFINE q == r.requestid
<1>1. /\ TotalClients \in Nat /\ TotalClients <= FD_SETSIZE
      /\ FD_SETSIZE \in Nat /\ j \in Nat /\ j < TotalClients
      /\ q \in Nat /\ q < FD_SETSIZE
  BY SizeAssumption DEF Inv, TypeOK, TableTypeOK, Used, Slots
<1>2. /\ \A k \in Used : ClientArray[k] \in Clients
      /\ UNCHANGED ticket
  BY UsedSlots DEF Inv, RemoveClient
<1>3. /\ conn'[ClientArray[j]] = "gone"
      /\ \A d \in Clients : conn[d] = "gone" => conn'[d] = "gone"
  BY <1>2 DEF Inv, TypeOK, NetTypeOK, RemoveClient
<1>4. ASSUME \A d \in r.upto : conn'[d] # "gone"
      PROVE  /\ q \in Used'
             /\ ClientArray'[q] = r.asker
             /\ \A k \in 0 .. q : ClientArray'[k] \in r.upto
  <2>1. /\ q \in Used /\ ClientArray[q] = r.asker
        /\ \A k \in 0 .. q : ClientArray[k] \in r.upto
    BY <1>3, <1>4 DEF Route
  <2>2. q < j
    BY <1>1, <1>3, <1>4, <2>1
  <2>3. \A k \in 0 .. q : k \in Slots /\ ClientArray'[k] = ClientArray[k]
    BY <1>1, <2>2, RemovedSlots DEF Inv, Slots
  <2>4. q \in Used'
    BY <1>1, <2>2, RemovedSlots DEF Inv, Used
  <2>. QED
    BY <1>1, <2>1, <2>3, <2>4
<1>5. ASSUME ClientArray'[q] # NULL
      PROVE  ticket'[r.asker] <= ticket'[ClientArray'[q]]
  <2>1. ClientArray'[q] = ClientArray[q] \/
        (/\ q >= j /\ q + 1 < TotalClients /\ ClientArray'[q] = ClientArray[q + 1])
    <3>1. q \in Used'
      BY <1>5, RemoveKeepsOrder DEF Inv, TableInArrivalOrder, Slots
    <3>2. q < TotalClients - 1
      BY <1>1, <3>1, RemovedSlots DEF Inv, Used
    <3>. QED
      BY <1>1, <3>2, RemovedSlots DEF Inv, Slots
  <2>2. CASE ClientArray'[q] = ClientArray[q]
    BY <1>2, <1>5, <2>2 DEF Route
  <2>3. CASE /\ q >= j /\ q + 1 < TotalClients
             /\ ClientArray'[q] = ClientArray[q + 1]
    <3>1. q \in Used /\ q + 1 \in Used /\ q < q + 1
      BY <1>1, <2>3 DEF Used
    <3>2. ClientArray[q] \in Clients /\ ClientArray[q + 1] \in Clients
      BY <1>2, <3>1
    <3>3. ticket[r.asker] <= ticket[ClientArray[q]]
      BY <3>2, ClientsAssumption DEF Route
    <3>4. ticket[ClientArray[q]] < ticket[ClientArray[q + 1]]
      BY <3>1 DEF Inv, TableInArrivalOrder
    <3>5. /\ ticket[r.asker] \in Nat /\ ticket[ClientArray[q]] \in Nat
          /\ ticket[ClientArray[q + 1]] \in Nat
      BY <3>2 DEF Inv, TypeOK, TableTypeOK
    <3>. QED
      BY <1>2, <2>3, <3>3, <3>4, <3>5
  <2>. QED
    BY <2>1, <2>2, <2>3
<1>. QED
  BY <1>2, <1>4, <1>5 DEF Route

(* A new request names the slot of its asker.                              *)
LEMMA NewRoute ==
  ASSUME Inv, NEW j \in Used, NEW frame, NEW r, r = NewRequest(frame, j)
  PROVE  Route(r)
<1>1. ClientArray[j] \in Clients /\ ticket[ClientArray[j]] > 0
  BY UsedSlots DEF Inv, TableInArrivalOrder, Table
<1>2. ticket[ClientArray[j]] \in Nat
  BY <1>1 DEF Inv, TypeOK, TableTypeOK
<1>. QED
  BY <1>1, <1>2 DEF Route, NewRequest

-----------------------------------------------------------------------------
(* What a step may do to the table, whichever action it is.                *)
LEMMA TableMoves ==
  ASSUME Inv, [Next]_vars
  PROVE  \/ /\ UNCHANGED <<ClientArray, TotalClients, ticket>>
            /\ \A c \in Clients : conn'[c] = "gone" <=> conn[c] = "gone"
         \/ AcceptClient
         \/ \E j \in Used : RemoveClient(j)
<1>1. CASE UNCHANGED vars
  BY <1>1 DEF vars, netVars, tableVars
<1>2. CASE Server
  <2>1. \A j \in Due : j \in Used
    BY UsedSlots DEF Inv
  <2>2. CASE \E j \in Due : \E n \in 1 .. Len(toServer[ClientArray[j]]) :
               RecvAuthUnsent(j, n)
    BY <2>1, <2>2 DEF RecvAuthUnsent
  <2>3. CASE \E j \in Due : RecvNothing(j) \/ ReparseOther(j)
    BY <2>1, <2>3 DEF RecvNothing, ReparseOther
  <2>4. CASE \E j \in Due : \E n \in 1 .. Len(toServer[ClientArray[j]]) :
               RecvChat(j, n) \/ RecvAuth(j, n) \/ RecvAuthCrash(j, n)
    BY <2>4 DEF RecvChat, RecvAuth, RecvAuthCrash, Consume, tableVars
  <2>5. CASE \E j \in Due : ReparseAuth(j) \/ ReparseCrash(j)
    BY <2>5 DEF ReparseAuth, ReparseCrash, netVars, tableVars
  <2>6. CASE \E n \in 1 .. Len(authRep) :
               ForwardReply(n) \/ ReplyToNobody(n) \/ DropReply(n)
    BY <2>6 DEF ForwardReply, ReplyToNobody, DropReply, netVars, tableVars
  <2>7. CASE Select \/ AcceptOverflow \/ AcceptFails \/ EndScan \/ NoReply
    BY <2>7
    DEF Select, AcceptOverflow, AcceptFails, EndScan, NoReply, netVars, tableVars
  <2>. QED
    BY <1>2, <2>2, <2>3, <2>4, <2>5, <2>6, <2>7 DEF Server
<1>3. CASE ClientStep
  <2>1. PICK c \in Clients : Connect(c) \/ Write(c) \/ Finish(c) \/ Reset(c)
    BY <1>3 DEF ClientStep
  <2>2. \A d \in Clients : conn'[d] = "gone" <=> conn[d] = "gone"
    BY <2>1 DEF Inv, TypeOK, NetTypeOK, Connect, Write, Finish, Reset
  <2>. QED
    BY <1>3, <2>2 DEF ClientStep, tableVars
<1>4. CASE AuthStep
  BY <1>4 DEF AuthStep, netVars, tableVars
<1>. QED
  BY <1>1, <1>2, <1>3, <1>4 DEF Next

(* What a step may do to the requests and replies on their way.            *)
LEMMA AuthMoves ==
  ASSUME Inv, [Next]_vars
  PROVE  \/ UNCHANGED authVars
         \/ \E j \in Used, type \in AuthTypes, text \in SomeText :
              Forward([type |-> type, text |-> text], j)
         \/ \E n \in 1 .. Len(authRep) : TakeReplies(n)
         \/ \E n \in 1 .. Len(authReq) : AuthAnswers(n)
         \/ AuthCloses
<1>1. CASE UNCHANGED vars
  BY <1>1 DEF vars
<1>2. CASE Server
  <2>1. \A j \in Due : j \in Used /\ ClientArray[j] \in Clients
    BY UsedSlots DEF Inv
  <2>2. ASSUME NEW j \in Due, NEW n \in 1 .. Len(toServer[ClientArray[j]]),
               RecvAuth(j, n) \/ RecvAuthCrash(j, n)
        PROVE  \E k \in Used, type \in AuthTypes, text \in SomeText :
                 Forward([type |-> type, text |-> text], k)
    <3>. DEFINE frame == Head(toServer[ClientArray[j]])
    <3>1. frame \in ClientFrame /\ frame.type \in AuthTypes /\ Forward(frame, j)
      BY <2>1, <2>2, ReceiveTypes DEF Inv, RecvAuth, RecvAuthCrash
    <3>2. frame.text \in SomeText
          /\ frame = [type |-> frame.type, text |-> frame.text]
      BY <3>1, FrameParts
    <3>. HIDE DEF frame
    <3>. QED
      BY <2>1, <3>1, <3>2
  <2>3. ASSUME NEW j \in Due, ReparseAuth(j) \/ ReparseCrash(j)
        PROVE  \E k \in Used, type \in AuthTypes, text \in SomeText :
                 Forward([type |-> type, text |-> text], k)
    <3>. DEFINE frame == buffer[ClientArray[j]]
    <3>1. frame \in ClientFrame /\ frame.type \in AuthTypes /\ Forward(frame, j)
      BY <2>1, <2>3 DEF Inv, TypeOK, RecvTypeOK, ReparseAuth, ReparseCrash,
                        AuthTypes, NoType
    <3>2. frame.text \in SomeText
          /\ frame = [type |-> frame.type, text |-> frame.text]
      BY <3>1, FrameParts
    <3>. HIDE DEF frame
    <3>. QED
      BY <2>1, <3>1, <3>2
  <2>4. ASSUME NEW j \in Due, RecvNothing(j)
        PROVE  \/ UNCHANGED authVars
               \/ \E k \in Used, type \in AuthTypes, text \in SomeText :
                    Forward([type |-> type, text |-> text], k)
    <3>1. NoText \in SomeText
      BY DEF SomeText
    <3>. QED
      BY <2>1, <2>4, <3>1 DEF RecvNothing, Phantom, ForwardFails
  <2>5. CASE \E j \in Due : \E n \in 1 .. Len(toServer[ClientArray[j]]) :
               RecvChat(j, n) \/ RecvAuthUnsent(j, n)
    BY <2>5 DEF RecvChat, RecvAuthUnsent, ForwardFails
  <2>6. CASE \E j \in Due : ReparseOther(j)
    BY <2>6 DEF ReparseOther, ForwardFails
  <2>7. CASE \E n \in 1 .. Len(authRep) :
               ForwardReply(n) \/ ReplyToNobody(n) \/ DropReply(n)
    BY <2>7 DEF ForwardReply, ReplyToNobody, DropReply
  <2>8. CASE \/ Select \/ AcceptClient \/ AcceptOverflow \/ AcceptFails
             \/ EndScan \/ NoReply
    BY <2>8
    DEF Select, AcceptClient, AcceptOverflow, AcceptFails, EndScan, NoReply
  <2>. QED
    BY <1>2, <2>2, <2>3, <2>4, <2>5, <2>6, <2>7, <2>8 DEF Server
<1>3. CASE ClientStep
  BY <1>3 DEF ClientStep
<1>4. CASE AuthStep
  BY <1>4 DEF AuthStep
<1>. QED
  BY <1>1, <1>2, <1>3, <1>4 DEF Next

(* Whatever is on its way after a step was routed before it.               *)
LEMMA PendingRouted ==
  ASSUME Inv, RouteInv, [Next]_vars, NEW r \in Pending'
  PROVE  Route(r)
<1>1. /\ Pending = Elems(authReq) \cup Elems(authRep)
      /\ Pending' = Elems(authReq') \cup Elems(authRep')
      /\ authReq \in Seq(Request) /\ authRep \in Seq(Reply)
  BY DEF Pending, Elems, Inv, TypeOK, AuthTypeOK
<1>2. CASE r \in Pending
  BY <1>2 DEF RouteInv
<1>3. ASSUME NEW j \in Used, NEW type \in AuthTypes, NEW text \in SomeText,
             Forward([type |-> type, text |-> text], j), r \notin Pending
      PROVE  Route(r)
  <2>. DEFINE frame == [type |-> type, text |-> text]
  <2>1. NewRequest(frame, j) \in Request
    BY NewRequestTypes DEF Inv
  <2>2. Elems(Append(authReq, NewRequest(frame, j)))
          = Elems(authReq) \cup {NewRequest(frame, j)}
    BY <1>1, <2>1, AppendElems
  <2>3. r = NewRequest(frame, j)
    BY <1>1, <1>3, <2>2 DEF Forward
  <2>. QED
    BY <2>3, NewRoute
<1>4. ASSUME NEW n \in 1 .. Len(authRep), TakeReplies(n) PROVE r \in Pending
  <2>1. Elems(authRep') \subseteq Elems(authRep) /\ authReq' = authReq
    BY <1>1, <1>4, SuffixElems DEF TakeReplies
  <2>. QED
    BY <1>1, <2>1
<1>5. ASSUME NEW n \in 1 .. Len(authReq), AuthAnswers(n), r \notin Pending
      PROVE  Route(r)
  <2>1. Elems(authReq') \subseteq Elems(authReq)
    BY <1>1, <1>5, SuffixElems DEF AuthAnswers
  <2>2. Head(authReq) \in Pending /\ Head(authReq) \in Request
    BY <1>1, HeadElem
  <2>3. PICK outcome \in Outcomes(Head(authReq).type) :
          authRep' = Append(authRep, Answer(Head(authReq), outcome))
    BY <1>1, <1>5, <2>1 DEF AuthAnswers
  <2>4. Elems(authRep') = Elems(authRep) \cup {Answer(Head(authReq), outcome)}
    BY <1>1, <2>2, <2>3, AnswerTypes, AppendElems
  <2>5. r = Answer(Head(authReq), outcome)
    BY <1>1, <1>5, <2>1, <2>4
  <2>. QED
    BY <2>2, <2>5 DEF RouteInv, Route, Answer
<1>6. CASE AuthCloses
  BY <1>1, <1>2, <1>6 DEF AuthCloses, Elems
<1>7. CASE UNCHANGED authVars
  BY <1>1, <1>2, <1>7 DEF authVars
<1>. QED
  BY <1>2, <1>3, <1>4, <1>5, <1>6, <1>7, AuthMoves

-----------------------------------------------------------------------------
LEMMA RouteStep == Inv /\ RouteInv /\ [Next]_vars => RouteInv'
<1>. SUFFICES ASSUME Inv, RouteInv, [Next]_vars, NEW r \in Pending'
              PROVE  Route(r)'
  BY DEF RouteInv
<1>1. Route(r)
  BY PendingRouted
<1>2. r.requestid \in Slots /\ r.asker \in Clients /\ r.upto \subseteq Clients
  <2>1. authReq' \in Seq(Request) /\ authRep' \in Seq(Reply)
    BY NextInv DEF Inv, TypeOK, AuthTypeOK
  <2>2. r \in Request \/ r \in Reply
    BY <2>1 DEF Pending
  <2>. QED
    BY <2>2 DEF Request, Reply
<1>. QED
  BY <1>1, <1>2, KeepRoute, AcceptRoute, RemoveRoute, TableMoves

(* Nobody loses a place in the order of acceptance, or comes back.         *)
LEMMA TicketsStay ==
  ASSUME Inv, [Next]_vars, NEW c \in Clients
  PROVE  /\ ticket[c] > 0 => ticket'[c] = ticket[c]
         /\ ticket[c] \in Nat /\ ticket'[c] \in Nat
         /\ conn'[c] # "gone" => conn[c] # "gone"
<1>1. ticket[c] \in Nat
  BY DEF Inv, TypeOK, TableTypeOK
<1>2. CASE AcceptClient
  <2>1. backlog # <<>> /\ backlog \in Seq(Clients)
    BY <1>2 DEF Inv, TypeOK, NetTypeOK, BacklogInv, AcceptClient
  <2>2. 1 \in 1 .. Len(backlog) /\ Head(backlog) = backlog[1]
    BY <2>1
  <2>3. ticket[Head(backlog)] = 0
    BY <2>1, <2>2 DEF Inv, BacklogInv
  <2>. QED
    BY <1>1, <1>2, <2>3 DEF Inv, TypeOK, TableTypeOK, AcceptClient
<1>3. ASSUME NEW j \in Used, RemoveClient(j)
      PROVE  UNCHANGED ticket /\ (conn'[c] # "gone" => conn[c] # "gone")
  BY <1>3 DEF Inv, TypeOK, NetTypeOK, RemoveClient
<1>. QED
  BY <1>1, <1>2, <1>3, TableMoves

-----------------------------------------------------------------------------
(* What a client is sent in a step: nothing, a broadcast, or an answer.    *)
LEMMA BroadcastStream ==
  ASSUME TypeOK, NEW out, Broadcast(out), NEW c \in Clients, NEW f \in Stream(c)'
  PROVE  f \in Stream(c) \/ ~IsReply(f)
<1>1. toClient[c] \in Seq(StreamFrame) /\ casts \in Nat
  BY DEF TypeOK, OutTypeOK
<1>2. CASE UNCHANGED toClient
  BY <1>2 DEF Stream
<1>3. CASE ~UNCHANGED toClient
  <2>1. PICK g : /\ g.cast = casts + 1
                 /\ toClient'[c] \in {toClient[c], Append(toClient[c], g)}
    <3>1. out.type # NoType
      BY <1>3 DEF Broadcast
    <3>2. PICK type \in TypesOnTheWire(out) :
            toClient' =
              [d \in Clients |->
                 IF d \in Recipients
                 THEN Append(toClient[d],
                             [type |-> type, text |-> out.text,
                              whole |-> Whole(out), cast |-> casts + 1,
                              asker |-> NULL])
                 ELSE toClient[d]]
      BY <3>1 DEF Broadcast
    <3>. DEFINE g == [type |-> type, text |-> out.text, whole |-> Whole(out),
                      cast |-> casts + 1, asker |-> NULL]
    <3>3. toClient'[c] \in {toClient[c], Append(toClient[c], g)}
      BY <3>2
    <3>4. g.cast = casts + 1
      OBVIOUS
    <3>. HIDE DEF g
    <3>. QED
      BY <3>3, <3>4
  <2>2. CASE toClient'[c] = toClient[c]
    BY <2>2 DEF Stream
  <2>3. CASE toClient'[c] = Append(toClient[c], g)
    <3>1. PICK k \in 1 .. Len(toClient'[c]) : f = toClient'[c][k]
      BY DEF Stream
    <3>2. f = g \/ f \in Stream(c)
      BY <1>1, <2>3, <3>1 DEF Stream
    <3>. QED
      BY <1>1, <2>1, <3>2 DEF IsReply
  <2>. QED
    BY <2>1, <2>2, <2>3
<1>. QED
  BY <1>2, <1>3

LEMMA ReplyStream ==
  ASSUME Inv, NEW n, ForwardReply(n), NEW c \in Clients, NEW f \in Stream(c)'
  PROVE  \/ f \in Stream(c)
         \/ /\ c = ClientArray[Head(authRep).requestid]
            /\ f.asker = Head(authRep).asker
<1>. DEFINE reply == Head(authRep)
            g == [type |-> reply.type, text |-> reply.text, whole |-> TRUE,
                  cast |-> 0, asker |-> reply.asker]
<1>1. toClient[c] \in Seq(StreamFrame) /\ toClient \in [Clients -> Seq(StreamFrame)]
  BY DEF Inv, TypeOK, OutTypeOK
<1>2. toClient'[c] = IF c = ClientArray[reply.requestid]
                     THEN Append(toClient[c], g) ELSE toClient[c]
  BY <1>1 DEF ForwardReply
<1>3. PICK k \in 1 .. Len(toClient'[c]) : f = toClient'[c][k]
  BY DEF Stream
<1>4. g.asker = reply.asker
  OBVIOUS
<1>. HIDE DEF g, reply
<1>5. CASE c # ClientArray[reply.requestid]
  BY <1>2, <1>5 DEF Stream
<1>6. CASE c = ClientArray[reply.requestid]
  <2>1. f = g \/ f \in Stream(c)
    BY <1>1, <1>2, <1>3, <1>6 DEF Stream
  <2>. QED
    BY <1>4, <1>6, <2>1 DEF reply
<1>. QED
  BY <1>5, <1>6

LEMMA StreamMoves ==
  ASSUME Inv, [Next]_vars, NEW c \in Clients, NEW f \in Stream(c)'
  PROVE  \/ f \in Stream(c)
         \/ ~IsReply(f)
         \/ /\ \E n \in 1 .. Len(authRep) : ForwardReply(n)
            /\ c = ClientArray[Head(authRep).requestid]
            /\ f.asker = Head(authRep).asker
<1>1. CASE UNCHANGED toClient
  BY <1>1 DEF Stream
<1>2. CASE \E out : Broadcast(out)
  BY <1>2, BroadcastStream DEF Inv
<1>3. CASE \E n \in 1 .. Len(authRep) : ForwardReply(n)
  BY <1>3, ReplyStream
<1>4. CASE Server
  <2>1. CASE \E j \in Due : \E n \in 1 .. Len(toServer[ClientArray[j]]) :
               RecvChat(j, n) \/ RecvAuth(j, n)
    BY <1>2, <2>1 DEF RecvChat, RecvAuth
  <2>2. CASE \E j \in Due : ReparseAuth(j)
    BY <1>2, <2>2 DEF ReparseAuth
  <2>3. CASE \E j \in Due : \E n \in 1 .. Len(toServer[ClientArray[j]]) :
               RecvAuthCrash(j, n) \/ RecvAuthUnsent(j, n)
    BY <1>1, <2>3 DEF RecvAuthCrash, RecvAuthUnsent, outVars
  <2>4. CASE \E j \in Due : RecvNothing(j) \/ ReparseOther(j) \/ ReparseCrash(j)
    BY <1>1, <2>4 DEF RecvNothing, ReparseOther, ReparseCrash, outVars
  <2>5. CASE \E n \in 1 .. Len(authRep) : ReplyToNobody(n) \/ DropReply(n)
    BY <1>1, <2>5 DEF ReplyToNobody, DropReply, outVars
  <2>6. CASE \/ Select \/ AcceptClient \/ AcceptOverflow \/ AcceptFails
             \/ EndScan \/ NoReply
    BY <1>1, <2>6 DEF Select, AcceptClient, AcceptOverflow, AcceptFails,
                      EndScan, NoReply, outVars
  <2>. QED
    BY <1>3, <1>4, <2>1, <2>2, <2>3, <2>4, <2>5, <2>6 DEF Server
<1>5. CASE ClientStep \/ AuthStep \/ UNCHANGED vars
  BY <1>1, <1>5 DEF ClientStep, AuthStep, vars, outVars
<1>. QED
  BY <1>4, <1>5 DEF Next

(* Only an answer that meets an empty slot ends the process that way.      *)
LEMMA FaultMoves ==
  ASSUME Inv, [Next]_vars, fault' = "null_slot", fault # "null_slot"
  PROVE  \E n \in 1 .. Len(authRep) : ReplyToNobody(n)
<1>1. CASE Server
  BY <1>1
  DEF Server, Select, AcceptClient, AcceptOverflow, AcceptFails, RecvChat,
      RecvAuth, RecvAuthCrash, RecvAuthUnsent, RecvNothing, ReparseOther,
      ReparseAuth, ReparseCrash, EndScan, ForwardReply, DropReply, NoReply,
      Turn, CrashIn, Stop, NextRound
<1>2. CASE ClientStep \/ AuthStep \/ UNCHANGED vars
  BY <1>2 DEF ClientStep, AuthStep, vars, loopVars
<1>. QED
  BY <1>1, <1>2 DEF Next

LEMMA DeliveryStep ==
  Inv /\ RouteInv /\ DeliveryInv /\ [Next]_vars => DeliveryInv'
<1>. SUFFICES ASSUME Inv, RouteInv, DeliveryInv, [Next]_vars PROVE DeliveryInv'
  OBVIOUS
<1>. DEFINE reply == Head(authRep)
<1>1. ASSUME authRep # <<>>
      PROVE  /\ Route(reply) /\ reply.requestid \in Slots
             /\ reply.asker \in Clients /\ reply.upto \subseteq Clients
  <2>1. authRep \in Seq(Reply)
    BY DEF Inv, TypeOK, AuthTypeOK
  <2>2. reply \in Pending
    BY <1>1, <2>1, HeadElem DEF Pending, Elems
  <2>. QED
    BY <2>2, PendingParts DEF Inv, RouteInv
<1>2. (\A d \in Clients : conn'[d] # "gone") => \A d \in Clients : conn[d] # "gone"
  BY TicketsStay
<1>3. ASSUME NEW c \in Clients, NEW f \in Stream(c)' PROVE Went(c, f)'
  <2>1. CASE f \in Stream(c)
    <3>1. Went(c, f)
      BY <2>1 DEF DeliveryInv
    <3>. QED
      BY <1>2, <3>1, TicketsStay DEF Went, IsReply
  <2>2. CASE ~IsReply(f)
    BY <2>2 DEF Went, IsReply
  <2>3. CASE /\ \E n \in 1 .. Len(authRep) : ForwardReply(n)
             /\ c = ClientArray[reply.requestid]
             /\ f.asker = reply.asker
    <3>1. /\ Route(reply) /\ reply.asker \in Clients
          /\ reply.upto \subseteq Clients
          /\ UNCHANGED <<ticket, conn>> /\ c # NULL
      BY <1>1, <2>3 DEF ForwardReply, netVars, tableVars
    <3>. HIDE DEF reply
    <3>. QED
      BY <2>3, <3>1 DEF Went, Route
  <2>. QED
    BY <2>1, <2>2, <2>3, StreamMoves
<1>4. ASSUME \A d \in Clients : conn'[d] # "gone", fault' = "null_slot"
      PROVE  FALSE
  <2>1. fault # "null_slot"
    BY <1>2, <1>4 DEF DeliveryInv
  <2>2. authRep # <<>> /\ ClientArray[reply.requestid] = NULL
    BY <1>4, <2>1, FaultMoves DEF ReplyToNobody
  <2>. QED
    BY <1>1, <1>2, <1>4, <2>2, ClientsAssumption DEF Route
<1>. QED
  BY <1>3, <1>4 DEF DeliveryInv

-----------------------------------------------------------------------------
LEMMA Delivery == Spec => [](Inv /\ RouteInv /\ DeliveryInv)
<1>1. Init => RouteInv /\ DeliveryInv
  BY DEF Init, RouteInv, Pending, DeliveryInv, Stream
<1>. QED
  BY <1>1, InitInv, NextInv, RouteStep, DeliveryStep, PTL DEF Spec

(* A pending request's slot number still names its asker, if nobody        *)
(* accepted before the asker has left (server_main.cpp:402 to :597).       *)
THEOREM RouteExactAlways == Spec => []RouteExact
<1>1. RouteInv => RouteExact
  BY DEF RouteInv, Route, RouteExact
<1>. QED
  BY <1>1, Delivery, PTL

(* A pending request's slot only ever moves on to later clients.           *)
THEOREM RouteNeverBackAlways == Spec => []RouteNeverBack
<1>1. RouteInv => RouteNeverBack
  BY DEF RouteInv, Route, RouteNeverBack
<1>. QED
  BY <1>1, Delivery, PTL

(* No client is sent the answer to a client accepted after it.             *)
THEOREM AnswersGoForward == Spec => []RepliesGoForward
<1>1. DeliveryInv => RepliesGoForward
  BY DEF DeliveryInv, Went, RepliesGoForward
<1>. QED
  BY <1>1, Delivery, PTL

(* While no connection has been closed, every answer has gone to its       *)
(* asker, and no answer has met an empty slot.                             *)
THEOREM NobodyMisled == Spec => []NobodyLeftNobodyMisled
<1>1. DeliveryInv => NobodyLeftNobodyMisled
  BY DEF DeliveryInv, Went, NobodyLeftNobodyMisled
<1>. QED
  BY <1>1, Delivery, PTL

-----------------------------------------------------------------------------
(* Slots only move down: a watched client is watched until it is closed.   *)
LEMMA MonitoredStep ==
  ASSUME Inv, [Next]_vars, NEW c \in Monitored
  PROVE  c \in Monitored' \/ conn'[c] = "gone"
<1>. DEFINE n == TotalClients
<1>1. n \in Nat /\ n <= FD_SETSIZE /\ FD_SETSIZE \in Nat
  BY SizeAssumption DEF Inv, TypeOK, TableTypeOK
<1>2. PICK k \in Used \cap 0 .. FD_SETSIZE - 2 : c = ClientArray[k]
  BY DEF Monitored
<1>3. k \in Nat /\ k < n /\ k <= FD_SETSIZE - 2 /\ k \in Slots /\ c \in Clients
  BY <1>1, <1>2, UsedSlots DEF Inv, Used
<1>4. CASE UNCHANGED <<ClientArray, TotalClients>>
  BY <1>2, <1>4 DEF Monitored, Used
<1>5. CASE AcceptClient
  <2>1. k \in Used' /\ n # k
    BY <1>1, <1>3, <1>5 DEF AcceptClient, Used
  <2>2. ClientArray'[k] = c
    BY <1>2, <1>3, <1>5, <2>1 DEF Inv, TypeOK, TableTypeOK, AcceptClient
  <2>. QED
    BY <1>2, <2>1, <2>2 DEF Monitored
<1>6. ASSUME NEW j \in Used, RemoveClient(j)
      PROVE  c \in Monitored' \/ conn'[c] = "gone"
  <2>1. j \in Nat /\ j < n /\ TotalClients' = n - 1
    BY <1>1, <1>6, RemovedSlots DEF Inv, Used
  <2>2. CASE k < j
    <3>1. k \in Used' /\ ClientArray'[k] = c
      BY <1>1, <1>2, <1>3, <1>6, <2>1, <2>2, RemovedSlots DEF Inv, Used
    <3>. QED
      BY <1>2, <3>1 DEF Monitored
  <2>3. CASE k = j
    BY <1>2, <1>3, <1>6, <2>3 DEF Inv, TypeOK, NetTypeOK, RemoveClient
  <2>4. CASE k > j
    <3>1. k - 1 \in Used' /\ k - 1 \in 0 .. FD_SETSIZE - 2
      BY <1>1, <1>3, <2>1, <2>4 DEF Used
    <3>2. ClientArray'[k - 1] = c
      <4>1. ClientArray'[k - 1] = IF k - 1 < j THEN ClientArray[k - 1]
                                  ELSE ClientArray[(k - 1) + 1]
        BY <1>6, <3>1, RemovedSlots DEF Inv
      <4>. QED
        BY <1>2, <1>3, <2>1, <2>4, <4>1
    <3>. QED
      BY <3>1, <3>2 DEF Monitored
  <2>. QED
    BY <1>3, <2>1, <2>2, <2>3, <2>4
<1>. QED
  BY <1>4, <1>5, <1>6, TableMoves

(* A client that select watches is watched until it is closed, for every   *)
(* number of slots (server_main.cpp:289-292 and RemoveClient).             *)
THEOREM WatchedAlways == Spec => WatchedStaysWatched
<1>1. Inv /\ [Next]_vars => [\A c \in Monitored :
                                c \in Monitored' \/ conn'[c] = "gone"]_vars
  BY MonitoredStep
<1>. QED
  BY <1>1, Invariance, PTL DEF Spec, WatchedStaysWatched

-----------------------------------------------------------------------------
(* The request of c is the first frame that waits, and cannot be sent.     *)
Unsent(c) ==
  ~authUp /\ toServer[c] # <<>> /\ Head(toServer[c]).type \in AuthTypes

(* Which turns close an open connection.                                   *)
LEMMA ClosedUnsent ==
  ASSUME Inv, [Next]_vars, NEW c \in Clients, conn[c] = "open", conn'[c] = "gone"
  PROVE  Unsent(c)
<1>1. conn'[c] # conn[c]
  OBVIOUS
<1>2. CASE Server
  <2>1. PICK j \in Due :
          \/ \E n \in 1 .. Len(toServer[ClientArray[j]]) : RecvAuthUnsent(j, n)
          \/ RecvNothing(j)
          \/ ReparseOther(j)
    BY <1>1, <1>2
    DEF Server, Select, AcceptClient, AcceptOverflow, AcceptFails, RecvChat,
        RecvAuth, RecvAuthCrash, Consume, ReparseAuth, ReparseCrash, EndScan,
        ForwardReply, ReplyToNobody, DropReply, NoReply, netVars
  <2>2. ClientArray[j] \in Clients
    BY UsedSlots DEF Inv
  <2>3. CASE RecvNothing(j) \/ ReparseOther(j)
    <3>1. conn[ClientArray[j]] # "open" /\ RemoveClient(j)
      BY <2>3 DEF RecvNothing, ReparseOther, StaleCount
    <3>. QED
      BY <1>1, <2>2, <3>1 DEF Inv, TypeOK, NetTypeOK, RemoveClient
  <2>4. CASE \E n \in 1 .. Len(toServer[ClientArray[j]]) : RecvAuthUnsent(j, n)
    <3>1. PICK n \in 1 .. Len(toServer[ClientArray[j]]) : RecvAuthUnsent(j, n)
      BY <2>4
    <3>2. ClientArray[j] = c
      BY <1>1, <3>1 DEF RecvAuthUnsent, RemoveClient, Inv, TypeOK, NetTypeOK
    <3>3. toServer[c] \in Seq(ClientFrame)
      BY DEF Inv, TypeOK, NetTypeOK
    <3>4. toServer[c] # <<>>
      BY <3>1, <3>2, <3>3
    <3>. QED
      BY <3>1, <3>2, <3>4 DEF RecvAuthUnsent, ForwardFails, Unsent
  <2>. QED
    BY <2>1, <2>3, <2>4
<1>3. CASE ClientStep
  BY <1>3 DEF Inv, TypeOK, NetTypeOK, ClientStep, Connect, Write, Finish, Reset
<1>4. CASE AuthStep \/ UNCHANGED vars
  BY <1>1, <1>4 DEF AuthStep, vars, netVars
<1>. QED
  BY <1>2, <1>3, <1>4 DEF Next

(* An open connection is closed only because the request it has just       *)
(* written could not be sent (server_main.cpp:496-514): what fails for     *)
(* another client never closes it.                                         *)
THEOREM HealthyAlways == Spec => HealthyStayConnected
<1>1. Inv /\ [Next]_vars =>
        [\A c \in Clients : conn[c] = "open" /\ conn'[c] = "gone"
           => /\ ~authUp
              /\ toServer[c] # <<>> /\ Head(toServer[c]).type \in AuthTypes]_vars
  BY ClosedUnsent DEF Unsent
<1>. QED
  BY <1>1, Invariance, PTL DEF Spec, HealthyStayConnected
=============================================================================
