-------------------------- MODULE AuthServer_proofs --------------------------
(***************************************************************************)
(* Proofs about AuthServer, for every number of peers, slots, accounts and *)
(* requests.  Base is the types with what they need of each other; Queue   *)
(* is what the requests on their way have in common with those answered.   *)
(***************************************************************************)
EXTENDS AuthServer, FiniteSetTheorems, SequenceTheorems, TLAPS

(* Used slots hold peers.                                                  *)
SlotInv == \A k \in Used : ClientArray[k] \in Peers

(* accept is called for a connection that waits; a stop has its reason.    *)
LoopInv ==
  /\ pc = "accept" => backlog # <<>>
  /\ fault = "none" <=> pc # "stopped"

(* The numbers of requests are those of written ones.                      *)
NumberInv ==
  /\ \A c \in Peers : \A k \in 1 .. Len(toServer[c]) :
       toServer[c][k] \in 1 .. Len(written)
  /\ \A c \in Peers : buffer[c] <= Len(written)

(* Without a database outgoing is never assigned.                          *)
BlankInv == ~connected => outgoing.type = NoType

Base == TypeOK /\ SlotInv /\ LoopInv /\ NumberInv /\ BlankInv

-----------------------------------------------------------------------------
(* What a step leaves alone keeps its part.                                *)
LEMMA KeepNet ==
  ASSUME Base, UNCHANGED netVars, UNCHANGED buffer
  PROVE  NetTypeOK' /\ NumberInv'
  BY DEF Base, TypeOK, NetTypeOK, NumberInv, netVars

LEMMA KeepTable ==
  ASSUME Base, UNCHANGED tableVars
  PROVE  TableTypeOK' /\ SlotInv'
  BY DEF Base, TypeOK, TableTypeOK, SlotInv, tableVars, Used

LEMMA KeepRecv == ASSUME Base, UNCHANGED recvVars PROVE RecvTypeOK'
  BY DEF Base, TypeOK, RecvTypeOK, recvVars

LEMMA KeepOut ==
  ASSUME Base, UNCHANGED outVars, UNCHANGED connected
  PROVE  OutTypeOK' /\ BlankInv'
  BY DEF Base, TypeOK, OutTypeOK, BlankInv, outVars

LEMMA KeepDB == ASSUME Base, UNCHANGED dbVars PROVE DBTypeOK'
  BY DEF Base, TypeOK, DBTypeOK, dbVars

LEMMA WordsOfBuffer == BlankWords \in Nat /\ MaxReads \in Nat
  BY BufferAssumption DEF BlankWords, MaxReads

AnswerTypes(type) ==
  IF type = "G_CREATE_ACCOUNT"
  THEN {"G_CREATE_ACCOUNT_SUCCESS", "G_CREATE_ACCOUNT_FAILURE"}
  ELSE {"G_AUTHENTICATE_SUCCESS", "G_AUTHENTICATE_FAILURE"}

LEMMA RequestParts ==
  ASSUME TypeOK, NEW r \in 1 .. Len(written)
  PROVE  /\ written[r].email \in Emails /\ written[r].password \in Passwords
         /\ written[r].type \in RequestTypes /\ written[r].peer \in Peers
<1>1. written[r] \in Request
  BY DEF TypeOK, NetTypeOK, TableTypeOK, OutTypeOK, DBTypeOK
<1>. QED
  BY <1>1 DEF Request

(* What a call of the database may come to.                                *)
LEMMA ResultParts ==
  ASSUME TypeOK, NEW r \in 1 .. Len(written), NEW result \in Results(r)
  PROVE  /\ result.type \in AnswerTypes(written[r].type)
         /\ result.returnCode \in 0 .. 2
         /\ \/ result.accounts = accounts
            \/ /\ accounts[written[r].email] = NULL
               /\ result.accounts =
                    [accounts EXCEPT ![written[r].email] = written[r].password]
         /\ result.type = "G_CREATE_ACCOUNT_SUCCESS" =>
              /\ accounts[written[r].email] = NULL
              /\ result.accounts[written[r].email] = written[r].password
         /\ result.type = "G_AUTHENTICATE_SUCCESS" =>
              /\ accounts[written[r].email] = written[r].password
              /\ result.accounts[written[r].email] = written[r].password
<1>1. /\ written[r].email \in Emails /\ written[r].password \in Passwords
      /\ written[r].type \in RequestTypes
      /\ accounts \in [Emails -> Passwords \cup {NULL}]
  BY RequestParts DEF TypeOK, NetTypeOK, TableTypeOK, OutTypeOK, DBTypeOK
<1>2. CASE written[r].type = "G_CREATE_ACCOUNT"
  <2>1. result \in CreateAccount(r)
    BY <1>2 DEF Results
  <2>. DEFINE created == [accounts EXCEPT ![written[r].email] = written[r].password]
  <2>2. \/ /\ accounts[written[r].email] = NULL
           /\ result = Result("G_CREATE_ACCOUNT_SUCCESS", 0, created)
        \/ result = Result("G_CREATE_ACCOUNT_FAILURE", 0, accounts)
        \/ result = Result("G_CREATE_ACCOUNT_FAILURE", 1, accounts)
        \/ /\ accounts[written[r].email] = NULL
           /\ result = Result("G_CREATE_ACCOUNT_FAILURE", 1, created)
    BY <2>1 DEF CreateAccount
  <2>3. created[written[r].email] = written[r].password
    BY <1>1
  <2>. HIDE DEF created
  <2>4. /\ result.type \in {"G_CREATE_ACCOUNT_SUCCESS", "G_CREATE_ACCOUNT_FAILURE"}
        /\ result.returnCode \in 0 .. 2
        /\ \/ result.accounts = accounts
           \/ accounts[written[r].email] = NULL /\ result.accounts = created
        /\ result.type = "G_CREATE_ACCOUNT_SUCCESS" =>
             accounts[written[r].email] = NULL /\ result.accounts = created
    BY <2>2 DEF Result
  <2>5. AnswerTypes(written[r].type) =
          {"G_CREATE_ACCOUNT_SUCCESS", "G_CREATE_ACCOUNT_FAILURE"}
    BY <1>2 DEF AnswerTypes
  <2>6. \/ result.accounts = accounts
        \/ /\ accounts[written[r].email] = NULL
           /\ result.accounts =
                [accounts EXCEPT ![written[r].email] = written[r].password]
    BY <2>4 DEF created
  <2>. QED
    BY <2>3, <2>4, <2>5, <2>6
<1>3. CASE written[r].type = "G_AUTHENTICATE"
  <2>1. result \in LoginUser(r)
    BY <1>3 DEF Results
  <2>. QED
    BY <1>1, <1>3, <2>1, AccountsAssumption DEF LoginUser, Result, AnswerTypes
<1>. QED
  BY <1>1, <1>2, <1>3 DEF RequestTypes

LEMMA ResultAccounts ==
  ASSUME TypeOK, NEW r \in 1 .. Len(written), NEW result \in Results(r)
  PROVE  result.accounts \in [Emails -> Passwords \cup {NULL}]
<1>1. /\ written[r].email \in Emails /\ written[r].password \in Passwords
      /\ accounts \in [Emails -> Passwords \cup {NULL}]
  BY RequestParts DEF TypeOK, NetTypeOK, TableTypeOK, OutTypeOK, DBTypeOK
<1>2. \/ result.accounts = accounts
      \/ result.accounts =
           [accounts EXCEPT ![written[r].email] = written[r].password]
  BY ResultParts
<1>. QED
  BY <1>1, <1>2

LEMMA HeadNumber ==
  ASSUME Base, NEW c \in Peers, toServer[c] # <<>>
  PROVE  Head(toServer[c]) \in 1 .. Len(written)
<1>1. toServer[c] \in Seq(1 .. MaxRequests)
  BY DEF Base, TypeOK, NetTypeOK, TableTypeOK, OutTypeOK, DBTypeOK
<1>2. Head(toServer[c]) = toServer[c][1] /\ 1 \in 1 .. Len(toServer[c])
  BY <1>1
<1>. QED
  BY <1>2 DEF Base, NumberInv

(* The due slots are in use, by readable peers.                            *)
LEMMA DueSlots ==
  ASSUME Base, NEW j \in Due
  PROVE  /\ j \in Slots /\ j \in Used /\ j + 1 \in 0 .. FD_SETSIZE
         /\ TotalClients - 1 \in 0 .. FD_SETSIZE
         /\ ClientArray[j] \in Peers
  BY SizeAssumption DEF Base, TypeOK, TableTypeOK, SlotInv, Due, Used, Slots

LEMMA RemoveBase ==
  ASSUME Base, NEW j \in Due, RemoveClient(j)
  PROVE  /\ conn' \in [Peers -> {"idle", "open", "finished", "reset", "gone"}]
         /\ toServer' \in [Peers -> Seq(1 .. MaxRequests)]
         /\ ClientArray' \in [Slots -> Peers \cup {NULL}]
         /\ TotalClients' \in 0 .. FD_SETSIZE
         /\ \A k \in Used' : ClientArray'[k] \in Peers
         /\ \A c \in Peers : toServer'[c] = toServer[c] \/ toServer'[c] = <<>>
         /\ UNCHANGED <<backlog, written>>
<1>1. j \in Used /\ ClientArray[j] \in Peers /\ TotalClients \in 0 .. FD_SETSIZE
  BY DueSlots DEF Base, TypeOK, NetTypeOK, TableTypeOK, OutTypeOK, DBTypeOK
<1>2. /\ conn' \in [Peers -> {"idle", "open", "finished", "reset", "gone"}]
      /\ TotalClients' \in 0 .. FD_SETSIZE
      /\ UNCHANGED <<backlog, written>>
  BY <1>1, DueSlots DEF RemoveClient, Base, TypeOK, NetTypeOK, TableTypeOK, OutTypeOK, DBTypeOK
<1>3. ClientArray' \in [Slots -> Peers \cup {NULL}]
  BY SizeAssumption DEF RemoveClient, Base, TypeOK, NetTypeOK, TableTypeOK, OutTypeOK, DBTypeOK, Slots
<1>4. \A c \in Peers : toServer'[c] = toServer[c] \/ toServer'[c] = <<>>
  BY DEF RemoveClient, Base, TypeOK, NetTypeOK, TableTypeOK, OutTypeOK, DBTypeOK
<1>5. toServer' \in [Peers -> Seq(1 .. MaxRequests)]
  <2>1. <<>> \in Seq(1 .. MaxRequests)
    OBVIOUS
  <2>. QED
    BY <2>1 DEF RemoveClient, Base, TypeOK, NetTypeOK, TableTypeOK, OutTypeOK, DBTypeOK
<1>6. ASSUME NEW k \in Used' PROVE ClientArray'[k] \in Peers
  <2>1. /\ k \in Int /\ 0 <= k /\ k < TotalClients - 1 /\ TotalClients <= FD_SETSIZE
        /\ k \in Slots /\ k \in Used /\ k + 1 \in Used /\ k + 1 < FD_SETSIZE
    BY <1>1, SizeAssumption DEF RemoveClient, Used, Slots
  <2>2. ClientArray'[k] = IF k < j THEN ClientArray[k] ELSE ClientArray[k + 1]
    BY <1>1, <2>1, SizeAssumption DEF RemoveClient
  <2>. QED
    BY <2>1, <2>2 DEF Base, SlotInv
<1>. QED
  BY <1>2, <1>3, <1>4, <1>5, <1>6

LEMMA SuffixParts ==
  ASSUME NEW S, NEW s \in Seq(S), NEW n \in 1 .. Len(s)
  PROVE  /\ SubSeq(s, n + 1, Len(s)) \in Seq(S)
         /\ Len(SubSeq(s, n + 1, Len(s))) = Len(s) - n
         /\ \A k \in 1 .. Len(SubSeq(s, n + 1, Len(s))) :
              /\ k + n \in 1 .. Len(s)
              /\ SubSeq(s, n + 1, Len(s))[k] = s[k + n]
<1>1. Len(s) \in Nat /\ n \in Nat /\ 1 <= n /\ n <= Len(s)
  OBVIOUS
<1>2. \A k \in (n + 1) .. Len(s) : s[k] \in S
  BY <1>1
<1>. QED
  BY <1>1, <1>2

(* Requests are taken from the front.                                      *)
LEMMA ConsumeBase ==
  ASSUME Base, NEW c \in Peers, NEW n \in 1 .. Len(toServer[c]), Consume(c, n)
  PROVE  /\ toServer' \in [Peers -> Seq(1 .. MaxRequests)]
         /\ \A d \in Peers : d # c => toServer'[d] = toServer[d]
         /\ Len(toServer'[c]) = Len(toServer[c]) - n
         /\ \A k \in 1 .. Len(toServer'[c]) :
              /\ k + n \in 1 .. Len(toServer[c])
              /\ toServer'[c][k] = toServer[c][k + n]
         /\ \A d \in Peers : \A k \in 1 .. Len(toServer'[d]) :
              toServer'[d][k] \in 1 .. Len(written)
         /\ UNCHANGED <<conn, backlog, written>>
<1>. DEFINE s == toServer[c]
            t == SubSeq(s, n + 1, Len(s))
<1>1. s \in Seq(1 .. MaxRequests) /\ toServer \in [Peers -> Seq(1 .. MaxRequests)]
  BY DEF Base, TypeOK, NetTypeOK, TableTypeOK, OutTypeOK, DBTypeOK
<1>2. /\ t \in Seq(1 .. MaxRequests)
      /\ Len(t) = Len(s) - n
      /\ \A k \in 1 .. Len(t) : k + n \in 1 .. Len(s) /\ t[k] = s[k + n]
  BY <1>1, SuffixParts
<1>3. toServer' = [toServer EXCEPT ![c] = t] /\ UNCHANGED <<conn, backlog, written>>
  BY DEF Consume
<1>. HIDE DEF t
<1>4. toServer'[c] = t /\ \A d \in Peers : d # c => toServer'[d] = toServer[d]
  BY <1>1, <1>3
<1>5. toServer' \in [Peers -> Seq(1 .. MaxRequests)]
  BY <1>1, <1>2, <1>3
<1>6. \A d \in Peers : \A k \in 1 .. Len(toServer'[d]) :
        toServer'[d][k] \in 1 .. Len(written)
  BY <1>2, <1>4 DEF Base, NumberInv
<1>. QED
  BY <1>2, <1>3, <1>4, <1>5, <1>6

-----------------------------------------------------------------------------
(* outgoing, and what is sent of it.                                       *)
LEMMA AnswerBuffer ==
  ASSUME Base, NEW r \in 1 .. Len(written), NEW result \in Results(r)
  PROVE  /\ Answer(r, result) \in OutBuffer
         /\ Answer(r, result).reads = 0
         /\ Answer(r, result).type = result.type
         /\ Answer(r, result).type \in ReplyTypes
         /\ Answer(r, result).text =
              [request |-> r, returnCode |-> result.returnCode]
         /\ Answer(r, result).text \in AnswerText
<1>. DEFINE text == [request |-> r, returnCode |-> result.returnCode]
<1>1. Answer(r, result) = [type |-> result.type, text |-> text, reads |-> 0]
  BY DEF Answer, MakeProtocol
<1>2. text \in AnswerText
  <2>1. r \in 1 .. MaxRequests
    BY SizeAssumption DEF Base, TypeOK, NetTypeOK, TableTypeOK, OutTypeOK, DBTypeOK
  <2>2. result.returnCode \in 0 .. 2
    BY ResultParts DEF Base
  <2>. QED
    BY <2>1, <2>2 DEF AnswerText
<1>. HIDE DEF text
<1>3. result.type \in ReplyTypes
  BY ResultParts DEF Base, AnswerTypes, ReplyTypes
<1>4. ReplyTypes \subseteq FrameType
  BY DEF ReplyTypes, FrameType, ProtocolType
<1>5. Answer(r, result) \in OutBuffer
  BY <1>1, <1>2, <1>3, <1>4, WordsOfBuffer DEF OutBuffer
<1>. QED
  BY <1>1, <1>2, <1>3, <1>5 DEF text

LEMMA AfterBuffer ==
  ASSUME NEW b \in OutBuffer
  PROVE  AfterPayload(b) \in OutBuffer /\ AfterPayload(b).type = b.type
  BY WordsOfBuffer DEF AfterPayload, OutBuffer, SafeReads

LEMMA WireTypes ==
  ASSUME NEW b \in OutBuffer, b.type # NoType
  PROVE  TypesOnTheWire(b) \subseteq FrameType \cup {Garbage}
  BY DEF TypesOnTheWire, OutBuffer

LEMMA SendTypes ==
  ASSUME Base, NEW c \in Peers, NEW out \in OutBuffer, SendAnswer(c, out),
         out.type = NoType \/ out.text \in AnswerText
  PROVE  /\ outgoing' \in OutBuffer /\ outgoing'.type = out.type
         /\ toPeer' \in [Peers -> Seq(SentFrame)]
<1>1. outgoing' \in OutBuffer /\ outgoing'.type = out.type
  BY AfterBuffer DEF SendAnswer
<1>2. toPeer \in [Peers -> Seq(SentFrame)]
  BY DEF Base, TypeOK, NetTypeOK, TableTypeOK, OutTypeOK, DBTypeOK, SentFrame
<1>3. CASE out.type = NoType
  BY <1>1, <1>2, <1>3 DEF SendAnswer
<1>4. CASE out.type # NoType
  <2>1. PICK type \in TypesOnTheWire(out) :
          toPeer' = [toPeer EXCEPT ![c] =
                       Append(@, [type |-> type, text |-> out.text])]
    BY <1>4 DEF SendAnswer
  <2>2. [type |-> type, text |-> out.text] \in SentFrame
    BY <1>4, <2>1, WireTypes DEF SentFrame
  <2>3. Append(toPeer[c], [type |-> type, text |-> out.text]) \in Seq(SentFrame)
    BY <1>2, <2>2
  <2>. QED
    BY <1>1, <1>2, <2>1, <2>3
<1>. QED
  BY <1>3, <1>4

-----------------------------------------------------------------------------
LEMMA InitBase == ASSUME Init PROVE Base
<1>1. \A S : <<>> \in Seq(S)
  OBVIOUS
<1>2. BlankBuffer \in OutBuffer /\ BlankBuffer.type = NoType
  BY WordsOfBuffer DEF BlankBuffer, MakeProtocol, OutBuffer
<1>3. NetTypeOK /\ RecvTypeOK
  <2>1. Len(written) = 0 /\ MaxRequests \in Nat
    BY SizeAssumption DEF Init
  <2>2. RecvTypeOK
    <3>1. 0 \in 0 .. MaxRequests
      BY <2>1
    <3>2. buffer \in [Peers -> 0 .. MaxRequests]
      BY <3>1 DEF Init
    <3>. QED
      BY <3>2 DEF Init, RecvTypeOK
  <2>3. written \in Seq(Request) /\ backlog \in Seq(Peers)
    BY <1>1 DEF Init
  <2>4. toServer \in [Peers -> Seq(1 .. MaxRequests)]
    BY <1>1 DEF Init
  <2>. QED
    BY <2>1, <2>2, <2>3, <2>4 DEF Init, NetTypeOK
<1>4. TableTypeOK /\ LoopTypeOK
  BY SizeAssumption DEF Init, TableTypeOK, LoopTypeOK
<1>5. OutTypeOK /\ DBTypeOK
  BY <1>1, <1>2, SwitchesAssumption DEF Init, OutTypeOK, DBTypeOK
<1>6. SlotInv /\ LoopInv /\ NumberInv /\ BlankInv
  BY <1>2 DEF Init, SlotInv, Used, LoopInv, NumberInv, BlankInv
<1>. QED
  BY <1>3, <1>4, <1>5, <1>6 DEF Base, TypeOK

(* select, accept and the end of a scan.                                   *)
LEMMA LoopBase ==
  ASSUME Base, Select \/ AcceptOverflow \/ AcceptFails \/ EndScan
  PROVE  Base'
<1>1. UNCHANGED <<netVars, tableVars, recvVars, outVars, dbVars>>
  BY DEF Select, AcceptOverflow, AcceptFails, EndScan
<1>2. LoopTypeOK'
  <2>1. Monitored \subseteq Peers
    BY DEF Monitored, Base, SlotInv
  <2>. QED
    BY <2>1, SizeAssumption DEF Base, TypeOK, LoopTypeOK, Select, AcceptOverflow,
      AcceptFails, EndScan, Stop
<1>3. LoopInv'
  BY <1>1 DEF Base, LoopInv, Select, AcceptOverflow, AcceptFails, EndScan, Stop,
    netVars
<1>. QED
  BY <1>1, <1>2, <1>3, KeepNet, KeepTable, KeepRecv, KeepOut, KeepDB
    DEF Base, TypeOK, recvVars, dbVars

LEMMA AcceptBase == ASSUME Base, AcceptClient PROVE Base'
<1>. DEFINE c == Head(backlog)
<1>1. /\ backlog # <<>> /\ backlog \in Seq(Peers) /\ pc = "accept"
      /\ TotalClients \in 0 .. FD_SETSIZE /\ TotalClients < FD_SETSIZE
  BY DEF Base, TypeOK, NetTypeOK, TableTypeOK, LoopInv, AcceptClient
<1>2. c \in Peers /\ backlog' \in Seq(Peers)
  BY <1>1 DEF AcceptClient
<1>. HIDE DEF c
<1>3. /\ ClientArray' = [ClientArray EXCEPT ![TotalClients] = c]
      /\ TotalClients' = TotalClients + 1
      /\ pc' = "recv"
      /\ UNCHANGED <<conn, toServer, written, recvVars, outVars, dbVars, i,
                     readSet, fault>>
  BY DEF AcceptClient, c
<1>4. TableTypeOK'
  <2>1. TotalClients' \in 0 .. FD_SETSIZE
    BY <1>1, <1>3, SizeAssumption
  <2>. QED
    BY <1>2, <1>3, <2>1 DEF Base, TypeOK, TableTypeOK
<1>5. SlotInv'
  <2>1. ASSUME NEW k \in Used' PROVE k \in Slots /\ (k \in Used \/ k = TotalClients)
    BY <1>1, <1>3, SizeAssumption DEF Used, Slots
  <2>. QED
    BY <1>2, <1>3, <2>1 DEF Base, SlotInv, TypeOK, TableTypeOK
<1>6. NetTypeOK' /\ NumberInv'
  BY <1>2, <1>3 DEF Base, TypeOK, NetTypeOK, NumberInv, recvVars
<1>7. LoopTypeOK' /\ LoopInv'
  BY <1>1, <1>3 DEF Base, TypeOK, LoopTypeOK, LoopInv
<1>. QED
  BY <1>3, <1>4, <1>5, <1>6, <1>7, KeepRecv, KeepOut, KeepDB
    DEF Base, TypeOK, dbVars

-----------------------------------------------------------------------------
(* The turns.  Each keeps what it does not touch, by one of these.         *)
LEMMA TurnLoop ==
  ASSUME Base, NEW j \in Due, Turn(j)
  PROVE  LoopTypeOK' /\ pc = "recv" /\ pc' = "recv" /\ LoopInv'
  BY DueSlots DEF Turn, Base, TypeOK, LoopTypeOK, LoopInv

LEMMA EndLoop ==
  ASSUME Base, NEW j \in Due, NEW why \in {"bad_payload", "exception"}, EndIn(j, why)
  PROVE  LoopTypeOK' /\ LoopInv'
  BY DEF EndIn, Stop, Base, TypeOK, LoopTypeOK, LoopInv

(* A turn that takes requests.                                             *)
LEMMA TakenBase ==
  ASSUME Base, NEW j \in Due, NEW n \in 1 .. Len(toServer[ClientArray[j]]),
         Receive(ClientArray[j], n), Consume(ClientArray[j], n)
  PROVE  /\ NetTypeOK' /\ NumberInv' /\ RecvTypeOK'
         /\ Head(toServer[ClientArray[j]]) \in 1 .. Len(written)
<1>. DEFINE c == ClientArray[j]
<1>1. c \in Peers
  BY DueSlots
<1>. HIDE DEF c
<1>2. n \in 1 .. Len(toServer[c]) /\ Receive(c, n) /\ Consume(c, n)
  BY DEF c
<1>3. toServer[c] # <<>> /\ toServer \in [Peers -> Seq(1 .. MaxRequests)]
  BY <1>1, <1>2 DEF Base, TypeOK, NetTypeOK
<1>4. Head(toServer[c]) \in 1 .. Len(written)
  BY <1>1, <1>3, HeadNumber
<1>5. /\ buffer' = [buffer EXCEPT ![c] = Head(toServer[c])] /\ RecvBytes' = TRUE
  BY <1>2 DEF Receive
<1>6. RecvTypeOK'
  BY <1>1, <1>4, <1>5, SizeAssumption DEF Base, TypeOK, NetTypeOK, RecvTypeOK
<1>7. /\ toServer' \in [Peers -> Seq(1 .. MaxRequests)]
      /\ \A d \in Peers : \A k \in 1 .. Len(toServer'[d]) :
           toServer'[d][k] \in 1 .. Len(written)
      /\ UNCHANGED <<conn, backlog, written>>
  BY <1>1, <1>2, ConsumeBase
<1>8. NetTypeOK'
  BY <1>7 DEF Base, TypeOK, NetTypeOK
<1>9. NumberInv'
  BY <1>1, <1>4, <1>5, <1>7 DEF Base, TypeOK, RecvTypeOK, NumberInv
<1>. QED
  BY <1>4, <1>6, <1>8, <1>9 DEF c

(* A turn that removes its peer.                                           *)
LEMMA RemovedBase ==
  ASSUME Base, NEW j \in Due, RemoveClient(j), UNCHANGED buffer
  PROVE  NetTypeOK' /\ NumberInv' /\ TableTypeOK' /\ SlotInv'
  BY RemoveBase DEF Base, TypeOK, NetTypeOK, NumberInv, TableTypeOK, SlotInv

LEMMA ServeBase ==
  ASSUME Base, NEW j \in Due, NEW n \in 1 .. Len(toServer[ClientArray[j]]),
         Serve(j, n) \/ Ignore(j, n)
  PROVE  Base'
<1>. DEFINE c == ClientArray[j]
            r == Head(toServer[c])
<1>1. /\ Turn(j) /\ Receive(c, n) /\ Consume(c, n)
      /\ UNCHANGED <<tableVars, connected>>
  BY DEF Serve, Ignore, dbVars
<1>2. /\ NetTypeOK' /\ NumberInv' /\ RecvTypeOK' /\ r \in 1 .. Len(written)
      /\ LoopTypeOK' /\ LoopInv' /\ TableTypeOK' /\ SlotInv' /\ c \in Peers
  BY <1>1, TakenBase, TurnLoop, KeepTable, DueSlots
<1>3. CASE Serve(j, n)
  <2>1. PICK result \in Results(r) :
          SendAnswer(c, Answer(r, result)) /\ accounts' = result.accounts
    BY <1>3 DEF Serve
  <2>2. Answer(r, result) \in OutBuffer /\ Answer(r, result).text \in AnswerText
    BY <1>2, AnswerBuffer
  <2>3. OutTypeOK'
    BY <1>2, <2>1, <2>2, SendTypes DEF OutTypeOK
  <2>4. DBTypeOK' /\ BlankInv'
    BY <1>1, <1>2, <1>3, <2>1, ResultAccounts
      DEF Base, TypeOK, DBTypeOK, BlankInv, Serve
  <2>. QED
    BY <1>2, <2>3, <2>4 DEF Base, TypeOK
<1>4. CASE Ignore(j, n)
  <2>1. SendAnswer(c, outgoing) /\ outgoing.type = NoType /\ UNCHANGED dbVars
    BY <1>4 DEF Ignore, Base, BlankInv
  <2>2. OutTypeOK' /\ BlankInv'
    BY <1>2, <2>1, SendTypes DEF Base, TypeOK, OutTypeOK, BlankInv
  <2>. QED
    BY <1>2, <2>1, <2>2, KeepDB DEF Base, TypeOK
<1>. QED
  BY <1>3, <1>4

LEMMA CrashBase ==
  ASSUME Base, NEW j \in Due, NEW n \in 1 .. Len(toServer[ClientArray[j]]),
         IgnoreCrash(j, n) \/ Throw(j, n)
  PROVE  Base'
<1>. DEFINE c == ClientArray[j]
            r == Head(toServer[c])
<1>1. /\ EndIn(j, "bad_payload") \/ EndIn(j, "exception")
      /\ Receive(c, n) /\ Consume(c, n)
      /\ UNCHANGED <<tableVars, outVars, connected>>
  BY DEF IgnoreCrash, Throw, dbVars
<1>2. /\ NetTypeOK' /\ NumberInv' /\ RecvTypeOK' /\ r \in 1 .. Len(written)
      /\ LoopTypeOK' /\ LoopInv' /\ TableTypeOK' /\ SlotInv'
      /\ OutTypeOK' /\ BlankInv'
  BY <1>1, TakenBase, EndLoop, KeepTable, KeepOut
<1>3. accounts' = accounts \/ \E result \in Results(r) : accounts' = result.accounts
  BY DEF IgnoreCrash, Throw, dbVars
<1>4. DBTypeOK'
  BY <1>1, <1>2, <1>3, ResultAccounts DEF Base, TypeOK, DBTypeOK
<1>. QED
  BY <1>2, <1>4 DEF Base, TypeOK

LEMMA RecvNothingBase ==
  ASSUME Base, NEW j \in Due, RecvNothing(j) \/ ReparseNothing(j)
  PROVE  Base'
<1>1. Turn(j) /\ RemoveClient(j) /\ UNCHANGED <<buffer, outVars, dbVars>>
  BY DEF RecvNothing, ReparseNothing, recvVars
<1>2. RecvTypeOK'
  BY DEF Base, TypeOK, RecvTypeOK, RecvNothing, ReparseNothing, recvVars
<1>. QED
  BY <1>1, <1>2, TurnLoop, RemovedBase, KeepOut, KeepDB DEF Base, TypeOK, dbVars

LEMMA ReparseBase ==
  ASSUME Base, NEW j \in Due, Reparse(j) \/ ReparseThrow(j)
  PROVE  Base'
<1>. DEFINE c == ClientArray[j]
            r == buffer[c]
<1>1. c \in Peers /\ r \in 1 .. Len(written) /\ UNCHANGED <<recvVars, connected>>
  <2>1. StaleCount(c) /\ UNCHANGED <<recvVars, connected>>
    BY DEF Reparse, ReparseThrow
  <2>2. c \in Peers
    BY DueSlots
  <2>3. r \in Nat /\ r # 0 /\ r <= Len(written) /\ Len(written) \in Nat
    BY <2>1, <2>2 DEF StaleCount, Base, TypeOK, RecvTypeOK, NetTypeOK, NumberInv
  <2>. QED
    BY <2>1, <2>2, <2>3
<1>2. PICK result \in Results(r) : accounts' = result.accounts
  BY DEF Reparse, ReparseThrow
<1>3. DBTypeOK' /\ RecvTypeOK'
  BY <1>1, <1>2, ResultAccounts, KeepRecv DEF Base, TypeOK, DBTypeOK
<1>4. CASE Reparse(j)
  <2>1. /\ Turn(j) /\ connected
        /\ RemoveClient(j) \/ UNCHANGED <<netVars, tableVars>>
        /\ UNCHANGED toPeer
        /\ \E res \in Results(r) : outgoing' = Answer(r, res)
    BY <1>4 DEF Reparse
  <2>2. NetTypeOK' /\ NumberInv' /\ TableTypeOK' /\ SlotInv'
    BY <1>1, <2>1, RemovedBase, KeepNet, KeepTable DEF recvVars
  <2>3. outgoing' \in OutBuffer
    BY <1>1, <2>1, AnswerBuffer
  <2>4. OutTypeOK' /\ BlankInv'
    BY <1>1, <2>1, <2>3 DEF Base, TypeOK, OutTypeOK, BlankInv
  <2>. QED
    BY <1>3, <2>1, <2>2, <2>4, TurnLoop DEF Base, TypeOK
<1>5. CASE ReparseThrow(j)
  <2>1. /\ EndIn(j, "exception")
        /\ UNCHANGED <<netVars, tableVars, recvVars, outVars, connected>>
    BY <1>5 DEF ReparseThrow
  <2>. QED
    BY <1>3, <2>1, EndLoop, KeepNet, KeepTable, KeepOut
      DEF Base, TypeOK, recvVars
<1>. QED
  BY <1>4, <1>5

-----------------------------------------------------------------------------
(* The peers.                                                              *)
LEMMA PeerBase == ASSUME Base, PeerStep PROVE Base'
<1>1. /\ UNCHANGED <<tableVars, recvVars, outVars, dbVars, loopVars>>
      /\ \E c \in Peers : Connect(c) \/ Write(c) \/ Finish(c) \/ Reset(c)
  BY DEF PeerStep
<1>2. PICK c \in Peers : Connect(c) \/ Write(c) \/ Finish(c) \/ Reset(c)
  BY <1>1
<1>3. /\ conn \in [Peers -> {"idle", "open", "finished", "reset", "gone"}]
      /\ backlog \in Seq(Peers)
      /\ toServer \in [Peers -> Seq(1 .. MaxRequests)]
      /\ written \in Seq(Request) /\ Len(written) <= MaxRequests
      /\ MaxRequests \in Nat /\ Len(written) \in Nat
      /\ UNCHANGED buffer /\ buffer \in [Peers -> 0 .. MaxRequests]
  BY <1>1, SizeAssumption DEF Base, TypeOK, NetTypeOK, RecvTypeOK, recvVars
<1>4. NetTypeOK' /\ NumberInv' /\ (backlog' = backlog \/ backlog' # <<>>)
  <2>1. CASE Connect(c)
    <3>1. Append(backlog, c) \in Seq(Peers) /\ Append(backlog, c) # <<>>
      <4>1. /\ Append(backlog, c) \in Seq(Peers)
            /\ Len(Append(backlog, c)) = Len(backlog) + 1 /\ Len(backlog) \in Nat
        BY <1>3
      <4>2. Append(backlog, c) # <<>>
        BY <4>1
      <4>. QED
        BY <4>1, <4>2
    <3>2. NetTypeOK'
      BY <1>3, <2>1, <3>1 DEF Connect, NetTypeOK
    <3>3. NumberInv'
      BY <1>3, <2>1 DEF Connect, Base, NumberInv
    <3>. QED
      BY <2>1, <3>1, <3>2, <3>3 DEF Connect
  <2>2. CASE Finish(c)
    BY <1>3, <2>2 DEF Finish, NetTypeOK, Base, NumberInv
  <2>3. CASE Reset(c)
    <3>1. <<>> \in Seq(1 .. MaxRequests) /\ Len(<<>>) = 0
      OBVIOUS
    <3>. QED
      BY <1>3, <2>3, <3>1 DEF Reset, NetTypeOK, Base, NumberInv
  <2>4. CASE Write(c)
    <3>1. PICK q \in Request : written' = Append(written, q)
      <4>1. PICK type \in RequestTypes, e \in Emails, p \in Passwords :
              written' = Append(written, [type |-> type, email |-> e,
                                          password |-> p, peer |-> c])
        BY <2>4 DEF Write
      <4>2. [type |-> type, email |-> e, password |-> p, peer |-> c] \in Request
        BY DEF Request
      <4>. QED
        BY <4>1, <4>2
    <3>2. /\ Len(written) < MaxRequests
          /\ toServer' = [toServer EXCEPT ![c] = Append(@, Len(written) + 1)]
          /\ UNCHANGED <<conn, backlog>>
      BY <2>4 DEF Write
    <3>3. /\ written' \in Seq(Request) /\ Len(written') = Len(written) + 1
          /\ Len(written') <= MaxRequests
      BY <1>3, <3>1, <3>2
    <3>4. ASSUME NEW d \in Peers
          PROVE  /\ toServer'[d] \in Seq(1 .. MaxRequests)
                 /\ \A k \in 1 .. Len(toServer'[d]) :
                      toServer'[d][k] \in 1 .. Len(written')
      <4>1. toServer[d] \in Seq(1 .. MaxRequests)
        BY <1>3
      <4>2. \A k \in 1 .. Len(toServer[d]) : toServer[d][k] \in 1 .. Len(written)
        BY DEF Base, NumberInv
      <4>3. toServer'[d] = toServer[d]
              \/ toServer'[d] = Append(toServer[d], Len(written) + 1)
        BY <1>3, <3>2
      <4>4. /\ Len(written) + 1 \in 1 .. MaxRequests
            /\ Len(written) + 1 \in 1 .. Len(written')
        BY <1>3, <3>2, <3>3
      <4>5. CASE toServer'[d] = toServer[d]
        BY <1>3, <3>3, <4>1, <4>2, <4>5
      <4>6. CASE toServer'[d] = Append(toServer[d], Len(written) + 1)
        <5>1. toServer'[d] \in Seq(1 .. MaxRequests)
          BY <4>1, <4>4, <4>6
        <5>2. ASSUME NEW k \in 1 .. Len(toServer'[d])
              PROVE  toServer'[d][k] \in 1 .. Len(written')
          <6>1. \/ k \in 1 .. Len(toServer[d]) /\ toServer'[d][k] = toServer[d][k]
                \/ toServer'[d][k] = Len(written) + 1
            BY <4>1, <4>4, <4>6
          <6>. QED
            BY <1>3, <3>3, <4>2, <4>4, <6>1
        <5>. QED
          BY <5>1, <5>2
      <4>. QED
        BY <4>3, <4>5, <4>6
    <3>5. toServer' \in [Peers -> Seq(1 .. MaxRequests)]
      BY <1>3, <3>2, <3>4
    <3>6. NetTypeOK'
      BY <1>3, <3>2, <3>3, <3>5 DEF NetTypeOK
    <3>7. NumberInv'
      BY <1>3, <3>3, <3>4 DEF Base, NumberInv
    <3>. QED
      BY <3>2, <3>6, <3>7
  <2>. QED
    BY <1>2, <2>1, <2>2, <2>3, <2>4
<1>5. LoopTypeOK' /\ LoopInv'
  BY <1>1, <1>4 DEF Base, TypeOK, LoopTypeOK, LoopInv, loopVars
<1>. QED
  BY <1>1, <1>4, <1>5, KeepTable, KeepRecv, KeepOut, KeepDB DEF Base, TypeOK, dbVars

LEMMA NextBase == Base /\ [Next]_vars => Base'
<1>. SUFFICES ASSUME Base, [Next]_vars PROVE Base'
  OBVIOUS
<1>1. CASE UNCHANGED vars
  BY <1>1, KeepNet, KeepTable, KeepRecv, KeepOut, KeepDB
    DEF vars, Base, TypeOK, LoopTypeOK, LoopInv, loopVars, netVars, recvVars,
        dbVars
<1>2. CASE Server
  BY <1>2, LoopBase, AcceptBase, ServeBase, CrashBase, RecvNothingBase, ReparseBase
    DEF Server
<1>. QED
  BY <1>1, <1>2, PeerBase DEF Next

LEMMA Invariance == Spec => []Base
  BY InitBase, NextBase, PTL DEF Spec

(* auth_server_main.cpp: the table, the queues and outgoing keep their     *)
(* types, through every removal, second execution and crash.               *)
THEOREM TypesAlways == Spec => []TypeOK
<1>1. Base => TypeOK
  BY DEF Base
<1>. QED
  BY <1>1, Invariance, PTL

-----------------------------------------------------------------------------
(* RemoveClient is called for a socket that reads nothing or fails: its    *)
(* peer has ended the connection, whatever else the turn has done.         *)
LEMMA ClosedLeft ==
  ASSUME Base, [Next]_vars, NEW c \in Peers, conn'[c] = "gone"
  PROVE  conn[c] \in {"finished", "reset", "gone"}
<1>1. conn \in [Peers -> {"idle", "open", "finished", "reset", "gone"}]
  BY DEF Base, TypeOK, NetTypeOK
<1>2. ASSUME UNCHANGED conn PROVE conn[c] \in {"finished", "reset", "gone"}
  BY <1>2
<1>3. CASE PeerStep
  <2>1. PICK d \in Peers : Connect(d) \/ Write(d) \/ Finish(d) \/ Reset(d)
    BY <1>3 DEF PeerStep
  <2>. QED
    BY <1>1, <2>1 DEF Connect, Write, Finish, Reset
<1>4. ASSUME NEW j \in Due, RemoveClient(j),
             conn[ClientArray[j]] \in {"finished", "reset"}
      PROVE  conn[c] \in {"finished", "reset", "gone"}
  BY <1>1, <1>4 DEF RemoveClient
<1>5. ASSUME NEW j \in Due, RecvNothing(j) \/ Reparse(j) \/ ReparseNothing(j)
      PROVE  conn[c] \in {"finished", "reset", "gone"}
  BY <1>2, <1>4, <1>5 DEF RecvNothing, Reparse, ReparseNothing, StaleCount, netVars
<1>6. ASSUME NEW j \in Due, NEW n \in 1 .. Len(toServer[ClientArray[j]]),
             Serve(j, n) \/ Ignore(j, n) \/ IgnoreCrash(j, n) \/ Throw(j, n)
      PROVE  conn[c] \in {"finished", "reset", "gone"}
  BY <1>2, <1>6 DEF Serve, Ignore, IgnoreCrash, Throw, Consume
<1>7. ASSUME NEW j \in Due, ReparseThrow(j)
      PROVE  conn[c] \in {"finished", "reset", "gone"}
  BY <1>2, <1>7 DEF ReparseThrow, netVars
<1>8. CASE Select \/ AcceptClient \/ AcceptOverflow \/ AcceptFails \/ EndScan
             \/ UNCHANGED vars
  BY <1>2, <1>8 DEF Select, AcceptClient, AcceptOverflow, AcceptFails, EndScan,
    vars, netVars
<1>. QED
  BY <1>3, <1>5, <1>6, <1>7, <1>8 DEF Next, Server

(* auth_server_main.cpp closes no connection but one that its peer has     *)
(* ended: no failure of one peer costs another its connection.             *)
THEOREM OnlyLeaversAlways == Spec => OnlyLeaversAreClosed
<1>1. Base /\ [Next]_vars
        => [\A c \in Peers : conn'[c] = "gone"
              => conn[c] \in {"finished", "reset", "gone"}]_vars
  BY ClosedLeft
<1>. QED
  BY <1>1, Invariance, PTL DEF Spec, OnlyLeaversAreClosed

-----------------------------------------------------------------------------
(***************************************************************************)
(* What a step does to the requests, the answers and the accounts.         *)
(***************************************************************************)
(* The first n requests of c are taken.                                    *)
Drops(c, n) ==
  /\ n \in 0 .. Len(toServer[c])
  /\ Len(toServer'[c]) = Len(toServer[c]) - n
  /\ \A k \in 1 .. Len(toServer'[c]) : toServer'[c][k] = toServer[c][k + n]

(* An account that exists stays as it is.                                  *)
AccountsKept == \A e \in Emails : accounts[e] # NULL => accounts'[e] = accounts[e]

QuietMove ==
  /\ UNCHANGED <<written, toPeer>>
  /\ \A c \in Peers : \E n \in Nat : Drops(c, n)
  /\ AccountsKept

(* The first of the requests taken from c is answered by f.                *)
ServeMove(c, n, f) ==
  LET r == toServer[c][1]
  IN /\ UNCHANGED written
     /\ n >= 1 /\ Drops(c, n)
     /\ \A d \in Peers : d # c => toServer'[d] = toServer[d]
     /\ toPeer' = [toPeer EXCEPT ![c] = Append(@, f)]
     /\ f \in SentFrame
     /\ f.text.request = r
     /\ f.type \in AnswerTypes(written[r].type)
     /\ f.type = "G_CREATE_ACCOUNT_SUCCESS" =>
          /\ accounts[written[r].email] = NULL
          /\ accounts'[written[r].email] = written[r].password
     /\ f.type = "G_AUTHENTICATE_SUCCESS" =>
          accounts'[written[r].email] = written[r].password
     /\ AccountsKept

WriteMove(c) ==
  /\ \E q \in Request : q.peer = c /\ written' = Append(written, q)
  /\ toServer' = [toServer EXCEPT ![c] = Append(@, Len(written) + 1)]
  /\ UNCHANGED <<toPeer, accounts>>

LEMMA KeepQueues ==
  ASSUME Base, UNCHANGED <<toServer, written, toPeer>>, AccountsKept
  PROVE  QuietMove
<1>1. ASSUME NEW c \in Peers PROVE Drops(c, 0)
  <2>1. Len(toServer[c]) \in Nat
    BY DEF Base, TypeOK, NetTypeOK
  <2>. QED
    BY <2>1 DEF Drops
<1>. QED
  BY <1>1 DEF QuietMove

LEMMA EmptiedQueues ==
  ASSUME Base, UNCHANGED <<written, toPeer>>, AccountsKept,
         \A c \in Peers : toServer'[c] = toServer[c] \/ toServer'[c] = <<>>
  PROVE  QuietMove
<1>1. ASSUME NEW c \in Peers PROVE \E n \in Nat : Drops(c, n)
  <2>1. Len(toServer[c]) \in Nat /\ Len(<<>>) = 0
    BY DEF Base, TypeOK, NetTypeOK
  <2>2. CASE toServer'[c] = toServer[c]
    <3>1. Drops(c, 0)
      BY <2>1, <2>2 DEF Drops
    <3>. QED
      BY <3>1
  <2>3. CASE toServer'[c] = <<>>
    <3>1. Drops(c, Len(toServer[c]))
      BY <2>1, <2>3 DEF Drops
    <3>. QED
      BY <2>1, <3>1
  <2>. QED
    BY <2>2, <2>3
<1>. QED
  BY <1>1 DEF QuietMove

LEMMA ResultKeeps ==
  ASSUME TypeOK, NEW r \in 1 .. Len(written), NEW result \in Results(r),
         accounts' = result.accounts
  PROVE  AccountsKept
<1>1. \/ result.accounts = accounts
      \/ /\ accounts[written[r].email] = NULL
         /\ result.accounts =
              [accounts EXCEPT ![written[r].email] = written[r].password]
  BY ResultParts
<1>2. accounts \in [Emails -> Passwords \cup {NULL}]
  BY DEF TypeOK, DBTypeOK
<1>. QED
  BY <1>1, <1>2 DEF AccountsKept

LEMMA TakenDrops ==
  ASSUME Base, NEW c \in Peers, NEW n \in 1 .. Len(toServer[c]), Consume(c, n)
  PROVE  /\ Drops(c, n)
         /\ \A d \in Peers : d # c => toServer'[d] = toServer[d]
         /\ UNCHANGED written
  BY ConsumeBase DEF Drops

LEMMA QuietTaken ==
  ASSUME Base, NEW c \in Peers, NEW n \in 1 .. Len(toServer[c]), Consume(c, n),
         UNCHANGED toPeer, AccountsKept
  PROVE  QuietMove
<1>1. ASSUME NEW d \in Peers, d # c PROVE Drops(d, 0)
  <2>1. Len(toServer[d]) \in Nat /\ toServer'[d] = toServer[d]
    BY <1>1, TakenDrops DEF Base, TypeOK, NetTypeOK
  <2>. QED
    BY <2>1 DEF Drops
<1>. QED
  BY <1>1, TakenDrops DEF QuietMove

LEMMA ServeMoves ==
  ASSUME Base, NEW j \in Due, NEW n \in 1 .. Len(toServer[ClientArray[j]]),
         Serve(j, n)
  PROVE  \E f \in SentFrame : ServeMove(ClientArray[j], n, f)
<1>. DEFINE c == ClientArray[j]
            r == Head(toServer[c])
<1>1. c \in Peers /\ toServer[c] # <<>> /\ toServer[c] \in Seq(1 .. MaxRequests)
  BY DueSlots DEF Base, TypeOK, NetTypeOK
<1>2. r \in 1 .. Len(written) /\ r = toServer[c][1]
  BY <1>1, HeadNumber
<1>3. PICK result \in Results(r) :
        SendAnswer(c, Answer(r, result)) /\ accounts' = result.accounts
  BY DEF Serve
<1>. DEFINE out == Answer(r, result)
            f == [type |-> out.type, text |-> out.text]
<1>4. /\ out.reads = 0 /\ out.type = result.type /\ out.type \in ReplyTypes
      /\ out.text.request = r /\ out.text \in AnswerText
  <2>1. /\ out.reads = 0 /\ out.type = result.type /\ out.type \in ReplyTypes
        /\ out.text = [request |-> r, returnCode |-> result.returnCode]
        /\ out.text \in AnswerText
    BY <1>2, <1>3, AnswerBuffer, Zenon
  <2>2. out.text.request = r
    BY <2>1
  <2>. QED
    BY <2>1, <2>2
<1>5. TypesOnTheWire(out) = {out.type} /\ out.type # NoType
  BY <1>4 DEF TypesOnTheWire, ReplyTypes, NoType
<1>6. toPeer' = [toPeer EXCEPT ![c] = Append(@, f)]
  BY <1>3, <1>5 DEF SendAnswer
<1>7. f \in SentFrame /\ f.text.request = r /\ f.type = result.type
  BY <1>4 DEF SentFrame, ReplyTypes, FrameType, ProtocolType
<1>8. /\ Drops(c, n)
      /\ \A d \in Peers : d # c => toServer'[d] = toServer[d]
      /\ UNCHANGED written
  BY <1>1, TakenDrops DEF Serve
<1>9. AccountsKept
  BY <1>2, <1>3, ResultKeeps DEF Base
<1>10. /\ result.type \in AnswerTypes(written[r].type)
       /\ result.type = "G_CREATE_ACCOUNT_SUCCESS" =>
            /\ accounts[written[r].email] = NULL
            /\ accounts'[written[r].email] = written[r].password
       /\ result.type = "G_AUTHENTICATE_SUCCESS" =>
            accounts'[written[r].email] = written[r].password
  BY <1>2, <1>3, ResultParts DEF Base
<1>. HIDE DEF f
<1>11. ServeMove(c, n, f)
  BY <1>1, <1>2, <1>6, <1>7, <1>8, <1>9, <1>10 DEF ServeMove
<1>. QED
  BY <1>7, <1>11

LEMMA StepMoves ==
  ASSUME Base, [Next]_vars
  PROVE  \/ QuietMove
         \/ \E c \in Peers : \E n \in 1 .. Len(toServer[c]) :
              \E f \in SentFrame : ServeMove(c, n, f)
         \/ \E c \in Peers : WriteMove(c)
<1>1. CASE Select \/ AcceptClient \/ AcceptOverflow \/ AcceptFails \/ EndScan
             \/ UNCHANGED vars
  <2>1. UNCHANGED <<toServer, written, toPeer, accounts>>
    BY <1>1 DEF Select, AcceptClient, AcceptOverflow, AcceptFails, EndScan,
      vars, netVars, outVars, dbVars
  <2>. QED
    BY <2>1, KeepQueues DEF AccountsKept
<1>2. ASSUME NEW j \in Due, NEW n \in 1 .. Len(toServer[ClientArray[j]]),
             Ignore(j, n) \/ IgnoreCrash(j, n) \/ Throw(j, n)
      PROVE  QuietMove
  <2>. DEFINE c == ClientArray[j]
              r == Head(toServer[c])
  <2>1. c \in Peers /\ Consume(c, n) /\ r \in 1 .. Len(written)
    <3>1. Receive(c, n) /\ Consume(c, n)
      BY <1>2 DEF Ignore, IgnoreCrash, Throw
    <3>. QED
      BY <3>1, DueSlots, TakenBase
  <2>2. UNCHANGED toPeer
    BY <1>2 DEF Ignore, IgnoreCrash, Throw, outVars, SendAnswer, Base, BlankInv
  <2>3. accounts' = accounts \/ \E result \in Results(r) : accounts' = result.accounts
    BY <1>2 DEF Ignore, IgnoreCrash, Throw, dbVars
  <2>4. AccountsKept
    BY <2>1, <2>3, ResultKeeps DEF Base, AccountsKept
  <2>. QED
    BY <2>1, <2>2, <2>4, QuietTaken
<1>3. ASSUME NEW j \in Due, RecvNothing(j) \/ ReparseNothing(j) PROVE QuietMove
  <2>1. RemoveClient(j) /\ UNCHANGED <<toPeer, accounts>>
    BY <1>3 DEF RecvNothing, ReparseNothing, outVars, dbVars
  <2>. QED
    BY <2>1, RemoveBase, EmptiedQueues DEF AccountsKept
<1>4. ASSUME NEW j \in Due, Reparse(j) \/ ReparseThrow(j) PROVE QuietMove
  <2>. DEFINE r == buffer[ClientArray[j]]
  <2>1. PICK result \in Results(r) : accounts' = result.accounts
    BY <1>4 DEF Reparse, ReparseThrow
  <2>2. r \in 1 .. Len(written)
    <3>1. r # 0 /\ ClientArray[j] \in Peers
      BY <1>4, DueSlots DEF Reparse, ReparseThrow, StaleCount
    <3>. QED
      BY <3>1 DEF Base, TypeOK, RecvTypeOK, NetTypeOK, NumberInv
  <2>3. AccountsKept
    BY <2>1, <2>2, ResultKeeps DEF Base
  <2>4. UNCHANGED toPeer /\ (RemoveClient(j) \/ UNCHANGED netVars)
    BY <1>4 DEF Reparse, ReparseThrow, outVars
  <2>. QED
    BY <2>3, <2>4, RemoveBase, EmptiedQueues DEF netVars
<1>5. CASE PeerStep
  <2>1. PICK c \in Peers : Connect(c) \/ Write(c) \/ Finish(c) \/ Reset(c)
    BY <1>5 DEF PeerStep
  <2>2. UNCHANGED <<toPeer, accounts>>
    BY <1>5 DEF PeerStep, outVars, dbVars
  <2>3. CASE Connect(c) \/ Finish(c) \/ Reset(c)
    <3>1. /\ UNCHANGED written
          /\ \A d \in Peers : toServer'[d] = toServer[d] \/ toServer'[d] = <<>>
      BY <2>3 DEF Connect, Finish, Reset, Base, TypeOK, NetTypeOK
    <3>. QED
      BY <2>2, <3>1, EmptiedQueues DEF AccountsKept
  <2>4. CASE Write(c)
    <3>1. PICK type \in RequestTypes, e \in Emails, p \in Passwords :
            written' = Append(written, [type |-> type, email |-> e,
                                        password |-> p, peer |-> c])
      BY <2>4 DEF Write
    <3>2. [type |-> type, email |-> e, password |-> p, peer |-> c] \in Request
      BY DEF Request
    <3>3. WriteMove(c)
      BY <2>2, <2>4, <3>1, <3>2 DEF WriteMove, Write
    <3>. QED
      BY <3>3
  <2>. QED
    BY <2>1, <2>3, <2>4
<1>. QED
  BY <1>1, <1>2, <1>3, <1>4, <1>5, ServeMoves, DueSlots DEF Next, Server

-----------------------------------------------------------------------------
(***************************************************************************)
(* Answers go to those who asked, in the order they asked.                 *)
(***************************************************************************)
QueueOf(c) ==
  /\ \A k \in 1 .. Len(toServer[c]) : written[toServer[c][k]].peer = c
  /\ \A k, m \in 1 .. Len(toServer[c]) :
       k < m => toServer[c][k] < toServer[c][m]

(* What has been answered lies before all that waits.                      *)
AnsweredOf(c) ==
  \A a \in 1 .. Len(toPeer[c]) :
    /\ toPeer[c][a].text.request \in 1 .. Len(written)
    /\ \A k \in 1 .. Len(toServer[c]) :
         toPeer[c][a].text.request < toServer[c][k]

OwnOf(c) ==
  \A k \in 1 .. Len(toPeer[c]) :
    LET f == toPeer[c][k]
        r == f.text.request
    IN /\ written[r].peer = c
       /\ \A m \in 1 .. k - 1 : toPeer[c][m].text.request < r
       /\ f.type \in AnswerTypes(written[r].type)

PeerInv(c) == QueueOf(c) /\ AnsweredOf(c) /\ OwnOf(c)

LEMMA Lengths ==
  ASSUME Base, NEW c \in Peers
  PROVE  /\ Len(toServer[c]) \in Nat /\ Len(toPeer[c]) \in Nat
         /\ Len(written) \in Nat
         /\ \A k \in 1 .. Len(toServer[c]) : toServer[c][k] \in 1 .. Len(written)
  BY DEF Base, TypeOK, NetTypeOK, OutTypeOK, NumberInv

LEMMA DropsParts ==
  ASSUME Base, NEW c \in Peers, NEW n \in Nat, Drops(c, n)
  PROVE  \A k \in 1 .. Len(toServer'[c]) :
           /\ k \in Nat /\ k >= 1 /\ k + n \in 1 .. Len(toServer[c])
           /\ toServer'[c][k] = toServer[c][k + n]
  BY Lengths DEF Drops

LEMMA DropsQueue ==
  ASSUME Base, NEW c \in Peers, QueueOf(c), NEW n \in Nat, Drops(c, n),
         UNCHANGED written
  PROVE  QueueOf(c)'
<1>1. \A k \in 1 .. Len(toServer'[c]) :
        /\ k \in Nat /\ k + n \in 1 .. Len(toServer[c])
        /\ toServer'[c][k] = toServer[c][k + n]
  BY DropsParts
<1>2. \A k \in 1 .. Len(toServer'[c]) : written'[toServer'[c][k]].peer = c
  BY <1>1 DEF QueueOf
<1>3. ASSUME NEW k \in 1 .. Len(toServer'[c]), NEW m \in 1 .. Len(toServer'[c]),
             k < m
      PROVE  toServer'[c][k] < toServer'[c][m]
  <2>1. k + n < m + n
    BY <1>1, <1>3
  <2>2. toServer[c][k + n] < toServer[c][m + n]
    BY <1>1, <2>1 DEF QueueOf
  <2>. QED
    BY <1>1, <2>2
<1>. QED
  BY <1>2, <1>3 DEF QueueOf

(* Taking requests from the front disturbs none of the three.              *)
LEMMA DropsKeep ==
  ASSUME Base, NEW c \in Peers, PeerInv(c), NEW n \in Nat, Drops(c, n),
         UNCHANGED written, toPeer'[c] = toPeer[c]
  PROVE  PeerInv(c)'
<1>1. QueueOf(c)'
  BY DropsQueue DEF PeerInv
<1>2. AnsweredOf(c)'
  BY DropsParts DEF PeerInv, AnsweredOf
<1>3. OwnOf(c)'
  BY DEF PeerInv, OwnOf
<1>. QED
  BY <1>1, <1>2, <1>3 DEF PeerInv

LEMMA ServeKeeps ==
  ASSUME Base, NEW c \in Peers, PeerInv(c), NEW n \in 1 .. Len(toServer[c]),
         NEW f \in SentFrame, ServeMove(c, n, f)
  PROVE  PeerInv(c)'
<1>. DEFINE r == toServer[c][1]
<1>1. /\ Drops(c, n) /\ UNCHANGED written /\ f.text.request = r
      /\ f.type \in AnswerTypes(written[r].type)
      /\ toPeer' = [toPeer EXCEPT ![c] = Append(@, f)]
  BY DEF ServeMove
<1>2. /\ n \in Nat /\ n >= 1 /\ 1 \in 1 .. Len(toServer[c])
      /\ r \in 1 .. Len(written) /\ Len(written) \in Nat
  BY Lengths
<1>3. \A k \in 1 .. Len(toServer'[c]) :
        /\ k + n \in 1 .. Len(toServer[c]) /\ k + n > 1
        /\ toServer'[c][k] = toServer[c][k + n]
  BY <1>1, <1>2, DropsParts
<1>4. /\ toPeer[c] \in Seq(SentFrame) /\ toPeer \in [Peers -> Seq(SentFrame)]
  BY DEF Base, TypeOK, OutTypeOK
<1>5. /\ toPeer'[c] = Append(toPeer[c], f)
      /\ Len(toPeer'[c]) = Len(toPeer[c]) + 1 /\ Len(toPeer[c]) \in Nat
      /\ toPeer'[c][Len(toPeer[c]) + 1] = f
      /\ \A a \in 1 .. Len(toPeer[c]) : toPeer'[c][a] = toPeer[c][a]
  BY <1>1, <1>4
<1>6. QueueOf(c)'
  BY <1>1, <1>2, DropsQueue DEF PeerInv
<1>7. \A a \in 1 .. Len(toPeer[c]) :
        /\ toPeer[c][a].text.request \in 1 .. Len(written)
        /\ toPeer[c][a].text.request < r
  BY <1>2 DEF PeerInv, AnsweredOf
<1>8. \A k \in 1 .. Len(toServer'[c]) : r < toServer'[c][k]
  BY <1>2, <1>3 DEF PeerInv, QueueOf
<1>9. AnsweredOf(c)'
  <2>1. ASSUME NEW a \in 1 .. Len(toPeer'[c])
        PROVE  /\ toPeer'[c][a].text.request \in 1 .. Len(written')
               /\ \A k \in 1 .. Len(toServer'[c]) :
                    toPeer'[c][a].text.request < toServer'[c][k]
    <3>1. CASE a = Len(toPeer[c]) + 1
      BY <1>1, <1>2, <1>5, <1>8, <3>1
    <3>2. CASE a \in 1 .. Len(toPeer[c])
      BY <1>1, <1>3, <1>5, <3>2 DEF PeerInv, AnsweredOf
    <3>. QED
      BY <1>5, <3>1, <3>2
  <2>. QED
    BY <2>1 DEF AnsweredOf
<1>10. OwnOf(c)'
  <2>1. ASSUME NEW k \in 1 .. Len(toPeer'[c])
        PROVE  /\ written'[toPeer'[c][k].text.request].peer = c
               /\ \A m \in 1 .. k - 1 : toPeer'[c][m].text.request
                                          < toPeer'[c][k].text.request
               /\ toPeer'[c][k].type
                    \in AnswerTypes(written'[toPeer'[c][k].text.request].type)
    <3>1. CASE k = Len(toPeer[c]) + 1
      <4>1. written[r].peer = c
        BY <1>2 DEF PeerInv, QueueOf
      <4>. QED
        BY <1>1, <1>5, <1>7, <3>1, <4>1
    <3>2. CASE k \in 1 .. Len(toPeer[c])
      <4>1. \A m \in 1 .. k - 1 : m \in 1 .. Len(toPeer[c])
        BY <1>5, <3>2
      <4>. QED
        BY <1>1, <1>5, <3>2, <4>1 DEF PeerInv, OwnOf
    <3>. QED
      BY <1>5, <3>1, <3>2
  <2>. QED
    BY <2>1 DEF OwnOf
<1>. QED
  BY <1>6, <1>9, <1>10 DEF PeerInv

LEMMA WriteKeeps ==
  ASSUME Base, \A c \in Peers : PeerInv(c), NEW w \in Peers, WriteMove(w),
         NEW c \in Peers
  PROVE  PeerInv(c)'
<1>1. PICK q \in Request : q.peer = w /\ written' = Append(written, q)
  BY DEF WriteMove
<1>2. written \in Seq(Request) /\ Len(written) \in Nat
  BY DEF Base, TypeOK, NetTypeOK
<1>3. /\ Len(written') = Len(written) + 1 /\ written'[Len(written) + 1] = q
      /\ \A r \in 1 .. Len(written) : written'[r] = written[r]
  BY <1>1, <1>2
<1>4. /\ toServer[c] \in Seq(1 .. MaxRequests) /\ Len(toServer[c]) \in Nat
      /\ toServer \in [Peers -> Seq(1 .. MaxRequests)]
      /\ \A k \in 1 .. Len(toServer[c]) :
           toServer[c][k] \in 1 .. Len(written)
  BY Lengths DEF Base, TypeOK, NetTypeOK
<1>5. \A k \in 1 .. Len(toServer'[c]) :
        \/ k \in 1 .. Len(toServer[c]) /\ toServer'[c][k] = toServer[c][k]
        \/ /\ k = Len(toServer[c]) + 1 /\ toServer'[c][k] = Len(written) + 1
           /\ c = w
  <2>1. CASE c # w
    BY <1>4, <2>1 DEF WriteMove
  <2>2. CASE c = w
    <3>1. toServer'[c] = Append(toServer[c], Len(written) + 1)
      BY <1>4, <2>2 DEF WriteMove
    <3>. QED
      BY <1>4, <2>2, <3>1
  <2>. QED
    BY <2>1, <2>2
<1>6. QueueOf(c)'
  <2>1. \A k \in 1 .. Len(toServer'[c]) : written'[toServer'[c][k]].peer = c
    BY <1>1, <1>3, <1>4, <1>5 DEF PeerInv, QueueOf
  <2>2. ASSUME NEW k \in 1 .. Len(toServer'[c]), NEW m \in 1 .. Len(toServer'[c]),
               k < m
        PROVE  toServer'[c][k] < toServer'[c][m]
    <3>1. /\ k \in 1 .. Len(toServer[c]) /\ toServer'[c][k] = toServer[c][k]
          /\ toServer[c][k] \in 1 .. Len(written)
      BY <1>4, <1>5, <2>2
    <3>2. CASE m \in 1 .. Len(toServer[c]) /\ toServer'[c][m] = toServer[c][m]
      BY <2>2, <3>1, <3>2 DEF PeerInv, QueueOf
    <3>3. CASE toServer'[c][m] = Len(written) + 1
      BY <1>2, <3>1, <3>3
    <3>. QED
      BY <1>5, <3>2, <3>3
  <2>. QED
    BY <2>1, <2>2 DEF QueueOf
<1>7. AnsweredOf(c)'
  <2>1. UNCHANGED toPeer
    BY DEF WriteMove
  <2>2. ASSUME NEW a \in 1 .. Len(toPeer[c])
        PROVE  /\ toPeer[c][a].text.request \in 1 .. Len(written')
               /\ \A k \in 1 .. Len(toServer'[c]) :
                    toPeer[c][a].text.request < toServer'[c][k]
    <3>1. /\ toPeer[c][a].text.request \in 1 .. Len(written)
          /\ \A k \in 1 .. Len(toServer[c]) :
               toPeer[c][a].text.request < toServer[c][k]
      BY DEF PeerInv, AnsweredOf
    <3>2. toPeer[c][a].text.request < Len(written) + 1
      BY <1>2, <3>1
    <3>3. toPeer[c][a].text.request \in 1 .. Len(written')
      BY <1>2, <1>3, <3>1
    <3>. QED
      BY <1>5, <3>1, <3>2, <3>3
  <2>. QED
    BY <2>1, <2>2 DEF AnsweredOf
<1>8. OwnOf(c)'
  <2>1. UNCHANGED toPeer
    BY DEF WriteMove
  <2>. QED
    BY <1>3, <2>1 DEF PeerInv, AnsweredOf, OwnOf
<1>. QED
  BY <1>6, <1>7, <1>8 DEF PeerInv

LEMMA PeersStep ==
  ASSUME Base, \A c \in Peers : PeerInv(c), [Next]_vars
  PROVE  \A c \in Peers : PeerInv(c)'
<1>1. CASE QuietMove
  BY <1>1, DropsKeep DEF QuietMove
<1>2. ASSUME NEW w \in Peers, WriteMove(w) PROVE \A c \in Peers : PeerInv(c)'
  BY <1>2, WriteKeeps
<1>3. ASSUME NEW d \in Peers, NEW n \in 1 .. Len(toServer[d]),
             NEW f \in SentFrame, ServeMove(d, n, f), NEW c \in Peers
      PROVE  PeerInv(c)'
  <2>1. CASE c = d
    BY <1>3, <2>1, ServeKeeps
  <2>2. CASE c # d
    <3>1. /\ UNCHANGED written /\ toServer'[c] = toServer[c]
          /\ toPeer'[c] = toPeer[c]
      BY <1>3, <2>2 DEF ServeMove, Base, TypeOK, OutTypeOK
    <3>2. Drops(c, 0)
      BY <3>1, Lengths DEF Drops
    <3>. QED
      BY <3>1, <3>2, DropsKeep
  <2>. QED
    BY <2>1, <2>2
<1>. QED
  BY <1>1, <1>2, <1>3, StepMoves

LEMMA InitPeers == ASSUME Init, NEW c \in Peers PROVE PeerInv(c)
  BY DEF Init, PeerInv, QueueOf, AnsweredOf, OwnOf

QueueInv == \A c \in Peers : PeerInv(c)

LEMMA Queues == Spec => [](Base /\ QueueInv)
<1>1. Init => QueueInv
  BY InitPeers DEF QueueInv
<1>2. Base /\ QueueInv /\ [Next]_vars => QueueInv'
  BY PeersStep DEF QueueInv
<1>. QED
  BY <1>1, <1>2, Invariance, PTL DEF Spec

(* The tail of a turn sends whatever outgoing holds to whoever has written;*)
(* each peer is sent its own answers all the same, in order, and once.     *)
THEOREM AnswersAlways == Spec => []AnswersAreOwn
<1>1. QueueInv => AnswersAreOwn
  BY DEF QueueInv, PeerInv, OwnOf, AnswersAreOwn, AnswerTypes
<1>. QED
  BY <1>1, Queues, PTL

-----------------------------------------------------------------------------
(***************************************************************************)
(* A success that was told stays true: an account is never changed.        *)
(***************************************************************************)
(* A success the step adds is told with the account as the step leaves it. *)
LEMMA MoveSucceeded ==
  ASSUME Base, QueueInv, [Next]_vars, NEW type, NEW q \in Succeeded(type)'
  PROVE  \/ /\ q \in Succeeded(type)
            /\ written'[q] = written[q]
         \/ \E c \in Peers : \E n \in 1 .. Len(toServer[c]) :
              \E f \in SentFrame :
                /\ ServeMove(c, n, f)
                /\ f.type = type /\ f.text.request = q
<1>1. /\ toPeer \in [Peers -> Seq(SentFrame)]
      /\ written \in Seq(Request) /\ Len(written) \in Nat
  BY DEF Base, TypeOK, OutTypeOK, NetTypeOK
<1>2. PICK d \in Peers : \E k \in 1 .. Len(toPeer'[d]) :
        toPeer'[d][k].type = type /\ toPeer'[d][k].text.request = q
  BY DEF Succeeded
<1>3. PICK k \in 1 .. Len(toPeer'[d]) :
        toPeer'[d][k].type = type /\ toPeer'[d][k].text.request = q
  BY <1>2
<1>4. q \in 1 .. Len(written')
  BY DEF Succeeded
<1>5. CASE QuietMove
  BY <1>3, <1>4, <1>5 DEF QuietMove, Succeeded
<1>6. ASSUME NEW w \in Peers, WriteMove(w)
      PROVE  q \in Succeeded(type) /\ written'[q] = written[q]
  <2>1. toPeer' = toPeer
    BY <1>6 DEF WriteMove
  <2>2. q \in 1 .. Len(written)
    BY <1>3, <2>1 DEF QueueInv, PeerInv, AnsweredOf
  <2>3. PICK x \in Request : written' = Append(written, x)
    BY <1>6 DEF WriteMove
  <2>4. written'[q] = written[q]
    BY <1>1, <2>2, <2>3
  <2>. QED
    BY <1>3, <2>1, <2>2, <2>4 DEF Succeeded
<1>7. ASSUME NEW c \in Peers, NEW n \in 1 .. Len(toServer[c]),
             NEW f \in SentFrame, ServeMove(c, n, f)
      PROVE  \/ q \in Succeeded(type) /\ written'[q] = written[q]
             \/ f.type = type /\ f.text.request = q
  <2>1. toPeer' = [toPeer EXCEPT ![c] = Append(@, f)] /\ written' = written
    BY <1>7 DEF ServeMove
  <2>2. CASE d = c /\ k = Len(toPeer[c]) + 1
    <3>1. toPeer'[d][k] = f
      BY <1>1, <2>1, <2>2
    <3>. QED
      BY <1>3, <3>1
  <2>3. CASE k \in 1 .. Len(toPeer[d])
    <3>1. toPeer'[d][k] = toPeer[d][k]
      BY <1>1, <2>1, <2>3
    <3>. QED
      BY <1>3, <1>4, <2>1, <2>3, <3>1 DEF Succeeded
  <2>4. \/ d = c /\ k = Len(toPeer[c]) + 1
        \/ k \in 1 .. Len(toPeer[d])
    BY <1>1, <2>1
  <2>. QED
    BY <2>2, <2>3, <2>4
<1>. QED
  BY <1>5, <1>6, <1>7, StepMoves

LEMMA MoveKeeps == ASSUME Base, [Next]_vars PROVE AccountsKept
  BY StepMoves DEF QuietMove, ServeMove, WriteMove, AccountsKept

ToldTypes == {"G_CREATE_ACCOUNT_SUCCESS", "G_AUTHENTICATE_SUCCESS"}

(* What a told success says of the account it is about.                    *)
Borne(r) ==
  accounts[written[r].email] = written[r].password

LEMMA SuccessIsBorne ==
  ASSUME Base, QueueInv, SuccessIsTrue, [Next]_vars,
         NEW type \in ToldTypes, NEW q \in Succeeded(type)'
  PROVE  Borne(q)'
<1>1. ASSUME q \in Succeeded(type), written'[q] = written[q] PROVE Borne(q)'
  <2>1. q \in 1 .. Len(written)
    BY <1>1 DEF Succeeded
  <2>2. written[q].email \in Emails /\ written[q].password \in Passwords
    BY <2>1, RequestParts DEF Base
  <2>3. accounts[written[q].email] = written[q].password
    BY <1>1 DEF SuccessIsTrue, ToldTypes
  <2>. QED
    BY <1>1, <2>2, <2>3, MoveKeeps, AccountsAssumption DEF AccountsKept, Borne
<1>2. ASSUME NEW c \in Peers, NEW n \in 1 .. Len(toServer[c]),
             NEW f \in SentFrame, ServeMove(c, n, f),
             f.type = type, f.text.request = q
      PROVE  Borne(q)'
  BY <1>2 DEF ServeMove, ToldTypes, Borne
<1>. QED
  BY <1>1, <1>2, MoveSucceeded

LEMMA CreatedOnce ==
  ASSUME Base, QueueInv, SuccessIsTrue, [Next]_vars,
         NEW q \in Succeeded("G_CREATE_ACCOUNT_SUCCESS")',
         NEW r \in Succeeded("G_CREATE_ACCOUNT_SUCCESS")',
         written'[q].email = written'[r].email
  PROVE  q = r
<1>. DEFINE T == "G_CREATE_ACCOUNT_SUCCESS"
(* An address whose account was told to be created has one.                *)
<1>1. ASSUME NEW x \in Succeeded(T)
      PROVE  accounts[written[x].email] # NULL
  <2>1. x \in 1 .. Len(written)
    BY <1>1 DEF Succeeded
  <2>. QED
    BY <1>1, <2>1, RequestParts, AccountsAssumption DEF SuccessIsTrue, Base
<1>2. ASSUME NEW x \in Succeeded(T)'
      PROVE  \/ x \in Succeeded(T) /\ written'[x] = written[x]
             \/ \E c \in Peers : \E n \in 1 .. Len(toServer[c]) :
                  \E f \in SentFrame :
                    /\ ServeMove(c, n, f) /\ f.type = T /\ f.text.request = x
  BY <1>2, MoveSucceeded
<1>3. ASSUME NEW x \in Succeeded(T)', NEW y \in Succeeded(T)',
             x \in Succeeded(T), written'[x] = written[x],
             written'[x].email = written'[y].email,
             NEW c \in Peers, NEW n \in 1 .. Len(toServer[c]),
             NEW f \in SentFrame, ServeMove(c, n, f),
             f.type = T, f.text.request = y
      PROVE  FALSE
  <2>1. accounts[written[y].email] = NULL /\ written' = written
    BY <1>3 DEF ServeMove
  <2>. QED
    BY <1>1, <1>3, <2>1
<1>4. CASE /\ q \in Succeeded(T) /\ written'[q] = written[q]
           /\ r \in Succeeded(T) /\ written'[r] = written[r]
  BY <1>4 DEF SuccessIsTrue
<1>5. ASSUME NEW c \in Peers, NEW n \in 1 .. Len(toServer[c]),
             NEW f \in SentFrame, ServeMove(c, n, f), f.text.request = q,
             NEW d \in Peers, NEW m \in 1 .. Len(toServer[d]),
             NEW g \in SentFrame, ServeMove(d, m, g), g.text.request = r
      PROVE  q = r
  <2>1. /\ toPeer \in [Peers -> Seq(SentFrame)]
        /\ toPeer' = [toPeer EXCEPT ![c] = Append(@, f)]
        /\ toPeer' = [toPeer EXCEPT ![d] = Append(@, g)]
    BY <1>5 DEF ServeMove, Base, TypeOK, OutTypeOK
  <2>2. Len(toPeer'[c]) = Len(toPeer[c]) + 1 /\ toPeer'[c][Len(toPeer[c]) + 1] = f
    BY <2>1
  <2>3. c = d
    BY <2>1, <2>2
  <2>4. toPeer'[c][Len(toPeer[c]) + 1] = g
    BY <2>1, <2>3
  <2>. QED
    BY <1>5, <2>2, <2>4
<1>. QED
  BY <1>2, <1>3, <1>4, <1>5

(* A second execution may create an account nobody is told of, and a       *)
(* failed statement may be reported of an account that is there; a success *)
(* is never told that the table does not bear out, nor twice of an address.*)
THEOREM SuccessAlways == Spec => []SuccessIsTrue
<1>1. Init => SuccessIsTrue
  BY DEF Init, SuccessIsTrue, Succeeded
<1>2. ASSUME Base, QueueInv, SuccessIsTrue, [Next]_vars PROVE SuccessIsTrue'
  BY <1>2, SuccessIsBorne, CreatedOnce DEF SuccessIsTrue, ToldTypes, Borne
<1>. QED
  BY <1>1, <1>2, Queues, PTL DEF Spec

-----------------------------------------------------------------------------
(***************************************************************************)
(* Without a database: every word of the blank buffer costs a request.     *)
(***************************************************************************)
(* The requests that no longer wait.                                       *)
Taken ==
  {r \in 1 .. Len(written) :
     \A c \in Peers : \A k \in 1 .. Len(toServer[c]) : toServer[c][k] # r}

BlankReadInv == ~connected => outgoing.reads <= Cardinality(Taken)
Unused == ~connected => \A c \in Peers : toPeer[c] = <<>>
CrashInv == fault = "bad_payload" => ~connected /\ Len(written) > BlankWords

LEMMA CountTo ==
  ASSUME NEW n \in Nat
  PROVE  IsFiniteSet(1 .. n) /\ Cardinality(1 .. n) = n
<1>1. 1 \in Int /\ n \in Int
  OBVIOUS
<1>2. /\ IsFiniteSet(1 .. n)
      /\ Cardinality(1 .. n) = IF 1 > n THEN 0 ELSE n - 1 + 1
  BY <1>1, FS_Interval, Zenon
<1>3. (IF 1 > n THEN 0 ELSE n - 1 + 1) = n
  OBVIOUS
<1>. QED
  BY <1>2, <1>3

LEMMA TakenFinite ==
  ASSUME Len(written) \in Nat
  PROVE  /\ IsFiniteSet(Taken) /\ Cardinality(Taken) \in Nat
         /\ IsFiniteSet(1 .. Len(written))
         /\ Cardinality(1 .. Len(written)) = Len(written)
<1>1. /\ IsFiniteSet(1 .. Len(written))
      /\ Cardinality(1 .. Len(written)) = Len(written)
  BY CountTo, Zenon
<1>2. Taken \in SUBSET (1 .. Len(written))
  BY DEF Taken
<1>. QED
  BY <1>1, <1>2, FS_Subset, FS_CardinalityType

LEMMA CountGrows ==
  ASSUME NEW S, NEW T, IsFiniteSet(T), S \subseteq T, NEW x, x \in T, x \notin S
  PROVE  /\ Cardinality(S) \in Nat /\ Cardinality(T) \in Nat
         /\ Cardinality(S) + 1 <= Cardinality(T)
<1>1. IsFiniteSet(S) /\ Cardinality(S) \in Nat /\ Cardinality(T) \in Nat
  BY FS_Subset, FS_CardinalityType
<1>2. Cardinality(S \cup {x}) = Cardinality(S) + 1
  BY <1>1, FS_AddElement
<1>3. S \cup {x} \in SUBSET T
  OBVIOUS
<1>4. Cardinality(S \cup {x}) <= Cardinality(T)
  BY <1>3, FS_Subset
<1>. QED
  BY <1>1, <1>2, <1>4

(* A step takes requests and writes new ones; none comes back.             *)
LEMMA TakenStays ==
  ASSUME Base, [Next]_vars
  PROVE  Taken \subseteq Taken' /\ Len(written) <= Len(written')
<1>. SUFFICES ASSUME NEW r \in Taken, NEW c \in Peers
              PROVE  /\ r \in 1 .. Len(written')
                     /\ \A k \in 1 .. Len(toServer'[c]) : toServer'[c][k] # r
                     /\ Len(written) <= Len(written')
  <2>1. Len(written) <= Len(written')
    <3>1. Len(written) \in Nat /\ written \in Seq(Request)
      BY DEF Base, TypeOK, NetTypeOK
    <3>. QED
      BY <3>1, StepMoves DEF QuietMove, ServeMove, WriteMove
  <2>2. Len(written) \in Nat /\ Len(written') \in Nat
    BY NextBase DEF Base, TypeOK, NetTypeOK
  <2>. QED
    BY <2>1, <2>2 DEF Taken
<1>1. /\ written \in Seq(Request) /\ Len(written) \in Nat
      /\ r \in 1 .. Len(written)
      /\ \A k \in 1 .. Len(toServer[c]) : toServer[c][k] # r
      /\ toServer \in [Peers -> Seq(1 .. MaxRequests)]
  BY DEF Base, TypeOK, NetTypeOK, Taken
<1>2. ASSUME NEW n \in Nat, Drops(c, n), UNCHANGED written
      PROVE  /\ r \in 1 .. Len(written') /\ Len(written) <= Len(written')
             /\ \A k \in 1 .. Len(toServer'[c]) : toServer'[c][k] # r
  <2>1. \A k \in 1 .. Len(toServer'[c]) :
          k + n \in 1 .. Len(toServer[c]) /\ toServer'[c][k] = toServer[c][k + n]
    BY <1>2, DropsParts
  <2>2. \A k \in 1 .. Len(toServer'[c]) : toServer'[c][k] # r
    BY <1>1, <2>1
  <2>3. written' = written
    BY <1>2
  <2>. QED
    BY <1>1, <2>2, <2>3
<1>3. CASE QuietMove
  BY <1>2, <1>3 DEF QuietMove
<1>4. ASSUME NEW d \in Peers, NEW n \in 1 .. Len(toServer[d]),
             NEW f \in SentFrame, ServeMove(d, n, f)
      PROVE  /\ r \in 1 .. Len(written') /\ Len(written) <= Len(written')
             /\ \A k \in 1 .. Len(toServer'[c]) : toServer'[c][k] # r
  <2>1. CASE c = d
    BY <1>2, <1>4, <2>1, Lengths DEF ServeMove
  <2>2. CASE c # d
    BY <1>1, <1>4, <2>2 DEF ServeMove
  <2>. QED
    BY <2>1, <2>2
<1>5. ASSUME NEW w \in Peers, WriteMove(w)
      PROVE  /\ r \in 1 .. Len(written') /\ Len(written) <= Len(written')
             /\ \A k \in 1 .. Len(toServer'[c]) : toServer'[c][k] # r
  <2>1. Len(written') = Len(written) + 1
    BY <1>1, <1>5 DEF WriteMove
  <2>2. \/ toServer'[c] = toServer[c]
        \/ toServer'[c] = Append(toServer[c], Len(written) + 1)
    BY <1>1, <1>5 DEF WriteMove
  <2>3. ASSUME toServer'[c] = Append(toServer[c], Len(written) + 1),
               NEW k \in 1 .. Len(toServer'[c])
        PROVE  toServer'[c][k] # r
    <3>1. \/ k \in 1 .. Len(toServer[c]) /\ toServer'[c][k] = toServer[c][k]
          \/ toServer'[c][k] = Len(written) + 1
      BY <1>1, <2>3
    <3>. QED
      BY <1>1, <3>1
  <2>. QED
    BY <1>1, <2>1, <2>2, <2>3
<1>. QED
  BY <1>3, <1>4, <1>5, StepMoves

(* The request at the head of a queue waits in no other.                   *)
LEMMA HeadIsTaken ==
  ASSUME Base, QueueInv, NEW c \in Peers, NEW n \in 1 .. Len(toServer[c]),
         Consume(c, n)
  PROVE  /\ toServer[c][1] \in Taken' /\ toServer[c][1] \notin Taken
         /\ toServer[c][1] \in 1 .. Len(written)
<1>. DEFINE r == toServer[c][1]
<1>1. /\ r \in 1 .. Len(written) /\ 1 \in 1 .. Len(toServer[c])
      /\ n \in Nat /\ n >= 1 /\ written[r].peer = c
  BY Lengths DEF QueueInv, PeerInv, QueueOf
<1>2. r \notin Taken
  BY <1>1 DEF Taken
<1>3. ASSUME NEW d \in Peers, NEW k \in 1 .. Len(toServer'[d])
      PROVE  toServer'[d][k] # r
  <2>1. CASE d = c
    <3>1. /\ k + n \in 1 .. Len(toServer[c]) /\ 1 < k + n
          /\ toServer'[c][k] = toServer[c][k + n]
      BY <1>1, <1>3, <2>1, TakenDrops, DropsParts
    <3>2. r < toServer[c][k + n] /\ toServer[c][k + n] \in Nat /\ r \in Nat
      BY <1>1, <3>1, Lengths DEF QueueInv, PeerInv, QueueOf
    <3>. QED
      BY <2>1, <3>1, <3>2
  <2>2. CASE d # c
    BY <1>1, <1>3, <2>2, TakenDrops DEF QueueInv, PeerInv, QueueOf
  <2>. QED
    BY <2>1, <2>2
<1>4. UNCHANGED written
  BY DEF Consume
<1>. QED
  BY <1>1, <1>2, <1>3, <1>4 DEF Taken

(* What a step does to outgoing and to the process when there is no        *)
(* database.                                                               *)
LEMMA BlankMoves ==
  ASSUME Base, [Next]_vars, ~connected
  PROVE  /\ UNCHANGED <<connected, toPeer>>
         /\ \/ UNCHANGED outgoing
            \/ \E j \in Due : \E n \in 1 .. Len(toServer[ClientArray[j]]) : Ignore(j, n)
         /\ \/ fault' = "bad_payload" => fault = "bad_payload"
            \/ \E j \in Due : \E n \in 1 .. Len(toServer[ClientArray[j]]) :
                 IgnoreCrash(j, n)
<1>1. CASE Select \/ AcceptClient \/ AcceptOverflow \/ AcceptFails \/ EndScan
             \/ UNCHANGED vars \/ PeerStep
  BY <1>1 DEF Select, AcceptClient, AcceptOverflow, AcceptFails, EndScan, Stop,
    PeerStep, vars, outVars, dbVars, loopVars
<1>2. ASSUME NEW j \in Due, NEW n \in 1 .. Len(toServer[ClientArray[j]]),
             Ignore(j, n)
      PROVE  UNCHANGED <<connected, toPeer>> /\ UNCHANGED fault
  BY <1>2 DEF Ignore, Turn, SendAnswer, dbVars, Base, BlankInv
<1>3. ASSUME NEW j \in Due, NEW n \in 1 .. Len(toServer[ClientArray[j]]),
             IgnoreCrash(j, n)
      PROVE  UNCHANGED <<connected, toPeer, outgoing>>
  BY <1>3 DEF IgnoreCrash, dbVars, outVars
<1>4. ASSUME NEW j \in Due, RecvNothing(j) \/ ReparseNothing(j)
      PROVE  UNCHANGED <<connected, toPeer, outgoing, fault>>
  BY <1>4 DEF RecvNothing, ReparseNothing, Turn, outVars, dbVars
<1>5. /\ \A j \in Due : ~Reparse(j) /\ ~ReparseThrow(j)
      /\ \A j \in Due : \A n \in 1 .. Len(toServer[ClientArray[j]]) :
           ~Serve(j, n) /\ ~Throw(j, n)
  BY DEF Reparse, ReparseThrow, Serve, Throw
<1>. QED
  BY <1>1, <1>2, <1>3, <1>4, <1>5 DEF Next, Server

LEMMA BlankReadStep ==
  ASSUME Base, QueueInv, BlankReadInv, [Next]_vars, ~connected
  PROVE  outgoing'.reads <= Cardinality(Taken')
<1>1. /\ Len(written) \in Nat /\ Len(written') \in Nat
      /\ outgoing \in OutBuffer /\ outgoing.reads \in Nat
  BY NextBase, WordsOfBuffer DEF Base, TypeOK, NetTypeOK, OutTypeOK, OutBuffer
<1>2. /\ IsFiniteSet(Taken) /\ Cardinality(Taken) \in Nat
      /\ IsFiniteSet(Taken') /\ Cardinality(Taken') \in Nat
  <2>1. IsFiniteSet(Taken') /\ Cardinality(Taken') \in Nat
    <3>1. Taken' \in SUBSET (1 .. Len(written'))
      BY DEF Taken
    <3>2. IsFiniteSet(1 .. Len(written'))
      BY <1>1, CountTo, Zenon
    <3>3. IsFiniteSet(Taken')
      BY <3>1, <3>2, FS_Subset
    <3>. QED
      BY <3>3, FS_CardinalityType
  <2>. QED
    BY <1>1, <2>1, TakenFinite
<1>3. CASE UNCHANGED outgoing
  <2>1. Cardinality(Taken) <= Cardinality(Taken')
    BY <1>2, TakenStays, FS_Subset
  <2>. QED
    BY <1>1, <1>2, <1>3, <2>1 DEF BlankReadInv
<1>4. ASSUME NEW j \in Due, NEW n \in 1 .. Len(toServer[ClientArray[j]]),
             Ignore(j, n)
      PROVE  outgoing'.reads <= Cardinality(Taken')
  <2>. DEFINE r == toServer[ClientArray[j]][1]
  <2>1. r \in Taken' /\ r \notin Taken
    BY <1>4, DueSlots, HeadIsTaken DEF Ignore
  <2>2. Cardinality(Taken) + 1 <= Cardinality(Taken')
    BY <1>2, <2>1, TakenStays, CountGrows
  <2>3. outgoing' = AfterPayload(outgoing)
    BY <1>4 DEF Ignore, SendAnswer
  <2>4. outgoing'.reads \in {outgoing.reads, outgoing.reads + 1}
    BY <1>1, <2>3 DEF AfterPayload, OutBuffer
  <2>. QED
    BY <1>1, <1>2, <2>2, <2>4 DEF BlankReadInv
<1>. QED
  BY <1>3, <1>4, BlankMoves

LEMMA CrashStep ==
  ASSUME Base, QueueInv, BlankReadInv, CrashInv, [Next]_vars
  PROVE  CrashInv'
<1>1. /\ Len(written) \in Nat /\ Len(written') \in Nat /\ BlankWords \in Nat
      /\ outgoing.reads \in Nat
  BY NextBase, WordsOfBuffer DEF Base, TypeOK, NetTypeOK, OutTypeOK, OutBuffer
<1>2. Len(written) <= Len(written')
  BY TakenStays
<1>3. CASE connected
  <2>1. fault # "bad_payload"
    BY <1>3 DEF CrashInv
  <2>2. fault' # "bad_payload"
    BY <1>3, <2>1 DEF Next, Server, Select, AcceptClient, AcceptOverflow,
      AcceptFails, Stop, Serve, Ignore, IgnoreCrash, Throw, RecvNothing, Reparse,
      ReparseThrow, ReparseNothing, EndScan, EndIn, Turn, PeerStep, vars, loopVars
  <2>. QED
    BY <2>2 DEF CrashInv
<1>4. CASE ~connected
  <2>1. ~connected'
    BY <1>4, BlankMoves
  <2>2. CASE fault' = "bad_payload" => fault = "bad_payload"
    BY <1>1, <1>2, <2>1, <2>2 DEF CrashInv
  <2>3. ASSUME NEW j \in Due, NEW n \in 1 .. Len(toServer[ClientArray[j]]),
               IgnoreCrash(j, n)
        PROVE  Len(written) > BlankWords
    <3>. DEFINE r == toServer[ClientArray[j]][1]
    <3>1. r \notin Taken /\ r \in 1 .. Len(written)
      BY <2>3, DueSlots, HeadIsTaken DEF IgnoreCrash
    <3>2. outgoing.reads >= BlankWords
      BY <1>4, <2>3 DEF IgnoreCrash, PayloadMayFail, SafeReads, Base, BlankInv
    <3>3. Cardinality(Taken) >= BlankWords /\ Cardinality(Taken) \in Nat
      BY <1>1, <1>4, <3>2, TakenFinite DEF BlankReadInv
    <3>4. Taken \subseteq 1 .. Len(written)
      BY DEF Taken
    <3>5. Cardinality(Taken) + 1 <= Len(written)
      BY <1>1, <3>1, <3>4, CountGrows, TakenFinite
    <3>. QED
      BY <1>1, <3>3, <3>5
  <2>. QED
    BY <1>1, <1>2, <1>4, <2>1, <2>2, <2>3, BlankMoves DEF CrashInv
<1>. QED
  BY <1>3, <1>4

(* The blank outgoing is read again at every request (auth_server_main.cpp *)
(* :414); the server sends nothing of it, and cannot be ended by it before *)
(* it has taken more requests than the buffer has words.                   *)
THEOREM BlankAlways == Spec => []BlankIsHarmlessAtFirst
<1>. DEFINE Inv == BlankReadInv /\ Unused /\ CrashInv
<1>1. Init => Inv
  <2>. SUFFICES ASSUME Init PROVE Inv
    OBVIOUS
  <2>1. Len(written) \in Nat /\ outgoing.reads = 0
    BY DEF Init, BlankBuffer, MakeProtocol
  <2>2. Cardinality(Taken) \in Nat
    BY <2>1, TakenFinite
  <2>. QED
    BY <2>1, <2>2 DEF Init, BlankReadInv, Unused, CrashInv
<1>2. ASSUME Base, QueueInv, Inv, [Next]_vars PROVE Inv'
  <2>1. connected' = connected
    BY <1>2 DEF Next, Server, Select, AcceptClient, AcceptOverflow,
      AcceptFails, Serve, Ignore, IgnoreCrash, Throw, RecvNothing, Reparse,
      ReparseThrow, ReparseNothing, EndScan, PeerStep, vars, dbVars
  <2>2. BlankReadInv'
    BY <1>2, <2>1, BlankReadStep DEF BlankReadInv
  <2>3. Unused'
    BY <1>2, <2>1, BlankMoves DEF Unused
  <2>. QED
    BY <1>2, <2>2, <2>3, CrashStep
<1>3. Inv => BlankIsHarmlessAtFirst
  BY DEF Unused, CrashInv, BlankIsHarmlessAtFirst
<1>. HIDE DEF Inv
<1>. QED
  BY <1>1, <1>2, <1>3, Queues, PTL DEF Spec

-----------------------------------------------------------------------------
(***************************************************************************)
(* The server implements AuthService, for each of its connections.         *)
(***************************************************************************)
(* A request as AuthService sees it, and an answer.                        *)
Wanted(r) == [type |-> written[r].type, requestid |-> r]
Reply(f) == [type |-> f.type, requestid |-> f.text.request,
             returnCode |-> f.text.returnCode]

LEMMA ResultPromised ==
  ASSUME Base, NEW r \in 1 .. Len(written), NEW result \in Results(r)
  PROVE  [type |-> result.type, requestid |-> r, returnCode |-> result.returnCode]
           \in Service!Answers(Wanted(r))
<1>1. written[r].type \in RequestTypes
  BY RequestParts DEF Base
<1>2. CASE written[r].type = "G_CREATE_ACCOUNT"
  <2>1. result \in CreateAccount(r)
    BY <1>2 DEF Results
  <2>2. \/ result.type = "G_CREATE_ACCOUNT_SUCCESS" /\ result.returnCode = 0
        \/ result.type = "G_CREATE_ACCOUNT_FAILURE" /\ result.returnCode \in 0 .. 1
    BY <2>1 DEF CreateAccount, Result
  <2>3. Wanted(r).type = "G_CREATE_ACCOUNT" /\ Wanted(r).requestid = r
    BY <1>2 DEF Wanted
  <2>. QED
    BY <2>2, <2>3 DEF Service!Answers
<1>3. CASE written[r].type = "G_AUTHENTICATE"
  <2>1. result \in LoginUser(r)
    BY <1>3 DEF Results
  <2>2. \/ result.type = "G_AUTHENTICATE_SUCCESS" /\ result.returnCode = 0
        \/ result.type = "G_AUTHENTICATE_FAILURE" /\ result.returnCode \in 0 .. 2
    BY <2>1 DEF LoginUser, Result
  <2>3. Wanted(r).type = "G_AUTHENTICATE" /\ Wanted(r).requestid = r
    BY <1>3 DEF Wanted
  <2>. QED
    BY <2>2, <2>3 DEF Service!Answers
<1>. QED
  BY <1>1, <1>2, <1>3 DEF RequestTypes

(* The two sequences, element by element.                                  *)
AskedParts ==
  \A c \in Peers :
    /\ AskedOf(c) \in Seq([type : RequestTypes, requestid : 1 .. MaxRequests])
    /\ Len(AskedOf(c)) = IF Alive(c) THEN Len(toServer[c]) ELSE 0
    /\ \A k \in 1 .. Len(AskedOf(c)) : AskedOf(c)[k] = Wanted(toServer[c][k])

ToldParts ==
  \A c \in Peers :
    /\ Len(ToldOf(c)) = Len(toPeer[c])
    /\ \A k \in 1 .. Len(toPeer[c]) : ToldOf(c)[k] = Reply(toPeer[c][k])
    /\ ToldOf(c) \in Seq({Reply(f) : f \in SentFrame})

LEMMA AskedIsSeq == Base => AskedParts
<1>. SUFFICES ASSUME Base, NEW c \in Peers
              PROVE  /\ AskedOf(c)
                          \in Seq([type : RequestTypes, requestid : 1 .. MaxRequests])
                     /\ Len(AskedOf(c)) = IF Alive(c) THEN Len(toServer[c]) ELSE 0
                     /\ \A k \in 1 .. Len(AskedOf(c)) :
                          AskedOf(c)[k] = Wanted(toServer[c][k])
  BY DEF AskedParts
<1>. DEFINE n == IF Alive(c) THEN Len(toServer[c]) ELSE 0
<1>1. n \in Nat /\ n <= Len(toServer[c])
  BY Lengths
<1>2. ASSUME NEW k \in 1 .. n
      PROVE  Wanted(toServer[c][k]) \in [type : RequestTypes, requestid : 1 .. MaxRequests]
  <2>1. /\ toServer[c][k] \in 1 .. Len(written)
        /\ toServer[c][k] \in 1 .. MaxRequests
    BY <1>1, <1>2, Lengths, SizeAssumption DEF Base, TypeOK, NetTypeOK
  <2>2. written[toServer[c][k]].type \in RequestTypes
    BY <2>1, RequestParts DEF Base
  <2>. QED
    BY <2>1, <2>2 DEF Wanted
<1>3. AskedOf(c) = [k \in 1 .. n |-> Wanted(toServer[c][k])]
  BY DEF AskedOf, Wanted
<1>. HIDE DEF n
<1>4. Len(AskedOf(c)) = n
  BY <1>1, <1>3
<1>5. AskedOf(c) \in Seq([type : RequestTypes, requestid : 1 .. MaxRequests])
  BY <1>1, <1>2, <1>3
<1>6. \A k \in 1 .. Len(AskedOf(c)) : AskedOf(c)[k] = Wanted(toServer[c][k])
  BY <1>3, <1>4
<1>. QED
  BY <1>4, <1>5, <1>6 DEF n

LEMMA ToldIsSeq == Base => ToldParts
<1>. SUFFICES ASSUME Base, NEW c \in Peers
              PROVE  /\ Len(ToldOf(c)) = Len(toPeer[c])
                     /\ \A k \in 1 .. Len(toPeer[c]) :
                          ToldOf(c)[k] = Reply(toPeer[c][k])
                     /\ ToldOf(c) \in Seq({Reply(f) : f \in SentFrame})
  BY DEF ToldParts
<1>1. toPeer[c] \in Seq(SentFrame) /\ Len(toPeer[c]) \in Nat
  BY DEF Base, TypeOK, OutTypeOK
<1>2. ToldOf(c) = [k \in 1 .. Len(toPeer[c]) |-> Reply(toPeer[c][k])]
  BY DEF ToldOf, Reply
<1>3. \A k \in 1 .. Len(toPeer[c]) : Reply(toPeer[c][k]) \in {Reply(f) : f \in SentFrame}
  BY <1>1
<1>. QED
  BY <1>1, <1>2, <1>3

-----------------------------------------------------------------------------
(* A step that changes no connection, as AuthService sees it.              *)
LEMMA SameAsked ==
  ASSUME Base, Base', NEW c \in Peers, Alive(c)' = Alive(c),
         Alive(c) => toServer'[c] = toServer[c],
         \A r \in 1 .. Len(written) : written'[r] = written[r]
  PROVE  AskedOf(c)' = AskedOf(c)
<1>1. CASE Alive(c)
  <2>1. \A k \in 1 .. Len(toServer[c]) :
          written'[toServer[c][k]] = written[toServer[c][k]]
    BY Lengths
  <2>. QED
    BY <1>1, <2>1 DEF AskedOf
<1>2. CASE ~Alive(c)
  <2>1. \A k : k \notin 1 .. 0
    OBVIOUS
  <2>. QED
    BY <1>2, <2>1 DEF AskedOf
<1>. QED
  BY <1>1, <1>2

LEMMA SameTold == ASSUME UNCHANGED toPeer PROVE Told' = Told
  BY DEF Told, ToldOf

LEMMA StutterStep ==
  ASSUME Base, Base', UNCHANGED toPeer,
         \A c \in Peers : /\ Alive(c)' = Alive(c)
                          /\ Alive(c) => toServer'[c] = toServer[c],
         \A r \in 1 .. Len(written) : written'[r] = written[r]
  PROVE  UNCHANGED Service!vars
<1>1. \A c \in Peers : AskedOf(c)' = AskedOf(c)
  BY SameAsked
<1>2. Asked' = Asked /\ Up' = Up
  BY <1>1 DEF Asked, Up
<1>. QED
  BY <1>2, SameTold DEF Service!vars

(* Connections that end; those that stay are left alone.                   *)
LEMMA CloseStep ==
  ASSUME Base, Base', NEW S \in SUBSET Peers, UNCHANGED <<toPeer, written>>,
         \A c \in S : ~Alive(c)',
         \A c \in Peers \ S : Alive(c)' = Alive(c) /\ toServer'[c] = toServer[c]
  PROVE  Service!Next
<1>1. ASSUME NEW c \in Peers \ S PROVE AskedOf(c)' = AskedOf(c)
  BY SameAsked
<1>2. ASSUME NEW c \in S PROVE AskedOf(c)' = <<>>
  BY DEF AskedOf
<1>3. Asked' = [c \in Peers |-> IF c \in S THEN <<>> ELSE Asked[c]]
  BY <1>1, <1>2 DEF Asked
<1>4. Up' = [c \in Peers |-> Up[c] /\ c \notin S]
  <2>1. ASSUME NEW c \in Peers PROVE Alive(c)' = (Alive(c) /\ c \notin S)
    <3>1. Alive(c) \in BOOLEAN /\ Alive(c)' \in BOOLEAN
      BY DEF Alive
    <3>. QED
      BY <3>1
  <2>2. \A c \in Peers : Up[c] = Alive(c)
    BY DEF Up
  <2>. QED
    BY <2>1, <2>2, Zenon DEF Up
<1>5. Service!Close(S)
  BY <1>3, <1>4, SameTold DEF Service!Close
<1>. QED
  BY <1>5 DEF Service!Next

-----------------------------------------------------------------------------
(* A request is written.                                                   *)
LEMMA WriteStep ==
  ASSUME Base, Base', PeerStep, NEW w \in Peers, Write(w)
  PROVE  Service!Next \/ UNCHANGED Service!vars
<1>1. /\ UNCHANGED <<toPeer, conn, fault>>
      /\ written \in Seq(Request) /\ Len(written) \in Nat
      /\ toServer \in [Peers -> Seq(1 .. MaxRequests)]
      /\ toServer' = [toServer EXCEPT ![w] = Append(@, Len(written) + 1)]
      /\ Len(written) < MaxRequests
  BY DEF PeerStep, Write, Base, TypeOK, NetTypeOK, outVars, loopVars
<1>2. \A c \in Peers : Alive(c)' = Alive(c)
  BY <1>1 DEF Alive
<1>3. PICK q \in Request : written' = Append(written, q)
  <2>1. PICK type \in RequestTypes, e \in Emails, p \in Passwords :
          written' = Append(written, [type |-> type, email |-> e,
                                      password |-> p, peer |-> w])
    BY DEF Write
  <2>2. [type |-> type, email |-> e, password |-> p, peer |-> w] \in Request
    BY DEF Request
  <2>. QED
    BY <2>1, <2>2
<1>4. /\ \A r \in 1 .. Len(written) : written'[r] = written[r]
      /\ Len(written') = Len(written) + 1
      /\ Len(written) + 1 \in 1 .. Len(written')
      /\ Len(written) + 1 \in 1 .. MaxRequests
  BY <1>1, <1>3, SizeAssumption
<1>5. ASSUME NEW c \in Peers, c # w PROVE AskedOf(c)' = AskedOf(c)
  <2>1. toServer'[c] = toServer[c]
    BY <1>1, <1>5
  <2>. QED
    BY <1>2, <1>4, <2>1, SameAsked
<1>6. CASE ~Alive(w)
  <2>1. \A c \in Peers : AskedOf(c)' = AskedOf(c)
    BY <1>2, <1>4, <1>5, <1>6, SameAsked
  <2>2. Asked' = Asked /\ Up' = Up
    BY <1>2, <2>1 DEF Asked, Up
  <2>. QED
    BY <1>1, <2>2, SameTold DEF Service!vars
<1>7. CASE Alive(w)
  <2>. DEFINE S == [type : RequestTypes, requestid : 1 .. MaxRequests]
              x == [type |-> q.type, requestid |-> Len(written) + 1]
  <2>1. x \in S
    BY <1>4 DEF Request
  <2>2. /\ AskedOf(w) \in Seq(S) /\ AskedOf(w)' \in Seq(S)
        /\ Len(AskedOf(w)) = Len(toServer[w]) /\ Len(toServer[w]) \in Nat
        /\ toServer'[w] = Append(toServer[w], Len(written) + 1)
        /\ Len(toServer'[w]) = Len(toServer[w]) + 1
        /\ Len(AskedOf(w)') = Len(toServer'[w])
        /\ \A k \in 1 .. Len(AskedOf(w)) : AskedOf(w)[k] = Wanted(toServer[w][k])
        /\ \A k \in 1 .. Len(AskedOf(w)') : AskedOf(w)'[k] = Wanted(toServer[w][k])'
    <3>1. /\ AskedOf(w) \in Seq(S)
          /\ Len(AskedOf(w)) = IF Alive(w) THEN Len(toServer[w]) ELSE 0
          /\ \A k \in 1 .. Len(AskedOf(w)) : AskedOf(w)[k] = Wanted(toServer[w][k])
      BY AskedIsSeq DEF AskedParts
    <3>2. /\ AskedOf(w)' \in Seq(S)
          /\ Len(AskedOf(w)') = IF Alive(w)' THEN Len(toServer'[w]) ELSE 0
          /\ \A k \in 1 .. Len(AskedOf(w)') : AskedOf(w)'[k] = Wanted(toServer[w][k])'
      <4>1. AskedParts'
        BY AskedIsSeq, PTL
      <4>. QED
        BY <4>1 DEF AskedParts
    <3>3. /\ toServer'[w] = Append(toServer[w], Len(written) + 1)
          /\ Len(toServer'[w]) = Len(toServer[w]) + 1 /\ Len(toServer[w]) \in Nat
      BY <1>1
    <3>. QED
      BY <1>2, <1>7, <3>1, <3>2, <3>3
  <2>3. \A k \in 1 .. Len(toServer[w]) : AskedOf(w)'[k] = AskedOf(w)[k]
    <3>. SUFFICES ASSUME NEW k \in 1 .. Len(toServer[w])
                  PROVE  AskedOf(w)'[k] = AskedOf(w)[k]
      OBVIOUS
    <3>1. toServer'[w][k] = toServer[w][k] /\ toServer[w][k] \in 1 .. Len(written)
      BY <1>1, <2>2, Lengths
    <3>2. Wanted(toServer[w][k])' = Wanted(toServer[w][k])
      BY <1>4, <3>1 DEF Wanted
    <3>3. k \in 1 .. Len(AskedOf(w)) /\ k \in 1 .. Len(AskedOf(w)')
      BY <2>2
    <3>4. /\ AskedOf(w)[k] = Wanted(toServer[w][k])
          /\ AskedOf(w)'[k] = Wanted(toServer[w][k])'
      BY <2>2, <3>3, Zenon
    <3>. QED
      BY <3>2, <3>4
  <2>4. AskedOf(w)'[Len(toServer[w]) + 1] = x
    <3>. DEFINE k == Len(toServer[w]) + 1
    <3>1. toServer'[w][k] = Len(written) + 1 /\ k \in 1 .. Len(AskedOf(w)')
      BY <1>1, <2>2
    <3>2. written'[Len(written) + 1] = q
      BY <1>1, <1>3
    <3>3. \A m \in 1 .. Len(AskedOf(w)') :
            AskedOf(w)'[m] = [type |-> written'[toServer'[w][m]].type,
                              requestid |-> toServer'[w][m]]
      BY <2>2 DEF Wanted
    <3>. HIDE DEF k
    <3>4. AskedOf(w)'[k] = x
      BY <3>1, <3>2, <3>3
    <3>. QED
      BY <3>4 DEF k
  <2>. HIDE DEF x
  <2>5. AskedOf(w)' = Append(AskedOf(w), x)
    <3>1. Append(AskedOf(w), x) \in Seq(S)
      BY <2>1, <2>2
    <3>2. Len(AskedOf(w)') = Len(Append(AskedOf(w), x))
      BY <2>1, <2>2
    <3>3. \A k \in 1 .. Len(AskedOf(w)') : AskedOf(w)'[k] = Append(AskedOf(w), x)[k]
      BY <2>1, <2>2, <2>3, <2>4
    <3>. QED
      BY <2>2, <3>1, <3>2, <3>3, SeqEqual
  <2>6. Asked' = [Asked EXCEPT ![w] = Append(@, x)]
    BY <1>5, <2>5 DEF Asked
  <2>7. Up[w] /\ Up' = Up /\ Told' = Told
    BY <1>1, <1>2, <1>7, SameTold DEF Up
  <2>8. Service!Ask(w)
    <3>1. \E r \in [type : RequestTypes, requestid : 1 .. MaxRequests] :
            Asked' = [Asked EXCEPT ![w] = Append(@, r)]
      BY <2>1, <2>6
    <3>2. UNCHANGED <<Told, Up>>
      BY <2>7
    <3>. QED
      BY <2>7, <3>1, <3>2 DEF Service!Ask, Service!RequestTypes, RequestTypes
  <2>. QED
    BY <2>8 DEF Service!Next
<1>. QED
  BY <1>6, <1>7

-----------------------------------------------------------------------------
(* Requests are taken, and the first of them is answered, or none.         *)
LEMMA AnswerTold ==
  ASSUME Base, Base', NEW c \in Peers, NEW f \in SentFrame,
         toPeer' = [toPeer EXCEPT ![c] = Append(@, f)]
  PROVE  Told' = [Told EXCEPT ![c] = Append(@, Reply(f))]
<1>. DEFINE S == {Reply(g) : g \in SentFrame}
<1>1. /\ toPeer \in [Peers -> Seq(SentFrame)] /\ toPeer[c] \in Seq(SentFrame)
      /\ toPeer'[c] = Append(toPeer[c], f)
      /\ Len(toPeer'[c]) = Len(toPeer[c]) + 1 /\ Len(toPeer[c]) \in Nat
      /\ toPeer'[c][Len(toPeer[c]) + 1] = f
      /\ \A k \in 1 .. Len(toPeer[c]) : toPeer'[c][k] = toPeer[c][k]
      /\ \A d \in Peers : d # c => toPeer'[d] = toPeer[d]
  BY DEF Base, TypeOK, OutTypeOK
<1>2. /\ Len(ToldOf(c)) = Len(toPeer[c]) /\ ToldOf(c) \in Seq(S)
      /\ \A k \in 1 .. Len(toPeer[c]) : ToldOf(c)[k] = Reply(toPeer[c][k])
  BY ToldIsSeq DEF ToldParts
<1>3. /\ Len(ToldOf(c)') = Len(toPeer'[c]) /\ ToldOf(c)' \in Seq(S)
      /\ \A k \in 1 .. Len(toPeer'[c]) : ToldOf(c)'[k] = Reply(toPeer'[c][k])
  <2>1. ToldParts'
    BY ToldIsSeq, PTL
  <2>. QED
    BY <2>1 DEF ToldParts
<1>4. Reply(f) \in S
  OBVIOUS
<1>. HIDE DEF S
<1>5. ToldOf(c)' = Append(ToldOf(c), Reply(f))
  <2>1. Append(ToldOf(c), Reply(f)) \in Seq(S)
    BY <1>2, <1>4
  <2>2. Len(ToldOf(c)') = Len(Append(ToldOf(c), Reply(f)))
    BY <1>1, <1>2, <1>3, <1>4
  <2>3. \A k \in 1 .. Len(ToldOf(c)') :
          ToldOf(c)'[k] = Append(ToldOf(c), Reply(f))[k]
    BY <1>1, <1>2, <1>3, <1>4
  <2>. QED
    BY <1>3, <2>1, <2>2, <2>3, SeqEqual
<1>6. \A d \in Peers : d # c => ToldOf(d)' = ToldOf(d)
  BY <1>1 DEF ToldOf
<1>. QED
  BY <1>5, <1>6 DEF Told

LEMMA TakeAsked ==
  ASSUME Base, Base', NEW c \in Peers, NEW n \in 1 .. Len(toServer[c]),
         Consume(c, n), Alive(c), UNCHANGED fault
  PROVE  /\ n \in 1 .. Len(Asked[c])
         /\ Asked' = [Asked EXCEPT ![c] = SubSeq(@, n + 1, Len(@))]
         /\ Asked[c][1] = Wanted(toServer[c][1])
         /\ Up' = Up
<1>. DEFINE S == [type : RequestTypes, requestid : 1 .. MaxRequests]
            t == SubSeq(AskedOf(c), n + 1, Len(AskedOf(c)))
<1>1. /\ UNCHANGED <<conn, written>>
      /\ \A d \in Peers : d # c => toServer'[d] = toServer[d]
      /\ Len(toServer'[c]) = Len(toServer[c]) - n
      /\ \A k \in 1 .. Len(toServer'[c]) :
           k + n \in 1 .. Len(toServer[c]) /\ toServer'[c][k] = toServer[c][k + n]
  BY ConsumeBase
<1>2. \A d \in Peers : Alive(d)' = Alive(d)
  BY <1>1 DEF Alive
<1>3. /\ AskedOf(c) \in Seq(S) /\ Len(AskedOf(c)) = Len(toServer[c])
      /\ \A k \in 1 .. Len(AskedOf(c)) : AskedOf(c)[k] = Wanted(toServer[c][k])
      /\ Asked[c] = AskedOf(c)
  BY AskedIsSeq DEF AskedParts, Asked
<1>4. /\ AskedOf(c)' \in Seq(S) /\ Len(AskedOf(c)') = Len(toServer'[c])
      /\ \A k \in 1 .. Len(AskedOf(c)') : AskedOf(c)'[k] = Wanted(toServer[c][k])'
  <2>1. /\ AskedOf(c)' \in Seq(S)
        /\ Len(AskedOf(c)') = IF Alive(c)' THEN Len(toServer'[c]) ELSE 0
        /\ \A k \in 1 .. Len(AskedOf(c)') : AskedOf(c)'[k] = Wanted(toServer[c][k])'
    <3>1. AskedParts'
      BY AskedIsSeq, PTL
    <3>. QED
      BY <3>1 DEF AskedParts
  <2>. QED
    BY <1>2, <2>1
<1>5. n \in Nat /\ n >= 1 /\ Len(toServer[c]) \in Nat /\ n <= Len(toServer[c])
  BY Lengths
<1>6. /\ t \in Seq(S) /\ Len(t) = Len(AskedOf(c)) - n
      /\ \A k \in 1 .. Len(t) : t[k] = AskedOf(c)[k + n]
  BY <1>3, <1>5, SuffixParts
<1>. HIDE DEF S, t
<1>7. \A k \in 1 .. Len(AskedOf(c)') : AskedOf(c)'[k] = t[k]
  <2>. SUFFICES ASSUME NEW k \in 1 .. Len(AskedOf(c)') PROVE AskedOf(c)'[k] = t[k]
    OBVIOUS
  <2>1. /\ k \in 1 .. Len(toServer'[c]) /\ k \in 1 .. Len(t)
        /\ k + n \in 1 .. Len(AskedOf(c))
    BY <1>1, <1>3, <1>4, <1>5, <1>6
  <2>2. Wanted(toServer[c][k])' = Wanted(toServer[c][k + n])
    BY <1>1, <2>1 DEF Wanted
  <2>. QED
    BY <1>3, <1>4, <1>6, <2>1, <2>2
<1>8. AskedOf(c)' = t
  <2>1. Len(AskedOf(c)') = Len(t)
    BY <1>1, <1>3, <1>4, <1>6
  <2>. QED
    BY <1>4, <1>6, <1>7, <2>1, SeqEqual
<1>9. \A d \in Peers : d # c => AskedOf(d)' = AskedOf(d)
  BY <1>1, <1>2, SameAsked
<1>10. Asked' = [Asked EXCEPT ![c] = t]
  BY <1>8, <1>9 DEF Asked
<1>11. Up' = Up
  BY <1>2 DEF Up
<1>12. Asked' = [Asked EXCEPT ![c] = SubSeq(@, n + 1, Len(@))]
  BY <1>3, <1>10, Zenon DEF t
<1>13. n \in 1 .. Len(Asked[c]) /\ Asked[c][1] = Wanted(toServer[c][1])
  BY <1>3, <1>5
<1>. QED
  BY <1>11, <1>12, <1>13

LEMMA ServeStep ==
  ASSUME Base, Base', NEW j \in Due, NEW n \in 1 .. Len(toServer[ClientArray[j]]),
         Serve(j, n) \/ Ignore(j, n)
  PROVE  Service!Next
<1>. DEFINE c == ClientArray[j]
            r == toServer[c][1]
<1>1. /\ c \in Peers /\ Consume(c, n) /\ UNCHANGED fault
      /\ fault = "none" /\ conn[c] \in {"open", "finished"}
      /\ toServer[c] \in Seq(1 .. MaxRequests) /\ toServer[c] # <<>>
      /\ Head(toServer[c]) = r
  <2>1. /\ c \in Peers /\ Consume(c, n) /\ UNCHANGED fault /\ pc = "recv"
        /\ conn[c] \in {"open", "finished"}
    BY DueSlots DEF Serve, Ignore, Turn, Receive
  <2>2. fault = "none"
    BY <2>1 DEF Base, LoopInv
  <2>3. toServer[c] \in Seq(1 .. MaxRequests)
    BY <2>1 DEF Base, TypeOK, NetTypeOK
  <2>. QED
    BY <2>1, <2>2, <2>3
<1>. HIDE DEF c
<1>2. Alive(c)
  BY <1>1 DEF Alive
<1>3. /\ n \in 1 .. Len(Asked[c])
      /\ Asked' = [Asked EXCEPT ![c] = SubSeq(@, n + 1, Len(@))]
      /\ Asked[c][1] = Wanted(r)
      /\ Up' = Up
  BY <1>1, <1>2, TakeAsked DEF c
<1>4. \/ Told' = Told
      \/ \E a \in Service!Answers(Asked[c][1]) :
           Told' = [Told EXCEPT ![c] = Append(@, a)]
  <2>1. CASE Ignore(j, n)
    <3>1. UNCHANGED toPeer
      BY <2>1 DEF Ignore, SendAnswer, Base, BlankInv
    <3>. QED
      BY <3>1, SameTold
  <2>2. CASE Serve(j, n)
    <3>1. PICK result \in Results(r) : SendAnswer(c, Answer(r, result))
      BY <1>1, <2>2 DEF Serve, c
    <3>2. r \in 1 .. Len(written)
      BY <1>1, HeadNumber
    <3>. DEFINE out == Answer(r, result)
                f == [type |-> out.type, text |-> out.text]
    <3>3. /\ out.reads = 0 /\ out.type = result.type /\ out.type \in ReplyTypes
          /\ out.text = [request |-> r, returnCode |-> result.returnCode]
          /\ out.text \in AnswerText
      BY <3>1, <3>2, AnswerBuffer, Zenon
    <3>4. TypesOnTheWire(out) = {out.type} /\ out.type # NoType
      BY <3>3 DEF TypesOnTheWire, ReplyTypes, NoType
    <3>5. toPeer' = [toPeer EXCEPT ![c] = Append(@, f)]
      BY <3>1, <3>4 DEF SendAnswer
    <3>6. f \in SentFrame
      BY <3>3 DEF SentFrame, ReplyTypes, FrameType, ProtocolType
    <3>7. Reply(f) = [type |-> result.type, requestid |-> r,
                      returnCode |-> result.returnCode]
      BY <3>3 DEF Reply
    <3>. HIDE DEF f
    <3>8. Told' = [Told EXCEPT ![c] = Append(@, Reply(f))]
      BY <1>1, <3>5, <3>6, AnswerTold
    <3>9. Reply(f) \in Service!Answers(Asked[c][1])
      BY <1>3, <3>1, <3>2, <3>7, ResultPromised
    <3>. QED
      BY <3>8, <3>9
  <2>. QED
    BY <2>1, <2>2
<1>5. Service!Serve(c, n)
  BY <1>3, <1>4 DEF Service!Serve
<1>. QED
  BY <1>1, <1>3, <1>5 DEF Service!Next

(* A step that ends the server ends every connection.                      *)
LEMMA StopStep ==
  ASSUME Base, Base', UNCHANGED <<toPeer, written>>, fault' # "none"
  PROVE  Service!Next
<1>1. \A c \in Peers : ~Alive(c)'
  BY DEF Alive
<1>2. Peers \in SUBSET Peers
  OBVIOUS
<1>. QED
  BY <1>1, <1>2, CloseStep

(* The peer removed loses its connection, if it still had one.             *)
LEMMA RemoveStep ==
  ASSUME Base, Base', NEW j \in Due, Turn(j), RemoveClient(j), UNCHANGED toPeer
  PROVE  Service!Next
<1>. DEFINE c == ClientArray[j]
<1>1. /\ conn \in [Peers -> {"idle", "open", "finished", "reset", "gone"}]
      /\ toServer \in [Peers -> Seq(1 .. MaxRequests)]
      /\ c \in Peers
  BY DueSlots DEF Base, TypeOK, NetTypeOK
<1>2. /\ conn' = [conn EXCEPT ![c] = "gone"]
      /\ toServer' = [toServer EXCEPT ![c] = <<>>]
      /\ UNCHANGED <<written, fault>>
  BY DEF RemoveClient, Turn
<1>. HIDE DEF c
<1>3. \A d \in {c} : ~Alive(d)'
  BY <1>1, <1>2 DEF Alive
<1>4. \A d \in Peers \ {c} : Alive(d)' = Alive(d) /\ toServer'[d] = toServer[d]
  BY <1>1, <1>2 DEF Alive
<1>5. {c} \in SUBSET Peers
  BY <1>1
<1>. QED
  BY <1>2, <1>3, <1>4, <1>5, CloseStep

LEMMA QuietStep ==
  ASSUME Base, Base', UNCHANGED <<toPeer, written, toServer, conn, fault>>
  PROVE  UNCHANGED Service!vars
<1>1. \A c \in Peers : Alive(c)' = Alive(c)
  BY DEF Alive
<1>. QED
  BY <1>1, StutterStep

LEMMA PeersSeen ==
  ASSUME Base, Base', PeerStep
  PROVE  Service!Next \/ UNCHANGED Service!vars
<1>1. PICK c \in Peers : Connect(c) \/ Write(c) \/ Finish(c) \/ Reset(c)
  BY DEF PeerStep
<1>2. /\ UNCHANGED <<toPeer, fault>>
      /\ conn \in [Peers -> {"idle", "open", "finished", "reset", "gone"}]
      /\ toServer \in [Peers -> Seq(1 .. MaxRequests)]
  BY DEF PeerStep, outVars, loopVars, Base, TypeOK, NetTypeOK
<1>3. CASE Connect(c) \/ Finish(c)
  <2>1. UNCHANGED <<written, toServer>>
    BY <1>3 DEF Connect, Finish
  <2>2. \A d \in Peers : Alive(d)' = Alive(d)
    BY <1>2, <1>3 DEF Connect, Finish, Alive
  <2>. QED
    BY <1>2, <2>1, <2>2, StutterStep
<1>4. CASE Reset(c)
  <2>1. \A d \in {c} : ~Alive(d)'
    BY <1>2, <1>4 DEF Reset, Alive
  <2>2. \A d \in Peers \ {c} : Alive(d)' = Alive(d) /\ toServer'[d] = toServer[d]
    BY <1>2, <1>4 DEF Reset, Alive
  <2>3. {c} \in SUBSET Peers /\ UNCHANGED <<toPeer, written>>
    BY <1>2, <1>4 DEF Reset
  <2>. QED
    BY <2>1, <2>2, <2>3, CloseStep
<1>. QED
  BY <1>1, <1>3, <1>4, WriteStep

LEMMA StepSeen ==
  ASSUME Base, Base', [Next]_vars
  PROVE  Service!Next \/ UNCHANGED Service!vars
<1>1. CASE Select \/ AcceptClient \/ EndScan \/ UNCHANGED vars
  <2>1. UNCHANGED <<toPeer, written, toServer, conn, fault>>
    BY <1>1 DEF Select, AcceptClient, EndScan, vars, netVars, outVars, loopVars
  <2>. QED
    BY <2>1, QuietStep
<1>2. CASE AcceptOverflow \/ AcceptFails
  <2>1. UNCHANGED <<toPeer, written>> /\ fault' # "none"
    BY <1>2 DEF AcceptOverflow, AcceptFails, Stop, netVars, outVars
  <2>. QED
    BY <2>1, StopStep
<1>3. ASSUME NEW j \in Due, NEW n \in 1 .. Len(toServer[ClientArray[j]]),
             IgnoreCrash(j, n) \/ Throw(j, n)
      PROVE  Service!Next
  <2>1. UNCHANGED <<toPeer, written>> /\ fault' # "none"
    BY <1>3 DEF IgnoreCrash, Throw, EndIn, Stop, Consume, outVars
  <2>. QED
    BY <2>1, StopStep
<1>4. ASSUME NEW j \in Due, RecvNothing(j) \/ ReparseNothing(j)
      PROVE  Service!Next
  BY <1>4, RemoveStep DEF RecvNothing, ReparseNothing, outVars
<1>5. ASSUME NEW j \in Due, Reparse(j)
      PROVE  Service!Next \/ UNCHANGED Service!vars
  <2>1. /\ Turn(j) /\ UNCHANGED toPeer
        /\ RemoveClient(j) \/ UNCHANGED <<netVars, tableVars>>
    BY <1>5 DEF Reparse
  <2>2. CASE RemoveClient(j)
    BY <2>1, <2>2, RemoveStep
  <2>3. CASE UNCHANGED <<netVars, tableVars>>
    <3>1. UNCHANGED <<toPeer, written, toServer, conn, fault>>
      BY <2>1, <2>3 DEF Turn, netVars
    <3>. QED
      BY <3>1, QuietStep
  <2>. QED
    BY <2>1, <2>2, <2>3
<1>6. ASSUME NEW j \in Due, ReparseThrow(j) PROVE Service!Next
  <2>1. UNCHANGED <<toPeer, written>> /\ fault' # "none"
    BY <1>6 DEF ReparseThrow, EndIn, Stop, netVars, outVars
  <2>. QED
    BY <2>1, StopStep
<1>. QED
  BY <1>1, <1>2, <1>3, <1>4, <1>5, <1>6, ServeStep, PeersSeen DEF Next, Server

LEMMA InitSeen == ASSUME Init PROVE Service!Init
<1>1. Asked = [c \in Peers |-> <<>>] /\ Told = [c \in Peers |-> <<>>]
  BY DEF Init, Asked, Told, AskedOf, ToldOf
<1>2. Up = [c \in Peers |-> TRUE]
  <2>1. \A c \in Peers : Alive(c) = TRUE
    BY DEF Init, Alive
  <2>. QED
    BY <2>1 DEF Up
<1>. QED
  BY <1>1, <1>2 DEF Service!Init

(* Each connection of auth_server_main.cpp is served as AuthService says,  *)
(* in every step: requests dropped behind the first, executed a second     *)
(* time, refused or cut short by an exception included.                    *)
THEOREM Implementation == Spec => ImplementsService
<1>1. Init => Service!Init
  BY InitSeen
<1>2. Base /\ Base' /\ [Next]_vars => [Service!Next]_(Service!vars)
  BY StepSeen
<1>. QED
  BY <1>1, <1>2, Invariance, PTL DEF Spec, ImplementsService, Service!Spec

=============================================================================
