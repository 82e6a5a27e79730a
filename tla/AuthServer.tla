----------------------------- MODULE AuthServer -----------------------------
(***************************************************************************)
(* The authentication server (auth_server_main.cpp): the loop of the chat  *)
(* server over the same table, with the database in place of a broadcast.  *)
(* Its clients are chat servers: they send whole requests only, each from  *)
(* a new buffer and of one of the two types, some of them before the last  *)
(* one is answered.  So no request fails to parse and each has a branch:   *)
(* while the database is there, outgoing is set before it is sent.         *)
(*                                                                         *)
(* The database is what AccountStore promises: a call is one step here,    *)
(* and may answer INTERNAL_SERVER_ERROR whether it created its account or  *)
(* not.  The connection to MySQL is opened once, before the loop.          *)
(***************************************************************************)
EXTENDS Protocol, Sequences

CONSTANTS
  Peers,        \* the chat servers that ever connect
  NULL,         \* not a peer: an empty slot of ClientArray
  FD_SETSIZE,   \* slots of ClientArray, and sockets an fd_set holds
  Emails, Passwords,
  Connectable,  \* whether db.Connect succeeds: a set of Booleans
  DBMayFail,    \* TRUE: statements may be refused, or throw
  KeepsCount,   \* TRUE: a failed WSARecv may leave RecvBytes as it was
  MayReset,     \* the peers whose connection may be reset
  Waiting,      \* the peers that wait for an answer before they ask again
  MaxRequests   \* bound: requests ever written

ASSUME PeersAssumption ==
  /\ NULL \notin Peers
  /\ MayReset \subseteq Peers /\ Waiting \subseteq Peers
ASSUME SizeAssumption == FD_SETSIZE \in Nat \ {0} /\ MaxRequests \in Nat
ASSUME AccountsAssumption == NULL \notin Passwords
ASSUME SwitchesAssumption ==
  /\ Connectable \subseteq BOOLEAN
  /\ DBMayFail \in BOOLEAN /\ KeepsCount \in BOOLEAN

VARIABLES
  conn,          \* a connection's state; gone: the server has closed it
  backlog,       \* connections the operating system holds for accept
  toServer,      \* requests that have arrived, by connection
  written,       \* ghost: the requests written so far, in order
  toPeer,        \* ghost: all that each connection was ever sent
  ClientArray,
  TotalClients,
  buffer,        \* the number of the request at the start of ClientInfo::buffer
  RecvBytes,     \* whether the count WSARecv stored last was above zero
  outgoing,
  connected,     \* DBHelper::m_IsConnected
  accounts,      \* the password of each e-mail address; NULL: no account
  pc,            \* where the loop is
  i,             \* the index of the loop over the connections
  readSet,       \* the connections select marked
  fault          \* what ended the process; none while it runs

netVars == <<conn, backlog, toServer, written>>
tableVars == <<ClientArray, TotalClients>>
recvVars == <<buffer, RecvBytes>>
outVars == <<outgoing, toPeer>>
dbVars == <<connected, accounts>>
loopVars == <<pc, i, readSet, fault>>
vars == <<netVars, tableVars, recvVars, outVars, dbVars, loopVars>>

Slots == 0 .. FD_SETSIZE - 1
Used == 0 .. TotalClients - 1
Table == {ClientArray[k] : k \in Used}

(* A request, by its number in "written": its requestid stands for it.     *)
Request == [type : RequestTypes, email : Emails, password : Passwords,
            peer : Peers]

Init ==
  /\ conn = [c \in Peers |-> "idle"]
  /\ backlog = <<>>
  /\ toServer = [c \in Peers |-> <<>>]
  /\ written = <<>>
  /\ toPeer = [c \in Peers |-> <<>>]
  /\ ClientArray = [k \in Slots |-> NULL]
  /\ TotalClients = 0
  /\ buffer = [c \in Peers |-> 0]
  /\ RecvBytes = FALSE
  /\ outgoing = BlankBuffer
  /\ connected \in Connectable
  /\ accounts = [e \in Emails |-> NULL]
  /\ pc = "select"
  /\ i = 0
  /\ readSet = {}
  /\ fault = "none"

Stop(why) ==
  /\ fault' = why
  /\ pc' = "stopped"
  /\ UNCHANGED <<i, readSet>>

-----------------------------------------------------------------------------
(* select and accept: the loop of the chat server.                         *)
Monitored == {ClientArray[k] : k \in Used \cap 0 .. FD_SETSIZE - 2}

Readable(c) ==
  \/ conn[c] = "open" /\ toServer[c] # <<>>
  \/ conn[c] \in {"finished", "reset"}

Select ==
  /\ pc = "select"
  /\ readSet' = {c \in Monitored : Readable(c)}
  /\ pc' = IF backlog # <<>> THEN "accept" ELSE "recv"
  /\ UNCHANGED <<netVars, tableVars, recvVars, outVars, dbVars, i, fault>>

AcceptClient ==
  /\ pc = "accept"
  /\ conn[Head(backlog)] # "reset"
  /\ TotalClients < FD_SETSIZE
  /\ ClientArray' = [ClientArray EXCEPT ![TotalClients] = Head(backlog)]
  /\ TotalClients' = TotalClients + 1
  /\ backlog' = Tail(backlog)
  /\ pc' = "recv"
  /\ UNCHANGED <<conn, toServer, written, recvVars, outVars, dbVars, i,
                 readSet, fault>>

AcceptOverflow ==
  /\ pc = "accept"
  /\ conn[Head(backlog)] # "reset"
  /\ TotalClients = FD_SETSIZE
  /\ Stop("overflow")
  /\ UNCHANGED <<netVars, tableVars, recvVars, outVars, dbVars>>

AcceptFails ==
  /\ pc = "accept"
  /\ conn[Head(backlog)] = "reset"
  /\ Stop("exit")
  /\ UNCHANGED <<netVars, tableVars, recvVars, outVars, dbVars>>

-----------------------------------------------------------------------------
(***************************************************************************)
(* The loop over the connections; a turn is one readable slot.             *)
(***************************************************************************)
Due == {j \in Used : j >= i /\ ClientArray[j] \in readSet}
IsNext(j) == j \in Due /\ \A k \in Due : j <= k

Turn(j) ==
  /\ pc = "recv"
  /\ IsNext(j)
  /\ i' = j + 1
  /\ UNCHANGED <<pc, readSet, fault>>

EndIn(j, why) ==
  /\ pc = "recv"
  /\ IsNext(j)
  /\ Stop(why)

(* Seeded faults: TotalClients is decremented twice; the socket closed is  *)
(* that of the next slot.                                                  *)
RemoveClient_Twice(j) ==
  /\ ClientArray' =
       [k \in Slots |->
          IF k < j \/ k >= TotalClients THEN ClientArray[k]
          ELSE IF k + 1 < FD_SETSIZE THEN ClientArray[k + 1] ELSE NULL]
  /\ TotalClients' = TotalClients - 2
  /\ conn' = [conn EXCEPT ![ClientArray[j]] = "gone"]
  /\ toServer' = [toServer EXCEPT ![ClientArray[j]] = <<>>]
  /\ UNCHANGED <<backlog, written>>

RemoveClient_CloseAfter(j) ==
  LET next == IF j + 1 < TotalClients THEN ClientArray[j + 1] ELSE ClientArray[j]
  IN /\ ClientArray' =
          [k \in Slots |->
             IF k < j \/ k >= TotalClients THEN ClientArray[k]
             ELSE IF k + 1 < FD_SETSIZE THEN ClientArray[k + 1] ELSE NULL]
     /\ TotalClients' = TotalClients - 1
     /\ conn' = [conn EXCEPT ![next] = "gone"]
     /\ toServer' = [toServer EXCEPT ![next] = <<>>]
     /\ UNCHANGED <<backlog, written>>

RemoveClient(j) ==
  /\ ClientArray' =
       [k \in Slots |->
          IF k < j \/ k >= TotalClients THEN ClientArray[k]
          ELSE IF k + 1 < FD_SETSIZE THEN ClientArray[k + 1] ELSE NULL]
  /\ TotalClients' = TotalClients - 1
  /\ conn' = [conn EXCEPT ![ClientArray[j]] = "gone"]
  /\ toServer' = [toServer EXCEPT ![ClientArray[j]] = <<>>]
  /\ UNCHANGED <<backlog, written>>

(***************************************************************************)
(* The branch of a request: one call of the database.  Its results are the *)
(* answers it may have, each with the accounts it leaves.                  *)
(***************************************************************************)
Result(type, returnCode, left) ==
  [type |-> type, returnCode |-> returnCode, accounts |-> left]

(* A refused statement may come before the INSERT or behind it.            *)
CreateAccount(r) ==
  LET e == written[r].email
      created == [accounts EXCEPT ![e] = written[r].password]
      after == IF accounts[e] = NULL THEN created ELSE accounts
  IN {IF accounts[e] = NULL
      THEN Result("G_CREATE_ACCOUNT_SUCCESS", 0, created)
      ELSE Result("G_CREATE_ACCOUNT_FAILURE", 0, accounts)}
     \cup {Result("G_CREATE_ACCOUNT_FAILURE", 1, left) :
             left \in {x \in {accounts, after} : DBMayFail}}

(* A seeded fault: only INVALID_CREDENTIAL is told from success.           *)
LoginUser_AnyAccount(r) ==
  {IF accounts[written[r].email] = NULL
   THEN Result("G_AUTHENTICATE_FAILURE", 0, accounts)
   ELSE Result("G_AUTHENTICATE_SUCCESS", 0, accounts)}

LoginUser(r) ==
  LET stored == accounts[written[r].email]
  IN {IF stored = NULL THEN Result("G_AUTHENTICATE_FAILURE", 0, accounts)
      ELSE IF stored # written[r].password
      THEN Result("G_AUTHENTICATE_FAILURE", 2, accounts)
      ELSE Result("G_AUTHENTICATE_SUCCESS", 0, accounts)}
     \cup {Result("G_AUTHENTICATE_FAILURE", 1, accounts) : x \in {y \in {1} : DBMayFail}}

Results(r) ==
  IF written[r].type = "G_CREATE_ACCOUNT" THEN CreateAccount(r) ELSE LoginUser(r)

(* The text of an answer: the request's id and the return code.            *)
Answer(r, result) ==
  MakeProtocol(result.type, [request |-> r, returnCode |-> result.returnCode])

(* WSARecv returns the first n requests; the first is parsed, the others   *)
(* are dropped.                                                            *)
Receive(c, n) ==
  /\ conn[c] = "open" \/ conn[c] = "finished"
  /\ n \in 1 .. Len(toServer[c])
  /\ buffer' = [buffer EXCEPT ![c] = Head(toServer[c])]
  /\ RecvBytes' = TRUE

Consume(c, n) ==
  /\ toServer' = [toServer EXCEPT ![c] = SubSeq(@, n + 1, Len(@))]
  /\ UNCHANGED <<conn, backlog, written>>

(* A seeded fault: the answer is the one outgoing held before.             *)
SendAnswer_Last(c, out) ==
  /\ outgoing' = AfterPayload(out)
  /\ IF outgoing.type = NoType THEN UNCHANGED toPeer
     ELSE toPeer' = [toPeer EXCEPT ![c] =
                       Append(@, [type |-> outgoing.type, text |-> outgoing.text])]

(* PayloadToString and the WSASend to the peer that asked.  A new Buffer   *)
(* has length 0: nothing is sent.                                          *)
SendAnswer(c, out) ==
  /\ outgoing' = AfterPayload(out)
  /\ IF out.type = NoType THEN UNCHANGED toPeer
     ELSE \E type \in TypesOnTheWire(out) :
            toPeer' = [toPeer EXCEPT ![c] =
                         Append(@, [type |-> type, text |-> out.text])]

(* The request is executed, and answered from a new outgoing.              *)
Serve(j, n) ==
  LET c == ClientArray[j]
      r == Head(toServer[c])
  IN /\ Turn(j)
     /\ Receive(c, n)
     /\ connected
     /\ \E result \in Results(r) :
          /\ SendAnswer(c, Answer(r, result))
          /\ accounts' = result.accounts
     /\ Consume(c, n)
     /\ UNCHANGED <<tableVars, connected>>

(* No branch sets outgoing without a database; the end of the turn sends   *)
(* what it holds.                                                          *)
Ignore(j, n) ==
  LET c == ClientArray[j]
  IN /\ Turn(j)
     /\ Receive(c, n)
     /\ ~connected
     /\ SendAnswer(c, outgoing)
     /\ Consume(c, n)
     /\ UNCHANGED <<tableVars, dbVars>>

IgnoreCrash(j, n) ==
  LET c == ClientArray[j]
  IN /\ EndIn(j, "bad_payload")
     /\ Receive(c, n)
     /\ ~connected
     /\ PayloadMayFail(outgoing)
     /\ Consume(c, n)
     /\ UNCHANGED <<tableVars, outVars, dbVars>>

(* A createStatement() outside of a try block throws: nobody catches it.   *)
Throw(j, n) ==
  LET c == ClientArray[j]
      r == Head(toServer[c])
  IN /\ EndIn(j, "exception")
     /\ Receive(c, n)
     /\ connected /\ DBMayFail
     /\ \E result \in Results(r) : accounts' = result.accounts
     /\ Consume(c, n)
     /\ UNCHANGED <<tableVars, outVars, connected>>

(***************************************************************************)
(* No bytes: the peer has finished, or WSARecv failed and stored 0.  The   *)
(* indeterminate type may pick a branch, but no message is parsed from an  *)
(* empty string: its fields are required.                                  *)
(***************************************************************************)
RecvNothing(j) ==
  LET c == ClientArray[j]
  IN /\ Turn(j)
     /\ conn[c] \in {"finished", "reset"}
     /\ toServer[c] = <<>>
     /\ RecvBytes' = FALSE
     /\ RemoveClient(j)
     /\ UNCHANGED <<buffer, outVars, dbVars>>

(***************************************************************************)
(* WSARecv failed and left RecvBytes as an earlier call had set it: the    *)
(* last request is executed once more.  Its answer stays in outgoing: the  *)
(* error is seen, and the peer removed, unless the database's own sockets  *)
(* have made WSAGetLastError WSAEWOULDBLOCK by then.                       *)
(***************************************************************************)
StaleCount(c) == KeepsCount /\ RecvBytes /\ conn[c] = "reset" /\ buffer[c] # 0

(* A seeded fault: the result of the send hides the error, as it does in   *)
(* the chat server.                                                        *)
Reparse_Answered(j) ==
  LET c == ClientArray[j]
      r == buffer[c]
  IN /\ Turn(j)
     /\ StaleCount(c)
     /\ connected
     /\ \E result \in Results(r) :
          /\ SendAnswer(c, Answer(r, result))
          /\ accounts' = result.accounts
     /\ UNCHANGED <<netVars, tableVars, recvVars, connected>>

Reparse(j) ==
  LET c == ClientArray[j]
      r == buffer[c]
  IN /\ Turn(j)
     /\ StaleCount(c)
     /\ connected
     /\ \E result \in Results(r) :
          /\ outgoing' = Answer(r, result)
          /\ accounts' = result.accounts
     /\ RemoveClient(j) \/ UNCHANGED <<netVars, tableVars>>
     /\ UNCHANGED <<recvVars, toPeer, connected>>

ReparseThrow(j) ==
  LET c == ClientArray[j]
  IN /\ EndIn(j, "exception")
     /\ StaleCount(c)
     /\ connected /\ DBMayFail
     /\ \E result \in Results(buffer[c]) : accounts' = result.accounts
     /\ UNCHANGED <<netVars, tableVars, recvVars, outVars, connected>>

(* Nothing to execute: there is no database, or the buffer of a peer that  *)
(* has sent nothing yet is parsed, whose bytes are no request.             *)
ReparseNothing(j) ==
  LET c == ClientArray[j]
  IN /\ Turn(j)
     /\ KeepsCount /\ RecvBytes /\ conn[c] = "reset"
     /\ ~connected \/ buffer[c] = 0
     /\ RemoveClient(j)
     /\ UNCHANGED <<recvVars, outVars, dbVars>>

(* A seeded fault: the index is not reset for the next scan.               *)
EndScan_KeepsIndex ==
  /\ pc = "recv"
  /\ Due = {}
  /\ pc' = "select"
  /\ readSet' = {}
  /\ UNCHANGED <<netVars, tableVars, recvVars, outVars, dbVars, i, fault>>

EndScan ==
  /\ pc = "recv"
  /\ Due = {}
  /\ pc' = "select"
  /\ i' = 0
  /\ readSet' = {}
  /\ UNCHANGED <<netVars, tableVars, recvVars, outVars, dbVars, fault>>

Server ==
  \/ Select
  \/ AcceptClient \/ AcceptOverflow \/ AcceptFails
  \/ \E j \in Due :
       \/ \E n \in 1 .. Len(toServer[ClientArray[j]]) :
            Serve(j, n) \/ Ignore(j, n) \/ IgnoreCrash(j, n) \/ Throw(j, n)
       \/ RecvNothing(j)
       \/ Reparse(j) \/ ReparseThrow(j) \/ ReparseNothing(j)
  \/ EndScan

-----------------------------------------------------------------------------
(***************************************************************************)
(* The peers.                                                              *)
(***************************************************************************)
Connect(c) ==
  /\ conn[c] = "idle"
  /\ conn' = [conn EXCEPT ![c] = "open"]
  /\ backlog' = Append(backlog, c)
  /\ UNCHANGED <<toServer, written>>

Requests(c) == {r \in 1 .. Len(written) : written[r].peer = c}
Answered(c) == {toPeer[c][k].text.request : k \in 1 .. Len(toPeer[c])}

Write(c) ==
  /\ conn[c] = "open"
  /\ Len(written) < MaxRequests
  /\ c \in Waiting => Requests(c) \subseteq Answered(c)
  /\ \E type \in RequestTypes, e \in Emails, p \in Passwords :
       written' = Append(written, [type |-> type, email |-> e, password |-> p,
                                   peer |-> c])
  /\ toServer' = [toServer EXCEPT ![c] = Append(@, Len(written) + 1)]
  /\ UNCHANGED <<conn, backlog>>

Finish(c) ==
  /\ conn[c] = "open"
  /\ conn' = [conn EXCEPT ![c] = "finished"]
  /\ UNCHANGED <<backlog, toServer, written>>

Reset(c) ==
  /\ c \in MayReset
  /\ conn[c] \in {"open", "finished"}
  /\ conn' = [conn EXCEPT ![c] = "reset"]
  /\ toServer' = [toServer EXCEPT ![c] = <<>>]
  /\ UNCHANGED <<backlog, written>>

PeerStep ==
  /\ \E c \in Peers : Connect(c) \/ Write(c) \/ Finish(c) \/ Reset(c)
  /\ UNCHANGED <<tableVars, recvVars, outVars, dbVars, loopVars>>

Next == Server \/ PeerStep

Spec == Init /\ [][Next]_vars

(* One thread, and select waits two seconds at most.                       *)
FairSpec == Spec /\ WF_vars(Server)

-----------------------------------------------------------------------------
(***************************************************************************)
(* Properties.                                                             *)
(***************************************************************************)
AnswerText == [request : 1 .. MaxRequests, returnCode : 0 .. 2]

SentFrame == [type : FrameType \cup {Garbage}, text : AnswerText]
OutBuffer ==
  [type : FrameType \cup {NoType}, text : AnswerText \cup {NoText},
   reads : 0 .. MaxReads + BlankWords]

NetTypeOK ==
  /\ conn \in [Peers -> {"idle", "open", "finished", "reset", "gone"}]
  /\ backlog \in Seq(Peers)
  /\ toServer \in [Peers -> Seq(1 .. MaxRequests)]
  /\ written \in Seq(Request) /\ Len(written) <= MaxRequests
TableTypeOK ==
  /\ ClientArray \in [Slots -> Peers \cup {NULL}]
  /\ TotalClients \in 0 .. FD_SETSIZE
RecvTypeOK == buffer \in [Peers -> 0 .. MaxRequests] /\ RecvBytes \in BOOLEAN
OutTypeOK == outgoing \in OutBuffer /\ toPeer \in [Peers -> Seq(SentFrame)]
DBTypeOK ==
  /\ connected \in BOOLEAN
  /\ accounts \in [Emails -> Passwords \cup {NULL}]
LoopTypeOK ==
  /\ pc \in {"select", "accept", "recv", "stopped"}
  /\ i \in 0 .. FD_SETSIZE
  /\ readSet \in SUBSET Peers
  /\ fault \in {"none", "overflow", "exit", "bad_payload", "exception"}

(* The variables of auth_server_main.cpp and of its peers keep their types.*)
TypeOK ==
  /\ NetTypeOK /\ TableTypeOK /\ RecvTypeOK
  /\ OutTypeOK /\ DBTypeOK /\ LoopTypeOK

(* A peer is sent answers to its own requests only, each of them once at   *)
(* most and in the order it asked, and of the request's own kind, although *)
(* the end of every turn sends whatever outgoing holds.                    *)
AnswersAreOwn ==
  \A c \in Peers : \A k \in 1 .. Len(toPeer[c]) :
    LET f == toPeer[c][k]
        r == f.text.request
    IN /\ written[r].peer = c
       /\ \A m \in 1 .. k - 1 : toPeer[c][m].text.request < r
       /\ f.type \in IF written[r].type = "G_CREATE_ACCOUNT"
                     THEN {"G_CREATE_ACCOUNT_SUCCESS", "G_CREATE_ACCOUNT_FAILURE"}
                     ELSE {"G_AUTHENTICATE_SUCCESS", "G_AUTHENTICATE_FAILURE"}

Succeeded(type) ==
  {r \in 1 .. Len(written) :
     \E c \in Peers : \E k \in 1 .. Len(toPeer[c]) :
       toPeer[c][k].type = type /\ toPeer[c][k].text.request = r}

(* Nobody is told of a login whose password is not the account's, and no   *)
(* two are told that they have created the account of one address.         *)
SuccessIsTrue ==
  /\ \A r \in Succeeded("G_AUTHENTICATE_SUCCESS") :
       accounts[written[r].email] = written[r].password
  /\ \A r \in Succeeded("G_CREATE_ACCOUNT_SUCCESS") :
       /\ accounts[written[r].email] = written[r].password
       /\ \A q \in Succeeded("G_CREATE_ACCOUNT_SUCCESS") :
            written[r].email = written[q].email => r = q

(* Without a database nobody is answered; the blank outgoing is read again *)
(* at every request, and not before its words are used up can that end the *)
(* server.                                                                 *)
BlankIsHarmlessAtFirst ==
  /\ ~connected => \A c \in Peers : toPeer[c] = <<>>
  /\ fault = "bad_payload" => ~connected /\ Len(written) > BlankWords

(* No connection is closed but one that its peer has ended.                *)
OnlyLeaversAreClosed ==
  [][\A c \in Peers : conn'[c] = "gone" => conn[c] \in {"finished", "reset", "gone"}]_vars

(* A peer that waits for its answer before it asks again is answered,      *)
(* however many others ask at the same time, if it stays, its slot is one  *)
(* that select watches, and the server has its database and does not end.  *)
WaitersAreAnswered ==
  \A c \in Waiting :
    Requests(c) # Answered(c) /\ c \in Monitored
      ~> \/ Requests(c) = Answered(c)
         \/ conn[c] # "open" \/ fault # "none" \/ ~connected

(***************************************************************************)
(* Each connection is served as AuthService says.                          *)
(***************************************************************************)
Alive(c) == fault = "none" /\ conn[c] \notin {"reset", "gone"}

AskedOf(c) ==
  [k \in 1 .. IF Alive(c) THEN Len(toServer[c]) ELSE 0 |->
     [type |-> written[toServer[c][k]].type, requestid |-> toServer[c][k]]]
ToldOf(c) ==
  [k \in 1 .. Len(toPeer[c]) |->
     [type |-> toPeer[c][k].type, requestid |-> toPeer[c][k].text.request,
      returnCode |-> toPeer[c][k].text.returnCode]]

Asked == [c \in Peers |-> AskedOf(c)]
Told == [c \in Peers |-> ToldOf(c)]
Up == [c \in Peers |-> Alive(c)]

Service == INSTANCE AuthService WITH
  RequestIds <- 1 .. MaxRequests, req <- Asked, rep <- Told, up <- Up

(* Every step of the server and its peers is one of the promised ones, or  *)
(* none at all: what is executed again is never answered again.            *)
ImplementsService == Service!Spec
=============================================================================
