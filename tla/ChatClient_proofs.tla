-------------------------- MODULE ChatClient_proofs --------------------------
(***************************************************************************)
(* What the chat client tells the server agrees with its list of rooms,    *)
(* for every set of lines, rooms and frames.                               *)
(***************************************************************************)
EXTENDS ChatClient, TLAPS, FiniteSetTheorems, SequenceTheorems

Frame == [type : ClientSends, room : Line, text : Line]
Arrival == [type : Inbound, room : RoomNames \cup {Unnamed}, own : BOOLEAN,
            number : 1 .. MaxFrames]
Entry == [number : 1 .. MaxFrames, room : Line, at : Nat]
NonEmpty == Line \ {<<>>}

(* The parts of TypeOK.                                                    *)
UserOK == keys \in Seq(NonEmpty) /\ typed \in 0 .. MaxLines
LoginOK == loggedIn \in BOOLEAN /\ loggingIn \in BOOLEAN /\ strays \in Nat
RoomOK == rooms \in Seq(NonEmpty) /\ chatlog \in Seq(Entry)
LoopOK ==
  /\ quit \in BOOLEAN
  /\ pc \in {"keyboard", "recv", "login", "register", "leaving", "done",
             "failed", "crashed"}
  /\ i \in 0 .. Len(rooms)
NetOK ==
  /\ link \in {"up", "closed", "reset"}
  /\ inbox \in Seq(Arrival) /\ arrived \in 0 .. MaxFrames
SentOK == sent \in Seq(Frame) /\ waiting \in Nat
Types == UserOK /\ LoginOK /\ RoomOK /\ LoopOK /\ NetOK /\ SentOK

(* The end's loop is entered once, with its index at 0; nobody is asked    *)
(* for a name while a request is under way.                                *)
PlaceInv ==
  /\ pc \notin {"leaving", "done", "failed"} => i = 0
  /\ pc = "done" => i = Len(rooms)
  /\ pc \in {"login", "register"} => ~loggingIn

Distinct == \A j, k \in 1 .. Len(rooms) : rooms[j] = rooms[k] => j = k

-----------------------------------------------------------------------------
(***************************************************************************)
(* Strings.                                                                *)
(***************************************************************************)
LEMMA OneWord ==
  ASSUME NEW w \in Words
  PROVE  <<w>> \in NonEmpty
<1>1. <<w>> \in Seq(Words) /\ <<w>> # <<>>
  BY SMT
<1> QED BY <1>1 DEF NonEmpty, Line

LEMMA RestIsLine ==
  ASSUME NEW line \in NonEmpty
  PROVE  AfterFirst(line) \in NonEmpty
<1>1. line \in Seq(Words) /\ line # <<>> /\ Len(line) \in Nat
  BY DEF NonEmpty, Line
<1>2. CASE Len(line) > 1
  <2>1. Tail(line) \in Seq(Words) /\ Len(Tail(line)) = Len(line) - 1
    BY <1>1, SMT
  <2>2. Tail(line) # <<>>
    <3> DEFINE t == Tail(line)
    <3>1. t \in Seq(Words) /\ Len(t) > 0
      BY <1>1, <1>2, <2>1, SMT
    <3> HIDE DEF t
    <3>2. t # <<>>
      BY <3>1, SMT
    <3> QED BY <3>2 DEF t
  <2> QED BY <1>2, <2>1, <2>2 DEF AfterFirst, NonEmpty, Line
<1>3. CASE ~(Len(line) > 1)
  BY <1>1, <1>3 DEF AfterFirst, NonEmpty, Line
<1> QED BY <1>2, <1>3

LEMMA FirstIsLine ==
  ASSUME NEW line \in NonEmpty
  PROVE  FirstWord(line) \in NonEmpty
<1>1. line \in Seq(Words) /\ line # <<>>
  BY DEF NonEmpty, Line
<1>2. Head(line) \in Words
  BY <1>1, SMT
<1> QED BY <1>2, OneWord, Zenon DEF FirstWord

LEMMA SmallLines == Unnamed \in NonEmpty /\ <<>> \in Line /\ Esc \in NonEmpty
<1>1. <<>> \in Seq(Words)
  BY SMT
<1>2. "" \in Words /\ "Esc" \in Words
  BY LinesAssumption
<1>3. <<"">> \in NonEmpty /\ <<"Esc">> \in NonEmpty
  BY <1>2, OneWord, Zenon
<1> QED BY <1>1, <1>3 DEF Unnamed, Esc, Line

(* The line whose Enter is read, and what the commands take from it.       *)
LEMMA ReadLine ==
  ASSUME UserOK, KeyPressed
  PROVE  /\ Head(keys) \in NonEmpty /\ Tail(keys) \in Seq(NonEmpty)
         /\ Argument \in NonEmpty
         /\ FirstWord(Argument) \in NonEmpty
         /\ AfterFirst(Argument) \in NonEmpty
<1>1. Head(keys) \in NonEmpty /\ Tail(keys) \in Seq(NonEmpty)
  BY SMT DEF UserOK, KeyPressed
<1>2. Argument \in NonEmpty
  BY <1>1, RestIsLine DEF Argument
<1> QED BY <1>1, <1>2, RestIsLine, FirstIsLine

LEMMA LeftOver ==
  ASSUME NEW S, NEW s \in Seq(S), NEW n \in 0 .. Len(s)
  PROVE  SubSeq(s, n + 1, Len(s)) \in Seq(S)
BY SMT

(* rooms.erase(find(...)): one place less.                                 *)
LEMMA WithoutPlace ==
  ASSUME NEW S, NEW s \in Seq(S), NEW p \in 1 .. Len(s)
  PROVE  /\ Without(s, p) \in Seq(S)
         /\ Len(Without(s, p)) = Len(s) - 1
         /\ \A k \in 1 .. Len(s) - 1 :
              Without(s, p)[k] = IF k < p THEN s[k] ELSE s[k + 1]
<1> DEFINE a == SubSeq(s, 1, p - 1)
           b == SubSeq(s, p + 1, Len(s))
<1>1. /\ a \in Seq(S) /\ Len(a) = p - 1
      /\ \A k \in 1 .. p - 1 : a[k] = s[k]
  BY SMT
<1>2. /\ b \in Seq(S) /\ Len(b) = Len(s) - p
      /\ \A k \in 1 .. Len(s) - p : b[k] = s[p + k]
  BY SMT
<1>3. Without(s, p) = a \o b
  BY DEF Without
<1> HIDE DEF a, b
<1>4. a \o b \in Seq(S) /\ Len(a \o b) = Len(s) - 1
  <2>1. a \in Seq(S) /\ b \in Seq(S)
    BY <1>1, <1>2
  <2>2. a \o b \in Seq(S) /\ Len(a \o b) = Len(a) + Len(b)
    BY <2>1, ConcatProperties, Zenon
  <2>3. Len(a) = p - 1 /\ Len(b) = Len(s) - p
    BY <1>1, <1>2
  <2> QED BY <2>2, <2>3
<1>5. ASSUME NEW k \in 1 .. Len(s) - 1
      PROVE  (a \o b)[k] = IF k < p THEN s[k] ELSE s[k + 1]
  <2>1. CASE k < p
    BY <1>1, <1>2, <2>1, SMT
  <2>2. CASE ~(k < p)
    <3>1. (a \o b)[k] = b[k - Len(a)]
      BY <1>1, <1>2, <2>2, SMT
    <3>2. k - (p - 1) \in 1 .. Len(s) - p /\ p + (k - (p - 1)) = k + 1
      BY <2>2, SMT
    <3> QED BY <1>1, <1>2, <2>2, <3>1, <3>2, SMT
  <2> QED BY <2>1, <2>2
<1> QED BY <1>3, <1>4, <1>5

-----------------------------------------------------------------------------
(***************************************************************************)
(* Types, and where the loops are.                                         *)
(***************************************************************************)
Base == Types /\ PlaceInv

LEMMA InitBase == ASSUME Init PROVE Base
<1> USE DEF Init
<1> DEFINE Bound == MaxLines \in Nat /\ MaxFrames \in Nat
<1>b. Bound
  BY ClientBoundsAssumption
<1>1. UserOK
  BY <1>b DEF UserOK
<1>4. LoginOK
  BY DEF LoginOK
<1>5. NetOK
  BY <1>b DEF NetOK
<1>2. RoomOK /\ SentOK /\ Len(rooms) = 0
  BY DEF RoomOK, SentOK
<1>3. LoopOK /\ PlaceInv
  <2>1. quit \in BOOLEAN /\ pc = "keyboard" /\ ~loggingIn
    BY Zenon
  <2>2. i \in 0 .. Len(rooms)
    BY <1>2
  <2> QED BY <2>1, <2>2 DEF LoopOK, PlaceInv
<1> QED BY <1>1, <1>2, <1>3, <1>4, <1>5 DEF Base, Types

LEMMA ReadTypes ==
  ASSUME UserOK, NetOK, ReadKey
  PROVE  UserOK' /\ NetOK' /\ pc = "keyboard" /\ ~loggingIn
<1>1. KeyPressed /\ keys' = Tail(keys) /\ UNCHANGED <<typed, netVars>>
  BY DEF ReadKey
<1>2. Tail(keys) \in Seq(NonEmpty)
  BY <1>1, ReadLine
<1> QED BY <1>1, <1>2 DEF UserOK, NetOK, netVars, KeyPressed

(* What is sent is a frame of the client.                                  *)
LEMMA SentFrame ==
  ASSUME SentOK, LoginOK, NEW type \in ClientSends, NEW room \in Line,
         NEW text \in Line, Sends(type, room, text)
  PROVE  SentOK'
<1> DEFINE f == [type |-> type, room |-> room, text |-> text]
<1>1. f \in Frame
  BY DEF Frame
<1>2. sent' = Append(sent, f) /\ waiting' \in Nat
  BY DEF Sends, ToServer, SentOK
<1> HIDE DEF f
<1> QED BY <1>1, <1>2, AppendProperties DEF SentOK

LEMMA ChatTypesAreSent ==
  {"JOIN_ROOM", "LEAVE_ROOM", "SEND_MESSAGE", "LOGIN_USER", "REGISTER_USER"}
    \subseteq ClientSends
BY DEF ClientSends, ChatTypes, AuthTypes

LEMMA GotoBase ==
  ASSUME Base, NEW place \in {"recv", "failed", "crashed", "login", "register"},
         Goto(place), rooms' = rooms,
         pc \notin {"leaving", "done", "failed"} \/ place = "failed",
         place \in {"login", "register"} => ~loggingIn',
         chatlog' \in Seq(Entry)
  PROVE  LoopOK' /\ PlaceInv' /\ RoomOK'
<1>1. pc' = place /\ quit' = quit /\ i' = i
  BY DEF Goto
<1>2. LoopOK /\ PlaceInv /\ RoomOK
  BY DEF Base, Types
<1>3. RoomOK'
  BY <1>2 DEF RoomOK
<1>4. LoopOK' /\ PlaceInv'
  BY <1>1, <1>2 DEF LoopOK, PlaceInv
<1> QED BY <1>3, <1>4

LEMMA ShownTypes ==
  ASSUME Base, NEW frame \in Arrival, NEW room \in Line
  PROVE  /\ chatlog \o Shown(frame, room) \in Seq(Entry)
         /\ Cardinality(Places(room)) \in Nat
         /\ Shown(frame, room) \in Seq(Entry)
<1>1. Cardinality(Places(room)) \in Nat
  <2>1. Len(rooms) \in Nat
    BY DEF Base, Types, RoomOK
  <2>2. IsFiniteSet(1 .. Len(rooms))
    BY <2>1, FS_Interval
  <2>3. IsFiniteSet(Places(room))
    BY <2>2, FS_Subset DEF Places
  <2> QED BY <2>3, FS_CardinalityType
<1> DEFINE n == Cardinality(Places(room))
           e == [number |-> frame.number, room |-> room, at |-> Len(sent)]
<1>2. e \in Entry
  BY DEF Base, Types, SentOK, Arrival, Entry
<1>3. n \in Nat
  BY <1>1
<1>4. Shown(frame, room) = [k \in 1 .. n |-> e]
  BY DEF Shown
<1> HIDE DEF n, e
<1>5. [k \in 1 .. n |-> e] \in Seq(Entry)
  BY <1>2, <1>3, SMT
<1>6. chatlog \in Seq(Entry)
  BY DEF Base, Types, RoomOK
<1> QED BY <1>1, <1>4, <1>5, <1>6, ConcatProperties, Zenon

LEMMA ParsedTypes ==
  ASSUME Base, NEW frame \in Arrival, NEW type, NEW room \in Line,
         Parsed(frame, type, room)
  PROVE  LoginOK' /\ chatlog' \in Seq(Entry)
<1>1. LoginOK /\ chatlog \in Seq(Entry)
  BY DEF Base, Types, RoomOK
<1>2. chatlog \o Shown(frame, room) \in Seq(Entry)
  BY ShownTypes
<1>3. \/ /\ loggedIn' = TRUE /\ loggingIn' = FALSE
         /\ strays' = IF frame.own THEN strays ELSE strays + 1
      \/ loggedIn' \in {loggedIn, TRUE} /\ UNCHANGED <<loggingIn, strays>>
      \/ UNCHANGED <<loggedIn, loggingIn, strays>>
  BY Zenon DEF Parsed, loginVars
<1>4. chatlog' = chatlog \/ chatlog' = chatlog \o Shown(frame, room)
  BY Zenon DEF Parsed
<1>5. LoginOK'
  <2>1. loggedIn' \in BOOLEAN /\ loggingIn' \in BOOLEAN
    BY <1>1, <1>3, Zenon DEF LoginOK
  <2>2. strays' = strays \/ strays' = strays + 1
    BY <1>3, Zenon
  <2>3. strays' \in Nat
    BY <1>1, <2>2 DEF LoginOK
  <2> QED BY <2>1, <2>3 DEF LoginOK
<1> QED BY <1>1, <1>2, <1>4, <1>5

LEMMA TakeTypes ==
  ASSUME NetOK, NEW n \in 1 .. Len(inbox), Take(n)
  PROVE  NetOK' /\ Head(inbox) \in Arrival /\ Head(inbox).room \in Line /\ Unnamed \in Line
<1>1. inbox \in Seq(Arrival)
  BY DEF NetOK
<1>2. Head(inbox) \in Arrival
  BY <1>1, SMT
<1>3. SubSeq(inbox, n + 1, Len(inbox)) \in Seq(Arrival)
  BY <1>1, SMT
<1>4. RoomNames \subseteq Line /\ Unnamed \in Line
  BY LinesAssumption, SmallLines DEF Line, NonEmpty
<1> QED BY <1>2, <1>3, <1>4 DEF NetOK, Take, Arrival

LEMMA LoopAgainBase ==
  ASSUME Base, LoopAgain, rooms' = rooms, chatlog' \in Seq(Entry)
  PROVE  LoopOK' /\ PlaceInv' /\ RoomOK'
<1>1. /\ pc = "recv" /\ quit' = quit /\ i' = i
      /\ pc' = IF quit THEN "leaving" ELSE "keyboard"
  BY DEF LoopAgain, Goto
<1>2. LoopOK /\ PlaceInv /\ RoomOK
  BY DEF Base, Types
<1>3. pc' \in {"leaving", "keyboard"}
  BY <1>1
<1>4. RoomOK'
  BY <1>2 DEF RoomOK
<1> QED BY <1>1, <1>2, <1>3, <1>4 DEF LoopOK, PlaceInv

(* Steps that send nothing to the server.                                  *)
LEMMA QuietBase ==
  ASSUME Base, NoKey \/ ReadEsc \/ ReadNothing \/ ReadFails \/ AskCredentials
  PROVE  Base'
<1>1. CASE NoKey
  <2>1. pc = "keyboard" /\ Goto("recv") /\ UNCHANGED <<userVars, loginVars, roomVars, netVars, sent, waiting>>
    BY <1>1 DEF NoKey
  <2>2. LoopOK' /\ PlaceInv' /\ RoomOK'
    BY <2>1, GotoBase DEF Base, Types, RoomOK, roomVars
  <2> QED BY <2>1, <2>2 DEF Base, Types, UserOK, LoginOK, NetOK, SentOK, userVars, loginVars, netVars
<1>2. ASSUME ReadKey PROVE UserOK' /\ NetOK' /\ pc = "keyboard" /\ ~loggingIn
  BY <1>2, ReadTypes DEF Base, Types
<1>3. CASE ReadEsc
  BY <1>2, <1>3 DEF ReadEsc, Base, Types, LoginOK, RoomOK, LoopOK, PlaceInv, SentOK,
     loginVars, roomVars
<1>4. CASE ReadNothing
  <2>1. ReadKey /\ Goto("recv") /\ UNCHANGED <<loginVars, roomVars, sent, waiting>>
    BY <1>4 DEF ReadNothing
  <2>2. LoopOK' /\ PlaceInv' /\ RoomOK'
    BY <2>1, <1>2, GotoBase DEF Base, Types, RoomOK, roomVars
  <2> QED BY <2>1, <2>2, <1>2 DEF Base, Types, LoginOK, SentOK, loginVars
<1>5. CASE ReadFails
  <2>1. ReadKey /\ Goto("failed") /\ UNCHANGED <<loginVars, roomVars, sent, waiting>>
    BY <1>5 DEF ReadFails, SendFails
  <2>2. LoopOK' /\ PlaceInv' /\ RoomOK'
    BY <2>1, <1>2, GotoBase DEF Base, Types, RoomOK, roomVars
  <2> QED BY <2>1, <2>2, <1>2 DEF Base, Types, LoginOK, SentOK, loginVars
<1>6. CASE AskCredentials
  <2>1. PICK place \in {"login", "register"} :
          ReadKey /\ Goto(place) /\ UNCHANGED <<loginVars, roomVars, sent, waiting>>
    BY <1>6 DEF AskCredentials
  <2>2. LoopOK' /\ PlaceInv' /\ RoomOK'
    BY <2>1, <1>2, GotoBase DEF Base, Types, RoomOK, roomVars, loginVars
  <2> QED BY <2>1, <2>2, <1>2 DEF Base, Types, LoginOK, SentOK, loginVars
<1> QED BY <1>1, <1>3, <1>4, <1>5, <1>6

(* The commands that send.                                                 *)
LEMMA CommandBase ==
  ASSUME Base, JoinRoom \/ SendMessage \/ LeaveRoom
  PROVE  Base'
<1> DEFINE Kept == UserOK' /\ NetOK' /\ LoginOK' /\ SentOK'
<1>1. /\ UserOK /\ LoginOK /\ RoomOK /\ LoopOK /\ NetOK /\ SentOK /\ PlaceInv
  BY DEF Base, Types
<1>2. ReadKey /\ Goto("recv") /\ UNCHANGED loginVars
  BY DEF JoinRoom, SendMessage, LeaveRoom
<1>3. UserOK' /\ NetOK' /\ pc = "keyboard" /\ ~loggingIn
  BY <1>1, <1>2, ReadTypes
<1>4. /\ Argument \in NonEmpty /\ FirstWord(Argument) \in NonEmpty
      /\ AfterFirst(Argument) \in NonEmpty
      /\ <<>> \in Line
  BY <1>1, <1>2, ReadLine, SmallLines DEF ReadKey
<1>5. PICK type \in ClientSends, room \in Line, text \in Line : Sends(type, room, text)
  BY <1>4, ChatTypesAreSent DEF JoinRoom, SendMessage, LeaveRoom, NonEmpty
<1>6. SentOK'
  BY <1>1, <1>5, SentFrame
<1>7. LoginOK' /\ ~loggingIn'
  BY <1>1, <1>2, <1>3 DEF LoginOK, loginVars
<1>8. i = 0 /\ i' = 0 /\ pc' = "recv" /\ quit' = quit
  BY <1>1, <1>2, <1>3 DEF Goto, PlaceInv
<1>9. chatlog' = chatlog /\ rooms' \in Seq(NonEmpty)
  <2>1. CASE JoinRoom
    BY <1>1, <1>4, <2>1, AppendProperties DEF JoinRoom, RoomOK
  <2>2. CASE SendMessage
    BY <1>1, <2>2 DEF SendMessage, roomVars, RoomOK
  <2>3. CASE LeaveRoom
    <3>1. PICK p \in Places(Argument) : rooms' = Without(rooms, p)
      BY <2>3 DEF LeaveRoom
    <3>2. p \in 1 .. Len(rooms) /\ rooms \in Seq(NonEmpty)
      BY <1>1 DEF Places, RoomOK
    <3>3. Without(rooms, p) \in Seq(NonEmpty)
      BY <3>2, WithoutPlace
    <3> QED BY <2>3, <3>1, <3>3 DEF LeaveRoom
  <2> QED BY <2>1, <2>2, <2>3
<1>10. RoomOK' /\ LoopOK' /\ PlaceInv'
  <2>1. Len(rooms') \in Nat
    BY <1>9, LenProperties
  <2>2. RoomOK'
    BY <1>1, <1>9 DEF RoomOK
  <2>3. LoopOK'
    BY <1>1, <1>8, <2>1 DEF LoopOK
  <2>4. PlaceInv'
    BY <1>8 DEF PlaceInv
  <2> QED BY <2>2, <2>3, <2>4
<1> QED BY <1>3, <1>6, <1>7, <1>10 DEF Base, Types

LEMMA RequestBase ==
  ASSUME Base, SendRequest \/ RequestFails
  PROVE  Base'
<1>1. /\ UserOK /\ LoginOK /\ RoomOK /\ LoopOK /\ NetOK /\ SentOK /\ PlaceInv
  BY DEF Base, Types
<1>2. CASE SendRequest
  <2>1. PICK n \in 0 .. Len(keys) : keys' = SubSeq(keys, n + 1, Len(keys))
    BY <1>2 DEF SendRequest
  <2>2. UserOK'
    <3>1. keys' \in Seq(NonEmpty)
      BY <1>1, <2>1, LeftOver DEF UserOK
    <3> QED BY <1>1, <1>2, <3>1 DEF UserOK, SendRequest
  <2>3. PICK type \in ClientSends : Sends(type, Unnamed, <<>>)
    BY <1>2, ChatTypesAreSent DEF SendRequest
  <2>4. SentOK'
    BY <1>1, <2>3, SentFrame, SmallLines DEF NonEmpty
  <2>5. LoginOK' /\ NetOK'
    BY <1>1, <1>2 DEF SendRequest, LoginOK, NetOK, netVars
  <2>6. RoomOK' /\ LoopOK' /\ PlaceInv'
    <3>1. Goto("recv") /\ rooms' = rooms /\ chatlog' = chatlog /\ AtPrompt
      BY <1>2 DEF SendRequest, roomVars
    <3> QED BY <1>1, <3>1, GotoBase DEF AtPrompt, RoomOK
  <2> QED BY <2>2, <2>4, <2>5, <2>6 DEF Base, Types
<1>3. CASE RequestFails
  <2>1. /\ Goto("failed") /\ AtPrompt
        /\ UNCHANGED <<userVars, netVars, roomVars, loginVars, sent, waiting>>
    BY <1>3 DEF RequestFails, SendFails
  <2>2. RoomOK' /\ LoopOK' /\ PlaceInv'
    BY <1>1, <2>1, GotoBase DEF AtPrompt, RoomOK, roomVars
  <2> QED BY <1>1, <2>1, <2>2 DEF Base, Types, UserOK, LoginOK, NetOK, SentOK,
          userVars, loginVars, netVars
<1> QED BY <1>2, <1>3

LEMMA RecvBase ==
  ASSUME Base, \/ \E n \in 1 .. Len(inbox) : Recv(n) \/ RecvTorn(n) \/ RecvCrash(n)
               \/ RecvNothing \/ RecvError
  PROVE  Base'
<1>1. /\ UserOK /\ LoginOK /\ RoomOK /\ LoopOK /\ NetOK /\ SentOK /\ PlaceInv
  BY DEF Base, Types
<1>2. ASSUME NEW n \in 1 .. Len(inbox), Recv(n) \/ RecvTorn(n)
      PROVE  Base'
  <2>1. LoopAgain /\ Take(n) /\ UNCHANGED <<userVars, rooms, sent, waiting>>
    BY <1>2 DEF Recv, RecvTorn
  <2>2. NetOK' /\ Head(inbox) \in Arrival /\ Head(inbox).room \in Line /\ Unnamed \in Line
    BY <1>1, <2>1, TakeTypes
  <2>3. \E type : \E room \in Line : Parsed(Head(inbox), type, room)
    BY <1>2, <2>2 DEF Recv, RecvTorn
  <2>4. LoginOK' /\ chatlog' \in Seq(Entry)
    BY <2>2, <2>3, ParsedTypes
  <2>5. RoomOK' /\ LoopOK' /\ PlaceInv'
    BY <2>1, <2>4, LoopAgainBase
  <2> QED BY <1>1, <2>1, <2>2, <2>4, <2>5 DEF Base, Types, UserOK, SentOK, userVars
<1>3. ASSUME NEW n \in 1 .. Len(inbox), RecvCrash(n)
      PROVE  Base'
  <2>1. /\ pc = "recv" /\ Take(n) /\ Goto("crashed")
        /\ UNCHANGED <<userVars, loginVars, roomVars, sent, waiting>>
    BY <1>3 DEF RecvCrash
  <2>2. NetOK'
    BY <1>1, <2>1, TakeTypes
  <2>3. RoomOK' /\ LoopOK' /\ PlaceInv'
    BY <1>1, <2>1, GotoBase DEF RoomOK, roomVars
  <2> QED BY <1>1, <2>1, <2>2, <2>3 DEF Base, Types, UserOK, LoginOK, SentOK, userVars, loginVars
<1>4. CASE RecvNothing
  <2>1. LoopAgain /\ UNCHANGED <<userVars, loginVars, roomVars, netVars, sent, waiting>>
    BY <1>4 DEF RecvNothing
  <2>2. RoomOK' /\ LoopOK' /\ PlaceInv'
    BY <1>1, <2>1, LoopAgainBase DEF RoomOK, roomVars
  <2> QED BY <1>1, <2>1, <2>2 DEF Base, Types, UserOK, LoginOK, NetOK, SentOK,
          userVars, loginVars, netVars
<1>5. CASE RecvError
  BY <1>1, <1>5 DEF RecvError, Base, Types, UserOK, LoginOK, RoomOK, LoopOK, NetOK, SentOK,
     PlaceInv, userVars, loginVars, roomVars, netVars
<1> QED BY <1>2, <1>3, <1>4, <1>5

LEMMA EndBase ==
  ASSUME Base, LeaveNext \/ LeaveFails \/ Shutdown
  PROVE  Base'
<1>1. /\ UserOK /\ LoginOK /\ RoomOK /\ LoopOK /\ NetOK /\ SentOK /\ PlaceInv
  BY DEF Base, Types
<1>2. CASE LeaveNext
  <2>1. /\ pc = "leaving" /\ i < Len(rooms) /\ Sends("LEAVE_ROOM", rooms[i + 1], <<>>)
        /\ i' = i + 1
        /\ UNCHANGED <<quit, pc, userVars, loginVars, roomVars, netVars>>
    BY <1>2 DEF LeaveNext
  <2>2. rooms[i + 1] \in Line /\ <<>> \in Line
    <3>1. i + 1 \in 1 .. Len(rooms)
      BY <1>1, <2>1 DEF LoopOK, RoomOK
    <3>2. rooms[i + 1] \in NonEmpty
      BY <1>1, <3>1 DEF RoomOK
    <3> QED BY <3>2, SmallLines DEF NonEmpty
  <2>3. SentOK'
    BY <1>1, <2>1, <2>2, SentFrame, ChatTypesAreSent
  <2>4. LoopOK' /\ PlaceInv' /\ RoomOK'
    BY <1>1, <2>1 DEF LoopOK, PlaceInv, RoomOK, roomVars
  <2> QED BY <1>1, <2>1, <2>3, <2>4 DEF Base, Types, UserOK, LoginOK, NetOK,
          userVars, loginVars, netVars
<1>3. CASE LeaveFails
  <2>1. /\ Goto("failed")
        /\ UNCHANGED <<userVars, netVars, roomVars, loginVars, sent, waiting>>
    BY <1>3 DEF LeaveFails, SendFails
  <2>2. RoomOK' /\ LoopOK' /\ PlaceInv'
    BY <1>1, <2>1, GotoBase DEF RoomOK, roomVars
  <2> QED BY <1>1, <2>1, <2>2 DEF Base, Types, UserOK, LoginOK, NetOK, SentOK,
          userVars, loginVars, netVars
<1>4. CASE Shutdown
  <2>1. /\ i >= Len(rooms) /\ pc' \in {"failed", "done"} /\ quit' = quit /\ i' = i
        /\ UNCHANGED <<userVars, loginVars, roomVars, netVars, sent, waiting>>
    BY <1>4 DEF Shutdown, Goto
  <2>2. i = Len(rooms)
    BY <1>1, <2>1 DEF LoopOK, RoomOK
  <2> QED BY <1>1, <2>1, <2>2 DEF Base, Types, UserOK, LoginOK, RoomOK, LoopOK, NetOK, SentOK,
          PlaceInv, userVars, loginVars, roomVars, netVars
<1> QED BY <1>2, <1>3, <1>4

LEMMA OutsideBase ==
  ASSUME Base, Outside
  PROVE  Base'
<1>1. /\ UserOK /\ LoginOK /\ RoomOK /\ LoopOK /\ NetOK /\ SentOK /\ PlaceInv
  BY DEF Base, Types
<1>2. UNCHANGED <<loginVars, roomVars, loopVars, sent>> /\ waiting' \in Nat
  <2>1. CASE ServerSends
    <3>1. PICK own \in BOOLEAN : /\ own => waiting > 0
                                /\ waiting' = IF own THEN waiting - 1 ELSE waiting
      BY <2>1, Zenon DEF ServerSends
    <3>2. waiting' \in Nat
      BY <1>1, <3>1 DEF SentOK
    <3> QED BY <3>2 DEF Outside
  <2> QED BY <1>1, <2>1 DEF Outside, SentOK
<1>3. LoginOK' /\ RoomOK' /\ LoopOK' /\ SentOK' /\ PlaceInv'
  BY <1>1, <1>2 DEF LoginOK, RoomOK, LoopOK, SentOK, PlaceInv, loginVars, roomVars, loopVars
<1>4. UserOK' /\ NetOK'
  <2>1. CASE Type
    <3>1. PICK line \in NonEmpty : keys' = Append(keys, line)
      BY <2>1, SmallLines, LinesAssumption DEF Type, NonEmpty, Line
    <3>2. keys' \in Seq(NonEmpty)
      BY <1>1, <3>1, AppendProperties DEF UserOK
    <3>3. typed' \in 0 .. MaxLines
      BY <1>1, <2>1, ClientBoundsAssumption DEF UserOK, Type
    <3> QED BY <1>1, <2>1, <3>2, <3>3 DEF UserOK, NetOK, Type, netVars
  <2>2. CASE ServerSends
    <3>1. PICK type \in Inbound, room \in RoomNames \cup {Unnamed}, own \in BOOLEAN :
            inbox' = Append(inbox, [type |-> type, room |-> room, own |-> own,
                                    number |-> arrived + 1])
      BY <2>2, Zenon DEF ServerSends
    <3>2. arrived + 1 \in 1 .. MaxFrames /\ arrived' = arrived + 1
      BY <1>1, <2>2, ClientBoundsAssumption DEF NetOK, ServerSends
    <3>3. [type |-> type, room |-> room, own |-> own, number |-> arrived + 1] \in Arrival
      BY <3>2 DEF Arrival
    <3>4. inbox' \in Seq(Arrival)
      BY <1>1, <3>1, <3>3, AppendProperties DEF NetOK
    <3>5. arrived' \in 0 .. MaxFrames
      BY <3>2, ClientBoundsAssumption
    <3> QED BY <1>1, <2>2, <3>4, <3>5 DEF UserOK, NetOK, ServerSends, userVars
  <2>3. CASE ServerCloses \/ Reset
    BY <1>1, <2>3, EmptySeq DEF UserOK, NetOK, ServerCloses, Reset, userVars
  <2> QED BY <2>1, <2>2, <2>3 DEF Outside
<1> QED BY <1>3, <1>4 DEF Base, Types

LEMMA NextBase == ASSUME Base, [Next]_vars PROVE Base'
<1>1. CASE Client
  BY <1>1, QuietBase, CommandBase, RecvBase, EndBase DEF Client
<1>2. CASE SendRequest \/ RequestFails
  BY <1>2, RequestBase
<1>3. CASE Outside
  BY <1>3, OutsideBase
<1>4. CASE UNCHANGED vars
  BY <1>4 DEF vars, userVars, loginVars, roomVars, loopVars, netVars,
     Base, Types, UserOK, LoginOK, RoomOK, LoopOK, NetOK, SentOK, PlaceInv
<1> QED BY <1>1, <1>2, <1>3, <1>4 DEF Next

LEMMA BaseTypes == ASSUME Base PROVE TypeOK
<1>1. NonEmpty \subseteq Line
  BY DEF NonEmpty
<1>2. Seq(NonEmpty) \subseteq Seq(Line)
  BY <1>1, SMT
<1> QED BY <1>2 DEF TypeOK, Base, Types, UserOK, LoginOK, RoomOK, LoopOK, NetOK, SentOK,
        Frame, Arrival, Entry, NonEmpty

(* The variables of the client keep their types, whatever the user types,  *)
(* the server sends and the connection does.                               *)
THEOREM ClientTypes == Spec => []TypeOK
<1>1. Init => Base
  BY InitBase
<1>2. Base /\ [Next]_vars => Base'
  BY NextBase
<1>3. Base => TypeOK
  BY BaseTypes
<1> QED BY <1>1, <1>2, <1>3, PTL DEF Spec

-----------------------------------------------------------------------------
(***************************************************************************)
(* The wire and the rooms.                                                 *)
(***************************************************************************)
SentIs(type, room) ==
  \E text \in Line :
    sent' = Append(sent, [type |-> type, room |-> room, text |-> text])

(* What a step may do to sent, rooms and the index of the last loop.       *)
Quiet == sent' = sent /\ rooms' = rooms /\ i' = i
Joins ==
  \E room \in NonEmpty :
    /\ ~IsIn(room) /\ SentIs("JOIN_ROOM", room)
    /\ rooms' = Append(rooms, room) /\ i = 0 /\ i' = 0
Speaks ==
  \E room \in NonEmpty :
    /\ IsIn(room) /\ SentIs("SEND_MESSAGE", room)
    /\ rooms' = rooms /\ i = 0 /\ i' = 0
Leaves ==
  \E p \in 1 .. Len(rooms) :
    /\ SentIs("LEAVE_ROOM", rooms[p])
    /\ rooms' = Without(rooms, p) /\ i = 0 /\ i' = 0
AsksLogin ==
  /\ \E type \in AuthTypes : SentIs(type, Unnamed)
  /\ rooms' = rooms /\ i' = i
LeavesAtEnd ==
  /\ i < Len(rooms) /\ SentIs("LEAVE_ROOM", rooms[i + 1])
  /\ rooms' = rooms /\ i' = i + 1

LEMMA StepMoves ==
  ASSUME Base, [Next]_vars
  PROVE  Quiet \/ Joins \/ Speaks \/ Leaves \/ AsksLogin \/ LeavesAtEnd
<1>1. /\ UserOK /\ RoomOK /\ LoopOK /\ PlaceInv
  BY DEF Base, Types
<1>2. ASSUME NEW type, NEW room, NEW text \in Line, Sends(type, room, text)
      PROVE  SentIs(type, room)
  BY <1>2 DEF Sends, ToServer, SentIs
<1>3. ASSUME JoinRoom \/ SendMessage \/ LeaveRoom
      PROVE  /\ Argument \in NonEmpty /\ FirstWord(Argument) \in NonEmpty
             /\ AfterFirst(Argument) \in Line /\ <<>> \in Line
             /\ i = 0 /\ i' = 0
  <2>1. KeyPressed /\ Goto("recv")
    BY <1>3 DEF JoinRoom, SendMessage, LeaveRoom, ReadKey
  <2>2. i = 0 /\ i' = 0
    BY <1>1, <2>1 DEF KeyPressed, PlaceInv, Goto
  <2> QED BY <1>1, <2>1, <2>2, ReadLine, SmallLines DEF NonEmpty
<1>4. CASE JoinRoom
  <2>1. SentIs("JOIN_ROOM", Argument)
    BY <1>2, <1>3, <1>4, Zenon DEF JoinRoom
  <2> QED BY <1>3, <1>4, <2>1, Zenon DEF JoinRoom, Joins
<1>5. CASE SendMessage
  <2>1. SentIs("SEND_MESSAGE", FirstWord(Argument))
    BY <1>2, <1>3, <1>5, Zenon DEF SendMessage
  <2>2. rooms' = rooms
    BY <1>5 DEF SendMessage, roomVars
  <2> QED BY <1>3, <1>5, <2>1, <2>2, Zenon DEF SendMessage, Speaks
<1>6. CASE LeaveRoom
  <2>1. SentIs("LEAVE_ROOM", Argument)
    BY <1>2, <1>3, <1>6, Zenon DEF LeaveRoom
  <2>2. PICK p \in Places(Argument) : rooms' = Without(rooms, p)
    BY <1>6 DEF LeaveRoom
  <2>3. p \in 1 .. Len(rooms) /\ rooms[p] = Argument
    BY DEF Places
  <2>4. SentIs("LEAVE_ROOM", rooms[p])
    BY <2>1, <2>3
  <2>5. p \in 1 .. Len(rooms) /\ i = 0 /\ i' = 0
    BY <1>3, <1>6, <2>3
  <2> QED BY <2>2, <2>4, <2>5, Zenon DEF Leaves
<1>7. CASE SendRequest
  <2>1. \E type \in AuthTypes : Sends(type, Unnamed, <<>>)
    BY <1>7 DEF SendRequest, AuthTypes
  <2>2. \E type \in AuthTypes : SentIs(type, Unnamed)
    BY <1>2, <2>1, SmallLines, Zenon
  <2> QED BY <1>7, <2>2 DEF SendRequest, AsksLogin, Goto, roomVars
<1>8. CASE LeaveNext
  <2>1. SentIs("LEAVE_ROOM", rooms[i + 1])
    BY <1>2, <1>8, SmallLines, Zenon DEF LeaveNext
  <2> QED BY <1>8, <2>1 DEF LeaveNext, LeavesAtEnd, roomVars
<1>9. CASE \/ NoKey \/ ReadEsc \/ ReadNothing \/ ReadFails \/ AskCredentials
           \/ RecvNothing \/ RecvError \/ LeaveFails \/ Shutdown \/ RequestFails
  BY <1>9, Zenon DEF NoKey, ReadEsc, ReadNothing, ReadFails, AskCredentials, RecvNothing,
     RecvError, LeaveFails, Shutdown, RequestFails, SendFails, LoopAgain, Goto, roomVars, Quiet
<1>10. ASSUME NEW n \in 1 .. Len(inbox), Recv(n) \/ RecvTorn(n) \/ RecvCrash(n)
       PROVE  Quiet
  BY <1>10, Zenon DEF Recv, RecvTorn, RecvCrash, LoopAgain, Goto, roomVars, Quiet
<1>11. CASE Outside
  BY <1>11, Zenon DEF Outside, roomVars, loopVars, Quiet
<1>12. CASE UNCHANGED vars
  BY <1>12, Zenon DEF vars, roomVars, loopVars, Quiet
<1>13. CASE Client
  <2>1. CASE \E n \in 1 .. Len(inbox) : Recv(n) \/ RecvTorn(n) \/ RecvCrash(n)
    BY <1>10, <2>1, Zenon
  <2> QED BY <1>4, <1>5, <1>6, <1>8, <1>9, <1>13, <2>1, Zenon DEF Client
<1>14. CASE RequestFails
  BY <1>9, <1>14, Zenon
<1> QED BY <1>7, <1>11, <1>12, <1>13, <1>14, Zenon DEF Next

(* An appended frame leaves the earlier ones, and what was true before     *)
(* them, as they were.                                                     *)
LEMMA SentGrows ==
  ASSUME SentOK, NEW type \in ClientSends, NEW room \in Line, LoginOK, SentIs(type, room)
  PROVE  /\ Len(sent') = Len(sent) + 1
         /\ \A k \in 1 .. Len(sent) : sent'[k] = sent[k]
         /\ sent'[Len(sent) + 1].type = type
         /\ sent'[Len(sent) + 1].room = room
<1>1. PICK text \in Line :
        sent' = Append(sent, [type |-> type, room |-> room, text |-> text])
  BY DEF SentIs
<1> DEFINE f == [type |-> type, room |-> room, text |-> text]
<1>2. f \in Frame /\ f.type = type /\ f.room = room
  BY DEF Frame
<1>3. sent' = Append(sent, f)
  BY <1>1
<1> HIDE DEF f
<1>4. /\ Len(sent') = Len(sent) + 1
      /\ \A k \in 1 .. Len(sent) : sent'[k] = sent[k]
      /\ sent'[Len(sent) + 1] = f
  BY <1>2, <1>3, AppendProperties DEF SentOK
<1> QED BY <1>2, <1>4

LEMMA InsideKept ==
  ASSUME SentOK, NEW type \in ClientSends, NEW r \in Line, LoginOK, SentIs(type, r),
         NEW n \in 1 .. Len(sent) + 1, NEW room
  PROVE  InsideBefore(n, room)' <=> InsideBefore(n, room)
<1>1. \A k \in 1 .. n - 1 : k \in 1 .. Len(sent) /\ sent'[k] = sent[k]
  BY SentGrows DEF SentOK
<1>2. \A k \in 1 .. n - 1 : \A t : IsFrame(k, t, room)' <=> IsFrame(k, t, room)
  BY <1>1 DEF IsFrame
<1>3. \A a \in 1 .. n - 1 : \A b \in a + 1 .. n - 1 : b \in 1 .. n - 1
  OBVIOUS
<1> QED BY <1>2, <1>3 DEF InsideBefore

LEMMA InsideNext ==
  ASSUME SentOK, NEW type \in ClientSends, NEW r \in Line, LoginOK, SentIs(type, r), NEW room
  PROVE  InsideBefore(Len(sent) + 1, room)'
           <=> \/ type = "JOIN_ROOM" /\ r = room
               \/ InsideBefore(Len(sent) + 1, room) /\ ~(type = "LEAVE_ROOM" /\ r = room)
<1>0. Len(sent) \in Nat
  BY DEF SentOK
<1> PICK m \in Nat : m = Len(sent) + 1
  BY <1>0
<1>1. m \in Nat /\ m >= 1 /\ Len(sent') = m
  BY <1>0, SentGrows
<1>2. \A k \in 1 .. m - 1 : \A t : IsFrame(k, t, room)' <=> IsFrame(k, t, room)
  BY <1>1, SentGrows DEF IsFrame
<1>3. \A t : IsFrame(m, t, room)' <=> t = type /\ r = room
  BY <1>1, SentGrows DEF IsFrame
<1>4. InsideBefore(Len(sent) + 1, room)'
        <=> \E a \in 1 .. m : /\ IsFrame(a, "JOIN_ROOM", room)'
                              /\ \A b \in a + 1 .. m : ~IsFrame(b, "LEAVE_ROOM", room)'
  BY <1>1 DEF InsideBefore
<1>5. InsideBefore(Len(sent) + 1, room)
        <=> \E a \in 1 .. m - 1 : /\ IsFrame(a, "JOIN_ROOM", room)
                                  /\ \A b \in a + 1 .. m - 1 : ~IsFrame(b, "LEAVE_ROOM", room)
  BY <1>1 DEF InsideBefore
<1> QED BY <1>1, <1>2, <1>3, <1>4, <1>5

WireInv ==
  \A room \in Line :
    InsideBefore(Len(sent) + 1, room) <=> \E k \in i + 1 .. Len(rooms) : rooms[k] = room

MemberInv == Distinct /\ WireInv /\ WireIsOrderly

LEMMA OrderlyNext ==
  ASSUME SentOK, LoginOK, WireIsOrderly,
         NEW type \in ClientSends, NEW r \in Line, SentIs(type, r),
         type = "JOIN_ROOM" => ~InsideBefore(Len(sent) + 1, r),
         type \in {"LEAVE_ROOM", "SEND_MESSAGE"} => InsideBefore(Len(sent) + 1, r)
  PROVE  WireIsOrderly'
<1> SUFFICES ASSUME NEW k \in 1 .. Len(sent')
             PROVE  /\ sent'[k].type = "JOIN_ROOM" => ~InsideBefore(k, sent[k].room)'
                    /\ sent'[k].type \in {"LEAVE_ROOM", "SEND_MESSAGE"}
                         => InsideBefore(k, sent[k].room)'
  BY DEF WireIsOrderly
<1>1. Len(sent') = Len(sent) + 1 /\ Len(sent) \in Nat
  BY SentGrows DEF SentOK
<1>2. k \in 1 .. Len(sent) + 1
  BY <1>1
<1>3. \A room : InsideBefore(k, room)' <=> InsideBefore(k, room)
  BY <1>2, InsideKept
<1>4. CASE k \in 1 .. Len(sent)
  <2>1. sent'[k] = sent[k]
    BY <1>4, SentGrows
  <2> QED BY <1>3, <1>4, <2>1 DEF WireIsOrderly
<1>5. CASE k = Len(sent) + 1
  <2>1. sent'[k].type = type /\ sent'[k].room = r
    BY <1>5, SentGrows
  <2> QED BY <1>3, <1>5, <2>1
<1> QED BY <1>2, <1>4, <1>5

LEMMA MemberQuiet ==
  ASSUME MemberInv, Quiet
  PROVE  MemberInv'
<1>1. \A n, room : InsideBefore(n, room)' <=> InsideBefore(n, room)
  BY DEF Quiet, InsideBefore, IsFrame
<1> QED BY <1>1 DEF MemberInv, Distinct, WireInv, WireIsOrderly, Quiet

LEMMA MemberJoins ==
  ASSUME Base, MemberInv, Joins
  PROVE  MemberInv'
<1>1. RoomOK /\ SentOK /\ LoginOK /\ Distinct /\ WireInv /\ WireIsOrderly
  BY DEF Base, Types, MemberInv
<1>2. PICK r \in NonEmpty :
        /\ ~IsIn(r) /\ SentIs("JOIN_ROOM", r)
        /\ rooms' = Append(rooms, r) /\ i = 0 /\ i' = 0
  BY DEF Joins
<1>3. r \in Line /\ "JOIN_ROOM" \in ClientSends
  BY ChatTypesAreSent DEF NonEmpty
<1>4. /\ Len(rooms) \in Nat /\ Len(rooms') = Len(rooms) + 1
      /\ \A k \in 1 .. Len(rooms) : rooms'[k] = rooms[k]
      /\ rooms'[Len(rooms) + 1] = r
  BY <1>1, <1>2, AppendProperties DEF RoomOK
<1>5. \A k \in 1 .. Len(rooms) : rooms[k] # r
  BY <1>2 DEF IsIn, Places
<1>6. Distinct'
  BY <1>1, <1>4, <1>5 DEF Distinct
<1>7. WireInv'
  <2> SUFFICES ASSUME NEW room \in Line
               PROVE  InsideBefore(Len(sent) + 1, room)'
                        <=> \E k \in i' + 1 .. Len(rooms') : rooms'[k] = room
    BY DEF WireInv
  <2>1. InsideBefore(Len(sent) + 1, room)' <=> r = room \/ InsideBefore(Len(sent) + 1, room)
    BY <1>1, <1>2, <1>3, InsideNext
  <2>2. InsideBefore(Len(sent) + 1, room) <=> \E k \in 1 .. Len(rooms) : rooms[k] = room
    BY <1>1, <1>2 DEF WireInv
  <2> QED BY <1>2, <1>4, <2>1, <2>2
<1>8. ~InsideBefore(Len(sent) + 1, r)
  BY <1>1, <1>2, <1>3, <1>5 DEF WireInv
<1>9. WireIsOrderly'
  BY <1>1, <1>2, <1>3, <1>8, OrderlyNext
<1> QED BY <1>6, <1>7, <1>9 DEF MemberInv

(* A frame that is neither JOIN nor LEAVE moves nobody.                    *)
LEMMA MemberStays ==
  ASSUME Base, MemberInv, NEW type \in ClientSends, NEW r \in Line, SentIs(type, r),
         type \notin {"JOIN_ROOM", "LEAVE_ROOM"},
         type = "SEND_MESSAGE" => InsideBefore(Len(sent) + 1, r),
         rooms' = rooms, i' = i
  PROVE  MemberInv'
<1>1. RoomOK /\ SentOK /\ LoginOK /\ Distinct /\ WireInv /\ WireIsOrderly
  BY DEF Base, Types, MemberInv
<1>2. \A room : InsideBefore(Len(sent) + 1, room)' <=> InsideBefore(Len(sent) + 1, room)
  BY <1>1, InsideNext
<1>3. WireInv'
  BY <1>1, <1>2 DEF WireInv
<1>4. WireIsOrderly'
  BY <1>1, OrderlyNext
<1> QED BY <1>1, <1>3, <1>4 DEF MemberInv, Distinct

LEMMA MemberLeaves ==
  ASSUME Base, MemberInv, Leaves
  PROVE  MemberInv'
<1>1. RoomOK /\ SentOK /\ LoginOK /\ Distinct /\ WireInv /\ WireIsOrderly
  BY DEF Base, Types, MemberInv
<1>2. PICK p \in 1 .. Len(rooms) :
        /\ SentIs("LEAVE_ROOM", rooms[p])
        /\ rooms' = Without(rooms, p) /\ i = 0 /\ i' = 0
  BY DEF Leaves
<1>3. rooms \in Seq(NonEmpty) /\ Len(rooms) \in Nat
  BY <1>1 DEF RoomOK
<1>4. rooms[p] \in Line /\ "LEAVE_ROOM" \in ClientSends
  BY <1>3, ChatTypesAreSent DEF NonEmpty
<1>5. /\ Len(rooms') = Len(rooms) - 1
      /\ \A k \in 1 .. Len(rooms) - 1 :
           rooms'[k] = IF k < p THEN rooms[k] ELSE rooms[k + 1]
  BY <1>2, <1>3, WithoutPlace
<1>6. Distinct'
  <2> SUFFICES ASSUME NEW j \in 1 .. Len(rooms'), NEW k \in 1 .. Len(rooms'),
                      rooms'[j] = rooms'[k]
               PROVE  j = k
    BY DEF Distinct
  <2>1. j \in 1 .. Len(rooms) - 1 /\ k \in 1 .. Len(rooms) - 1
    BY <1>5
  <2> QED BY <1>1, <1>3, <1>5, <2>1 DEF Distinct
<1>7. WireInv'
  <2> SUFFICES ASSUME NEW room \in Line
               PROVE  InsideBefore(Len(sent) + 1, room)'
                        <=> \E k \in i' + 1 .. Len(rooms') : rooms'[k] = room
    BY DEF WireInv
  <2>1. InsideBefore(Len(sent) + 1, room)'
          <=> InsideBefore(Len(sent) + 1, room) /\ rooms[p] # room
    BY <1>1, <1>2, <1>4, InsideNext
  <2>2. InsideBefore(Len(sent) + 1, room) <=> \E k \in 1 .. Len(rooms) : rooms[k] = room
    BY <1>1, <1>2 DEF WireInv
  <2>3. ASSUME NEW k \in 1 .. Len(rooms), rooms[k] = room, rooms[p] # room
        PROVE  \E m \in 1 .. Len(rooms) - 1 : rooms'[m] = room
    <3>1. CASE k < p
      <4>1. k \in 1 .. Len(rooms) - 1 /\ rooms'[k] = rooms[k]
        BY <1>3, <1>5, <3>1
      <4> QED BY <2>3, <4>1
    <3>2. CASE k > p
      <4>1. k - 1 \in 1 .. Len(rooms) - 1 /\ ~(k - 1 < p) /\ (k - 1) + 1 = k
        BY <1>3, <3>2
      <4>2. rooms'[k - 1] = rooms[k]
        BY <1>5, <4>1
      <4> QED BY <2>3, <4>1, <4>2
    <3>3. k # p
      BY <2>3
    <3> QED BY <1>3, <3>1, <3>2, <3>3
  <2>4. ASSUME NEW m \in 1 .. Len(rooms) - 1, rooms'[m] = room
        PROVE  /\ \E k \in 1 .. Len(rooms) : rooms[k] = room
               /\ rooms[p] # room
    <3>1. PICK k \in 1 .. Len(rooms) : k # p /\ rooms'[m] = rooms[k]
      BY <1>3, <1>5
    <3> QED BY <1>1, <2>4, <3>1 DEF Distinct
  <2> QED BY <1>2, <1>5, <2>1, <2>2, <2>3, <2>4
<1>8. InsideBefore(Len(sent) + 1, rooms[p])
  BY <1>1, <1>2, <1>4 DEF WireInv
<1>9. WireIsOrderly'
  BY <1>1, <1>2, <1>4, <1>8, OrderlyNext
<1> QED BY <1>6, <1>7, <1>9 DEF MemberInv

LEMMA MemberEnds ==
  ASSUME Base, MemberInv, LeavesAtEnd
  PROVE  MemberInv'
<1>1. RoomOK /\ LoopOK /\ SentOK /\ LoginOK /\ Distinct /\ WireInv /\ WireIsOrderly
  BY DEF Base, Types, MemberInv
<1>2. /\ i < Len(rooms) /\ SentIs("LEAVE_ROOM", rooms[i + 1])
      /\ rooms' = rooms /\ i' = i + 1
  BY DEF LeavesAtEnd
<1>3. i \in Nat /\ Len(rooms) \in Nat /\ i + 1 \in 1 .. Len(rooms)
  BY <1>1, <1>2 DEF LoopOK, RoomOK
<1>4. rooms[i + 1] \in Line /\ "LEAVE_ROOM" \in ClientSends
  BY <1>1, <1>3, ChatTypesAreSent DEF RoomOK, NonEmpty
<1>5. WireInv'
  <2> SUFFICES ASSUME NEW room \in Line
               PROVE  InsideBefore(Len(sent) + 1, room)'
                        <=> \E k \in i' + 1 .. Len(rooms') : rooms'[k] = room
    BY DEF WireInv
  <2>1. InsideBefore(Len(sent) + 1, room)'
          <=> InsideBefore(Len(sent) + 1, room) /\ rooms[i + 1] # room
    BY <1>1, <1>2, <1>4, InsideNext
  <2>2. InsideBefore(Len(sent) + 1, room)
          <=> \E k \in i + 1 .. Len(rooms) : rooms[k] = room
    BY <1>1 DEF WireInv
  <2>3. (\E k \in i + 1 .. Len(rooms) : rooms[k] = room) /\ rooms[i + 1] # room
          <=> \E k \in i + 2 .. Len(rooms) : rooms[k] = room
    <3>1. ASSUME NEW k \in i + 1 .. Len(rooms), rooms[k] = room, rooms[i + 1] # room
          PROVE  k \in i + 2 .. Len(rooms)
      BY <1>3, <3>1
    <3>2. ASSUME NEW k \in i + 2 .. Len(rooms), rooms[k] = room
          PROVE  k \in i + 1 .. Len(rooms) /\ rooms[i + 1] # room
      <4>1. k \in 1 .. Len(rooms) /\ k # i + 1
        BY <1>3
      <4> QED BY <1>1, <1>3, <3>2, <4>1 DEF Distinct
    <3> QED BY <3>1, <3>2
  <2>4. i' + 1 = i + 2 /\ rooms' = rooms
    BY <1>2, <1>3
  <2> QED BY <2>1, <2>2, <2>3, <2>4
<1>6. InsideBefore(Len(sent) + 1, rooms[i + 1])
  <2>1. i + 1 \in i + 1 .. Len(rooms)
    BY <1>3
  <2> QED BY <1>1, <1>4, <2>1 DEF WireInv
<1>7. WireIsOrderly'
  BY <1>1, <1>2, <1>4, <1>6, OrderlyNext
<1> QED BY <1>1, <1>2, <1>5, <1>7 DEF MemberInv, Distinct

LEMMA MemberStep ==
  ASSUME Base, MemberInv, [Next]_vars
  PROVE  MemberInv'
<1>1. RoomOK /\ MemberInv
  BY DEF Base, Types
<1>2. CASE Speaks
  <2>1. PICK room \in NonEmpty :
          /\ IsIn(room) /\ SentIs("SEND_MESSAGE", room)
          /\ rooms' = rooms /\ i = 0 /\ i' = 0
    BY <1>2 DEF Speaks
  <2>2. InsideBefore(Len(sent) + 1, room)
    BY <1>1, <2>1 DEF IsIn, Places, MemberInv, WireInv, NonEmpty
  <2> QED BY <2>1, <2>2, MemberStays, ChatTypesAreSent DEF NonEmpty
<1>3. CASE AsksLogin
  <2>1. PICK type \in AuthTypes : SentIs(type, Unnamed) /\ rooms' = rooms /\ i' = i
    BY <1>3 DEF AsksLogin
  <2>2. type \in ClientSends /\ type \notin {"JOIN_ROOM", "LEAVE_ROOM", "SEND_MESSAGE"}
    BY DEF AuthTypes, ClientSends
  <2> QED BY <2>1, <2>2, MemberStays, SmallLines DEF NonEmpty
<1> QED BY <1>2, <1>3, StepMoves, MemberQuiet, MemberJoins, MemberLeaves, MemberEnds

LEMMA InitMember == ASSUME Init PROVE MemberInv
<1>1. rooms = <<>> /\ sent = <<>> /\ i = 0
  BY DEF Init
<1>2. Len(rooms) = 0 /\ Len(sent) = 0
  BY <1>1
<1> QED BY <1>1, <1>2 DEF MemberInv, Distinct, WireInv, WireIsOrderly, InsideBefore

LEMMA MemberMatches == ASSUME Base, MemberInv PROVE RoomsMatchWire
<1>1. LoopOK /\ RoomOK /\ SentOK /\ PlaceInv /\ WireInv
  BY DEF Base, Types, MemberInv
<1> DEFINE left == IF pc = "done" THEN Len(rooms) ELSE i
           Told == {sent[k].room : k \in 1 .. Len(sent)}
<1>2. left = i
  BY <1>1 DEF PlaceInv
<1>3. \A k \in 1 .. Len(sent) : sent[k].room \in Line
  <2>1. \A k \in 1 .. Len(sent) : sent[k] \in Frame
    BY <1>1 DEF SentOK
  <2> QED BY <2>1 DEF Frame
<1>4. ASSUME NEW room, InsideBefore(Len(sent) + 1, room)
      PROVE  room \in Told /\ room \in Line
  <2>1. PICK a \in 1 .. (Len(sent) + 1) - 1 : IsFrame(a, "JOIN_ROOM", room)
    BY <1>4 DEF InsideBefore
  <2>2. a \in 1 .. Len(sent) /\ sent[a].room = room
    BY <1>1, <2>1 DEF SentOK, IsFrame
  <2> QED BY <1>3, <2>2
<1>5. ASSUME NEW k \in i + 1 .. Len(rooms) PROVE rooms[k] \in Line
  BY <1>1 DEF LoopOK, RoomOK, NonEmpty
<1>6. {room \in Told : InsideBefore(Len(sent) + 1, room)}
        = {rooms[k] : k \in left + 1 .. Len(rooms)}
  BY <1>1, <1>2, <1>4, <1>5 DEF WireInv
<1> QED BY <1>6 DEF RoomsMatchWire

(* The rooms of the list are the rooms of the wire.                        *)
THEOREM RoomsMatchWireAlways == Spec => []RoomsMatchWire
<1>1. Init => Base /\ MemberInv
  BY InitBase, InitMember
<1>2. Base /\ MemberInv /\ [Next]_vars => (Base /\ MemberInv)'
  BY NextBase, MemberStep
<1>3. Base /\ MemberInv => RoomsMatchWire
  BY MemberMatches
<1> QED BY <1>1, <1>2, <1>3, PTL DEF Spec

(* JOIN and LEAVE alternate, and messages go out between the two.          *)
THEOREM WireIsOrderlyAlways == Spec => []WireIsOrderly
<1>1. Init => Base /\ MemberInv
  BY InitBase, InitMember
<1>2. Base /\ MemberInv /\ [Next]_vars => (Base /\ MemberInv)'
  BY NextBase, MemberStep
<1>3. Base /\ MemberInv => WireIsOrderly
  BY DEF MemberInv
<1> QED BY <1>1, <1>2, <1>3, PTL DEF Spec

-----------------------------------------------------------------------------
(***************************************************************************)
(* What is shown.                                                          *)
(***************************************************************************)
(* Frames are numbered as they arrive; those shown came before those that  *)
(* wait.                                                                   *)
LogInv ==
  /\ ShownOnce
  /\ \A k \in 1 .. Len(chatlog) : chatlog[k].number <= arrived
  /\ \A m \in 1 .. Len(inbox) : inbox[m].number <= arrived
  /\ \A k \in 1 .. Len(chatlog), m \in 1 .. Len(inbox) :
       chatlog[k].number < inbox[m].number
  /\ \A m, n \in 1 .. Len(inbox) : m < n => inbox[m].number < inbox[n].number

SeenInv ==
  /\ \A k \in 1 .. Len(chatlog) : chatlog[k].at \in 0 .. Len(sent)
  /\ ShownWhileInside

LEMMA ShownLength ==
  ASSUME Base, Distinct, NEW room
  PROVE  \/ Cardinality(Places(room)) = 0
         \/ Cardinality(Places(room)) = 1 /\ IsIn(room)
<1>1. CASE Places(room) = {}
  BY <1>1, FS_EmptySet
<1>2. CASE Places(room) # {}
  <2>1. PICK p \in Places(room) : TRUE
    BY <1>2
  <2>2. Places(room) = {p}
    BY DEF Places, Distinct
  <2>3. Cardinality({p}) = 1
    BY FS_Singleton
  <2> QED BY <1>2, <2>2, <2>3 DEF IsIn
<1> QED BY <1>1, <1>2

(* A frame adds one entry at most, and only for a room of the list.        *)
LEMMA LogGrows ==
  ASSUME Base, Distinct, NEW frame \in Arrival, NEW type, NEW room \in Line,
         Parsed(frame, type, room)
  PROVE  \/ chatlog' = chatlog
         \/ /\ IsIn(room)
            /\ Len(chatlog') = Len(chatlog) + 1
            /\ \A k \in 1 .. Len(chatlog) : chatlog'[k] = chatlog[k]
            /\ chatlog'[Len(chatlog) + 1].number = frame.number
            /\ chatlog'[Len(chatlog) + 1].room = room
            /\ chatlog'[Len(chatlog) + 1].at = Len(sent)
<1>1. chatlog' = chatlog \/ chatlog' = chatlog \o Shown(frame, room)
  BY Zenon DEF Parsed
<1>2. chatlog \in Seq(Entry)
  BY DEF Base, Types, RoomOK
<1> DEFINE n == Cardinality(Places(room))
           e == [number |-> frame.number, room |-> room, at |-> Len(sent)]
<1>3. e \in Entry /\ e.number = frame.number /\ e.room = room /\ e.at = Len(sent)
  BY DEF Base, Types, SentOK, Arrival, Entry
<1>4. Shown(frame, room) = [k \in 1 .. n |-> e] /\ Shown(frame, room) \in Seq(Entry)
  BY ShownTypes DEF Shown
<1>5. n = 0 \/ (n = 1 /\ IsIn(room))
  BY ShownLength
<1> HIDE DEF n, e
<1>6. CASE n = 0
  <2>1. Len([k \in 1 .. 0 |-> e]) = 0
    BY SMT
  <2>2. Shown(frame, room) \in Seq(Entry) /\ Len(Shown(frame, room)) = 0
    BY <1>4, <1>6, <2>1
  <2>3. chatlog \o Shown(frame, room) = chatlog
    <3>1. Shown(frame, room) = <<>>
      BY <2>2, EmptySeq
    <3> QED BY <1>2, <3>1, ConcatEmptySeq
  <2> QED BY <1>1, <2>3
<1>7. CASE n = 1 /\ IsIn(room)
  <2> DEFINE one == [k \in 1 .. 1 |-> e]
  <2>1. one \in Seq(Entry) /\ Len(one) = 1 /\ one[1] = e
    BY <1>3, SMT
  <2>2. Shown(frame, room) = one
    BY <1>4, <1>7
  <2> HIDE DEF one
  <2>3. /\ Len(chatlog \o one) = Len(chatlog) + 1
        /\ \A k \in 1 .. Len(chatlog) : (chatlog \o one)[k] = chatlog[k]
        /\ (chatlog \o one)[Len(chatlog) + 1] = e
    BY <1>2, <2>1, ConcatProperties
  <2> QED BY <1>1, <1>3, <1>7, <2>2, <2>3
<1> QED BY <1>5, <1>6, <1>7

(* What a step may do to the chat log and to the inbox.                    *)
Shows(n, room) ==
  /\ n \in 1 .. Len(inbox) /\ room \in Line
  /\ inbox' = SubSeq(inbox, n + 1, Len(inbox)) /\ arrived' = arrived
  /\ sent' = sent /\ pc = "recv"
  /\ \/ chatlog' = chatlog
     \/ /\ IsIn(room)
        /\ Len(chatlog') = Len(chatlog) + 1
        /\ \A k \in 1 .. Len(chatlog) : chatlog'[k] = chatlog[k]
        /\ chatlog'[Len(chatlog) + 1].number = Head(inbox).number
        /\ chatlog'[Len(chatlog) + 1].room = room
        /\ chatlog'[Len(chatlog) + 1].at = Len(sent)
Arrives ==
  \E type, room, own :
    /\ inbox' = Append(inbox, [type |-> type, room |-> room, own |-> own,
                               number |-> arrived + 1])
    /\ arrived' = arrived + 1 /\ chatlog' = chatlog
Idles ==
  /\ inbox' = inbox \/ inbox' = <<>>
  /\ arrived' = arrived /\ chatlog' = chatlog

LEMMA LogMoves ==
  ASSUME Base, Distinct, [Next]_vars
  PROVE  Idles \/ Arrives \/ \E n, room : Shows(n, room)
<1>1. NetOK
  BY DEF Base, Types
<1>2. ASSUME NEW n \in 1 .. Len(inbox), Recv(n) \/ RecvTorn(n) \/ RecvCrash(n)
      PROVE  \E room : Shows(n, room)
  <2>1. Take(n) /\ pc = "recv" /\ sent' = sent
    BY <1>2 DEF Recv, RecvTorn, RecvCrash, LoopAgain
  <2>2. Head(inbox) \in Arrival /\ Head(inbox).room \in Line /\ Unnamed \in Line
    BY <1>1, <2>1, TakeTypes
  <2>3. CASE RecvCrash(n)
    <3>1. chatlog' = chatlog
      BY <2>3 DEF RecvCrash, roomVars
    <3> QED BY <2>1, <2>2, <3>1 DEF Take, Shows
  <2>4. CASE Recv(n) \/ RecvTorn(n)
    <3>1. PICK type : \E room \in Line : Parsed(Head(inbox), type, room)
      BY <2>2, <2>4 DEF Recv, RecvTorn
    <3>2. PICK room \in Line : Parsed(Head(inbox), type, room)
      BY <3>1
    <3> QED BY <2>1, <2>2, <3>2, LogGrows DEF Take, Shows
  <2> QED BY <1>2, <2>3, <2>4
<1>3. CASE Outside
  <2>1. chatlog' = chatlog
    BY <1>3 DEF Outside, roomVars
  <2>2. CASE ServerSends
    <3>1. PICK type, room, own :
            inbox' = Append(inbox, [type |-> type, room |-> room, own |-> own,
                                    number |-> arrived + 1])
      BY <2>2, Zenon DEF ServerSends
    <3> QED BY <2>1, <2>2, <3>1, Zenon DEF ServerSends, Arrives
  <2>3. CASE Type \/ ServerCloses \/ Reset
    BY <2>1, <2>3, Zenon DEF Type, ServerCloses, Reset, netVars, Idles
  <2> QED BY <1>3, <2>2, <2>3 DEF Outside
<1>4. CASE \/ NoKey \/ RecvNothing \/ RecvError \/ LeaveNext \/ LeaveFails \/ Shutdown
           \/ SendRequest \/ RequestFails \/ UNCHANGED vars
  BY <1>4, Zenon DEF NoKey, RecvNothing, RecvError, LeaveNext, LeaveFails, Shutdown, SendRequest,
     RequestFails, SendFails, roomVars, netVars, vars, Idles
<1>5. CASE ReadEsc \/ ReadNothing \/ ReadFails \/ AskCredentials \/ SendMessage
  BY <1>5, Zenon DEF ReadEsc, ReadNothing, ReadFails, AskCredentials, SendMessage, ReadKey,
     SendFails, roomVars, netVars, Idles
<1>6. CASE JoinRoom \/ LeaveRoom
  BY <1>6, Zenon DEF JoinRoom, LeaveRoom, ReadKey, netVars, Idles
<1>7. CASE Client
  <2>1. CASE \E n \in 1 .. Len(inbox) : Recv(n) \/ RecvTorn(n) \/ RecvCrash(n)
    BY <1>2, <2>1, Zenon
  <2> QED BY <1>4, <1>5, <1>6, <1>7, <2>1, Zenon DEF Client
<1> QED BY <1>3, <1>4, <1>7, Zenon DEF Next

LEMMA LogStep ==
  ASSUME Base, Distinct, LogInv, [Next]_vars
  PROVE  LogInv'
<1>1. NetOK /\ RoomOK
  BY DEF Base, Types
<1>2. inbox \in Seq(Arrival) /\ Len(inbox) \in Nat /\ arrived \in Nat
  BY <1>1 DEF NetOK
<1>3. Len(chatlog) \in Nat
  BY <1>1 DEF RoomOK
<1>4. \A m \in 1 .. Len(inbox) : inbox[m].number \in Nat
  <2>1. \A m \in 1 .. Len(inbox) : inbox[m] \in Arrival
    BY <1>2
  <2> QED BY <2>1 DEF Arrival
<1>5. \A k \in 1 .. Len(chatlog) : chatlog[k].number \in Nat
  <2>1. \A k \in 1 .. Len(chatlog) : chatlog[k] \in Entry
    BY <1>1 DEF RoomOK
  <2> QED BY <2>1 DEF Entry
<1>6. CASE Idles
  <2>1. CASE inbox' = inbox
    BY <1>6, <2>1 DEF Idles, LogInv, ShownOnce
  <2>2. CASE inbox' = <<>>
    <3>1. Len(inbox') = 0
      BY <2>2
    <3> QED BY <1>6, <3>1 DEF Idles, LogInv, ShownOnce
  <2> QED BY <1>6, <2>1, <2>2 DEF Idles
<1>7. CASE Arrives
  <2>1. PICK type, room, own :
          inbox' = Append(inbox, [type |-> type, room |-> room, own |-> own,
                                  number |-> arrived + 1])
    BY <1>7, Zenon DEF Arrives
  <2> DEFINE f == [type |-> type, room |-> room, own |-> own, number |-> arrived + 1]
  <2>2. arrived' = arrived + 1 /\ chatlog' = chatlog
    BY <1>7 DEF Arrives
  <2>3. f.number = arrived + 1 /\ inbox' = Append(inbox, f)
    BY <2>1
  <2> HIDE DEF f
  <2>4. /\ Len(inbox') = Len(inbox) + 1
        /\ \A m \in 1 .. Len(inbox) : inbox'[m] = inbox[m]
        /\ inbox'[Len(inbox) + 1].number = arrived + 1
    <3>1. inbox \in Seq(Arrival \cup {f}) /\ f \in Arrival \cup {f}
      BY <1>2, SMT
    <3> QED BY <2>3, <3>1, AppendProperties
  <2>5. \A m \in 1 .. Len(inbox') :
          \/ m \in 1 .. Len(inbox) /\ inbox'[m].number = inbox[m].number
          \/ m = Len(inbox) + 1 /\ inbox'[m].number = arrived + 1
    BY <1>2, <2>4
  <2>6. ShownOnce'
    BY <2>2 DEF LogInv, ShownOnce
  <2>7. /\ \A k \in 1 .. Len(chatlog') : chatlog'[k].number <= arrived'
        /\ \A m \in 1 .. Len(inbox') : inbox'[m].number <= arrived'
    BY <1>2, <1>4, <1>5, <2>2, <2>5 DEF LogInv
  <2>8. \A k \in 1 .. Len(chatlog'), m \in 1 .. Len(inbox') :
          chatlog'[k].number < inbox'[m].number
    BY <1>2, <1>5, <2>2, <2>5 DEF LogInv
  <2>9. \A m, n \in 1 .. Len(inbox') : m < n => inbox'[m].number < inbox'[n].number
    <3>1. SUFFICES ASSUME NEW m \in 1 .. Len(inbox'), NEW n \in 1 .. Len(inbox'), m < n
                   PROVE  inbox'[m].number < inbox'[n].number
      OBVIOUS
    <3>2. m \in 1 .. Len(inbox) /\ inbox'[m].number = inbox[m].number
      BY <1>2, <2>4, <2>5, <3>1
    <3>3. CASE n \in 1 .. Len(inbox) /\ inbox'[n].number = inbox[n].number
      BY <3>1, <3>2, <3>3 DEF LogInv
    <3>4. CASE inbox'[n].number = arrived + 1
      BY <1>2, <1>4, <3>2, <3>4 DEF LogInv
    <3> QED BY <2>5, <3>3, <3>4
  <2> QED BY <2>6, <2>7, <2>8, <2>9 DEF LogInv
<1>8. ASSUME NEW n, NEW room, Shows(n, room)
      PROVE  LogInv'
  <2>1. /\ n \in 1 .. Len(inbox) /\ inbox' = SubSeq(inbox, n + 1, Len(inbox))
        /\ arrived' = arrived
    BY <1>8 DEF Shows
  <2>2. /\ Len(inbox') = Len(inbox) - n
        /\ \A m \in 1 .. Len(inbox) - n : inbox'[m] = inbox[m + n]
    <3>1. n + 1 \in 1 .. Len(inbox) + 1 /\ n \in Nat
      BY <1>2, <2>1
    <3>2. /\ Len(SubSeq(inbox, n + 1, Len(inbox))) = Len(inbox) - n
          /\ \A m \in 1 .. Len(inbox) - n :
               SubSeq(inbox, n + 1, Len(inbox))[m] = inbox[(n + 1) + m - 1]
      BY <1>2, <3>1, SMT
    <3> QED BY <1>2, <2>1, <3>1, <3>2
  <2>3. \A m \in 1 .. Len(inbox') :
          m + n \in 2 .. Len(inbox) /\ inbox'[m].number = inbox[m + n].number
    BY <1>2, <2>1, <2>2
  <2>4. Head(inbox) = inbox[1] /\ 1 \in 1 .. Len(inbox)
    BY <1>2, <2>1
  <2>5. \A m, q \in 1 .. Len(inbox') : m < q => inbox'[m].number < inbox'[q].number
    BY <1>2, <2>1, <2>3 DEF LogInv
  <2>6. \A m \in 1 .. Len(inbox') : inbox'[m].number <= arrived'
    BY <2>1, <2>3, <1>2 DEF LogInv
  <2>7. CASE chatlog' = chatlog
    <3>1. \A k \in 1 .. Len(chatlog), m \in 1 .. Len(inbox') :
            chatlog[k].number < inbox'[m].number
      BY <1>2, <2>3 DEF LogInv
    <3> QED BY <2>1, <2>5, <2>6, <2>7, <3>1 DEF LogInv, ShownOnce
  <2>8. CASE chatlog' # chatlog
    <3>1. /\ Len(chatlog') = Len(chatlog) + 1
          /\ \A k \in 1 .. Len(chatlog) : chatlog'[k] = chatlog[k]
          /\ chatlog'[Len(chatlog) + 1].number = inbox[1].number
      BY <1>8, <2>4, <2>8 DEF Shows
    <3>2. \A k \in 1 .. Len(chatlog') :
            \/ k \in 1 .. Len(chatlog) /\ chatlog'[k].number = chatlog[k].number
            \/ k = Len(chatlog) + 1 /\ chatlog'[k].number = inbox[1].number
      BY <1>3, <3>1
    <3>3. ShownOnce'
      BY <1>3, <2>4, <3>2 DEF LogInv, ShownOnce
    <3>4. \A k \in 1 .. Len(chatlog') : chatlog'[k].number <= arrived'
      BY <2>1, <2>4, <3>2 DEF LogInv
    <3>5. \A k \in 1 .. Len(chatlog'), m \in 1 .. Len(inbox') :
            chatlog'[k].number < inbox'[m].number
      BY <1>2, <2>3, <2>4, <3>2 DEF LogInv
    <3> QED BY <2>5, <2>6, <3>3, <3>4, <3>5 DEF LogInv
  <2> QED BY <2>7, <2>8
<1> QED BY <1>6, <1>7, <1>8, LogMoves

(* What was true of the wire before a frame stays true.                    *)
Longer ==
  /\ Len(sent) \in Nat /\ Len(sent') \in Nat /\ Len(sent') >= Len(sent)
  /\ \A n \in 1 .. Len(sent) + 1 : \A room :
       InsideBefore(n, room)' <=> InsideBefore(n, room)

LEMMA SentLonger == ASSUME Base, [Next]_vars PROVE Longer
<1>1. /\ RoomOK /\ SentOK /\ LoginOK /\ LoopOK /\ Len(sent) \in Nat
  BY DEF Base, Types, SentOK
<1>2. CASE sent' = sent
  BY <1>1, <1>2 DEF InsideBefore, IsFrame, Longer
<1>3. ASSUME NEW type \in ClientSends, NEW room \in Line, SentIs(type, room)
      PROVE  Longer
  <2>1. Len(sent') = Len(sent) + 1
    BY <1>1, <1>3, SentGrows
  <2>2. \A n \in 1 .. Len(sent) + 1 : \A r : InsideBefore(n, r)' <=> InsideBefore(n, r)
    BY <1>1, <1>3, InsideKept
  <2> QED BY <1>1, <2>1, <2>2 DEF Longer
<1>4. CASE Quiet
  BY <1>2, <1>4 DEF Quiet
<1>5. CASE Joins \/ Speaks
  BY <1>3, <1>5, ChatTypesAreSent DEF Joins, Speaks, NonEmpty
<1>6. CASE Leaves
  <2>1. PICK p \in 1 .. Len(rooms) : SentIs("LEAVE_ROOM", rooms[p])
    BY <1>6 DEF Leaves
  <2>2. rooms[p] \in Line
    BY <1>1 DEF RoomOK, NonEmpty
  <2> QED BY <1>3, <2>1, <2>2, ChatTypesAreSent
<1>7. CASE AsksLogin
  BY <1>3, <1>7, SmallLines DEF AsksLogin, ClientSends, NonEmpty
<1>8. CASE LeavesAtEnd
  <2>1. SentIs("LEAVE_ROOM", rooms[i + 1]) /\ i + 1 \in 1 .. Len(rooms)
    BY <1>1, <1>8 DEF LeavesAtEnd, LoopOK, RoomOK
  <2>2. rooms[i + 1] \in Line
    BY <1>1, <2>1 DEF RoomOK, NonEmpty
  <2> QED BY <1>3, <2>1, <2>2, ChatTypesAreSent
<1> QED BY <1>4, <1>5, <1>6, <1>7, <1>8, StepMoves

LEMMA SeenStep ==
  ASSUME Base, MemberInv, SeenInv, [Next]_vars
  PROVE  SeenInv'
<1>1. /\ RoomOK /\ PlaceInv /\ WireInv /\ Distinct /\ Len(chatlog) \in Nat
  BY DEF Base, Types, MemberInv, RoomOK
<1>2. Longer
  BY SentLonger
<1>3. CASE chatlog' = chatlog
  <2>1. \A k \in 1 .. Len(chatlog) :
          /\ chatlog[k].at \in 0 .. Len(sent')
          /\ chatlog[k].at + 1 \in 1 .. Len(sent) + 1
    BY <1>2 DEF SeenInv, Longer
  <2>3. \A k \in 1 .. Len(chatlog) : \A n, r :
          n = chatlog[k].at + 1 /\ r = chatlog[k].room => InsideBefore(n, r)'
    BY <1>2, <2>1 DEF SeenInv, ShownWhileInside, Longer
  <2> QED BY <1>3, <2>1, <2>3 DEF SeenInv, ShownWhileInside
<1>4. ASSUME NEW n, NEW room, Shows(n, room), chatlog' # chatlog
      PROVE  SeenInv'
  <2>1. /\ sent' = sent /\ pc = "recv" /\ room \in Line /\ IsIn(room)
        /\ Len(chatlog') = Len(chatlog) + 1
        /\ \A k \in 1 .. Len(chatlog) : chatlog'[k] = chatlog[k]
        /\ chatlog'[Len(chatlog) + 1].room = room
        /\ chatlog'[Len(chatlog) + 1].at = Len(sent)
    BY <1>4 DEF Shows
  <2>2. InsideBefore(Len(sent) + 1, room)
    <3>1. i = 0
      BY <1>1, <2>1 DEF PlaceInv
    <3>2. \E k \in i + 1 .. Len(rooms) : rooms[k] = room
      BY <2>1, <3>1 DEF IsIn, Places
    <3> QED BY <1>1, <2>1, <3>2 DEF WireInv
  <2>3. \A m, r : InsideBefore(m, r)' <=> InsideBefore(m, r)
    BY <2>1 DEF InsideBefore, IsFrame
  <2>4. ASSUME NEW k \in 1 .. Len(chatlog')
        PROVE  /\ chatlog'[k].at \in 0 .. Len(sent)
               /\ InsideBefore(chatlog'[k].at + 1, chatlog'[k].room)
    <3>1. CASE k \in 1 .. Len(chatlog)
      BY <2>1, <3>1 DEF SeenInv, ShownWhileInside
    <3>2. CASE k = Len(chatlog) + 1
      BY <1>2, <2>1, <2>2, <3>2 DEF Longer
    <3> QED BY <1>1, <2>1, <3>1, <3>2
  <2>5. \A k \in 1 .. Len(chatlog') : \A m, r :
          m = chatlog'[k].at + 1 /\ r = chatlog'[k].room => InsideBefore(m, r)'
    BY <2>3, <2>4
  <2> QED BY <2>1, <2>4, <2>5 DEF SeenInv, ShownWhileInside
<1>5. CASE Idles \/ Arrives
  BY <1>3, <1>5 DEF Idles, Arrives
<1> QED BY <1>1, <1>3, <1>4, <1>5, LogMoves

ShownInv == Base /\ MemberInv /\ LogInv /\ SeenInv

LEMMA ShownInvariant == Spec => []ShownInv
<1>1. ASSUME Init PROVE ShownInv
  <2>1. chatlog = <<>> /\ inbox = <<>>
    BY <1>1 DEF Init
  <2>2. Len(chatlog) = 0 /\ Len(inbox) = 0
    BY <2>1
  <2>3. LogInv /\ SeenInv
    BY <2>2 DEF LogInv, SeenInv, ShownOnce, ShownWhileInside
  <2> QED BY <1>1, <2>3, InitBase, InitMember DEF ShownInv
<1>2. ASSUME ShownInv, [Next]_vars PROVE ShownInv'
  <2>1. Distinct
    BY <1>2 DEF ShownInv, MemberInv
  <2> QED BY <1>2, <2>1, NextBase, MemberStep, LogStep, SeenStep DEF ShownInv
<1> QED BY <1>1, <1>2, PTL DEF Spec

(* Every frame is shown once at most, in the order of arrival.             *)
THEOREM ShownOnceAlways == Spec => []ShownOnce
<1>1. ShownInv => ShownOnce
  BY DEF ShownInv, LogInv
<1> QED BY <1>1, ShownInvariant, PTL

(* What is shown is of a room that the server takes the client to be in.   *)
THEOREM ShownWhileInsideAlways == Spec => []ShownWhileInside
<1>1. ShownInv => ShownWhileInside
  BY DEF ShownInv, SeenInv
<1> QED BY <1>1, ShownInvariant, PTL

-----------------------------------------------------------------------------
(***************************************************************************)
(* One request at a time.                                                  *)
(***************************************************************************)
(* A request unanswered, or whose answer is unread, is the one that        *)
(* loggingIn waits for, but for those that strays have let out.            *)
GrantInv ==
  waiting + Cardinality(OwnAnswers) <= strays + IF loggingIn THEN 1 ELSE 0

OwnIn(s) == {k \in 1 .. Len(s) : s[k].own}

LEMMA OwnFinite ==
  ASSUME NEW s \in Seq(Arrival)
  PROVE  IsFiniteSet(OwnIn(s)) /\ Cardinality(OwnIn(s)) \in Nat
<1>1. Len(s) \in Nat
  OBVIOUS
<1>2. IsFiniteSet(1 .. Len(s))
  BY <1>1, FS_Interval
<1>3. IsFiniteSet(OwnIn(s))
  BY <1>2, FS_Subset DEF OwnIn
<1> QED BY <1>3, FS_CardinalityType

(* A frame that arrives is one answer more, if it is one at all.           *)
LEMMA OwnArrives ==
  ASSUME NEW s \in Seq(Arrival), NEW f \in Arrival
  PROVE  Cardinality(OwnIn(Append(s, f))) =
           Cardinality(OwnIn(s)) + IF f.own THEN 1 ELSE 0
<1>1. /\ Len(Append(s, f)) = Len(s) + 1 /\ Len(s) \in Nat
      /\ \A k \in 1 .. Len(s) : Append(s, f)[k] = s[k]
      /\ Append(s, f)[Len(s) + 1] = f
  BY AppendProperties
<1>2. CASE f.own
  <2>1. OwnIn(Append(s, f)) = OwnIn(s) \cup {Len(s) + 1} /\ Len(s) + 1 \notin OwnIn(s)
    BY <1>1, <1>2 DEF OwnIn
  <2> QED BY <1>2, <2>1, OwnFinite, FS_AddElement
<1>3. CASE ~f.own
  <2>1. OwnIn(Append(s, f)) = OwnIn(s)
    BY <1>1, <1>3 DEF OwnIn
  <2> QED BY <1>3, <2>1, OwnFinite
<1> QED BY <1>2, <1>3

(* What is left after n frames have been taken has no more answers, and    *)
(* one less if the first was one.                                          *)
LEMMA OwnTaken ==
  ASSUME NEW s \in Seq(Arrival), NEW n \in 1 .. Len(s)
  PROVE  LET rest == SubSeq(s, n + 1, Len(s))
         IN  /\ rest \in Seq(Arrival)
             /\ Cardinality(OwnIn(rest)) + (IF s[1].own THEN 1 ELSE 0)
                  <= Cardinality(OwnIn(s))
<1> DEFINE rest == SubSeq(s, n + 1, Len(s))
<1>1. n + 1 \in 1 .. Len(s) + 1 /\ n \in Nat /\ Len(s) \in Nat
  OBVIOUS
<1>2. /\ rest \in Seq(Arrival) /\ Len(rest) = Len(s) - n
      /\ \A k \in 1 .. Len(s) - n : rest[k] = s[n + k]
  <2>1. /\ Len(rest) = Len(s) - n
        /\ \A k \in 1 .. Len(s) - n : rest[k] = s[(n + 1) + k - 1]
    BY <1>1, SMT
  <2>2. rest \in Seq(Arrival)
    BY <1>1, LeftOver
  <2> QED BY <1>1, <2>1, <2>2
<1> HIDE DEF rest
<1> DEFINE later == OwnIn(s) \ {1}
           shift == [k \in OwnIn(rest) |-> n + k]
<1>3. IsFiniteSet(OwnIn(s)) /\ IsFiniteSet(OwnIn(rest)) /\ IsFiniteSet(later)
  BY <1>2, OwnFinite, FS_Subset
<1>4. shift \in Injection(OwnIn(rest), later)
  <2>1. \A k \in OwnIn(rest) : n + k \in later /\ k \in Nat
    BY <1>1, <1>2 DEF OwnIn
  <2>2. shift \in [OwnIn(rest) -> later]
    BY <2>1
  <2>3. \A j, k \in OwnIn(rest) : shift[j] = shift[k] => j = k
    BY <1>1, <2>1
  <2> QED BY <2>2, <2>3 DEF Injection, IsInjective
<1>5. Cardinality(OwnIn(rest)) <= Cardinality(later)
  BY <1>3, <1>4, FS_Injection DEF ExistsInjection
<1>6. Cardinality(later) = Cardinality(OwnIn(s)) - IF s[1].own THEN 1 ELSE 0
  <2>1. 1 \in OwnIn(s) <=> s[1].own
    BY <1>1 DEF OwnIn
  <2>2. Cardinality(later) = IF 1 \in OwnIn(s) THEN Cardinality(OwnIn(s)) - 1
                             ELSE Cardinality(OwnIn(s))
    BY <1>3, FS_RemoveElement
  <2>3. Cardinality(OwnIn(s)) \in Nat
    BY OwnFinite
  <2> QED BY <2>1, <2>2, <2>3
<1>7. Cardinality(OwnIn(rest)) \in Nat /\ Cardinality(OwnIn(s)) \in Nat
  BY <1>2, OwnFinite
<1> QED BY <1>2, <1>5, <1>6, <1>7 DEF rest

(* What a step may do to the counters.                                     *)
Still == UNCHANGED <<waiting, inbox, strays, loggingIn>>
Asks ==
  /\ ~loggingIn /\ loggingIn' /\ waiting' = waiting + 1
  /\ UNCHANGED <<inbox, strays>>
Answers ==
  /\ \E f \in Arrival :
       /\ inbox' = Append(inbox, f)
       /\ waiting' = IF f.own THEN waiting - 1 ELSE waiting
  /\ UNCHANGED <<strays, loggingIn>>
Hears ==
  /\ \E n \in 1 .. Len(inbox) : inbox' = SubSeq(inbox, n + 1, Len(inbox))
  /\ waiting' = waiting
  /\ \/ UNCHANGED <<strays, loggingIn>>
     \/ ~loggingIn' /\ strays' = IF inbox[1].own THEN strays ELSE strays + 1
Loses == inbox' = <<>> /\ UNCHANGED <<waiting, strays, loggingIn>>

LEMMA GrantMoves ==
  ASSUME Base, [Next]_vars
  PROVE  Still \/ Asks \/ Answers \/ Hears \/ Loses
<1>1. /\ UserOK /\ LoginOK /\ RoomOK /\ LoopOK /\ NetOK /\ SentOK /\ PlaceInv
  BY DEF Base, Types
<1>2. AuthTypes \cap ChatTypes = {} /\ {"LOGIN_USER", "REGISTER_USER"} = AuthTypes
      /\ {"JOIN_ROOM", "LEAVE_ROOM", "SEND_MESSAGE"} \cap AuthTypes = {}
  BY DEF ChatTypes, AuthTypes
<1>3. ASSUME NEW type, NEW room, NEW text, Sends(type, room, text), type \notin AuthTypes
      PROVE  waiting' = waiting
  BY <1>3 DEF Sends, ToServer
<1>4. CASE JoinRoom \/ SendMessage \/ LeaveRoom \/ LeaveNext
  <2>1. waiting' = waiting
    BY <1>2, <1>3, <1>4 DEF JoinRoom, SendMessage, LeaveRoom, LeaveNext
  <2> QED BY <1>4, <2>1, Zenon DEF JoinRoom, SendMessage, LeaveRoom, LeaveNext, ReadKey,
          loginVars, netVars, Still
<1>5. CASE SendRequest
  <2>1. PICK type \in AuthTypes : Sends(type, Unnamed, <<>>)
    BY <1>2, <1>5 DEF SendRequest
  <2>2. waiting' = waiting + 1
    BY <2>1 DEF Sends, ToServer
  <2>3. ~loggingIn
    BY <1>1, <1>5 DEF SendRequest, AtPrompt, PlaceInv
  <2> QED BY <1>5, <2>2, <2>3, Zenon DEF SendRequest, netVars, Asks
<1>6. ASSUME NEW n \in 1 .. Len(inbox), Recv(n) \/ RecvTorn(n)
      PROVE  Hears
  <2>1. Take(n) /\ waiting' = waiting
    BY <1>6 DEF Recv, RecvTorn
  <2>2. PICK type, room : Parsed(Head(inbox), type, room)
    BY <1>6, Zenon DEF Recv, RecvTorn
  <2>3. \/ UNCHANGED <<strays, loggingIn>>
        \/ ~loggingIn' /\ strays' = IF Head(inbox).own THEN strays ELSE strays + 1
    BY <2>2, Zenon DEF Parsed, loginVars
  <2>4. Head(inbox) = inbox[1]
    BY <1>1, <1>6, SMT DEF NetOK
  <2> QED BY <2>1, <2>3, <2>4, Zenon DEF Take, Hears
<1>7. ASSUME NEW n \in 1 .. Len(inbox), RecvCrash(n)
      PROVE  Hears
  BY <1>7, Zenon DEF RecvCrash, loginVars, Take, Hears
<1>8. CASE ServerSends /\ UNCHANGED <<loginVars, roomVars, loopVars, sent>>
  <2>1. PICK type \in Inbound, room \in RoomNames \cup {Unnamed}, own \in BOOLEAN :
          /\ inbox' = Append(inbox, [type |-> type, room |-> room, own |-> own,
                                     number |-> arrived + 1])
          /\ waiting' = IF own THEN waiting - 1 ELSE waiting
    BY <1>8, Zenon DEF ServerSends
  <2> DEFINE f == [type |-> type, room |-> room, own |-> own, number |-> arrived + 1]
  <2>2. f \in Arrival /\ f.own = own
    BY <1>1, <1>8, ClientBoundsAssumption DEF ServerSends, NetOK, Arrival
  <2>3. inbox' = Append(inbox, f) /\ waiting' = IF f.own THEN waiting - 1 ELSE waiting
    BY <2>1, <2>2
  <2> HIDE DEF f
  <2> QED BY <1>8, <2>2, <2>3, Zenon DEF loginVars, Answers
<1>9. CASE Outside
  <2>1. CASE Type \/ ServerCloses
    BY <1>8, <1>9, <2>1, Zenon DEF Outside, Type, ServerCloses, netVars, loginVars, Still
  <2>2. CASE Reset
    BY <1>8, <1>9, <2>2, Zenon DEF Outside, Reset, loginVars, Loses
  <2> QED BY <1>8, <1>9, <2>1, <2>2, Zenon DEF Outside
<1>10. CASE \/ NoKey \/ ReadEsc \/ ReadNothing \/ ReadFails \/ AskCredentials
            \/ RecvNothing \/ RecvError \/ LeaveFails \/ Shutdown \/ RequestFails
            \/ UNCHANGED vars
  BY <1>10, Zenon DEF NoKey, ReadEsc, ReadNothing, ReadFails, AskCredentials, RecvNothing,
     RecvError, LeaveFails, Shutdown, RequestFails, SendFails, ReadKey, netVars, loginVars,
     vars, Still
<1>11. CASE Client
  <2>1. CASE \E n \in 1 .. Len(inbox) : Recv(n) \/ RecvTorn(n) \/ RecvCrash(n)
    BY <1>6, <1>7, <2>1, Zenon
  <2> QED BY <1>4, <1>10, <1>11, <2>1, Zenon DEF Client
<1> QED BY <1>5, <1>9, <1>10, <1>11, Zenon DEF Next

LEMMA GrantStep ==
  ASSUME Base, GrantInv, [Next]_vars
  PROVE  GrantInv'
<1>1. inbox \in Seq(Arrival) /\ waiting \in Nat /\ strays \in Nat
  BY DEF Base, Types, NetOK, SentOK, LoginOK
<1>2. OwnAnswers = OwnIn(inbox) /\ OwnAnswers' = OwnIn(inbox')
  BY DEF OwnAnswers, OwnIn
<1>3. Cardinality(OwnIn(inbox)) \in Nat
  BY <1>1, OwnFinite
<1>4. CASE Still
  BY <1>2, <1>4 DEF Still, GrantInv
<1>5. CASE Asks
  BY <1>1, <1>2, <1>3, <1>5 DEF Asks, GrantInv
<1>6. CASE Answers
  <2>1. PICK f \in Arrival :
          /\ inbox' = Append(inbox, f)
          /\ waiting' = IF f.own THEN waiting - 1 ELSE waiting
    BY <1>6 DEF Answers
  <2>2. Cardinality(OwnIn(inbox')) = Cardinality(OwnIn(inbox)) + IF f.own THEN 1 ELSE 0
    BY <1>1, <2>1, OwnArrives
  <2> QED BY <1>1, <1>2, <1>3, <1>6, <2>1, <2>2 DEF Answers, GrantInv
<1>7. CASE Hears
  <2>1. PICK n \in 1 .. Len(inbox) : inbox' = SubSeq(inbox, n + 1, Len(inbox))
    BY <1>7 DEF Hears
  <2>2. /\ inbox' \in Seq(Arrival)
        /\ Cardinality(OwnIn(inbox')) + (IF inbox[1].own THEN 1 ELSE 0)
             <= Cardinality(OwnIn(inbox))
    BY <1>1, <2>1, OwnTaken
  <2>3. Cardinality(OwnIn(inbox')) \in Nat
    BY <2>2, OwnFinite
  <2> QED BY <1>1, <1>2, <1>3, <1>7, <2>2, <2>3 DEF Hears, GrantInv
<1>8. CASE Loses
  <2>1. inbox' \in Seq(Arrival) /\ OwnIn(inbox') = {}
    BY <1>8 DEF Loses, OwnIn
  <2>2. Cardinality(OwnIn(inbox')) = 0
    BY <2>1, FS_EmptySet
  <2> QED BY <1>1, <1>2, <1>3, <1>8, <2>2 DEF Loses, GrantInv
<1> QED BY <1>4, <1>5, <1>6, <1>7, <1>8, GrantMoves

(* No second request for a login or an account goes out before the first   *)
(* is answered and its answer read, but for one for every success parsed   *)
(* that answered no request of this client.                                *)
THEOREM OneRequestAlways == Spec => []OneRequestAtATime
<1>1. ASSUME Init PROVE Base /\ GrantInv
  <2>1. OwnAnswers = {} /\ waiting = 0 /\ strays = 0
    BY <1>1 DEF Init, OwnAnswers
  <2> QED BY <1>1, <2>1, InitBase, FS_EmptySet DEF GrantInv
<1>2. Base /\ GrantInv /\ [Next]_vars => (Base /\ GrantInv)'
  BY NextBase, GrantStep
<1>3. Base /\ GrantInv => OneRequestAtATime
  <2>1. SUFFICES ASSUME Base, GrantInv PROVE OneRequestAtATime
    OBVIOUS
  <2>2. inbox \in Seq(Arrival) /\ waiting \in Nat /\ strays \in Nat
    BY <2>1 DEF Base, Types, NetOK, SentOK, LoginOK
  <2>3. OwnAnswers = OwnIn(inbox)
    BY DEF OwnAnswers, OwnIn
  <2>4. Cardinality(OwnAnswers) \in Nat
    BY <2>2, <2>3, OwnFinite
  <2> QED BY <2>1, <2>2, <2>4 DEF GrantInv, OneRequestAtATime
<1> QED BY <1>1, <1>2, <1>3, PTL DEF Spec
=============================================================================
