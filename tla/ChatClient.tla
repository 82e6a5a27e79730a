----------------------------- MODULE ChatClient -----------------------------
(***************************************************************************)
(* The chat client (PLGNetworkProj1/client_main.cpp): one loop that reads  *)
(* a key, unless a login is under way, and then reads once from its        *)
(* connection; at the end it leaves its rooms, one after the other.        *)
(*                                                                         *)
(* The keys of a line are one step, taken where Enter is read: until then  *)
(* they only lengthen "message".  A line is the sequence of its words, and *)
(* so is a room's name, which may be the rest of a line.  What is printed  *)
(* is left out, but for the chat log.                                      *)
(***************************************************************************)
EXTENDS Protocol, Sequences, FiniteSets

CONSTANTS
  Words,      \* strings without a space
  Lines,      \* the lines the user types, as sequences of words
  RoomNames,  \* the rooms of the messages that the server sends
  Inbound,    \* the types of the frames that the server sends
  HeapTypes,  \* what the type word of a torn frame may be read as
  MayClose,   \* TRUE: the server may close the connection
  MayReset,   \* TRUE: the connection may be reset
  MaxLines,   \* bound: lines typed
  MaxFrames   \* bound: frames that the server sends

ASSUME LinesAssumption ==
  /\ "" \in Words /\ "Esc" \in Words
  /\ Lines \cup RoomNames \subseteq Seq(Words) \ {<<>>}
ASSUME InboundAssumption ==
  /\ Inbound \subseteq {"RECV_MESSAGE", Garbage} \cup ReplyTypes
  /\ HeapTypes \subseteq FrameType \cup {NoType}
ASSUME ClientBoundsAssumption == MaxLines \in Nat /\ MaxFrames \in Nat
ASSUME ClientSwitchesAssumption == MayClose \in BOOLEAN /\ MayReset \in BOOLEAN

VARIABLES
  keys,       \* lines typed and not yet read; Esc is one of them
  typed,      \* ghost: lines typed so far
  rooms,
  chatlog,    \* the messages of rooms shown, with ghost fields
  loggedIn,
  loggingIn,
  quit,
  pc,         \* where the program is
  i,          \* the index of the loop that leaves the rooms
  link,       \* the connection: up, closed by the server, or reset
  inbox,      \* frames that have arrived; own: it answers a request of ours
  arrived,    \* ghost: frames that have arrived so far
  sent,       \* ghost: every frame sent
  waiting,    \* ghost: requests sent and not answered by the server
  strays      \* ghost: successes parsed that answer no request of ours

userVars == <<keys, typed>>
loginVars == <<loggedIn, loggingIn, strays>>
roomVars == <<rooms, chatlog>>
loopVars == <<quit, pc, i>>
netVars == <<link, inbox, arrived>>
vars == <<userVars, loginVars, roomVars, loopVars, netVars, sent, waiting>>

Esc == <<"Esc">>
Unnamed == <<"">>

Init ==
  /\ keys = <<>> /\ typed = 0
  /\ rooms = <<>> /\ chatlog = <<>>
  /\ loggedIn = FALSE /\ loggingIn = FALSE /\ strays = 0
  /\ quit = FALSE /\ pc = "keyboard" /\ i = 0
  /\ link = "up" /\ inbox = <<>> /\ arrived = 0
  /\ sent = <<>> /\ waiting = 0

Goto(place) == pc' = place /\ UNCHANGED <<quit, i>>

-----------------------------------------------------------------------------
(***************************************************************************)
(* Strings.  find(" ") and erase(0, pos + 1): without a space pos + 1 is   *)
(* 0, and nothing is erased.                                               *)
(***************************************************************************)
AfterFirst(line) == IF Len(line) > 1 THEN Tail(line) ELSE line
FirstWord(line) == <<Head(line)>>

Without(s, p) == SubSeq(s, 1, p - 1) \o SubSeq(s, p + 1, Len(s))

Places(room) == {k \in 1 .. Len(rooms) : rooms[k] = room}
IsIn(room) == Places(room) # {}

-----------------------------------------------------------------------------
(***************************************************************************)
(* send, on a connection that may have been reset: main returns 1.         *)
(***************************************************************************)
ToServer(type, room, text) ==
  /\ sent' = Append(sent, [type |-> type, room |-> room, text |-> text])
  /\ waiting' = IF type \in AuthTypes THEN waiting + 1 ELSE waiting

Sends(type, room, text) == link # "reset" /\ ToServer(type, room, text)

SendFails ==
  /\ link = "reset"
  /\ Goto("failed")
  /\ UNCHANGED <<roomVars, loginVars, sent, waiting>>

(***************************************************************************)
(* The keyboard.  && binds tighter than ||: the long commands need no      *)
(* login, the short ones do.                                               *)
(***************************************************************************)
KeyPressed == pc = "keyboard" /\ ~loggingIn /\ keys # <<>>

Command == Head(Head(keys))
Argument == AfterFirst(Head(keys))
IsCommand(long, short, allowed) ==
  \/ Command = long
  \/ Command = short /\ allowed

IsJoin == IsCommand("/join", "/j", loggedIn)
IsMessage == IsCommand("/message", "/m", loggedIn)
IsLeave == IsCommand("/leave", "/l", loggedIn)
IsLogin == IsCommand("/login", "/log", ~loggedIn)
IsRegister == IsCommand("/registar", "/reg", ~loggedIn)

ReadKey == KeyPressed /\ keys' = Tail(keys) /\ UNCHANGED <<typed, netVars>>

NoKey ==
  /\ pc = "keyboard"
  /\ ~KeyPressed
  /\ Goto("recv")
  /\ UNCHANGED <<userVars, loginVars, roomVars, netVars, sent, waiting>>

ReadEsc ==
  /\ ReadKey
  /\ Head(keys) = Esc
  /\ quit' = TRUE /\ pc' = "recv"
  /\ UNCHANGED <<i, loginVars, roomVars, sent, waiting>>

(* /help, an unknown or a mistyped command, a short one out of its time,   *)
(* and a command for a room that the client is (not) in: one line of text. *)
ReadNothing ==
  /\ ReadKey
  /\ Head(keys) # Esc
  /\ ~IsLogin /\ ~IsRegister
  /\ IsJoin => IsIn(Argument)
  /\ IsMessage => ~IsIn(FirstWord(Argument))
  /\ IsLeave => ~IsIn(Argument)
  /\ Goto("recv")
  /\ UNCHANGED <<loginVars, roomVars, sent, waiting>>

(* A seeded fault: a room is joined without a look at rooms.               *)
JoinRoom_Again ==
  /\ ReadKey
  /\ IsJoin
  /\ Sends("JOIN_ROOM", Argument, <<>>)
  /\ rooms' = Append(rooms, Argument)
  /\ Goto("recv")
  /\ UNCHANGED <<loginVars, chatlog>>

JoinRoom ==
  /\ ReadKey
  /\ IsJoin /\ ~IsIn(Argument)
  /\ Sends("JOIN_ROOM", Argument, <<>>)
  /\ rooms' = Append(rooms, Argument)
  /\ Goto("recv")
  /\ UNCHANGED <<loginVars, chatlog>>

(* The room is the first word here, and not the rest of the line.          *)
SendMessage ==
  /\ ReadKey
  /\ IsMessage /\ IsIn(FirstWord(Argument))
  /\ Sends("SEND_MESSAGE", FirstWord(Argument), AfterFirst(Argument))
  /\ Goto("recv")
  /\ UNCHANGED <<loginVars, roomVars>>

(* A seeded fault: the room is not erased.                                 *)
LeaveRoom_Keeps ==
  /\ ReadKey
  /\ IsLeave /\ IsIn(Argument)
  /\ Sends("LEAVE_ROOM", Argument, <<>>)
  /\ Goto("recv")
  /\ UNCHANGED <<loginVars, roomVars>>

LeaveRoom ==
  /\ ReadKey
  /\ IsLeave /\ IsIn(Argument)
  /\ Sends("LEAVE_ROOM", Argument, <<>>)
  /\ \E first \in Places(Argument) :
       /\ \A k \in Places(Argument) : first <= k
       /\ rooms' = Without(rooms, first)
  /\ Goto("recv")
  /\ UNCHANGED <<loginVars, chatlog>>

ReadFails ==
  /\ ReadKey
  /\ \/ IsJoin /\ ~IsIn(Argument)
     \/ IsMessage /\ IsIn(FirstWord(Argument))
     \/ IsLeave /\ IsIn(Argument)
  /\ SendFails

(* /login and /registar: the loop waits in std::cin.                       *)
AskCredentials ==
  /\ ReadKey
  /\ IsLogin \/ IsRegister
  /\ Goto(IF IsLogin THEN "login" ELSE "register")
  /\ UNCHANGED <<loginVars, roomVars, sent, waiting>>

AtPrompt == pc \in {"login", "register"}

(* A seeded fault: loggingIn is set after a login only.                    *)
SendRequest_LoginOnly ==
  /\ AtPrompt
  /\ \E n \in 0 .. Len(keys) : keys' = SubSeq(keys, n + 1, Len(keys))
  /\ Sends(IF pc = "login" THEN "LOGIN_USER" ELSE "REGISTER_USER", Unnamed, <<>>)
  /\ loggingIn' = (pc = "login")
  /\ Goto("recv")
  /\ UNCHANGED <<typed, netVars, loggedIn, strays, roomVars>>

(* The user answers; lines typed ahead are taken for name and password.    *)
SendRequest ==
  /\ AtPrompt
  /\ \E n \in 0 .. Len(keys) : keys' = SubSeq(keys, n + 1, Len(keys))
  /\ Sends(IF pc = "login" THEN "LOGIN_USER" ELSE "REGISTER_USER", Unnamed, <<>>)
  /\ loggingIn' = TRUE
  /\ Goto("recv")
  /\ UNCHANGED <<typed, netVars, loggedIn, strays, roomVars>>

RequestFails ==
  /\ AtPrompt
  /\ SendFails
  /\ UNCHANGED <<userVars, netVars>>

-----------------------------------------------------------------------------
(***************************************************************************)
(* recv returns the first n frames; the first is parsed, the others are    *)
(* dropped.  The loop ends when quit was set above it.                     *)
(***************************************************************************)
(* A seeded fault: the loop does not test quit.                            *)
LoopAgain_Forever == pc = "recv" /\ Goto("keyboard")

LoopAgain ==
  /\ pc = "recv"
  /\ Goto(IF quit THEN "leaving" ELSE "keyboard")

(* The messages that the loop over rooms adds for a frame: one for every   *)
(* place where its room stands.                                            *)
Shown(frame, room) ==
  [k \in 1 .. Cardinality(Places(room)) |->
     [number |-> frame.number, room |-> room, at |-> Len(sent)]]

Parsed(frame, type, room) ==
  \/ /\ type \in SuccessTypes
     /\ loggedIn' = TRUE /\ loggingIn' = FALSE
     /\ strays' = IF frame.own THEN strays ELSE strays + 1
     /\ UNCHANGED chatlog
  \/ /\ type = "LOGIN_USER"
     /\ loggedIn' \in {loggedIn, TRUE}
     /\ UNCHANGED <<loggingIn, strays, chatlog>>
  \/ /\ type \in ReplyTypes \ SuccessTypes
     /\ UNCHANGED <<loginVars, chatlog>>
  \/ /\ type \notin ReplyTypes \cup {"LOGIN_USER"}
     /\ chatlog' = chatlog \o Shown(frame, room)
     /\ UNCHANGED loginVars

Take(n) ==
  /\ n \in 1 .. Len(inbox)
  /\ inbox' = SubSeq(inbox, n + 1, Len(inbox))
  /\ UNCHANGED <<link, arrived>>

Recv(n) ==
  /\ LoopAgain
  /\ Take(n)
  /\ Head(inbox).type # Garbage
  /\ Parsed(Head(inbox), Head(inbox).type, Head(inbox).room)
  /\ UNCHANGED <<userVars, rooms, sent, waiting>>

(* The type word is heap memory; what is read after it may be, too.  A     *)
(* type without a room leaves the room empty.                              *)
RecvTorn(n) ==
  /\ LoopAgain
  /\ Take(n)
  /\ Head(inbox).type = Garbage
  /\ \E type \in HeapTypes, room \in {Unnamed, Head(inbox).room} :
       Parsed(Head(inbox), type, room)
  /\ UNCHANGED <<userVars, rooms, sent, waiting>>

(* A string's length is heap memory: the read ends the process.            *)
RecvCrash(n) ==
  /\ pc = "recv"
  /\ Take(n)
  /\ Head(inbox).type = Garbage
  /\ Goto("crashed")
  /\ UNCHANGED <<userVars, loginVars, roomVars, sent, waiting>>

(* WSAEWOULDBLOCK, or 0 from a closed connection: both only go on.         *)
RecvNothing ==
  /\ LoopAgain
  /\ inbox = <<>> /\ link # "reset"
  /\ UNCHANGED <<userVars, loginVars, roomVars, netVars, sent, waiting>>

(* A seeded fault: no error of recv ends the loop.                         *)
RecvError_Ignored ==
  /\ LoopAgain
  /\ inbox = <<>> /\ link = "reset"
  /\ UNCHANGED <<userVars, loginVars, roomVars, netVars, sent, waiting>>

RecvError ==
  /\ pc = "recv"
  /\ inbox = <<>> /\ link = "reset"
  /\ quit' = TRUE /\ pc' = "leaving"
  /\ UNCHANGED <<i, userVars, loginVars, roomVars, netVars, sent, waiting>>

-----------------------------------------------------------------------------
(***************************************************************************)
(* The end: LEAVE_ROOM for every room, then shutdown.                      *)
(***************************************************************************)
(* A seeded fault: the index is incremented twice.                         *)
LeaveNext_SkipsOne ==
  /\ pc = "leaving" /\ i < Len(rooms)
  /\ Sends("LEAVE_ROOM", rooms[i + 1], <<>>)
  /\ i' = i + 2
  /\ UNCHANGED <<quit, pc, userVars, loginVars, roomVars, netVars>>

LeaveNext ==
  /\ pc = "leaving" /\ i < Len(rooms)
  /\ Sends("LEAVE_ROOM", rooms[i + 1], <<>>)
  /\ i' = i + 1
  /\ UNCHANGED <<quit, pc, userVars, loginVars, roomVars, netVars>>

LeaveFails ==
  /\ pc = "leaving" /\ i < Len(rooms)
  /\ SendFails
  /\ UNCHANGED <<userVars, netVars>>

Shutdown ==
  /\ pc = "leaving" /\ i >= Len(rooms)
  /\ Goto(IF link = "reset" THEN "failed" ELSE "done")
  /\ UNCHANGED <<userVars, loginVars, roomVars, netVars, sent, waiting>>

Client ==
  \/ NoKey \/ ReadEsc \/ ReadNothing
  \/ JoinRoom \/ SendMessage \/ LeaveRoom \/ ReadFails
  \/ AskCredentials
  \/ \E n \in 1 .. Len(inbox) : Recv(n) \/ RecvTorn(n) \/ RecvCrash(n)
  \/ RecvNothing \/ RecvError
  \/ LeaveNext \/ LeaveFails \/ Shutdown

-----------------------------------------------------------------------------
(***************************************************************************)
(* The user, and the chat server as the client sees it.  It answers a      *)
(* request once at most, and replies come that answer none of this client: *)
(* those of another (ChatServer's ReplyToAsker), and those that            *)
(* server_main.cpp:522 broadcasts again.                                   *)
(***************************************************************************)
Type ==
  /\ typed < MaxLines
  /\ \E line \in Lines \cup {Esc} : keys' = Append(keys, line)
  /\ typed' = typed + 1
  /\ UNCHANGED netVars

ServerSends ==
  /\ link = "up" /\ arrived < MaxFrames
  /\ \E type \in Inbound, room \in RoomNames \cup {Unnamed}, own \in BOOLEAN :
       /\ room = Unnamed <=> type \in ReplyTypes
       /\ own => type \in ReplyTypes /\ waiting > 0
       /\ inbox' = Append(inbox, [type |-> type, room |-> room, own |-> own,
                                  number |-> arrived + 1])
       /\ waiting' = IF own THEN waiting - 1 ELSE waiting
  /\ arrived' = arrived + 1
  /\ UNCHANGED <<userVars, link>>

ServerCloses ==
  /\ MayClose /\ link = "up"
  /\ link' = "closed"
  /\ UNCHANGED <<userVars, inbox, arrived>>

Reset ==
  /\ MayReset /\ link # "reset"
  /\ link' = "reset" /\ inbox' = <<>>
  /\ UNCHANGED <<userVars, arrived>>

Outside ==
  /\ ServerSends \/ ((Type \/ ServerCloses \/ Reset) /\ UNCHANGED waiting)
  /\ UNCHANGED <<loginVars, roomVars, loopVars, sent>>

Next == Client \/ SendRequest \/ RequestFails \/ Outside

Spec == Init /\ [][Next]_vars

(* The loop never waits but at the prompt, where the user may leave it.    *)
FairSpec == Spec /\ WF_vars(Client)

(* The same with a server that answers, until MaxFrames.                   *)
AnsweredSpec == FairSpec /\ WF_vars(ServerSends /\ Outside)

-----------------------------------------------------------------------------
(***************************************************************************)
(* Properties.                                                             *)
(***************************************************************************)
Line == Seq(Words)
ClientSends == ChatTypes \cup AuthTypes

(* The variables of client_main.cpp and of its surroundings keep their     *)
(* types.                                                                  *)
TypeOK ==
  /\ keys \in Seq(Line \ {<<>>}) /\ typed \in 0 .. MaxLines
  /\ rooms \in Seq(Line)
  /\ chatlog \in Seq([number : 1 .. MaxFrames, room : Line, at : Nat])
  /\ loggedIn \in BOOLEAN /\ loggingIn \in BOOLEAN /\ strays \in Nat
  /\ quit \in BOOLEAN
  /\ pc \in {"keyboard", "recv", "login", "register", "leaving", "done",
             "failed", "crashed"}
  /\ i \in 0 .. Len(rooms)
  /\ link \in {"up", "closed", "reset"}
  /\ inbox \in Seq([type : Inbound, room : RoomNames \cup {Unnamed},
                    own : BOOLEAN, number : 1 .. MaxFrames])
  /\ arrived \in 0 .. MaxFrames
  /\ sent \in Seq([type : ClientSends, room : Line, text : Line])
  /\ waiting \in Nat

IsFrame(k, type, room) == sent[k].type = type /\ sent[k].room = room

(* Before its frame n, the client has joined the room and not left it.     *)
InsideBefore(n, room) ==
  \E a \in 1 .. n - 1 :
    /\ IsFrame(a, "JOIN_ROOM", room)
    /\ \A b \in a + 1 .. n - 1 : ~IsFrame(b, "LEAVE_ROOM", room)

(* What the client has told the server agrees with rooms, through every    *)
(* order of commands, replies and failures: it is in the rooms of its list *)
(* and, after a normal end, in none.                                       *)
RoomsMatchWire ==
  LET left == IF pc = "done" THEN Len(rooms) ELSE i
      Told == {sent[k].room : k \in 1 .. Len(sent)}
  IN {room \in Told : InsideBefore(Len(sent) + 1, room)}
       = {rooms[k] : k \in left + 1 .. Len(rooms)}

(* JOIN and LEAVE of a room alternate on the wire, and a message goes out  *)
(* between the two only.                                                   *)
WireIsOrderly ==
  \A k \in 1 .. Len(sent) :
    /\ sent[k].type = "JOIN_ROOM" => ~InsideBefore(k, sent[k].room)
    /\ sent[k].type \in {"LEAVE_ROOM", "SEND_MESSAGE"}
         => InsideBefore(k, sent[k].room)

(* A frame is shown once, and in the order of arrival, though every match  *)
(* in rooms adds it to the chat log.                                       *)
ShownOnce ==
  \A j, k \in 1 .. Len(chatlog) : j < k => chatlog[j].number < chatlog[k].number

(* What was shown of a room was shown while the server had been told that  *)
(* the client was in it.                                                   *)
ShownWhileInside ==
  \A k \in 1 .. Len(chatlog) : InsideBefore(chatlog[k].at + 1, chatlog[k].room)

OwnAnswers == {k \in 1 .. Len(inbox) : inbox[k].own}

(* One request for a login or an account is under way at a time, whatever  *)
(* the user types ahead: no second one goes out before the server has      *)
(* answered the first and the answer has been read.  A success that        *)
(* answers no request of this client is taken for its answer, too, and     *)
(* lets one more request out; nothing else does.                           *)
OneRequestAtATime == waiting + Cardinality(OwnAnswers) <= strays + 1

Ended == pc \in {"done", "failed", "crashed"}

(* Esc ends the program when it is the next key and no login is under way. *)
EscQuits ==
  /\ keys # <<>> /\ Head(keys) = Esc /\ ~AtPrompt
    ~> Ended \/ loggingIn

(* A reset connection ends the program, even while it waits for a reply,   *)
(* unless it waits for its user.                                           *)
ResetEnds == link = "reset" ~> Ended \/ AtPrompt

(* client_main.cpp:171, "esc to quit": Esc ends the program, unless a      *)
(* prompt takes it.                                                        *)
EscAlwaysQuits ==
  keys # <<>> /\ Head(keys) = Esc /\ ~AtPrompt ~> Ended \/ AtPrompt
=============================================================================
