# PLG chat: a verification project

TLA+ models, model-checking runs and machine-checked proofs for the chat
system under `src/Code`: a chat client, a chat server, an authentication server
and its database access, written in C++ against Winsock, protobuf and the MySQL
connector. Every definition is translated from the code; `PROJECT.json` names the
lines each one stands for.

## The system

```
 client_main.cpp  --- frames --->  server_main.cpp  --- G_ frames --->  auth_server_main.cpp
 (any number)     <-- frames ---   (chat server)    <-- G_ frames ---   (authentication server)
                                                                          |  function calls
                                                                          v
                                                     DBHelper.cpp, SaltHasher.cpp  --- SQL ---> MySQL
```

| Part | Source | State it keeps | Operations |
|---|---|---|---|
| Protocol library | `PLGNetworkingProj1Lib` | a `Buffer`: bytes, `indexRead`, `indexWrite` | `MakeProtocol`, `ParseBuffer`, `PayloadToString`, `LoadBuffer`, typed reads and writes |
| Chat server | `PLGNetworkProj1/server_main.cpp` | `ClientArray`, `TotalClients`, the global buffers `outgoing` and `ingoing`, each client's `buffer`, the loop's `ReadSet`, `RecvBytes`, `iResult` | one endless loop: select, accept, a turn for every readable client, one read from the authentication server; `RemoveClient` |
| Client | `PLGNetworkProj1/client_main.cpp` | `rooms`, `chatlog`, `message`, `loggedIn`, `loggingIn` | keyboard commands, one read per loop, leaving every room at the end |
| Authentication server | `PLGNetworkAuthServer/auth_server_main.cpp` | as the chat server, with the chat server as its client | the same loop; answers a request with the outcome of `DBHelper` |
| Database access | `PLGNetworkAuthServer/DBHelper.cpp`, `Database Creation code.txt` | the tables `users` and `web_auth`, the connection | `CreateAccount`, `LoginUser` |
| Salting and hashing | `SaltHasher.cpp`, `SHA256.cpp` | a hash in progress | `GenerateSalt`, `HashPassword` |
| Messages | `account.proto` | none | serialise and parse; an enum value out of range fails to parse |

`src/Code/dev` and `src/Code/gen` hold third-party and generated code.
`main.cpp` and `ClientData.h` are not used by any of the programs.

### How the parts interact, and what is hard about it

* **The slot number as a name.** A client's login is forwarded with its index in
  `ClientArray` as `requestId`. The reply comes back rounds later and is sent to
  whoever has that slot then; `RemoveClient` shifts slots down in between.
* **State carried from turn to turn.** `outgoing` is global. A login does not
  set it, and the end of the turn broadcasts it all the same. `PayloadToString`
  moves the buffer's read index, so sending a buffer twice sends other bytes.
* **Results overwritten.** `iResult` holds first the result of `WSARecv`, then
  that of the `WSASend` to the authentication server, and is tested once, after
  both. `RecvBytes` keeps its old value if `WSARecv` fails before storing it.
* **The scan that edits its own array.** Removing the client of slot `i`
  while the loop is at `i` makes the loop skip the next one.
* **Limits.** `FD_SETSIZE` slots with no test, and an `fd_set` that holds one
  client fewer because the listening socket is in it.
* **Streams.** TCP may deliver several frames to one read; every reader parses
  the first and drops the rest.
* **Two INSERTs, no transaction.** `CreateAccount` may fail or die half-way,
  and `LoginUser` takes `web_auth.id` for `users.id`.

### What makes each part correct

* Chat server: the table holds exactly the clients accepted and not closed;
  all of them are sent all broadcasts; replies go to the client that asked, or
  at least never to a client accepted earlier; a message is broadcast whole once;
  leavers are closed, writers read and connections accepted.
* Protocol library: what is sent and parsed again is what was made, if it fits;
  a buffer that fits is not written past its end.
* Client: its list of rooms is what it has told the server; it shows messages of
  those rooms only, once; no second request goes out before the first is answered, unless a
  success that was not its own lets it; it can be left.
* Authentication server: a peer is answered its own requests, each at most once and
  in order, with what the accounts bear out.
* Database access: one account per address, one user per account, accounts
  never lost or changed, and answers that agree with what is stored.

## Modules

| Module | What it models |
|---|---|
| `Protocol` | frame types and codes; a `Buffer` between two uses |
| `WireBuffer` | `Buffer.cpp` and `ProtocolMethods.cpp` byte by byte |
| `ChatServer` | the chat server, with clients and authentication server as its environment |
| `ChatClient` | the client program, with its user and its server as the environment |
| `AuthServer` | the authentication server, with chat servers and the database as its environment |
| `AuthService` | abstract: what a connection to the authentication server promises |
| `DBHelper` | `CreateAccount` and `LoginUser` statement by statement |
| `AccountStore` | abstract: what the account functions promise |
| `MCChatServer`, `MCChatClient`, `MCAuthServer`, `MCDBHelper`, `MCWireBuffer` | small instances for TLC |
| `ChatServer_proofs` | the inductive invariant, type correctness, the table |
| `ChatServerReplies_proofs` | where replies go; watched clients stay watched, healthy ones connected |
| `ChatServerCasts_proofs` | what is broadcast: everything to everyone, whole once; no type word in a torn message; the earliest crash |
| `ChatServerService_proofs` | the refinement of `AuthService` by the chat server's end |
| `ChatClient_proofs` | all six invariants of the client |
| `WireBuffer_proofs` | frames that fit stay inside, are encoded and parsed back; sendings of one buffer are as `Protocol` counts them |
| `DBHelper_proofs` | all properties of the account functions; the refinement of `AccountStore` |
| `AuthServer_proofs` | all safety properties of the authentication server; the refinement of `AuthService` |

The modules are tied together at their borders, so that none of them assumes what another
does not show:

```
 ChatClient           ChatServer --UsesService--> AuthService <--ImplementsService-- AuthServer
     |                    |                                                              |
     +------ Protocol ----+--------------------------------------------------------------+
                | AgreesWithProtocol                       AuthServer uses what AccountStore promises
            WireBuffer                                     DBHelper --ImplementsStore--> AccountStore
```

### Protocol and WireBuffer

A frame is its type and its text; the text stands for all its strings, which
the servers copy and never look into. A buffer is the frame that `MakeProtocol`
wrote and the number of words `PayloadToString` has read from it (`reads`).
`TypesOnTheWire` gives the type a receiver reads from a payload: the frame's own
after no read; after one read as many bytes are copied as the type *code* says, so
the type word survives for codes from 8 on; after more, the number is a string's
length or text. What the copy did not fill is heap memory: `Garbage` stands for a type word
that is not the frame's own. Nothing is claimed of it: `ChatClient` lets it be any type
(`HeapTypes`), that of a chat message included. From the third
read on the number may be text, and the allocation or the copy may end the process
(`PayloadMayFail`); in a new buffer, which is all zeros, nothing is sent, and the reading
leaves the vector after `BlankWords` = `DEFAULT_BUFLEN`/4 calls.

`WireBuffer` justifies this. It has the bytes: `Write` and `InsertWord` are the writing
functions, with the growth of the vector and the mark `outside` for a write past its
end; `MakeProtocol`, `Copied` (PayloadToString), and `ParseBuffer` over the receiver's
array follow. Its state is one `outgoing`, assigned and sent any number of times, and one
receiving array. `AgreesWithProtocol` says of every buffer that the programs send more
than once that what `Protocol` claims of its n-th sending is what the bytes give.

### ChatClient

One loop: `NoKey`, or one action for what a line does when Enter is read (`ReadEsc`, `ReadNothing`,
`JoinRoom`, `SendMessage`, `LeaveRoom`, `AskCredentials`), then one `recv` (`Recv`,
`RecvTorn` and `RecvCrash` for frames whose type word is heap memory, `RecvNothing`,
`RecvError`); `SendRequest` is the user's answer at the prompt, where the program waits in
`std::cin`; at the end `LeaveNext` for every room and `Shutdown`. Every `send` has its
failing twin, which ends the program. A line is a sequence of words and a room's name is
the rest of a line, as `find(" ")` and `erase` make it: `/join` without an argument joins
the room `/join`. `&&` binds tighter than `||`, so `IsCommand` tests `loggedIn`
for the short form of a command only. The ghost variables are `typed`, `arrived`, `sent`, `waiting` (the
requests that the server has not answered) and `strays` (the successes the client has parsed that
answer no request of its own). The user types anything of `Lines`, also ahead of the program; the
server sends any frame of `Inbound`, asked for or not, closes or is reset. A frame that answers
a request of this client is `own`; the server may send answers that are not, since the chat server
sends replies to the wrong client and broadcasts them again with the next login.

### AuthServer and AuthService

`AuthServer` has the shape of `ChatServer`: the same table, select, accept and scan. A turn
is `Serve` (a request is executed and answered), `Ignore` or `IgnoreCrash` (no
database: whatever `outgoing` holds is sent, or its reading ends the process), `Throw` (a
statement throws outside of its try block), `RecvNothing`, and `Reparse`,
`ReparseThrow` and `ReparseNothing` for a failed `WSARecv` that leaves `RecvBytes` alone: the
last request is executed once more before the error is looked at. A database call is one step
with the results that `AccountStore` allows. The peers are chat servers, whose requests are made in a
new buffer and sent once: the messages "Parsing failed" and a type without a branch do not occur
(`auth_server_main.cpp:283`, `:336`), so that the tail of a turn re-sends an old
`outgoing` only without a database. `AuthService` is the promise to one
connection: requests are taken in order, some of them together, and the first of those taken is
answered with an answer of its own kind, or none is. `ChatServer!UsesService` shows that the
environment `ChatServer` assumes is that service.

### ChatServer

The server's thread is modelled at the grain at which others can act in between:
`Select`, `AcceptClient`, one action for each client's turn, one for the read from
the authentication server. `pc` says where the loop is and `i` is the loop's index.
A turn is the whole body of the `for` loop for one readable client:

| Action | The turn |
|---|---|
| `RecvChat` | a JOIN, LEAVE or SEND frame becomes a RECV_MESSAGE for all |
| `RecvAuth`, `RecvAuthCrash` | a LOGIN or REGISTER frame is forwarded; then `outgoing` is broadcast, or its reading ends the process |
| `RecvAuthUnsent` | the forwarding fails: the client is removed |
| `RecvNothing` | no bytes; the branch of an indeterminate type (`Phantom`), then `RemoveClient` |
| `ReparseOther`, `ReparseAuth`, `ReparseCrash` | `WSARecv` failed and kept the old count: the last frame again |

After the turns, `ForwardReply`, `ReplyToNobody` (the slot is empty: a null pointer is
followed), `DropReply` (the parse fails) or `NoReply`. `AcceptOverflow` and
`AcceptFails` end the process. `fault` says what ended it.

The environment: a client connects, writes each text once, finishes or is
reset at any time; the authentication server reads one or more requests and answers the
first, and may go away (`AuthService` again). Ghost variables (`author`, `arrivals`, `ticket`, `joined`, `casts`,
`asks`, `madeAt`, and the fields `asker`, `upto`, `cast` of frames) only record history for the
properties; no guard of the program's actions reads them, except that `asks` is bounded. `madeAt`
is the value of `asks` when `outgoing` was last written, so that properties can count the logins
since then.
`FD_SETSIZE` includes the place of the listening socket in the `fd_set`.

Assumed: the operating system does not split a frame, frames fit in 512 bytes, a send to a
live peer does not block, `select` and `ioctlsocket` do not fail. Reads of indeterminate values are a
choice: `Leftover` is what the type of an empty message may be, `KeepsCount` says whether a
failed `WSARecv` may leave `RecvBytes` alone.

### DBHelper and AccountStore

One action per SQL statement, since a failure or a crash may come between any two.
`Refused` is a statement that fails (an INSERT may have used up its AUTO_INCREMENT value),
`LoseLink` a lost connection, after which every statement fails until somebody restarts
the program (`Restart`). `GetTimeInDateTimeFormat` deletes the buffer that `localtime` owns
(`DBHelper.cpp:274`), which is undefined: the process may go on or end. `Restart` at any point of a
call includes that end, and counts it as a mishap. An email is a class of addresses the column's collation holds equal;
a digest is the pair of salt and password, so no collisions are assumed.

`AccountStore` is the promise: accounts are never changed or lost, `SUCCESS` means what it
says, a failing call may have created its account all the same. `DBHelper!Store` is the
refinement mapping: an account is the password in the hash of the row of its address.

## Runs

All bounds are constants of the `.cfg` files. Deadlock is checked for `DBHelper`, where somebody
always restarts it; the servers and the client really may stop (`fault`, `pc`), and `WireBuffer`'s
frames run out.

| Run | Instance | Shows |
|---|---|---|
| `server_rooms` | 4 clients, 3 slots, 2 texts | the table up to its overflow, types; where replies go; the connection to the authentication server is used as `AuthService` allows |
| `server_failures` | 2 clients, 3 slots, 2 texts, a buffer of 8 bytes, every failure, 3 requests | a message is whole once, nobody in the table misses one, a torn message has no type word of its own, the earliest crash, failures close no healthy client |
| `server_live` | 3 clients, 3 slots, one may be reset and have its login parsed again, fair server | the unwatched slot; watched clients stay watched and are served, connections accepted |
| `server_reply_to_asker` | 3 clients | violated: a reply goes to another client while the asker is connected |
| `server_wrong_password` | 1 client | violated: INVALID_PASSWORD is never reported |
| `db_safety` | 2 addresses, 2 passwords, 3 ids, 2 mishaps | unique addresses, distinct owners, orphans, refinement of `AccountStore` |
| `db_login_stamp` | the same with 1 mishap | violated: a login stamps another user's row |
| `auth_answers` | 2 peers, 3 slots, 3 requests, every failure, fair server | refinement of `AuthService`, own answers in order, only leavers closed, waiters answered |
| `auth_accounts` | 3 peers, 2 slots, 2 passwords, with and without database | true successes, the blank buffer, overflow, types |
| `wire_frames` | a buffer of 24 bytes, strings of 0, 2 and 6, 2 frames | encoding, decoding, growth, second sendings |
| `client` | 7 commands, 2 rooms, 3 lines, 2 frames, every failure, fair loop | rooms and wire agree, messages shown, no second request before the first is answered, Esc and reset end it |
| `client_esc` | 2 lines, 2 replies, a server that answers | violated: after a refused login Esc is not read |

Why the bounds are enough. A misdirected reply needs an asker, a client before it that
leaves and a client after it: three clients, and the fourth overflows three slots. Two texts give two requests under way
together, or a message and a login. The life of `outgoing` between two messages is
four words long; two texts, one of them parsed again, and three requests pass through
it; a buffer of 8 bytes has two words, so that the same requests use up a new one. Three clients
at three slots give two watched slots (so that a removal makes the
scan skip one) and the unwatched one; the authentication server's two runs split
that and the overflow between them. In the database, a failed call, a good one and a later login need two addresses and
three ids. A buffer of 24 bytes is filled exactly, left short and outgrown at each of the places
where a string or a length may start. Three lines are a room joined, left and joined
again, or two lines typed ahead of a prompt; two frames are a coalesced pair. `MaxAsks` caps
requests, which a client that is parsed again and again could make unbounded: when so many have
been sent, no frame is parsed again (`ReparseAuth`, `ReparseCrash`) and no indeterminate type is
taken for a login (`Phantom`). Three are the first that reach the crash; a login of a client that is
not parsed again is never held back.

**Fairness.** `FairSpec` is weak fairness of one thread in each program: `WF_vars(Server)` for the
servers, whose sockets do not block and whose `select` has a timeout of two seconds, and
`WF_vars(Client)` for the client's loop, which polls the keyboard and reads from a
non-blocking socket. The client's `SendRequest` is outside of `Client`: at the prompt the
program waits for its user, who may never answer. Nothing is assumed of users, clients or peers. Only
`client_esc` adds a server that answers (`AnsweredSpec`), to show that the client hangs although it
does. The clients of a run write finitely often; one that writes for ever cannot starve
others, since a scan serves each readable slot once.

**Findings.** The four violated runs are disagreements of the code with its own comments or
message definitions; `PROJECT.json` quotes them. Seen while modelling, and modelled as they are, but
not made a run of their own: `LoginUser` answers the time of the login where `account.proto:36` has
`creationDate` (`DBHelper.cpp:189`); `/join`, `/message` and `/leave` need no login, only
their short forms do (`client_main.cpp:199`); the second of two frames in one `recv` is dropped
(`client_main.cpp:380`); a room whose name has a space can be joined and never written to
(`client_main.cpp:233`).

**Mutants.** The definitions named `<definition>_<what>` are seeded faults, each a plausible slip
in the code its original models; every property of a passing run is violated by one of them.

## Proofs

The theorems hold for every value of the constants: any number of clients, slots, texts,
addresses and requests, and every buffer length that the code could be built with. They rest on the
named assumptions of the modules alone: `NULL` is no client, `FD_SETSIZE` is positive,
`DEFAULT_BUFLEN` is at least 8, a
frame's length fits in an `int`, and the like. Those of bounds (`MaxAsks`, `MaxRequests`) say
only that they are numbers.

**ChatServer.** The inductive invariant is `Inv == TypeOK /\ TableInArrivalOrder /\ BacklogInv`. The
three cannot be separated: that a request's `upto` is a set of clients needs the used slots to hold
clients; that the table stays ordered when a client is accepted needs the waiting connections to
be distinct and never accepted before (`BacklogInv`). The heart is `RemovedSlots` and
`RemoveKeepsOrder`: after a removal, slot k holds what slot k or k + 1 held, in the same
order. On top of `Inv`:

* `RouteExactAlways`, `RouteNeverBackAlways`, `AnswersGoForward`, `NobodyMisled`. `RouteInv` says
  of every request or reply on its way that, as long as nobody of `upto` (the asker and the
  clients in the slots below) is gone, those slots are unchanged, and that otherwise the slot
  holds a client accepted no earlier than the asker. `DeliveryInv` says the same of what has been
  delivered. The proof goes through `TableMoves`: whatever the step, the table is left alone,
  grows by an accept or shrinks by a removal; and through `AuthMoves` for the messages.
* `WatchedAlways` and `HealthyAlways`, two action properties: slots only move down; an open
  connection is closed only because the login it has just written could not be sent.
* What is broadcast goes through `SendMoves`, which sorts all steps by what they do to `outgoing`
  and to the streams. `CrashNeedsThreeAsksAlways` and `TornHasNoTypeAlways` rest on
  `ReadsInv`: since `outgoing` was last written (`madeAt`), it has been read once then, and once for
  each request sent after that; a buffer never written has been read no more often than requests
  were sent. Every message and every reply starts the count again. The crash also needs that
  an ended process writes `outgoing` no more (`StoppedStays`). `TornHasNoType` is an action
  property: the frame that a step adds to a stream is whole, or is `outgoing` once more
  (`StreamGains`).
* `EveryoneHearsAlways`: `HearInv` adds that nobody is sent anything before being accepted, and
  that a stream's broadcasts are exactly the numbers `joined + 1 .. casts`.
* `WholeOnceAlways`: a text waits in its author's queue only, once (`AuthorInv`); a buffer that
  is in `outgoing` and was not sent is a last frame parsed again (`UnsentInv`); a text that was
  broadcast whole waits no more (`SpentInv`).
* `ConnectionIsTheService`: the requests and answers seen through `Asked` and `Answered` are
  sequences that grow and shrink as the originals do, so that each of the moves of `AuthMoves` is
  a step of `AuthService`.

**DBHelper.** `Inv` adds to the types what holds at each point of a call (`PhaseInv`), that a hash
being computed is of the call's own salt and password (`HashInv`), and the two properties themselves,
`UniqueEmails` and `OwnersAreDistinct`, which depend on each other's phases. `OrphansAreMishapsAlways`
counts the rows of `users` without an account against the mishaps; `StampsAlways` needs the two
AUTO_INCREMENT counters to agree until the first mishap (`AlignInv`). `Implementation` shows each
statement to be a step of `AccountStore` or to be invisible; the INSERT into `web_auth`
is the step that creates the account.

**AuthServer.** `Base` is the types with what they need of each other. `AnswersAlways` orders the
numbers of the requests that a peer has still waiting, has in its buffer and was answered;
`SuccessAlways` rests on accounts never changing (`MoveKeeps`) and on one creation per address
(`CreatedOnce`); `BlankAlways` counts the readings of the blank buffer against the requests taken;
`OnlyLeaversAlways` and `Implementation` go through the actions one by one, and the latter
finds that a second execution (`Reparse`) answers nobody.

**ChatClient.** `MemberInv` says, for each room, whether the server takes the client to be in it,
from what was sent (`RoomsMatchWireAlways`, `WireIsOrderlyAlways`); `LogInv` and `SeenInv` tie each
entry of the chat log to the arrival it came from (`ShownOnceAlways`, `ShownWhileInsideAlways`);
`GrantInv` counts the requests that wait for the server, with the own answers in the inbox,
against `loggingIn` and the successes parsed that were strays (`OneRequestAlways`): sending needs
`loggingIn` to be FALSE, and only a success makes it so. `ClientTypes` needs
`rooms` and the index of the leaving loop together (`Base`).

**WireBuffer.** `WordRoundTrip`: a word is read back as it was written, byte by byte.
`FittingFramesStayInside`: a frame whose strings fit in a new `Buffer` is written inside the
vector, under `LengthAssumption` and `StringsAssumption`, and no number of sendings changes that. The
other three invariants of its run are proved from one inductive invariant, `WireInv`: the Buffer
holds `Encoded(made)` (unless something was written outside), its read index counts the readings,
`payload` is what the last of them copied, and after the first one the array begins with it.

* `MadeIsEncodingAlways`. `Holds` follows the writing: each string goes behind what the Buffer
  holds (`WriteStringHolds`), wherever the vector has to grow, and the header goes before it
  (`InsertHolds`). `Layout` says where the words and strings of `Encoded` are.
* `RoundTripAlways`. `ParseBuffer` looks at nothing but the frame's own bytes: `ParseWhole` holds
  of every array that begins with them, so neither what an earlier frame left behind them nor the
  length of the array matters. Of a frame that was cut short, some word or string is cut
  (`ParseCut`), and every later offset is behind the end.
* `AgreesWithProtocolAlways`. `FirstWords` gives the words that the first readings take for a
  length: the frame's length, its type code, the length of its first string. `TypesAgree` finds
  from them which type word survives in the copy, `FailuresAgree` that none of them leads
  outside of the vector before `Protocol` says so. This is the justification of `SafeReads`, on
  which the two servers' theorems about torn buffers rest.

These three also need `SizesAssumption`: the length of a frame fits in the `int` that `MakeProtocol`
keeps it in. The recursive function `PartEnd` is unfolded over its four arguments, so that
no induction is needed.

Every safety invariant, action property and refinement that a passing run checks is thus proved, too.
Only model-checked is what depends on fairness (`WatchedAreServed`, `ConnectedAreAccepted`,
`WaitersAreAnswered`, `EscQuits`, `ResetEnds`), since the prover handles neither `ENABLED` nor
weak fairness. Induction over data is beyond the prover, as are `RECURSIVE` operators, of which
the proved modules have none.

## Not modelled

* **The 16-bit and the indexed string operations of `Buffer`.** No program calls them.
* **Start-up.** Winsock's initialisation, addresses and the connection to MySQL either succeed or end
  in a return before the loops. Printing to the console changes no state.
* **SHA-256.** `SHA256.cpp` is third-party code (it names its origin) and is used as a pure function:
  the digest is the pair of salt and password, so collisions do not exist in the model. The
  salt is any salt.
* **The encoding of protobuf and the generated code.** A message is its fields; what matters to the
  programs is that an enum value out of range fails to parse, and that is modelled.
* **MySQL.** It is the two tables with their AUTO_INCREMENT counters, and statements that may
  be refused or lose their connection.
* **`src/Code/dev` and `src/Code/gen`.** Vendored headers, the sources of protobuf and its own tests, and
  generated code: all but a few thousand of the repository's lines. None of them is the system's own
  logic, so the share of the repository that the models cover stays small however complete they are.
* **`main.cpp` and `ClientData.h`.** No program is built from them.
* **All programs in one model.** The three loops composed would multiply state spaces without new
  steps: each program knows the others through a socket only. They are tied instead by the abstract
  module each side is shown to fit: `AuthService`, `AccountStore` and `Protocol`.
