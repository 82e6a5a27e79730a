------------------------------ MODULE DBHelper ------------------------------
(***************************************************************************)
(* The authentication server's account functions (DBHelper.cpp) and the    *)
(* two tables they work on ("Database Creation code.txt").                 *)
(*                                                                         *)
(* The functions run one at a time, in autocommit mode: each SQL statement *)
(* is a step, and what it stored stays, whatever becomes of the call.      *)
(* A statement may be refused, the connection to MySQL may be lost (it is  *)
(* never opened again by the program), and the process may die, between    *)
(* any two statements; somebody then starts it again.                      *)
(*                                                                         *)
(* Emails are the classes of addresses that the column's collation holds   *)
(* equal.  The SHA-256 digest of salt and password is the pair of the two: *)
(* no collisions are assumed, and a salt's length is fixed.                *)
(***************************************************************************)
EXTENDS Integers, FiniteSets

CONSTANTS
  Emails, Passwords, Salts,
  NONE,      \* no call, no answer, SQL's NULL
  MaxId,     \* bound: AUTO_INCREMENT values of each table
  MaxTime,   \* bound: values of the clock
  Mishaps    \* bound: refused statements, lost connections and crashes

ASSUME DBAssumption ==
  /\ MaxId \in Nat /\ MaxTime \in Nat /\ Mishaps \in Nat
  /\ NONE \notin Emails \cup Passwords \cup Salts

VARIABLES
  users,         \* the rows of users, by id
  web_auth,      \* the rows of web_auth, by id
  nextUser,      \* AUTO_INCREMENT of users
  nextAuth,      \* AUTO_INCREMENT of web_auth
  lastInsertId,  \* LAST_INSERT_ID() of the connection
  linked,        \* the connection to MySQL works
  clock,
  call,          \* email, password and salt of the call, with its function
  pc,            \* the statement that is next
  date,          \* nowAsDateTime
  lastId,
  row,           \* the id of the row m_ResultSet stands on
  response,      \* the last DatabaseResponse, with the call it is for
  mishaps        \* ghost: what has gone wrong so far

tables == <<users, web_auth, nextUser, nextAuth>>
session == <<lastInsertId, linked>>
locals == <<date, lastId, row>>
vars == <<tables, session, clock, call, pc, locals, response, mishaps>>

Ids == 1 .. MaxId
Times == 0 .. MaxTime
Call == [op : {"CreateAccount", "LoginUser"}, email : Emails,
         password : Passwords, salt : Salts]

Response ==
  [result : {"SUCCESS", "ACCOUNT_ALREADY_EXISTS", "INVALID_CREDENTIAL",
             "INVALID_PASSWORD", "INTERNAL_SERVER_ERROR"},
   userId : Ids \cup {NONE}, date : Times, call : Call]

(* NONE is no call and no answer.                                          *)
ASSUME NoneAssumption ==
  /\ NONE \notin Call
  /\ NONE \notin [op : {"CreateAccount", "LoginUser"}, email : Emails,
                 password : Passwords]
  /\ NONE \notin Response

HashPassword(salt, password) == <<salt, password>>

(* g_GetEmails: SELECT * FROM web_auth WHERE email = ?                     *)
GetEmails(email) == {a \in DOMAIN web_auth : web_auth[a].email = email}

Init ==
  /\ users = [u \in {} |-> NONE]
  /\ web_auth = [a \in {} |-> NONE]
  /\ nextUser = 1
  /\ nextAuth = 1
  /\ lastInsertId = 0
  /\ linked = TRUE
  /\ clock = 0
  /\ call = NONE
  /\ pc = "idle"
  /\ date = 0
  /\ lastId = 0
  /\ row = 0
  /\ response = NONE
  /\ mishaps = 0

(* The locals of a call die with it.                                       *)
Forget == call' = NONE /\ pc' = "idle" /\ date' = 0 /\ lastId' = 0 /\ row' = 0

Return(result, userId) ==
  /\ response' = [result |-> result, userId |-> userId, date |-> date,
                  call |-> call]
  /\ Forget

Query == linked /\ UNCHANGED <<linked, mishaps>>

-----------------------------------------------------------------------------
Begin ==
  /\ pc = "idle"
  /\ call' \in Call
  /\ call'.op = "CreateAccount" => nextUser <= MaxId /\ nextAuth <= MaxId
  /\ pc' = IF call'.op = "CreateAccount" THEN "check" ELSE "lookup"
  /\ response' = NONE
  /\ UNCHANGED <<tables, session, clock, locals, mishaps>>

(* CreateAccount.                                                          *)
(* Seeded faults: the test is missing; the user's row is inserted first.   *)
CheckEmail_NoTest ==
  /\ pc = "check"
  /\ Query
  /\ pc' = "insert_user"
  /\ date' = clock
  /\ UNCHANGED <<call, lastId, row, response>>
  /\ UNCHANGED <<tables, lastInsertId, clock>>

CheckEmail_UserFirst ==
  /\ pc = "check"
  /\ Query
  /\ IF GetEmails(call.email) # {}
     THEN /\ Return("ACCOUNT_ALREADY_EXISTS", NONE)
          /\ users' = [u \in DOMAIN users \cup {nextUser} |->
                         IF u = nextUser
                         THEN [creation_time |-> date, last_login |-> NONE]
                         ELSE users[u]]
          /\ nextUser' = nextUser + 1
     ELSE /\ pc' = "insert_user"
          /\ date' = clock
          /\ UNCHANGED <<call, lastId, row, response, users, nextUser>>
  /\ UNCHANGED <<web_auth, nextAuth, lastInsertId, clock>>

CheckEmail ==
  /\ pc = "check"
  /\ Query
  /\ IF GetEmails(call.email) # {}
     THEN Return("ACCOUNT_ALREADY_EXISTS", NONE)
     ELSE /\ pc' = "insert_user"
          /\ date' = clock
          /\ UNCHANGED <<call, lastId, row, response>>
  /\ UNCHANGED <<tables, lastInsertId, clock>>

CreateUser ==
  /\ pc = "insert_user"
  /\ Query
  /\ users' = [u \in DOMAIN users \cup {nextUser} |->
                 IF u = nextUser
                 THEN [creation_time |-> date, last_login |-> NONE]
                 ELSE users[u]]
  /\ lastInsertId' = nextUser
  /\ nextUser' = nextUser + 1
  /\ pc' = "user_id"
  /\ UNCHANGED <<web_auth, nextAuth, clock, call, locals, response>>

(* Seeded faults: the first row's id; the id the next row will have.       *)
LastUserId_FirstRow ==
  /\ pc = "user_id"
  /\ Query
  /\ lastId' = CHOOSE u \in DOMAIN users : \A v \in DOMAIN users : u <= v
  /\ pc' = "insert_auth"
  /\ UNCHANGED <<tables, lastInsertId, clock, call, date, row, response>>

LastUserId_Next ==
  /\ pc = "user_id"
  /\ Query
  /\ lastId' = nextUser
  /\ pc' = "insert_auth"
  /\ UNCHANGED <<tables, lastInsertId, clock, call, date, row, response>>

LastUserId ==
  /\ pc = "user_id"
  /\ Query
  /\ lastId' = lastInsertId
  /\ pc' = "insert_auth"
  /\ UNCHANGED <<tables, lastInsertId, clock, call, date, row, response>>

(* The foreign key wants the user's row to be there.                       *)
CreateAuth ==
  /\ pc = "insert_auth"
  /\ lastId \in DOMAIN users
  /\ Query
  /\ web_auth' = [a \in DOMAIN web_auth \cup {nextAuth} |->
                    IF a = nextAuth
                    THEN [email |-> call.email, salt |-> call.salt,
                          hash |-> HashPassword(call.salt, call.password),
                          user_id |-> lastId]
                    ELSE web_auth[a]]
  /\ lastInsertId' = nextAuth
  /\ nextAuth' = nextAuth + 1
  /\ pc' = "auth_id"
  /\ UNCHANGED <<users, nextUser, clock, call, locals, response>>

(* The id answered is that of the row of web_auth.                         *)
LastAuthId ==
  /\ pc = "auth_id"
  /\ Query
  /\ Return("SUCCESS", lastInsertId)
  /\ UNCHANGED <<tables, lastInsertId, clock>>

(* A seeded fault: the password is hashed without the salt.                *)
LookUp_Unsalted ==
  /\ pc = "lookup"
  /\ Query
  /\ IF GetEmails(call.email) = {}
     THEN Return("INVALID_CREDENTIAL", NONE)
     ELSE \E a \in GetEmails(call.email) :
            IF web_auth[a].hash # HashPassword(NONE, call.password)
            THEN Return("INVALID_PASSWORD", NONE)
            ELSE /\ row' = a
                 /\ date' = clock
                 /\ pc' = "update"
                 /\ UNCHANGED <<call, lastId, response>>
  /\ UNCHANGED <<tables, lastInsertId, clock>>

(* LoginUser: response.userId is not assigned on any path.                 *)
LookUp ==
  /\ pc = "lookup"
  /\ Query
  /\ IF GetEmails(call.email) = {}
     THEN Return("INVALID_CREDENTIAL", NONE)
     ELSE \E a \in GetEmails(call.email) :
            IF web_auth[a].hash # HashPassword(web_auth[a].salt, call.password)
            THEN Return("INVALID_PASSWORD", NONE)
            ELSE /\ row' = a
                 /\ date' = clock
                 /\ pc' = "update"
                 /\ UNCHANGED <<call, lastId, response>>
  /\ UNCHANGED <<tables, lastInsertId, clock>>

(* A seeded fault: the UPDATE has no WHERE.                                *)
UpdateLoginTime_All ==
  /\ pc = "update"
  /\ Query
  /\ users' = [u \in DOMAIN users |-> [users[u] EXCEPT !.last_login = date]]
  /\ Return("SUCCESS", NONE)
  /\ UNCHANGED <<web_auth, nextUser, nextAuth, lastInsertId, clock>>

(* getInt(1) is web_auth.id; an UPDATE that finds no row succeeds.         *)
UpdateLoginTime ==
  /\ pc = "update"
  /\ Query
  /\ users' = [u \in DOMAIN users |->
                 IF u = row THEN [users[u] EXCEPT !.last_login = date]
                 ELSE users[u]]
  /\ Return("SUCCESS", NONE)
  /\ UNCHANGED <<web_auth, nextUser, nextAuth, lastInsertId, clock>>

-----------------------------------------------------------------------------
(* What goes wrong.                                                        *)
Mishap == mishaps < Mishaps /\ mishaps' = mishaps + 1

(* A statement fails and changes nothing, except that a refused INSERT may *)
(* have used up its AUTO_INCREMENT value.                                  *)
Refused ==
  /\ pc # "idle"
  /\ Mishap
  /\ linked
  /\ \/ UNCHANGED <<nextUser, nextAuth>>
     \/ pc = "insert_user" /\ nextUser' = nextUser + 1 /\ UNCHANGED nextAuth
     \/ pc = "insert_auth" /\ nextAuth' = nextAuth + 1 /\ UNCHANGED nextUser
  /\ Return("INTERNAL_SERVER_ERROR", NONE)
  /\ UNCHANGED <<users, web_auth, session, clock>>

LoseLink ==
  /\ linked
  /\ Mishap
  /\ linked' = FALSE
  /\ UNCHANGED <<tables, lastInsertId, clock, call, pc, locals, response>>

(* Every statement fails from then on; IsConnected() is never reset.       *)
Unlinked ==
  /\ pc # "idle"
  /\ ~linked
  /\ Return("INTERNAL_SERVER_ERROR", NONE)
  /\ UNCHANGED <<tables, session, clock, mishaps>>

(* The process dies at any point of a call, also by the exception of a     *)
(* createStatement() outside of a try block, or because each date that a   *)
(* call makes ends with a delete of localtime's own buffer, which may end  *)
(* the process or do nothing; it is started again: a new connection.       *)
Restart ==
  /\ pc # "idle" \/ ~linked
  /\ Mishap
  /\ linked' = TRUE
  /\ lastInsertId' = 0
  /\ Forget
  /\ UNCHANGED <<tables, clock, response>>

(* The date of the next call is another one.                               *)
Tick ==
  /\ clock < MaxTime
  /\ clock' = clock + 1
  /\ UNCHANGED <<tables, session, call, pc, locals, response, mishaps>>

Next ==
  \/ Begin
  \/ CheckEmail \/ CreateUser \/ LastUserId \/ CreateAuth \/ LastAuthId
  \/ LookUp \/ UpdateLoginTime
  \/ Refused \/ LoseLink \/ Unlinked \/ Restart
  \/ Tick

Spec == Init /\ [][Next]_vars

-----------------------------------------------------------------------------
(***************************************************************************)
(* Properties.                                                             *)
(***************************************************************************)
User == [creation_time : Times, last_login : Times \cup {NONE}]
WebAuth == [email : Emails, salt : Salts, hash : Salts \X Passwords,
            user_id : Ids]

(* The tables, the connection's state and the call's locals keep their     *)
(* types; ids in use are below AUTO_INCREMENT.                             *)
TypeOK ==
  /\ nextUser \in 1 .. MaxId + 1
  /\ nextAuth \in 1 .. MaxId + 1
  /\ DOMAIN users \subseteq Ids \cap 1 .. nextUser - 1
  /\ DOMAIN web_auth \subseteq Ids \cap 1 .. nextAuth - 1
  /\ users \in [DOMAIN users -> User]
  /\ web_auth \in [DOMAIN web_auth -> WebAuth]
  /\ lastInsertId \in {0} \cup DOMAIN users \cup DOMAIN web_auth
  /\ linked \in BOOLEAN
  /\ clock \in Times /\ date \in Times
  /\ lastId \in {0} \cup DOMAIN users
  /\ row \in {0} \cup DOMAIN web_auth
  /\ pc \in {"idle", "check", "insert_user", "user_id", "insert_auth",
             "auth_id", "lookup", "update"}
  /\ IF pc = "idle" THEN call = NONE ELSE call \in Call
  /\ response \in Response \cup {NONE}
  /\ mishaps \in 0 .. Mishaps

(* No column of the schema is UNIQUE: CreateAccount's own test, through    *)
(* every failure between its statements, keeps one row per address.        *)
UniqueEmails ==
  \A a, b \in DOMAIN web_auth : web_auth[a].email = web_auth[b].email => a = b

(* Every account has a row of users, and no other account has it: the ids  *)
(* LAST_INSERT_ID() hands from one statement to the next are never those   *)
(* of another call, before or after a restart.                             *)
OwnersAreDistinct ==
  /\ \A a \in DOMAIN web_auth : web_auth[a].user_id \in DOMAIN users
  /\ \A a, b \in DOMAIN web_auth :
       web_auth[a].user_id = web_auth[b].user_id => a = b

Orphans == DOMAIN users \ {web_auth[a].user_id : a \in DOMAIN web_auth}

(* CreateAccount is no transaction: a row of users without an account is   *)
(* left by a call that failed half-way, and by nothing else.               *)
OrphansAreMishaps ==
  Cardinality(Orphans)
    <= mishaps + IF pc \in {"user_id", "insert_auth"} THEN 1 ELSE 0

OwnRow(u) == \E a \in GetEmails(call.email) : web_auth[a].user_id = u
Stamped == {u \in DOMAIN users : users'[u].last_login # users[u].last_login}

(* LoginUser takes the id of web_auth for that of users: a login changes   *)
(* last_login of its own user's row and of no other, as long as nothing    *)
(* has failed and the two sequences of ids agree.                          *)
StampsOwnUntilMishap == [][mishaps = 0 => \A u \in Stamped : OwnRow(u)]_vars

(* The functions as the authentication server sees them (AccountStore).    *)
Accounts(rows) ==
  [e \in {rows[a].email : a \in DOMAIN rows} |->
     rows[CHOOSE a \in DOMAIN rows : rows[a].email = e].hash[2]]
Asked ==
  IF call = NONE THEN NONE
  ELSE [op |-> call.op, email |-> call.email, password |-> call.password]
Answered == IF response = NONE THEN NONE ELSE response.result

Store == INSTANCE AccountStore WITH
  accounts <- Accounts(web_auth), call <- Asked, opened <- pc = "auth_id",
  answer <- Answered

(* Accounts are never changed or lost, and every answer agrees with what   *)
(* is stored, whatever fails between two statements.                       *)
ImplementsStore == Store!Spec

(* DBHelper.cpp:191: "update the login time", of the user who logs in.     *)
StampsOwn == [][\A u \in Stamped : OwnRow(u)]_vars
=============================================================================
