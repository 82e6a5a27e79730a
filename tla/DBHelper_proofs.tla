--------------------------- MODULE DBHelper_proofs ---------------------------
(***************************************************************************)
(* Proofs about DBHelper, for every number of addresses, ids, failures and *)
(* crashes.  What a statement of a call finds out is used by a later one,  *)
(* and failures may come in between: PhaseInv says what is still known     *)
(* before each statement, and the rest of the invariant follows from it.   *)
(***************************************************************************)
EXTENDS DBHelper, FiniteSetTheorems, TLAPS

Creating == {"check", "insert_user", "user_id", "insert_auth", "auth_id"}

(* What holds before the statement that is next.                           *)
PhaseInv ==
  /\ pc # "idle" => (call.op = "CreateAccount" <=> pc \in Creating)
  /\ pc \in {"check", "insert_user"} => nextUser <= MaxId
  /\ pc \in {"check", "insert_user", "user_id", "insert_auth"} =>
       nextAuth <= MaxId
  /\ pc \in {"insert_user", "user_id", "insert_auth"} =>
       GetEmails(call.email) = {}
  /\ pc = "user_id" => lastInsertId \in Orphans
  /\ pc = "insert_auth" => lastId \in Orphans
  /\ pc = "auth_id" => lastInsertId \in DOMAIN web_auth
  /\ pc = "update" =>
       /\ row \in GetEmails(call.email)
       /\ web_auth[row].hash = HashPassword(web_auth[row].salt, call.password)

(* The digest that is stored was made with the salt that is stored.        *)
HashInv ==
  \A a \in DOMAIN web_auth :
    \E p \in Passwords : web_auth[a].hash = HashPassword(web_auth[a].salt, p)

(* A user without an account is a mishap's, or is that of the call under   *)
(* way; a call whose connection is lost will not make its account.         *)
Making == IF linked /\ pc \in {"user_id", "insert_auth"} THEN 1 ELSE 0

OrphanInv ==
  /\ IsFiniteSet(Orphans)
  /\ Cardinality(Orphans) <= mishaps + Making

Inv == TypeOK /\ PhaseInv /\ HashInv /\ UniqueEmails /\ OwnersAreDistinct

-----------------------------------------------------------------------------
LEMMA InitInv == ASSUME Init PROVE Inv
<1>1. TypeOK
  BY DBAssumption DEF Init, TypeOK, Ids, Times, User, WebAuth
<1>. QED
  BY <1>1 DEF Init, Inv, PhaseInv, HashInv, UniqueEmails, OwnersAreDistinct

(* Beginning a call.                                                       *)
LEMMA BeginInv == ASSUME Inv, Begin PROVE Inv'
<1>. USE DEF Begin, tables, session, locals
<1>1. TypeOK'
  BY DBAssumption DEF Inv, TypeOK
<1>2. PhaseInv'
  BY DBAssumption DEF Inv, TypeOK, PhaseInv, Creating, Call
<1>. QED
  BY <1>1, <1>2 DEF Inv, HashInv, UniqueEmails, OwnersAreDistinct

(* The statements that only look: the tables stay.                         *)
LEMMA TablesStay ==
  ASSUME Inv, UNCHANGED tables
  PROVE  /\ HashInv' /\ UniqueEmails' /\ OwnersAreDistinct'
         /\ Orphans' = Orphans
         /\ \A e \in Emails : GetEmails(e)' = GetEmails(e)
  BY DEF Inv, tables, HashInv, UniqueEmails, OwnersAreDistinct, Orphans, GetEmails

(* A call that ends leaves the types right, if its answer's id is one.     *)
LEMMA ReturnTypes ==
  ASSUME Inv, pc # "idle", NEW result \in
           {"SUCCESS", "ACCOUNT_ALREADY_EXISTS", "INVALID_CREDENTIAL",
            "INVALID_PASSWORD", "INTERNAL_SERVER_ERROR"},
         NEW id \in Ids \cup {NONE}, Return(result, id)
  PROVE  /\ response' \in Response /\ pc' = "idle" /\ call' = NONE
         /\ date' \in Times /\ lastId' = 0 /\ row' = 0
<1>1. date \in Times /\ call \in Call
  BY DEF Inv, TypeOK
<1>2. response' \in Response
  BY <1>1 DEF Return, Response
<1>. QED
  BY <1>2, DBAssumption DEF Return, Forget, Times

LEMMA LooksInv ==
  ASSUME Inv, CheckEmail \/ LastUserId \/ LastAuthId \/ LookUp
  PROVE  Inv'
<1>1. UNCHANGED <<tables, lastInsertId, clock>> /\ Query /\ pc # "idle"
  BY DEF CheckEmail, LastUserId, LastAuthId, LookUp
<1>2. /\ HashInv' /\ UniqueEmails' /\ OwnersAreDistinct'
      /\ Orphans' = Orphans
      /\ \A e \in Emails : GetEmails(e)' = GetEmails(e)
  BY <1>1, TablesStay
<1>3. call \in Call /\ call.email \in Emails
  BY <1>1 DEF Inv, TypeOK, Call
<1>4. CASE \E result \in {"SUCCESS", "ACCOUNT_ALREADY_EXISTS",
                        "INVALID_CREDENTIAL", "INVALID_PASSWORD"},
             id \in Ids \cup {NONE} : Return(result, id)
  <2>1. PICK result \in {"SUCCESS", "ACCOUNT_ALREADY_EXISTS",
                         "INVALID_CREDENTIAL", "INVALID_PASSWORD"},
             id \in Ids \cup {NONE} : Return(result, id)
    BY <1>4
  <2>2. /\ response' \in Response /\ pc' = "idle" /\ call' = NONE
        /\ date' \in Times /\ lastId' = 0 /\ row' = 0
    BY <1>1, <2>1, ReturnTypes
  <2>3. TypeOK'
    BY <1>1, <2>2 DEF Inv, TypeOK, tables, Query
  <2>4. PhaseInv'
    BY <2>2 DEF PhaseInv
  <2>. QED
    BY <1>2, <2>3, <2>4 DEF Inv
<1>5. CASE CheckEmail /\ GetEmails(call.email) = {}
  <2>1. /\ pc = "check" /\ pc' = "insert_user" /\ date' = clock
        /\ UNCHANGED <<call, lastId, row, response>>
    BY <1>5 DEF CheckEmail
  <2>2. TypeOK'
    BY <1>1, <2>1 DEF Inv, TypeOK, tables, Query
  <2>3. PhaseInv'
    BY <1>1, <1>2, <1>3, <1>5, <2>1 DEF Inv, PhaseInv, Creating, tables
  <2>. QED
    BY <1>2, <2>2, <2>3 DEF Inv
<1>6. CASE LastUserId
  <2>1. /\ pc = "user_id" /\ pc' = "insert_auth" /\ lastId' = lastInsertId
        /\ UNCHANGED <<call, date, row, response>>
    BY <1>6 DEF LastUserId
  <2>2. lastInsertId \in Orphans
    BY <2>1 DEF Inv, PhaseInv
  <2>3. TypeOK'
    BY <1>1, <2>1, <2>2 DEF Inv, TypeOK, tables, Query, Orphans
  <2>4. PhaseInv'
    BY <1>1, <1>2, <1>3, <2>1, <2>2 DEF Inv, PhaseInv, Creating, tables
  <2>. QED
    BY <1>2, <2>3, <2>4 DEF Inv
<1>7. CASE LookUp /\ \E a \in GetEmails(call.email) :
             /\ web_auth[a].hash = HashPassword(web_auth[a].salt, call.password)
             /\ row' = a /\ date' = clock /\ pc' = "update"
             /\ UNCHANGED <<call, lastId, response>>
  <2>1. PICK a \in GetEmails(call.email) :
          /\ web_auth[a].hash = HashPassword(web_auth[a].salt, call.password)
          /\ row' = a /\ date' = clock /\ pc' = "update"
          /\ UNCHANGED <<call, lastId, response>>
    BY <1>7
  <2>2. pc = "lookup" /\ a \in DOMAIN web_auth
    BY <1>7 DEF LookUp, GetEmails
  <2>3. TypeOK'
    BY <1>1, <2>1, <2>2 DEF Inv, TypeOK, tables, Query
  <2>4. PhaseInv'
    BY <1>1, <1>2, <1>3, <2>1, <2>2 DEF Inv, PhaseInv, Creating, tables
  <2>. QED
    BY <1>2, <2>3, <2>4 DEF Inv
<1>8. LastAuthId => lastInsertId \in Ids
  BY DEF LastAuthId, Inv, TypeOK, PhaseInv
<1>. QED
  <2>1. CASE CheckEmail
    BY <1>4, <1>5, <2>1 DEF CheckEmail
  <2>2. CASE LastAuthId
    BY <1>4, <1>8, <2>2 DEF LastAuthId
  <2>3. CASE LookUp
    BY <1>4, <1>7, <2>3 DEF LookUp
  <2>. QED
    BY <1>6, <2>1, <2>2, <2>3

(* The INSERT INTO users.  The new id is nobody's: web_auth refers to rows *)
(* of users only.                                                          *)
LEMMA CreateUserInv ==
  ASSUME Inv, CreateUser
  PROVE  Inv' /\ nextUser \notin DOMAIN users /\ Orphans' = Orphans \cup {nextUser}
<1>1. /\ pc = "insert_user" /\ pc' = "user_id" /\ Query
      /\ users' = [u \in DOMAIN users \cup {nextUser} |->
                     IF u = nextUser
                     THEN [creation_time |-> date, last_login |-> NONE]
                     ELSE users[u]]
      /\ lastInsertId' = nextUser /\ nextUser' = nextUser + 1
      /\ UNCHANGED <<web_auth, nextAuth, clock, call, date, lastId, row, response>>
  BY DEF CreateUser, locals
<1>2. /\ nextUser \in Ids /\ nextUser \notin DOMAIN users
      /\ DOMAIN users' = DOMAIN users \cup {nextUser}
  BY <1>1, DBAssumption DEF Inv, TypeOK, PhaseInv, Ids
<1>3. Orphans' = Orphans \cup {nextUser}
  BY <1>1, <1>2 DEF Inv, OwnersAreDistinct, Orphans
<1>4. TypeOK'
  <2>1. users' \in [DOMAIN users' -> User]
    <3>1. [creation_time |-> date, last_login |-> NONE] \in User
      BY DEF Inv, TypeOK, User
    <3>2. \A u \in DOMAIN users : users[u] \in User
      BY DEF Inv, TypeOK
    <3>. QED
      BY <1>1, <1>2, <3>1, <3>2
  <2>2. DOMAIN users' \subseteq Ids \cap 1 .. nextUser' - 1
    BY <1>1, <1>2, DBAssumption DEF Inv, TypeOK, Ids
  <2>3. /\ nextUser' \in 1 .. MaxId + 1
        /\ lastInsertId' \in {0} \cup DOMAIN users' \cup DOMAIN web_auth'
        /\ lastId' \in {0} \cup DOMAIN users'
    BY <1>1, <1>2, DBAssumption DEF Inv, TypeOK, Ids
  <2>. QED
    BY <1>1, <2>1, <2>2, <2>3 DEF Inv, TypeOK, Query
<1>5. PhaseInv'
  BY <1>1, <1>2, <1>3 DEF Inv, PhaseInv, Creating, GetEmails
<1>6. HashInv' /\ UniqueEmails'
  BY <1>1 DEF Inv, HashInv, UniqueEmails
<1>7. OwnersAreDistinct'
  BY <1>1, <1>2 DEF Inv, OwnersAreDistinct
<1>. QED
  BY <1>2, <1>3, <1>4, <1>5, <1>6, <1>7 DEF Inv

(* The INSERT INTO web_auth gives the call's address its one row, and the  *)
(* call's own user an account.                                             *)
LEMMA CreateAuthInv ==
  ASSUME Inv, CreateAuth
  PROVE  Inv' /\ Orphans' = Orphans \ {lastId} /\ lastId \in Orphans
<1>. DEFINE new == [email |-> call.email, salt |-> call.salt,
                    hash |-> HashPassword(call.salt, call.password),
                    user_id |-> lastId]
<1>1. /\ pc = "insert_auth" /\ pc' = "auth_id" /\ Query
      /\ lastId \in DOMAIN users
      /\ web_auth' = [a \in DOMAIN web_auth \cup {nextAuth} |->
                        IF a = nextAuth THEN new ELSE web_auth[a]]
      /\ lastInsertId' = nextAuth /\ nextAuth' = nextAuth + 1
      /\ UNCHANGED <<users, nextUser, clock, call, date, lastId, row, response>>
  BY DEF CreateAuth, locals
<1>2. /\ call \in Call /\ call.op = "CreateAccount"
      /\ call.email \in Emails /\ call.password \in Passwords
      /\ call.salt \in Salts
      /\ lastId \in Orphans
      /\ GetEmails(call.email) = {}
  BY <1>1 DEF Inv, TypeOK, PhaseInv, Creating, Call
<1>3. /\ nextAuth \in Ids /\ nextAuth \notin DOMAIN web_auth
      /\ DOMAIN web_auth' = DOMAIN web_auth \cup {nextAuth}
      /\ web_auth'[nextAuth] = new
      /\ \A a \in DOMAIN web_auth : web_auth'[a] = web_auth[a]
  BY <1>1, DBAssumption DEF Inv, TypeOK, PhaseInv, Ids
<1>4. /\ new.email = call.email /\ new.user_id = lastId
      /\ new.hash = HashPassword(new.salt, call.password)
      /\ new \in WebAuth
  BY <1>1, <1>2 DEF Inv, TypeOK, WebAuth, HashPassword, Ids, Orphans
<1>. HIDE DEF new
<1>5. Orphans' = Orphans \ {lastId}
  BY <1>1, <1>3, <1>4 DEF Orphans
<1>6. TypeOK'
  <2>1. web_auth' \in [DOMAIN web_auth' -> WebAuth]
    <3>1. \A a \in DOMAIN web_auth : web_auth[a] \in WebAuth
      BY DEF Inv, TypeOK
    <3>. QED
      BY <1>1, <1>3, <1>4, <3>1
  <2>2. DOMAIN web_auth' \subseteq Ids \cap 1 .. nextAuth' - 1
    BY <1>1, <1>3, DBAssumption DEF Inv, TypeOK, Ids
  <2>3. /\ nextAuth' \in 1 .. MaxId + 1
        /\ lastInsertId' \in {0} \cup DOMAIN users' \cup DOMAIN web_auth'
        /\ row' \in {0} \cup DOMAIN web_auth'
    BY <1>1, <1>3, DBAssumption DEF Inv, TypeOK, Ids
  <2>. QED
    BY <1>1, <2>1, <2>2, <2>3 DEF Inv, TypeOK, Query
<1>7. PhaseInv'
  BY <1>1, <1>2, <1>3 DEF PhaseInv, Creating
<1>8. HashInv'
  BY <1>2, <1>3, <1>4 DEF Inv, HashInv
<1>9. UniqueEmails'
  BY <1>2, <1>3, <1>4 DEF Inv, UniqueEmails, GetEmails
<1>10. OwnersAreDistinct'
  BY <1>1, <1>2, <1>3, <1>4 DEF Inv, OwnersAreDistinct, Orphans
<1>. QED
  BY <1>2, <1>5, <1>6, <1>7, <1>8, <1>9, <1>10 DEF Inv

LEMMA UpdateLoginTimeInv ==
  ASSUME Inv, UpdateLoginTime
  PROVE  Inv' /\ Orphans' = Orphans
<1>1. /\ pc = "update" /\ Query
      /\ users' = [u \in DOMAIN users |->
                     IF u = row THEN [users[u] EXCEPT !.last_login = date]
                     ELSE users[u]]
      /\ Return("SUCCESS", NONE)
      /\ UNCHANGED <<web_auth, nextUser, nextAuth, lastInsertId, clock>>
  BY DEF UpdateLoginTime
<1>2. /\ response' \in Response /\ pc' = "idle" /\ call' = NONE
      /\ date' \in Times /\ lastId' = 0 /\ row' = 0
  BY <1>1, ReturnTypes
<1>3. users' \in [DOMAIN users' -> User] /\ DOMAIN users' = DOMAIN users
  <2>1. \A u \in DOMAIN users : [users[u] EXCEPT !.last_login = date] \in User
    BY DEF Inv, TypeOK, User
  <2>2. \A u \in DOMAIN users : users[u] \in User
    BY DEF Inv, TypeOK
  <2>. QED
    BY <1>1, <2>1, <2>2
<1>4. TypeOK'
  BY <1>1, <1>2, <1>3 DEF Inv, TypeOK, Query
<1>5. PhaseInv'
  BY <1>2 DEF PhaseInv
<1>6. HashInv' /\ UniqueEmails' /\ OwnersAreDistinct' /\ Orphans' = Orphans
  BY <1>1, <1>3 DEF Inv, HashInv, UniqueEmails, OwnersAreDistinct, Orphans
<1>. QED
  BY <1>4, <1>5, <1>6 DEF Inv

(* What goes wrong changes no row.                                         *)
LEMMA MishapInv ==
  ASSUME Inv, Refused \/ LoseLink \/ Unlinked \/ Restart \/ Tick
  PROVE  Inv' /\ Orphans' = Orphans
<1>1. /\ UNCHANGED <<users, web_auth>>
      /\ mishaps' \in 0 .. Mishaps
      /\ linked' \in BOOLEAN /\ clock' \in Times
  <2>1. UNCHANGED <<users, web_auth>>
    BY DEF Refused, LoseLink, Unlinked, Restart, Tick, tables
  <2>2. mishaps' \in 0 .. Mishaps
    BY DBAssumption DEF Refused, LoseLink, Unlinked, Restart, Tick, Mishap, Inv,
      TypeOK
  <2>3. linked' \in {TRUE, FALSE, linked}
    BY DEF Refused, LoseLink, Unlinked, Restart, Tick, session
  <2>4. clock' \in Times
    BY DBAssumption DEF Refused, LoseLink, Unlinked, Restart, Tick, Inv, TypeOK,
      Times
  <2>. QED
    BY <2>1, <2>2, <2>3, <2>4 DEF Inv, TypeOK
<1>2. /\ HashInv' /\ UniqueEmails' /\ OwnersAreDistinct'
      /\ Orphans' = Orphans
  BY <1>1 DEF Inv, HashInv, UniqueEmails, OwnersAreDistinct, Orphans
<1>3. CASE Refused \/ Unlinked
  <2>1. pc # "idle" /\ Return("INTERNAL_SERVER_ERROR", NONE)
    BY <1>3 DEF Refused, Unlinked
  <2>2. /\ response' \in Response /\ pc' = "idle" /\ call' = NONE
        /\ date' \in Times /\ lastId' = 0 /\ row' = 0
    BY <2>1, ReturnTypes
  <2>3. /\ nextUser' \in 1 .. MaxId + 1 /\ nextUser <= nextUser'
        /\ nextAuth' \in 1 .. MaxId + 1 /\ nextAuth <= nextAuth'
        /\ lastInsertId' = lastInsertId
    BY <1>3, DBAssumption DEF Refused, Unlinked, Inv, TypeOK, PhaseInv, tables,
      session
  <2>4. TypeOK'
    BY <1>1, <2>2, <2>3, DBAssumption DEF Inv, TypeOK
  <2>5. PhaseInv'
    BY <2>2 DEF PhaseInv
  <2>. QED
    BY <1>2, <2>4, <2>5 DEF Inv
<1>4. CASE Restart
  <2>1. TypeOK'
    BY <1>1, <1>4, DBAssumption DEF Restart, Forget, Inv, TypeOK, tables, Times
  <2>2. PhaseInv'
    BY <1>4 DEF Restart, Forget, PhaseInv
  <2>. QED
    BY <1>2, <2>1, <2>2 DEF Inv
<1>5. CASE LoseLink \/ Tick
  <2>1. UNCHANGED <<nextUser, nextAuth, lastInsertId, call, pc, date, lastId, row, response>>
    BY <1>5 DEF LoseLink, Tick, tables, session, locals
  <2>2. TypeOK'
    BY <1>1, <2>1 DEF Inv, TypeOK
  <2>3. PhaseInv'
    BY <1>1, <2>1 DEF Inv, PhaseInv, Orphans, GetEmails
  <2>. QED
    BY <1>2, <2>2, <2>3 DEF Inv
<1>. QED
  BY <1>2, <1>3, <1>4, <1>5

LEMMA NextInv == Inv /\ [Next]_vars => Inv'
<1>. SUFFICES ASSUME Inv, [Next]_vars PROVE Inv'
  OBVIOUS
<1>1. CASE UNCHANGED vars
  BY <1>1 DEF vars, tables, session, locals, Inv, TypeOK, PhaseInv, HashInv,
    UniqueEmails, OwnersAreDistinct, Orphans, GetEmails
<1>. QED
  BY <1>1, BeginInv, LooksInv, CreateUserInv, CreateAuthInv, UpdateLoginTimeInv,
    MishapInv DEF Next

LEMMA Invariance == Spec => []Inv
  BY InitInv, NextInv, PTL DEF Spec

(* DBHelper.cpp: ids, rows, the locals of a call and its answer keep their *)
(* types, through every refused statement and restart.                     *)
THEOREM TypesAlways == Spec => []TypeOK
<1>1. Inv => TypeOK
  BY DEF Inv
<1>. QED
  BY <1>1, Invariance, PTL

(* CreateAccount's own test is enough to keep one row per address.         *)
THEOREM UniqueEmailsAlways == Spec => []UniqueEmails
<1>1. Inv => UniqueEmails
  BY DEF Inv
<1>. QED
  BY <1>1, Invariance, PTL

(* CreateAccount gives every account a user of its own.                    *)
THEOREM OwnersAreDistinctAlways == Spec => []OwnersAreDistinct
<1>1. Inv => OwnersAreDistinct
  BY DEF Inv
<1>. QED
  BY <1>1, Invariance, PTL

-----------------------------------------------------------------------------
(***************************************************************************)
(* Users without an account.                                               *)
(***************************************************************************)
LEMMA InitOrphans == ASSUME Init PROVE OrphanInv
<1>1. Orphans = {}
  BY DEF Init, Orphans
<1>. QED
  BY <1>1, FS_EmptySet DEF Init, OrphanInv, Making

(* Stated of numbers alone, for the solver.                                *)
LEMMA AtMost ==
  \A a, b, c, d, e \in Nat : a <= b + c /\ b + c <= d + e => a <= d + e
  OBVIOUS

(* The steps that neither make nor give away a user.                       *)
LEMMA SameOrphans ==
  ASSUME Inv, OrphanInv, Orphans' = Orphans, mishaps' \in Nat,
         mishaps + Making <= mishaps' + Making'
  PROVE  OrphanInv'
<1>1. Cardinality(Orphans) \in Nat /\ mishaps \in Nat
  BY FS_CardinalityType, DBAssumption DEF OrphanInv, Inv, TypeOK
<1>2. Making \in Nat /\ Making' \in Nat
  BY DEF Making
<1>3. Cardinality(Orphans) <= mishaps + Making
  BY DEF OrphanInv
<1>4. Cardinality(Orphans) <= mishaps' + Making'
  BY <1>1, <1>2, <1>3, AtMost
<1>. QED
  BY <1>4 DEF OrphanInv

LEMMA OrphansNext == ASSUME Inv, OrphanInv, [Next]_vars PROVE OrphanInv'
<1>1. Cardinality(Orphans) \in Nat /\ mishaps \in Nat
  BY FS_CardinalityType, DBAssumption DEF OrphanInv, Inv, TypeOK
<1>2. CASE CreateUser
  <2>1. Orphans' = Orphans \cup {nextUser} /\ nextUser \notin Orphans
    BY <1>2, CreateUserInv DEF Orphans
  <2>2. mishaps' = mishaps /\ Making = 0 /\ Making' = 1
    BY <1>2 DEF CreateUser, Query, Making
  <2>3. /\ IsFiniteSet(Orphans')
        /\ Cardinality(Orphans') = Cardinality(Orphans) + 1
    BY <2>1, FS_AddElement DEF OrphanInv
  <2>. QED
    BY <1>1, <2>2, <2>3 DEF OrphanInv
<1>3. CASE CreateAuth
  <2>1. Orphans' = Orphans \ {lastId} /\ lastId \in Orphans
    BY <1>3, CreateAuthInv
  <2>2. mishaps' = mishaps /\ Making = 1 /\ Making' = 0
    BY <1>3 DEF CreateAuth, Query, Making
  <2>3. /\ IsFiniteSet(Orphans')
        /\ Cardinality(Orphans') = Cardinality(Orphans) - 1
    BY <2>1, FS_RemoveElement DEF OrphanInv
  <2>. QED
    BY <1>1, <2>2, <2>3 DEF OrphanInv
<1>4. CASE UpdateLoginTime \/ Begin \/ UNCHANGED vars
  <2>1. Orphans' = Orphans /\ mishaps' = mishaps
    BY <1>4, UpdateLoginTimeInv DEF UpdateLoginTime, Query, Begin, vars, tables,
      Orphans
  <2>2. Making' = Making
    BY <1>4 DEF UpdateLoginTime, Query, Begin, vars, session, Making, Return, Forget
  <2>. QED
    BY <1>1, <2>1, <2>2, SameOrphans DEF Making
<1>5. CASE CheckEmail \/ LastUserId \/ LastAuthId \/ LookUp
  <2>1. Orphans' = Orphans
    BY <1>5, TablesStay DEF CheckEmail, LastUserId, LastAuthId, LookUp
  <2>2. mishaps' = mishaps
    BY <1>5 DEF CheckEmail, LastUserId, LastAuthId, LookUp, Query
  <2>3. Making' = Making
    <3>1. linked' = linked /\ (pc' \in {"user_id", "insert_auth"}
                                 <=> pc \in {"user_id", "insert_auth"})
      BY <1>5 DEF CheckEmail, LastUserId, LastAuthId, LookUp, Query, Return, Forget
    <3>. QED
      BY <3>1 DEF Making
  <2>. QED
    BY <1>1, <2>1, <2>2, <2>3, SameOrphans DEF Making
<1>6. CASE Refused \/ LoseLink \/ Unlinked \/ Restart \/ Tick
  <2>1. Orphans' = Orphans
    BY <1>6, MishapInv
  <2>2. CASE Refused \/ LoseLink \/ Restart
    BY <1>1, <2>1, <2>2, SameOrphans DEF Refused, LoseLink, Restart, Mishap, Making
  <2>3. CASE Unlinked \/ Tick
    <3>1. Making' = Making /\ mishaps' = mishaps
      BY <2>3 DEF Unlinked, Tick, session, Return, Forget, Making
    <3>. QED
      BY <1>1, <2>1, <3>1, SameOrphans DEF Making
  <2>. QED
    BY <1>6, <2>2, <2>3
<1>. QED
  BY <1>2, <1>3, <1>4, <1>5, <1>6 DEF Next

(* Half-made accounts: no more of them than statements that were refused,  *)
(* connections lost and restarts, besides the one that is being made.      *)
THEOREM OrphansAreMishapsAlways == Spec => []OrphansAreMishaps
<1>1. Inv /\ OrphanInv => OrphansAreMishaps
  BY FS_CardinalityType, DBAssumption
    DEF OrphanInv, OrphansAreMishaps, Making, Inv, TypeOK
<1>2. Inv /\ OrphanInv /\ [Next]_vars => OrphanInv'
  BY OrphansNext
<1>3. Init => OrphanInv
  BY InitOrphans
<1>. QED
  BY <1>1, <1>2, <1>3, Invariance, PTL DEF Spec

-----------------------------------------------------------------------------
(***************************************************************************)
(* Stamps: as long as nothing has failed, both tables use the same ids.    *)
(***************************************************************************)
AlignInv ==
  mishaps = 0 =>
    /\ linked
    /\ \A a \in DOMAIN web_auth : web_auth[a].user_id = a
    /\ nextUser = nextAuth + IF pc \in {"user_id", "insert_auth"} THEN 1 ELSE 0
    /\ pc = "user_id" => lastInsertId = nextAuth
    /\ pc = "insert_auth" => lastId = nextAuth

LEMMA AlignNext == ASSUME Inv, AlignInv, [Next]_vars PROVE AlignInv'
<1>1. nextUser \in Nat /\ nextAuth \in Nat /\ mishaps \in Nat
  BY DBAssumption DEF Inv, TypeOK
<1>2. CASE CreateAuth
  <2>1. mishaps' = mishaps /\ linked /\ linked' = linked
    BY <1>2 DEF CreateAuth, Query
  <2>2. /\ pc = "insert_auth" /\ pc' = "auth_id"
        /\ nextAuth' = nextAuth + 1 /\ nextUser' = nextUser
        /\ DOMAIN web_auth' = DOMAIN web_auth \cup {nextAuth}
        /\ web_auth'[nextAuth].user_id = lastId
        /\ \A a \in DOMAIN web_auth : a # nextAuth => web_auth'[a] = web_auth[a]
    BY <1>2 DEF CreateAuth
  <2>. QED
    BY <1>1, <2>1, <2>2 DEF AlignInv
<1>3. CASE CreateUser
  BY <1>1, <1>3 DEF CreateUser, Query, AlignInv
<1>4. CASE Begin \/ UNCHANGED vars \/ Tick
  BY <1>1, <1>4 DEF Begin, Tick, vars, tables, session, locals, AlignInv
<1>5. CASE CheckEmail \/ LastUserId \/ LastAuthId \/ LookUp
  <2>1. UNCHANGED <<web_auth, nextUser, nextAuth, mishaps>> /\ linked /\ linked'
    BY <1>5 DEF CheckEmail, LastUserId, LastAuthId, LookUp, Query, tables
  <2>2. /\ pc \in {"user_id", "insert_auth"} <=> pc' \in {"user_id", "insert_auth"}
        /\ pc' # "user_id"
        /\ pc' = "insert_auth" => pc = "user_id" /\ lastId' = lastInsertId
    BY <1>5 DEF CheckEmail, LastUserId, LastAuthId, LookUp, Return, Forget
  <2>. QED
    BY <1>1, <2>1, <2>2 DEF AlignInv
<1>6. CASE UpdateLoginTime
  BY <1>1, <1>6 DEF UpdateLoginTime, Query, Return, Forget, AlignInv
<1>7. CASE Refused \/ LoseLink \/ Restart
  BY <1>1, <1>7 DEF Refused, LoseLink, Restart, Mishap, AlignInv
<1>8. CASE Unlinked
  BY <1>1, <1>8 DEF Unlinked, AlignInv
<1>. QED
  BY <1>2, <1>3, <1>4, <1>5, <1>6, <1>7, <1>8 DEF Next

LEMMA StampStep ==
  ASSUME Inv, AlignInv, [Next]_vars, mishaps = 0, NEW u \in Stamped
  PROVE  OwnRow(u)
<1>1. u \in DOMAIN users /\ users'[u].last_login # users[u].last_login
  BY DEF Stamped
<1>2. CASE UpdateLoginTime
  <2>1. pc = "update" /\ u = row
    BY <1>1, <1>2 DEF UpdateLoginTime
  <2>2. row \in GetEmails(call.email)
    BY <2>1 DEF Inv, PhaseInv
  <2>. QED
    BY <2>1, <2>2 DEF AlignInv, OwnRow, GetEmails
<1>3. CASE CreateUser
  BY <1>1, <1>3, CreateUserInv DEF CreateUser
<1>4. CASE ~UpdateLoginTime /\ ~CreateUser
  BY <1>1, <1>4 DEF Next, Begin, CheckEmail, LastUserId, CreateAuth, LastAuthId,
    LookUp, Refused, LoseLink, Unlinked, Restart, Tick, vars, tables
<1>. QED
  BY <1>2, <1>3, <1>4

(* LoginUser's UPDATE stamps the row of its own user as long as nothing    *)
(* has failed, although its id is that of the other table.                 *)
THEOREM StampsAlways == Spec => StampsOwnUntilMishap
<1>1. Init => AlignInv
  BY DEF Init, AlignInv
<1>2. Inv /\ AlignInv /\ [Next]_vars => AlignInv'
  BY AlignNext
<1>3. Inv /\ AlignInv /\ [Next]_vars
        => [mishaps = 0 => \A u \in Stamped : OwnRow(u)]_vars
  BY StampStep
<1>. QED
  BY <1>1, <1>2, <1>3, Invariance, PTL DEF Spec, StampsOwnUntilMishap

-----------------------------------------------------------------------------
(***************************************************************************)
(* DBHelper implements AccountStore.                                       *)
(***************************************************************************)
(* An account is the row of its address: which one CHOOSE takes is no      *)
(* matter, there is only one.                                              *)
LEMMA RowOfAccount ==
  ASSUME NEW rows,
         \A a, b \in DOMAIN rows : rows[a].email = rows[b].email => a = b
  PROVE  /\ DOMAIN Accounts(rows) = {rows[a].email : a \in DOMAIN rows}
         /\ \A a \in DOMAIN rows :
              Accounts(rows)[rows[a].email] = rows[a].hash[2]
<1>1. DOMAIN Accounts(rows) = {rows[a].email : a \in DOMAIN rows}
  BY DEF Accounts
<1>2. ASSUME NEW a \in DOMAIN rows
      PROVE  Accounts(rows)[rows[a].email] = rows[a].hash[2]
  <2>1. (CHOOSE b \in DOMAIN rows : rows[b].email = rows[a].email) = a
    OBVIOUS
  <2>. QED
    BY <2>1 DEF Accounts
<1>. QED
  BY <1>1, <1>2

(* What the call under way finds.                                          *)
LEMMA HasAccount ==
  ASSUME Inv, pc # "idle"
  PROVE  /\ GetEmails(call.email) = {} <=>
              call.email \notin DOMAIN Accounts(web_auth)
         /\ \A a \in GetEmails(call.email) :
              /\ call.email \in DOMAIN Accounts(web_auth)
              /\ Accounts(web_auth)[call.email] = call.password <=>
                   web_auth[a].hash = HashPassword(web_auth[a].salt, call.password)
<1>1. /\ DOMAIN Accounts(web_auth) = {web_auth[a].email : a \in DOMAIN web_auth}
      /\ \A a \in DOMAIN web_auth :
           Accounts(web_auth)[web_auth[a].email] = web_auth[a].hash[2]
  BY RowOfAccount DEF Inv, UniqueEmails
<1>2. ASSUME NEW a \in GetEmails(call.email)
      PROVE  /\ call.email \in DOMAIN Accounts(web_auth)
             /\ Accounts(web_auth)[call.email] = call.password <=>
                  web_auth[a].hash = HashPassword(web_auth[a].salt, call.password)
  <2>1. a \in DOMAIN web_auth /\ web_auth[a].email = call.email
    BY <1>2 DEF GetEmails
  <2>2. PICK p \in Passwords : web_auth[a].hash = HashPassword(web_auth[a].salt, p)
    BY <2>1 DEF Inv, HashInv
  <2>3. Accounts(web_auth)[call.email] = p
    BY <1>1, <2>1, <2>2 DEF HashPassword
  <2>4. web_auth[a].hash = HashPassword(web_auth[a].salt, call.password)
          <=> p = call.password
    BY <2>2 DEF HashPassword
  <2>. QED
    BY <1>1, <2>1, <2>3, <2>4
<1>. QED
  BY <1>1, <1>2 DEF GetEmails

(* The INSERT INTO web_auth opens the call's account, and changes no other.*)
LEMMA AccountOpened ==
  ASSUME Inv, CreateAuth
  PROVE  Accounts(web_auth') =
           [e \in DOMAIN Accounts(web_auth) \cup {call.email} |->
              IF e = call.email THEN call.password ELSE Accounts(web_auth)[e]]
<1>. DEFINE old == Accounts(web_auth)
            new == Accounts(web_auth')
<1>1. /\ pc = "insert_auth"
      /\ DOMAIN web_auth' = DOMAIN web_auth \cup {nextAuth}
      /\ \A a \in DOMAIN web_auth : a # nextAuth => web_auth'[a] = web_auth[a]
      /\ web_auth'[nextAuth].email = call.email
      /\ web_auth'[nextAuth].hash = HashPassword(call.salt, call.password)
  BY DEF CreateAuth
<1>2. nextAuth \notin DOMAIN web_auth /\ GetEmails(call.email) = {}
  BY <1>1, DBAssumption DEF Inv, TypeOK, PhaseInv
<1>3. /\ DOMAIN old = {web_auth[a].email : a \in DOMAIN web_auth}
      /\ \A a \in DOMAIN web_auth : old[web_auth[a].email] = web_auth[a].hash[2]
  BY RowOfAccount DEF Inv, UniqueEmails
<1>4. /\ DOMAIN new = {web_auth'[a].email : a \in DOMAIN web_auth'}
      /\ \A a \in DOMAIN web_auth' : new[web_auth'[a].email] = web_auth'[a].hash[2]
  <2>1. Inv'
    BY CreateAuthInv
  <2>2. \A a, b \in DOMAIN web_auth' : web_auth'[a].email = web_auth'[b].email => a = b
    BY <2>1 DEF Inv, UniqueEmails
  <2>. QED
    BY <2>2, RowOfAccount
<1>5. DOMAIN new = DOMAIN old \cup {call.email}
  BY <1>1, <1>2, <1>3, <1>4
<1>6. new[call.email] = call.password
  BY <1>1, <1>4 DEF HashPassword
<1>7. ASSUME NEW e \in DOMAIN old PROVE new[e] = old[e] /\ e # call.email
  <2>1. PICK a \in DOMAIN web_auth : web_auth[a].email = e
    BY <1>3
  <2>. QED
    BY <1>1, <1>2, <1>3, <1>4, <2>1 DEF GetEmails
<1>8. new = [e \in DOMAIN new |-> new[e]]
  BY DEF Accounts
<1>. QED
  BY <1>5, <1>6, <1>7, <1>8

(* What AccountStore sees of a call.                                       *)
LEMMA CallSeen ==
  ASSUME Inv
  PROVE  /\ pc = "idle" => Asked = NONE
         /\ pc # "idle" =>
              /\ Asked # NONE
              /\ Asked.op = call.op /\ Asked.email = call.email
              /\ Asked.password = call.password
              /\ Asked \in Store!Call
<1>1. pc = "idle" => Asked = NONE
  BY DEF Inv, TypeOK, Asked
<1>2. ASSUME pc # "idle"
      PROVE  /\ Asked # NONE
             /\ Asked.op = call.op /\ Asked.email = call.email
             /\ Asked.password = call.password
             /\ Asked \in Store!Call
  <2>1. call \in Call /\ call # NONE
    BY <1>2, NoneAssumption DEF Inv, TypeOK
  <2>2. Asked = [op |-> call.op, email |-> call.email, password |-> call.password]
    BY <2>1 DEF Asked
  <2>3. Asked \in [op : {"CreateAccount", "LoginUser"}, email : Emails,
                   password : Passwords]
    BY <2>1, <2>2 DEF Call
  <2>. QED
    BY <2>2, <2>3, NoneAssumption DEF Store!Call
<1>. QED
  BY <1>1, <1>2

(* Returning an answer that means what AccountStore says it means.         *)
LEMMA ReturnSeen ==
  ASSUME Inv, pc # "idle", UNCHANGED web_auth,
         NEW result \in Store!Results, NEW id \in Ids \cup {NONE},
         Return(result, id), Store!Means(result)
  PROVE  Store!Return
<1>1. /\ pc' = "idle" /\ call' = NONE /\ response'.result = result
      /\ response' \in Response
  BY ReturnTypes DEF Return, Store!Results
<1>2. Asked' = NONE /\ Answered' = result
  BY <1>1, NoneAssumption DEF Asked, Answered
<1>3. Asked # NONE
  BY CallSeen
<1>. QED
  BY <1>1, <1>2, <1>3 DEF Store!Return

LEMMA LooksSeen ==
  ASSUME Inv, CheckEmail \/ LastAuthId \/ LookUp
  PROVE  Store!Return \/ UNCHANGED Store!vars
<1>1. UNCHANGED web_auth /\ pc # "idle"
  BY DEF CheckEmail, LastAuthId, LookUp, tables
<1>2. /\ Asked.op = call.op /\ Asked.email = call.email
      /\ Asked.password = call.password
  BY <1>1, CallSeen
<1>3. /\ GetEmails(call.email) = {} <=>
           call.email \notin DOMAIN Accounts(web_auth)
      /\ \A a \in GetEmails(call.email) :
           /\ call.email \in DOMAIN Accounts(web_auth)
           /\ Accounts(web_auth)[call.email] = call.password <=>
                web_auth[a].hash = HashPassword(web_auth[a].salt, call.password)
  BY <1>1, HasAccount
<1>4. \A result \in Store!Results, id \in Ids \cup {NONE} :
        Return(result, id) /\ Store!Means(result) => Store!Return
  BY <1>1, ReturnSeen
<1>5. {"SUCCESS", "ACCOUNT_ALREADY_EXISTS", "INVALID_CREDENTIAL",
       "INVALID_PASSWORD"} \subseteq Store!Results
  BY DEF Store!Results
<1>6. CASE UNCHANGED <<call, response>> /\ pc # "auth_id" /\ pc' # "auth_id"
  BY <1>1, <1>6 DEF Store!vars, Asked, Answered
<1>7. CASE CheckEmail
  <2>1. pc = "check" /\ call.op = "CreateAccount"
    BY <1>7 DEF CheckEmail, Inv, PhaseInv, Creating
  <2>2. CASE GetEmails(call.email) # {}
    <3>1. Return("ACCOUNT_ALREADY_EXISTS", NONE)
      BY <1>7, <2>2 DEF CheckEmail
    <3>2. Store!Means("ACCOUNT_ALREADY_EXISTS")
      BY <1>2, <1>3, <2>1, <2>2 DEF Store!Means, Store!Has
    <3>. QED
      BY <1>4, <1>5, <3>1, <3>2
  <2>3. CASE GetEmails(call.email) = {}
    BY <1>6, <1>7, <2>1, <2>3 DEF CheckEmail
  <2>. QED
    BY <2>2, <2>3
<1>8. CASE LastAuthId
  <2>1. /\ pc = "auth_id" /\ call.op = "CreateAccount"
        /\ lastInsertId \in Ids
    BY <1>8 DEF LastAuthId, Inv, TypeOK, PhaseInv, Creating
  <2>2. Return("SUCCESS", lastInsertId)
    BY <1>8 DEF LastAuthId
  <2>3. Store!Means("SUCCESS")
    BY <1>2, <2>1 DEF Store!Means
  <2>. QED
    BY <1>4, <1>5, <2>1, <2>2, <2>3
<1>9. CASE LookUp
  <2>1. pc = "lookup" /\ call \in Call /\ call.op = "LoginUser"
    BY <1>9 DEF LookUp, Inv, TypeOK, PhaseInv, Creating, Call
  <2>2. CASE GetEmails(call.email) = {}
    <3>1. Return("INVALID_CREDENTIAL", NONE)
      BY <1>9, <2>2 DEF LookUp
    <3>2. Store!Means("INVALID_CREDENTIAL")
      BY <1>2, <1>3, <2>1, <2>2 DEF Store!Means, Store!Has
    <3>. QED
      BY <1>4, <1>5, <3>1, <3>2
  <2>3. CASE GetEmails(call.email) # {}
    <3>1. PICK a \in GetEmails(call.email) :
            IF web_auth[a].hash # HashPassword(web_auth[a].salt, call.password)
            THEN Return("INVALID_PASSWORD", NONE)
            ELSE pc' = "update" /\ UNCHANGED <<call, response>>
      BY <1>9, <2>3 DEF LookUp
    <3>2. CASE web_auth[a].hash # HashPassword(web_auth[a].salt, call.password)
      <4>1. Store!Means("INVALID_PASSWORD")
        BY <1>2, <1>3, <2>1, <3>1, <3>2 DEF Store!Means, Store!Has
      <4>. QED
        BY <1>4, <1>5, <3>1, <3>2, <4>1
    <3>3. CASE web_auth[a].hash = HashPassword(web_auth[a].salt, call.password)
      BY <1>6, <2>1, <3>1, <3>3
    <3>. QED
      BY <3>2, <3>3
  <2>. QED
    BY <2>2, <2>3
<1>. QED
  BY <1>7, <1>8, <1>9

LEMMA UpdateSeen ==
  ASSUME Inv, UpdateLoginTime
  PROVE  Store!Return
<1>1. pc = "update" /\ UNCHANGED web_auth /\ Return("SUCCESS", NONE)
  BY DEF UpdateLoginTime
<1>2. /\ row \in GetEmails(call.email)
      /\ web_auth[row].hash = HashPassword(web_auth[row].salt, call.password)
      /\ call.op # "CreateAccount"
  BY <1>1 DEF Inv, PhaseInv, Creating
<1>3. /\ call.email \in DOMAIN Accounts(web_auth)
      /\ Accounts(web_auth)[call.email] = call.password
  BY <1>1, <1>2, HasAccount
<1>4. Store!Means("SUCCESS")
  BY <1>1, <1>2, <1>3, CallSeen DEF Store!Means, Store!Has
<1>. QED
  BY <1>1, <1>4, ReturnSeen DEF Store!Results

LEMMA InsertSeen ==
  ASSUME Inv, CreateAuth
  PROVE  Store!Open
<1>1. /\ pc = "insert_auth" /\ pc' = "auth_id"
      /\ UNCHANGED <<call, response>>
  BY DEF CreateAuth
<1>2. call.op = "CreateAccount" /\ GetEmails(call.email) = {}
  BY <1>1 DEF Inv, PhaseInv, Creating
<1>3. call.email \notin DOMAIN Accounts(web_auth)
  BY <1>1, <1>2, HasAccount
<1>4. UNCHANGED <<Asked, Answered>>
  BY <1>1 DEF Asked, Answered
<1>. QED
  BY <1>1, <1>2, <1>3, <1>4, CallSeen, AccountOpened
    DEF Store!Open, Store!Has

LEMMA BeginSeen ==
  ASSUME Inv, Begin
  PROVE  Store!Begin
<1>1. pc = "idle" /\ UNCHANGED web_auth /\ response' = NONE /\ call' \in Call
      /\ pc' # "auth_id"
  BY DEF Begin, tables
<1>2. Asked' \in Store!Call
  <2>1. Asked' = [op |-> call'.op, email |-> call'.email, password |-> call'.password]
    BY <1>1, NoneAssumption DEF Asked
  <2>. QED
    BY <1>1, <2>1 DEF Call, Store!Call
<1>. QED
  BY <1>1, <1>2, CallSeen DEF Store!Begin, Answered

LEMMA MishapSeen ==
  ASSUME Inv, Refused \/ LoseLink \/ Unlinked \/ Restart \/ Tick
  PROVE  Store!Return \/ Store!Abandon \/ UNCHANGED Store!vars
<1>1. UNCHANGED web_auth
  BY DEF Refused, LoseLink, Unlinked, Restart, Tick, tables
<1>2. CASE Refused \/ Unlinked
  <2>1. pc # "idle" /\ Return("INTERNAL_SERVER_ERROR", NONE)
    BY <1>2 DEF Refused, Unlinked
  <2>2. Store!Means("INTERNAL_SERVER_ERROR")
    BY DEF Store!Means
  <2>. QED
    BY <1>1, <2>1, <2>2, ReturnSeen DEF Store!Results
<1>3. CASE Restart
  <2>1. call' = NONE /\ pc' = "idle" /\ UNCHANGED response
    BY <1>3 DEF Restart, Forget
  <2>2. Asked' = NONE /\ UNCHANGED Answered
    BY <2>1 DEF Asked, Answered
  <2>3. CASE pc = "idle"
    BY <1>1, <2>1, <2>2, <2>3, CallSeen DEF Store!vars
  <2>4. CASE pc # "idle"
    BY <1>1, <2>1, <2>2, <2>4, CallSeen DEF Store!Abandon
  <2>. QED
    BY <2>3, <2>4
<1>4. CASE LoseLink \/ Tick
  BY <1>1, <1>4 DEF LoseLink, Tick, Asked, Answered, Store!vars
<1>. QED
  BY <1>2, <1>3, <1>4

(* Each call of CreateAccount and LoginUser, whatever fails between its    *)
(* statements, is one of AccountStore's, seen through the rows of web_auth.*)
THEOREM Implementation == Spec => ImplementsStore
<1>1. Init => Store!Init
  <2>. SUFFICES ASSUME Init PROVE Store!Init
    OBVIOUS
  <2>1. Accounts(web_auth) = [e \in {} |-> NONE]
    BY DEF Init, Accounts
  <2>. QED
    BY <2>1 DEF Init, Store!Init, Asked, Answered
<1>2. Inv /\ [Next]_vars => [Store!Next]_Store!vars
  <2>. SUFFICES ASSUME Inv, [Next]_vars PROVE [Store!Next]_Store!vars
    OBVIOUS
  <2>1. CASE CreateUser \/ LastUserId \/ UNCHANGED vars
    BY <2>1 DEF CreateUser, LastUserId, vars, tables, Store!vars, Asked, Answered
  <2>. QED
    BY <2>1, BeginSeen, LooksSeen, UpdateSeen, InsertSeen, MishapSeen
      DEF Next, Store!Next
<1>. QED
  BY <1>1, <1>2, Invariance, PTL DEF Spec, ImplementsStore, Store!Spec

=============================================================================
