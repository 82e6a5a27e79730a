---------------------------- MODULE AccountStore ----------------------------
(***************************************************************************)
(* What DBHelper promises its caller: accounts that are never changed or   *)
(* lost, one per e-mail address, and answers that agree with them.  A      *)
(* failing call may create its account all the same, and is told so by     *)
(* INTERNAL_SERVER_ERROR or, when the process dies, by nothing.            *)
(***************************************************************************)
EXTENDS Naturals

CONSTANTS Emails, Passwords, NONE

VARIABLES
  accounts,  \* the password of every e-mail address that has an account
  call,      \* the call in progress, or NONE
  opened,    \* whether this call has created its account
  answer     \* what the last call returned, NONE if it was abandoned

vars == <<accounts, call, opened, answer>>

Call == [op : {"CreateAccount", "LoginUser"}, email : Emails,
         password : Passwords]
Has(email) == email \in DOMAIN accounts

Init ==
  /\ accounts = [e \in {} |-> NONE]
  /\ call = NONE
  /\ opened = FALSE
  /\ answer = NONE

Begin ==
  /\ call = NONE
  /\ call' \in Call
  /\ opened' = FALSE
  /\ answer' = NONE
  /\ UNCHANGED accounts

Open ==
  /\ call # NONE
  /\ call.op = "CreateAccount"
  /\ ~Has(call.email)
  /\ accounts' = [e \in DOMAIN accounts \cup {call.email} |->
                    IF e = call.email THEN call.password ELSE accounts[e]]
  /\ opened' = TRUE
  /\ UNCHANGED <<call, answer>>

(* What each return code means.                                            *)
Means(result) ==
  CASE result = "SUCCESS" ->
         IF call.op = "CreateAccount" THEN opened
         ELSE Has(call.email) /\ accounts[call.email] = call.password
    [] result = "ACCOUNT_ALREADY_EXISTS" ->
         call.op = "CreateAccount" /\ Has(call.email) /\ ~opened
    [] result = "INVALID_CREDENTIAL" ->
         call.op = "LoginUser" /\ ~Has(call.email)
    [] result = "INVALID_PASSWORD" ->
         /\ call.op = "LoginUser"
         /\ Has(call.email) /\ accounts[call.email] # call.password
    [] result = "INTERNAL_SERVER_ERROR" -> TRUE

Results == {"SUCCESS", "ACCOUNT_ALREADY_EXISTS", "INVALID_CREDENTIAL",
            "INVALID_PASSWORD", "INTERNAL_SERVER_ERROR"}

Return ==
  /\ call # NONE
  /\ \E result \in Results : Means(result) /\ answer' = result
  /\ call' = NONE
  /\ opened' = FALSE
  /\ UNCHANGED accounts

Abandon ==
  /\ call # NONE
  /\ call' = NONE
  /\ opened' = FALSE
  /\ UNCHANGED <<accounts, answer>>

Next == Begin \/ Open \/ Return \/ Abandon

Spec == Init /\ [][Next]_vars
=============================================================================
