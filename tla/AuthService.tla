----------------------------- MODULE AuthService -----------------------------
(***************************************************************************)
(* What the authentication server promises those who are connected to it:  *)
(* it takes their requests in order, some of them together, and answers    *)
(* the first of those it takes, or none, with an answer of the request's   *)
(* own kind and with its requestid; it makes up nothing, and loses nothing *)
(* it has answered.                                                        *)
(***************************************************************************)
EXTENDS Protocol, Sequences

CONSTANTS Peers, RequestIds

VARIABLES
  req,   \* the requests of a peer that have arrived, in order
  rep,   \* the answers it has been sent and has not read
  up     \* whether its connection still exists

vars == <<req, rep, up>>

(* The answers to a request: success, or a failure with a code of its enum *)
(* in account.proto.                                                       *)
Answers(r) ==
  IF r.type = "G_CREATE_ACCOUNT"
  THEN {[type |-> "G_CREATE_ACCOUNT_SUCCESS", requestid |-> r.requestid,
         returnCode |-> 0]}
       \cup {[type |-> "G_CREATE_ACCOUNT_FAILURE", requestid |-> r.requestid,
              returnCode |-> code] : code \in 0 .. 1}
  ELSE {[type |-> "G_AUTHENTICATE_SUCCESS", requestid |-> r.requestid,
         returnCode |-> 0]}
       \cup {[type |-> "G_AUTHENTICATE_FAILURE", requestid |-> r.requestid,
              returnCode |-> code] : code \in 0 .. 2}

Init ==
  /\ req = [p \in Peers |-> <<>>]
  /\ rep = [p \in Peers |-> <<>>]
  /\ up = [p \in Peers |-> TRUE]

Ask(p) ==
  /\ up[p]
  /\ \E r \in [type : RequestTypes, requestid : RequestIds] :
       req' = [req EXCEPT ![p] = Append(@, r)]
  /\ UNCHANGED <<rep, up>>

(* n requests are taken; the first of them is answered, or none.           *)
Serve(p, n) ==
  /\ req' = [req EXCEPT ![p] = SubSeq(@, n + 1, Len(@))]
  /\ \/ \E a \in Answers(req[p][1]) : rep' = [rep EXCEPT ![p] = Append(@, a)]
     \/ UNCHANGED rep
  /\ UNCHANGED up

Take(p, n) ==
  /\ rep' = [rep EXCEPT ![p] = SubSeq(@, n + 1, Len(@))]
  /\ UNCHANGED <<req, up>>

(* Connections end, all of them if the server does.                        *)
Close(S) ==
  /\ up' = [p \in Peers |-> up[p] /\ p \notin S]
  /\ req' = [p \in Peers |-> IF p \in S THEN <<>> ELSE req[p]]
  /\ UNCHANGED rep

Next ==
  \/ \E p \in Peers : \/ Ask(p)
                      \/ \E n \in 1 .. Len(req[p]) : Serve(p, n)
                      \/ \E n \in 1 .. Len(rep[p]) : Take(p, n)
  \/ \E S \in SUBSET Peers : Close(S)

Spec == Init /\ [][Next]_vars
=============================================================================
