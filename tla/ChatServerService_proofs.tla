---------------------- MODULE ChatServerService_proofs ----------------------
(***************************************************************************)
(* The chat server's end of its connection to the authentication server    *)
(* is the one AuthService describes, for every number of clients, slots    *)
(* and requests.  AuthMoves says what a step may do to the connection;     *)
(* each of these moves is a step of AuthService, seen through Asked and    *)
(* Answered.                                                               *)
(***************************************************************************)
EXTENDS ChatServerReplies_proofs, SequenceTheorems

AskedSet == [type : RequestTypes, requestid : Slots]
AnsweredSet == [type : ReplyTypes, requestid : Slots, returnCode : 0 .. 2]

LEMMA SuffixParts ==
  ASSUME NEW S, NEW s \in Seq(S), NEW n \in 1 .. Len(s)
  PROVE  /\ SubSeq(s, n + 1, Len(s)) \in Seq(S)
         /\ Len(SubSeq(s, n + 1, Len(s))) = Len(s) - n
         /\ \A k \in 1 .. Len(SubSeq(s, n + 1, Len(s))) :
              /\ k + n \in 1 .. Len(s)
              /\ SubSeq(s, n + 1, Len(s))[k] = s[k + n]
<1>1. Len(s) \in Nat /\ n \in Nat /\ 1 <= n /\ n <= Len(s)
  OBVIOUS
<1>2. \A k \in (n + 1) .. Len(s) : s[k] \in S
  BY <1>1
<1>. QED
  BY <1>1, <1>2

(* What is seen of a request and of an answer.                             *)
LEMMA AskedParts ==
  ASSUME NEW r \in Request
  PROVE  Asked(r) \in AskedSet
<1>1. r.type \in RequestTypes /\ r.requestid \in Slots
  BY DEF Request
<1>. QED
  BY <1>1 DEF Asked, AskedSet

LEMMA AnsweredParts ==
  ASSUME NEW r \in Reply
  PROVE  Answered(r) \in AnsweredSet
<1>1. r.type \in ReplyTypes /\ r.requestid \in Slots /\ r.returnCode \in 0 .. 2
  BY DEF Reply
<1>. QED
  BY <1>1 DEF Answered, AnsweredSet

(* The queues seen are sequences of the same length.                       *)
AskedQueue ==
  /\ AllAsked \in Seq(AskedSet) /\ Len(AllAsked) = Len(authReq)
  /\ \A k \in 1 .. Len(authReq) : AllAsked[k] = Asked(authReq[k])
  /\ authReq \in Seq(Request) /\ Len(authReq) \in Nat

AnsweredQueue ==
  /\ AllAnswered \in Seq(AnsweredSet) /\ Len(AllAnswered) = Len(authRep)
  /\ \A k \in 1 .. Len(authRep) : AllAnswered[k] = Answered(authRep[k])
  /\ authRep \in Seq(Reply) /\ Len(authRep) \in Nat

LEMMA AskedIsSeq == Inv => AskedQueue
<1>. SUFFICES ASSUME Inv PROVE AskedQueue
  OBVIOUS
<1>1. authReq \in Seq(Request) /\ Len(authReq) \in Nat
  BY DEF Inv, TypeOK, AuthTypeOK
<1>2. \A k \in 1 .. Len(authReq) : Asked(authReq[k]) \in AskedSet
  <2>1. \A k \in 1 .. Len(authReq) : authReq[k] \in Request
    BY <1>1
  <2>. QED
    BY <2>1, AskedParts
<1>. HIDE DEF AskedSet
<1>3. AllAsked \in Seq(AskedSet) /\ Len(AllAsked) = Len(authReq)
  BY <1>1, <1>2 DEF AllAsked
<1>4. \A k \in 1 .. Len(authReq) : AllAsked[k] = Asked(authReq[k])
  BY Zenon DEF AllAsked
<1>. QED
  BY <1>1, <1>3, <1>4 DEF AskedQueue

LEMMA AnsweredIsSeq == Inv => AnsweredQueue
<1>. SUFFICES ASSUME Inv PROVE AnsweredQueue
  OBVIOUS
<1>1. authRep \in Seq(Reply) /\ Len(authRep) \in Nat
  BY DEF Inv, TypeOK, AuthTypeOK
<1>2. \A k \in 1 .. Len(authRep) : Answered(authRep[k]) \in AnsweredSet
  <2>1. \A k \in 1 .. Len(authRep) : authRep[k] \in Reply
    BY <1>1
  <2>. QED
    BY <2>1, AnsweredParts
<1>3. AllAnswered \in Seq(AnsweredSet) /\ Len(AllAnswered) = Len(authRep)
  BY <1>1, <1>2 DEF AllAnswered
<1>4. \A k \in 1 .. Len(authRep) : AllAnswered[k] = Answered(authRep[k])
  BY Zenon DEF AllAnswered
<1>. QED
  BY <1>1, <1>3, <1>4 DEF AnsweredQueue

LEMMA BothQueues ==
  ASSUME Inv, Inv'
  PROVE  AskedQueue /\ AskedQueue' /\ AnsweredQueue /\ AnsweredQueue'
  BY AskedIsSeq, AnsweredIsSeq, PTL

(* Nothing of the connection changes.                                      *)
LEMMA Quiet ==
  ASSUME UNCHANGED <<authUp, authReq, authRep>>
  PROVE  UNCHANGED Service!vars
  BY DEF Service!vars, AllAsked, AllAnswered

-----------------------------------------------------------------------------
(* One queue grows, or is shortened.                                       *)
LEMMA AskedGrows ==
  ASSUME AskedQueue, AskedQueue', NEW r \in Request, authReq' = Append(authReq, r)
  PROVE  AllAsked' = Append(AllAsked, Asked(r))
<1>. DEFINE t == Append(AllAsked, Asked(r))
            m == Len(authReq)
<1>1. Asked(r) \in AskedSet
  BY AskedParts
<1>2. /\ Len(authReq') = m + 1 /\ authReq'[m + 1] = r /\ m \in Nat
      /\ \A k \in 1 .. m : authReq'[k] = authReq[k]
  BY DEF AskedQueue
<1>3. /\ t \in Seq(AskedSet) /\ Len(t) = m + 1 /\ t[m + 1] = Asked(r)
      /\ \A k \in 1 .. m : t[k] = AllAsked[k]
  BY <1>1 DEF AskedQueue
<1>4. /\ AllAsked' \in Seq(AskedSet) /\ Len(AllAsked') = m + 1
      /\ \A k \in 1 .. m + 1 : AllAsked'[k] = Asked(authReq'[k])
  BY <1>2 DEF AskedQueue, Asked
<1>5. \A k \in 1 .. m : AllAsked[k] = Asked(authReq[k])
  BY DEF AskedQueue
<1>. HIDE DEF t, m
<1>6. \A k \in 1 .. Len(AllAsked') : AllAsked'[k] = t[k]
  BY <1>2, <1>3, <1>4, <1>5
<1>. QED
  BY <1>3, <1>4, <1>6, SeqEqual DEF t

LEMMA AnsweredGrows ==
  ASSUME AnsweredQueue, AnsweredQueue', NEW r \in Reply,
         authRep' = Append(authRep, r)
  PROVE  AllAnswered' = Append(AllAnswered, Answered(r))
<1>. DEFINE t == Append(AllAnswered, Answered(r))
            m == Len(authRep)
<1>1. Answered(r) \in AnsweredSet
  BY AnsweredParts
<1>2. /\ Len(authRep') = m + 1 /\ authRep'[m + 1] = r /\ m \in Nat
      /\ \A k \in 1 .. m : authRep'[k] = authRep[k]
  BY DEF AnsweredQueue
<1>3. /\ t \in Seq(AnsweredSet) /\ Len(t) = m + 1 /\ t[m + 1] = Answered(r)
      /\ \A k \in 1 .. m : t[k] = AllAnswered[k]
  BY <1>1 DEF AnsweredQueue
<1>4. /\ AllAnswered' \in Seq(AnsweredSet) /\ Len(AllAnswered') = m + 1
      /\ \A k \in 1 .. m + 1 : AllAnswered'[k] = Answered(authRep'[k])
  BY <1>2 DEF AnsweredQueue, Answered
<1>5. \A k \in 1 .. m : AllAnswered[k] = Answered(authRep[k])
  BY DEF AnsweredQueue
<1>. HIDE DEF t, m
<1>6. \A k \in 1 .. Len(AllAnswered') : AllAnswered'[k] = t[k]
  BY <1>2, <1>3, <1>4, <1>5
<1>. QED
  BY <1>3, <1>4, <1>6, SeqEqual DEF t

LEMMA AskedShrinks ==
  ASSUME AskedQueue, AskedQueue', NEW n \in 1 .. Len(authReq),
         authReq' = SubSeq(authReq, n + 1, Len(authReq))
  PROVE  /\ n \in 1 .. Len(AllAsked)
         /\ AllAsked' = SubSeq(AllAsked, n + 1, Len(AllAsked))
<1>. DEFINE t == SubSeq(AllAsked, n + 1, Len(AllAsked))
<1>1. AllAsked \in Seq(AskedSet) /\ n \in 1 .. Len(AllAsked)
      /\ authReq \in Seq(Request) /\ Len(AllAsked) = Len(authReq)
  BY DEF AskedQueue
<1>2. /\ t \in Seq(AskedSet) /\ Len(t) = Len(AllAsked) - n
      /\ \A k \in 1 .. Len(t) : k + n \in 1 .. Len(AllAsked) /\ t[k] = AllAsked[k + n]
  BY <1>1, SuffixParts
<1>3. /\ Len(authReq') = Len(authReq) - n
      /\ \A k \in 1 .. Len(authReq') : authReq'[k] = authReq[k + n]
  BY <1>1, SuffixParts
<1>4. /\ AllAsked' \in Seq(AskedSet) /\ Len(AllAsked') = Len(authReq')
      /\ \A k \in 1 .. Len(authReq') : AllAsked'[k] = Asked(authReq'[k])
  BY DEF AskedQueue, Asked
<1>5. \A k \in 1 .. Len(authReq) : AllAsked[k] = Asked(authReq[k])
  BY DEF AskedQueue
<1>. HIDE DEF t
<1>6. Len(AllAsked') = Len(t)
  BY <1>1, <1>2, <1>3, <1>4
<1>7. \A k \in 1 .. Len(AllAsked') : AllAsked'[k] = t[k]
  BY <1>1, <1>2, <1>3, <1>4, <1>5, <1>6
<1>. QED
  BY <1>1, <1>2, <1>4, <1>6, <1>7, SeqEqual DEF t

LEMMA AnsweredShrinks ==
  ASSUME AnsweredQueue, AnsweredQueue', NEW n \in 1 .. Len(authRep),
         authRep' = SubSeq(authRep, n + 1, Len(authRep))
  PROVE  /\ n \in 1 .. Len(AllAnswered)
         /\ AllAnswered' = SubSeq(AllAnswered, n + 1, Len(AllAnswered))
<1>. DEFINE t == SubSeq(AllAnswered, n + 1, Len(AllAnswered))
<1>1. AllAnswered \in Seq(AnsweredSet) /\ n \in 1 .. Len(AllAnswered)
      /\ authRep \in Seq(Reply) /\ Len(AllAnswered) = Len(authRep)
  BY DEF AnsweredQueue
<1>2. /\ t \in Seq(AnsweredSet) /\ Len(t) = Len(AllAnswered) - n
      /\ \A k \in 1 .. Len(t) :
           k + n \in 1 .. Len(AllAnswered) /\ t[k] = AllAnswered[k + n]
  BY <1>1, SuffixParts
<1>3. /\ Len(authRep') = Len(authRep) - n
      /\ \A k \in 1 .. Len(authRep') : authRep'[k] = authRep[k + n]
  BY <1>1, SuffixParts
<1>4. /\ AllAnswered' \in Seq(AnsweredSet) /\ Len(AllAnswered') = Len(authRep')
      /\ \A k \in 1 .. Len(authRep') : AllAnswered'[k] = Answered(authRep'[k])
  BY DEF AnsweredQueue, Answered
<1>5. \A k \in 1 .. Len(authRep) : AllAnswered[k] = Answered(authRep[k])
  BY DEF AnsweredQueue
<1>. HIDE DEF t
<1>6. Len(AllAnswered') = Len(t)
  BY <1>1, <1>2, <1>3, <1>4
<1>7. \A k \in 1 .. Len(AllAnswered') : AllAnswered'[k] = t[k]
  BY <1>1, <1>2, <1>3, <1>4, <1>5, <1>6
<1>. QED
  BY <1>1, <1>2, <1>4, <1>6, <1>7, SeqEqual DEF t

-----------------------------------------------------------------------------
(* The steps of the service.                                               *)
LEMMA AskStep ==
  ASSUME Inv, Inv', NEW j \in Used, NEW type \in AuthTypes, NEW text \in SomeText,
         Forward([type |-> type, text |-> text], j)
  PROVE  Service!Next \/ UNCHANGED Service!vars
<1>. DEFINE r == NewRequest([type |-> type, text |-> text], j)
<1>1. r \in Request
  BY NewRequestTypes DEF Inv
<1>2. CASE ~authUp
  BY <1>2, Quiet DEF Forward
<1>3. CASE authUp
  <2>1. authReq' = Append(authReq, r) /\ UNCHANGED <<authUp, authRep>>
    BY <1>3 DEF Forward
  <2>. HIDE DEF r
  <2>2. AllAsked' = Append(AllAsked, Asked(r))
    BY <1>1, <2>1, BothQueues, AskedGrows
  <2>3. AllAnswered' = AllAnswered
    BY <2>1 DEF AllAnswered
  <2>4. Asked(r) \in [type : RequestTypes, requestid : Slots]
    BY <1>1, AskedParts DEF AskedSet
  <2>5. Service!Ask("chat")
    BY <1>3, <2>1, <2>2, <2>3, <2>4
    DEF Service!Ask, Service!RequestTypes, RequestTypes, Chat
  <2>. QED
    BY <2>5 DEF Service!Next, Chat
<1>. QED
  BY <1>2, <1>3

LEMMA TakeStep ==
  ASSUME Inv, Inv', NEW n \in 1 .. Len(authRep), TakeReplies(n)
  PROVE  Service!Next
<1>1. /\ authRep' = SubSeq(authRep, n + 1, Len(authRep))
      /\ UNCHANGED <<authUp, authReq>>
  BY DEF TakeReplies
<1>2. /\ n \in 1 .. Len(AllAnswered)
      /\ AllAnswered' = SubSeq(AllAnswered, n + 1, Len(AllAnswered))
  BY <1>1, BothQueues, AnsweredShrinks
<1>3. AllAsked' = AllAsked
  BY <1>1 DEF AllAsked
<1>4. Service!Take("chat", n)
  BY <1>1, <1>2, <1>3 DEF Service!Take, Chat
<1>. QED
  BY <1>2, <1>4 DEF Service!Next, Chat

(* An outcome is one of the answers promised to the request.               *)
LEMMA OutcomePromised ==
  ASSUME NEW r \in Request, NEW outcome \in Outcomes(r.type)
  PROVE  /\ Answered(Answer(r, outcome)) \in Service!Answers(Asked(r))
         /\ Answer(r, outcome) \in Reply
<1>. DEFINE x == [type |-> outcome.type, requestid |-> r.requestid,
                  returnCode |-> outcome.returnCode]
<1>1. Answered(Answer(r, outcome)) = x
  BY DEF Answered, Answer
<1>2. Asked(r).type = r.type /\ Asked(r).requestid = r.requestid
  BY DEF Asked
<1>3. ASSUME r.type = "G_CREATE_ACCOUNT" PROVE x \in Service!Answers(Asked(r))
  <2>1. \/ outcome.type = "G_CREATE_ACCOUNT_SUCCESS" /\ outcome.returnCode = 0
        \/ outcome.type = "G_CREATE_ACCOUNT_FAILURE" /\ outcome.returnCode \in 0 .. 1
    BY <1>3 DEF Outcomes, Outcome
  <2>. QED
    BY <1>2, <1>3, <2>1 DEF Service!Answers
<1>4. ASSUME r.type # "G_CREATE_ACCOUNT" PROVE x \in Service!Answers(Asked(r))
  <2>1. \/ outcome.type = "G_AUTHENTICATE_SUCCESS" /\ outcome.returnCode = 0
        \/ outcome.type = "G_AUTHENTICATE_FAILURE" /\ outcome.returnCode \in 0 .. 2
    BY <1>4 DEF Outcomes, Outcome
  <2>. QED
    BY <1>2, <1>4, <2>1 DEF Service!Answers
<1>5. Answer(r, outcome) \in Reply
  BY AnswerTypes
<1>. QED
  BY <1>1, <1>3, <1>4, <1>5

LEMMA ServeStep ==
  ASSUME Inv, Inv', NEW n \in 1 .. Len(authReq), AuthAnswers(n)
  PROVE  Service!Next
<1>. DEFINE r == Head(authReq)
<1>1. authReq' = SubSeq(authReq, n + 1, Len(authReq)) /\ UNCHANGED authUp
  BY DEF AuthAnswers
<1>2. /\ n \in 1 .. Len(AllAsked)
      /\ AllAsked' = SubSeq(AllAsked, n + 1, Len(AllAsked))
  BY <1>1, BothQueues, AskedShrinks
<1>3. r \in Request /\ r = authReq[1] /\ 1 \in 1 .. Len(authReq)
  <2>1. authReq \in Seq(Request) /\ Len(authReq) \in Nat
    BY BothQueues DEF AskedQueue
  <2>. QED
    BY <2>1
<1>4. AllAsked[1] = Asked(r)
  BY <1>3, BothQueues DEF AskedQueue
<1>5. \/ AllAnswered' = AllAnswered
      \/ \E a \in Service!Answers(AllAsked[1]) :
           AllAnswered' = Append(AllAnswered, a)
  <2>1. CASE UNCHANGED authRep
    BY <2>1 DEF AllAnswered
  <2>2. ASSUME NEW outcome \in Outcomes(r.type),
               authRep' = Append(authRep, Answer(r, outcome))
        PROVE  \E a \in Service!Answers(AllAsked[1]) :
                 AllAnswered' = Append(AllAnswered, a)
    <3>1. /\ Answered(Answer(r, outcome)) \in Service!Answers(AllAsked[1])
          /\ Answer(r, outcome) \in Reply
      BY <1>3, <1>4, OutcomePromised
    <3>2. AllAnswered' = Append(AllAnswered, Answered(Answer(r, outcome)))
      BY <2>2, <3>1, BothQueues, AnsweredGrows
    <3>. QED
      BY <3>1, <3>2
  <2>. QED
    BY <2>1, <2>2 DEF AuthAnswers
<1>. HIDE DEF r
<1>6. Service!Serve("chat", n)
  BY <1>1, <1>2, <1>5 DEF Service!Serve, Chat
<1>. QED
  BY <1>2, <1>6 DEF Service!Next, Chat

LEMMA CloseStep ==
  ASSUME AuthCloses
  PROVE  Service!Next
<1>1. authUp' = FALSE /\ authReq' = <<>> /\ UNCHANGED authRep
  BY DEF AuthCloses
<1>2. AllAsked' = <<>> /\ AllAnswered' = AllAnswered
  BY <1>1 DEF AllAsked, AllAnswered
<1>3. Service!Close(Chat)
  BY <1>1, <1>2 DEF Service!Close, Chat
<1>. QED
  BY <1>3 DEF Service!Next

LEMMA StepSeen ==
  ASSUME Inv, Inv', [Next]_vars
  PROVE  Service!Next \/ UNCHANGED Service!vars
<1>1. CASE UNCHANGED authVars
  BY <1>1, Quiet DEF authVars
<1>. QED
  BY <1>1, AuthMoves, AskStep, TakeStep, ServeStep, CloseStep

LEMMA InitSeen == ASSUME Init PROVE Service!Init
<1>1. AllAsked = <<>> /\ AllAnswered = <<>> /\ authUp = TRUE
  BY DEF Init, AllAsked, AllAnswered
<1>. QED
  BY <1>1 DEF Service!Init

(* All that happens on the connection of server_main.cpp to the            *)
(* authentication server is what AuthService allows: requests lost with    *)
(* the connection, answers read several at once and answers dropped        *)
(* included.                                                               *)
THEOREM ConnectionIsTheService == Spec => UsesService
<1>1. Init => Service!Init
  BY InitSeen
<1>2. Inv /\ Inv' /\ [Next]_vars => [Service!Next]_(Service!vars)
  BY StepSeen
<1>. QED
  BY <1>1, <1>2, Invariance, PTL DEF Spec, UsesService, Service!Spec

=============================================================================
