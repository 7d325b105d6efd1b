------------------------------ MODULE BillingProofs ------------------------------
(***************************************************************************)
(* Theorems about Billing, for every number of accounts, requests and      *)
(* contracts, and feedback taken in any order and any number of times.     *)
(***************************************************************************)
EXTENDS Billing, TLAPS

Outcome == {"active", "past_due", "canceled"}
Account == [sub : Sub \cup {None}, status : Outcome \cup {"none"}, plan : Plan \cup {None}]
Filed == [user : User, plan : Plan, sub : Sub \cup {None}, status : Outcome \cup {"pending"}]
Contract == [request : Request, mul : Nat, standing : Outcome \cup {"waiting"}]
Message == [sub : Sub, request : Request, mul : Nat, status : Outcome]

TypeOK == /\ users \in [User -> Account]
          /\ requests \in [Request -> {NoRequest} \cup Filed]
          /\ pc \in [Request -> {"idle", "registering", "attaching", "done", "failed"}]
          /\ answer \in [Request -> Sub \cup {None}]
          /\ processed \in Seq(Message)
          /\ contract \in [Sub -> {NoContract} \cup Contract]
          /\ sent \in [Sub -> Seq(Message)]
          /\ history \in Seq(Message)

\* A request is filed as its checkout starts, and a contract is made for a filed request only.
FiledFirst == /\ \A r \in Request : pc[r] = "idle" <=> requests[r] = NoRequest
              /\ \A s \in Sub : contract[s] # NoContract => requests[contract[s].request] # NoRequest

\* A checkout asks for a contract once, so that a request has at most one.
OneContract ==
  /\ \A r \in Request : pc[r] = "registering" => \A s \in Sub : contract[s].request # r
  /\ \A s, t \in Sub : contract[s] # NoContract /\ contract[s].request = contract[t].request => s = t

\* What is said of a contract, by the answer, by a request bound to it and by the messages, is so.
Truthful ==
  /\ \A r \in Request : pc[r] = "attaching" => answer[r] \in Sub /\ contract[answer[r]].request = r
  /\ \A r \in Request : requests[r].sub # None => contract[requests[r].sub].request = r
  /\ \A s \in Sub : \A i \in DOMAIN sent[s] :
       sent[s][i].sub = s /\ sent[s][i].request = contract[s].request

\* The feedback that was applied is feedback that was sent.
Delivered == \A j \in DOMAIN history : history[j] \in ToSet(sent[history[j].sub])

\* The service says last of a contract that it has ended.
EndIsLast ==
  \A s \in Sub :
    /\ \A i \in DOMAIN sent[s] : sent[s][i].status = "canceled" =>
         i = Len(sent[s]) /\ contract[s].standing = "canceled"
    /\ contract[s].standing = "canceled" => Len(sent[s]) > 0 /\ sent[s][Len(sent[s])].status = "canceled"

\* An entitled account is so by the feedback applied last among that about its requests.
EntitledByLast ==
  \A u \in User : Entitled(u) =>
    \E i \in DOMAIN history :
      /\ history[i].status = "active" /\ history[i].sub = users[u].sub
      /\ requests[history[i].request].user = u /\ requests[history[i].request].plan = users[u].plan
      /\ \A j \in DOMAIN history : j > i => requests[history[j].request].user # u

IInv == /\ TypeOK
        /\ FiledFirst
        /\ OneContract
        /\ Truthful
        /\ Delivered
        /\ EndIsLast
        /\ EntitledByLast

-----------------------------------------------------------------------------
(* What the conjuncts say of one request, contract or message. *)

\* A request that is filed has an account and a plan; one that is bound is filed.
LEMMA FiledRequest ==
  ASSUME BillingAssumption, TypeOK, NEW r \in Request, requests[r] # NoRequest
  PROVE  /\ requests[r] \in Filed /\ requests[r].user \in User /\ requests[r].plan \in Plan
         /\ requests[r].sub \in Sub \cup {None}
BY DEF TypeOK, Filed

LEMMA BoundRequest ==
  ASSUME BillingAssumption, TypeOK, NEW r \in Request, requests[r].sub # None
  PROVE  requests[r] # NoRequest /\ requests[r].sub \in Sub
<1>1. requests[r] # NoRequest
  BY DEF NoRequest
<1> QED
  BY <1>1, FiledRequest

\* A contract that was made names its request.
LEMMA MadeContract ==
  ASSUME BillingAssumption, TypeOK, NEW s \in Sub
  PROVE  /\ contract[s] # NoContract <=> contract[s].request \in Request
         /\ contract[s] = NoContract <=> contract[s].request = None
         /\ contract[s] # NoContract => contract[s] \in Contract
<1>1. contract[s] \in {NoContract} \cup Contract
  BY DEF TypeOK
<1>2. NoContract.request = None /\ None \notin Request
  BY DEF NoContract, BillingAssumption
<1>3. contract[s] \in Contract => contract[s].request \in Request
  BY DEF Contract
<1> QED
  BY <1>1, <1>2, <1>3

\* The subjects of a sent message.
LEMMA SentMessage ==
  ASSUME BillingAssumption, TypeOK, FiledFirst, Truthful, NEW s \in Sub, NEW m \in ToSet(sent[s])
  PROVE  /\ m \in Message /\ m.sub = s /\ m.sub \in Sub /\ m.request = contract[s].request
         /\ m.request \in Request /\ m.status \in Outcome
         /\ contract[s] # NoContract /\ requests[m.request] # NoRequest
<1>1. PICK i \in DOMAIN sent[s] : m = sent[s][i]
  BY DEF ToSet
<1>2. m \in Message
  BY <1>1 DEF TypeOK
<1>3. m.request \in Request /\ m.status \in Outcome /\ m.sub \in Sub
  BY <1>2 DEF Message
<1>4. m.sub = s /\ m.request = contract[s].request
  BY <1>1 DEF Truthful
<1> QED
  BY <1>2, <1>3, <1>4, MadeContract DEF FiledFirst

LEMMA AppliedMessage ==
  ASSUME BillingAssumption, TypeOK, FiledFirst, Truthful, Delivered, NEW j \in DOMAIN history
  PROVE  /\ history[j] \in Message /\ history[j].sub \in Sub /\ history[j].request \in Request
         /\ history[j] \in ToSet(sent[history[j].sub])
         /\ history[j].request = contract[history[j].sub].request
         /\ requests[history[j].request] # NoRequest
<1>1. history[j] \in Message
  BY DEF TypeOK
<1>2. history[j].sub \in Sub
  BY <1>1 DEF Message
<1>3. history[j] \in ToSet(sent[history[j].sub])
  BY DEF Delivered
<1> QED
  BY <1>1, <1>2, <1>3, SentMessage

-----------------------------------------------------------------------------
(* The invariant is established and kept. *)

LEMMA InitIInv == BillingAssumption /\ Init => IInv
<1> SUFFICES ASSUME BillingAssumption, Init PROVE IInv
  OBVIOUS
<1>1. TypeOK
  BY DEF Init, TypeOK, Account
<1>2. FiledFirst /\ OneContract
  BY DEF Init, FiledFirst, OneContract, NoContract, BillingAssumption
<1>3. Truthful
  BY DEF Init, Truthful, NoRequest
<1>4. Delivered /\ EndIsLast
  BY DEF Init, Delivered, EndIsLast, NoContract
<1>5. EntitledByLast
  BY DEF Init, EntitledByLast, Entitled
<1> QED
  BY <1>1, <1>2, <1>3, <1>4, <1>5 DEF IInv

\* The conjuncts that only speak of what the service keeps, and of what the store has of it.
LEMMA CheckoutKeeps ==
  ASSUME BillingAssumption, IInv, NEW r \in Request, NEW u \in User, NEW p \in Plan, Checkout(r, u, p)
  PROVE  IInv'
<1> DEFINE filed == [user |-> u, plan |-> p, sub |-> None, status |-> "pending"]
<1>1. /\ TypeOK /\ FiledFirst /\ OneContract /\ Truthful /\ Delivered /\ EndIsLast /\ EntitledByLast
      /\ UNCHANGED <<users, answer, processed, contract, sent, history>>
  BY DEF IInv, Checkout
<1>2. /\ pc[r] = "idle" /\ pc' = [pc EXCEPT ![r] = "registering"]
      /\ requests' = [requests EXCEPT ![r] = filed]
  BY DEF Checkout, Goto
<1>3. /\ filed \in Filed /\ filed # NoRequest /\ filed.sub = None
  BY DEF Filed, NoRequest
<1> HIDE DEF filed
<1>4. /\ requests[r] = NoRequest /\ requests'[r] = filed /\ pc'[r] = "registering"
      /\ \A q \in Request \ {r} : requests'[q] = requests[q] /\ pc'[q] = pc[q]
  BY <1>1, <1>2 DEF TypeOK, FiledFirst
<1>5. TypeOK'
  BY <1>1, <1>2, <1>3 DEF TypeOK
<1>6. FiledFirst'
  BY <1>1, <1>3, <1>4, MadeContract DEF FiledFirst
<1>7. \A s \in Sub : contract[s].request # r
  BY <1>1, <1>4, MadeContract DEF FiledFirst
<1>8. OneContract'
  BY <1>1, <1>4, <1>7 DEF OneContract
<1>9. Truthful'
  BY <1>1, <1>3, <1>4, BoundRequest DEF Truthful
<1>10. Delivered' /\ EndIsLast'
  BY <1>1 DEF Delivered, EndIsLast
<1>11. \A j \in DOMAIN history : history[j].request \in Request \ {r}
  BY <1>1, <1>4, AppliedMessage
<1>12. EntitledByLast'
  BY <1>1, <1>4, <1>11 DEF EntitledByLast, Entitled
<1> QED
  BY <1>5, <1>6, <1>8, <1>9, <1>10, <1>12 DEF IInv

LEMMA RegistrationKeeps ==
  ASSUME BillingAssumption, IInv, NEW r \in Request, NEW s \in Sub,
         Register(r, s) \/ RegisterUnanswered(r, s)
  PROVE  IInv'
<1> DEFINE made == [request |-> r, mul |-> 0, standing |-> "waiting"]
<1>1. /\ TypeOK /\ FiledFirst /\ OneContract /\ Truthful /\ Delivered /\ EndIsLast /\ EntitledByLast
      /\ UNCHANGED <<users, requests, processed, sent, history>>
  BY DEF IInv, Register, RegisterUnanswered, store
<1>2. /\ pc[r] = "registering" /\ contract[s] = NoContract
      /\ contract' = [contract EXCEPT ![s] = made]
  BY DEF Register, RegisterUnanswered, Goto, Contracted
<1>3. \/ pc' = [pc EXCEPT ![r] = "attaching"] /\ answer' = [answer EXCEPT ![r] = s]
      \/ pc' = [pc EXCEPT ![r] = "failed"] /\ answer' = answer
  BY DEF Register, RegisterUnanswered, Goto
<1>4. /\ made \in Contract /\ made.request = r /\ made # NoContract /\ made.standing # "canceled"
  BY DEF Contract, NoContract
<1> HIDE DEF made
<1>5. /\ contract'[s] = made /\ contract[s].request # contract'[s].request
      /\ \A t \in Sub \ {s} : contract'[t] = contract[t]
  BY <1>1, <1>2, <1>4, MadeContract DEF TypeOK
<1>6. /\ pc'[r] \in {"attaching", "failed"} /\ (pc'[r] = "attaching" => answer'[r] = s)
      /\ \A q \in Request \ {r} : pc'[q] = pc[q] /\ answer'[q] = answer[q]
  BY <1>1, <1>3 DEF TypeOK
<1>7. \A t \in Sub : contract[t].request # r
  BY <1>1, <1>2 DEF OneContract
<1>8. TypeOK'
  <2>1. pc' \in [Request -> {"idle", "registering", "attaching", "done", "failed"}]
    BY <1>1, <1>3 DEF TypeOK
  <2>2. answer' \in [Request -> Sub \cup {None}]
    BY <1>1, <1>3 DEF TypeOK
  <2>3. contract' \in [Sub -> {NoContract} \cup Contract]
    BY <1>1, <1>2, <1>4 DEF TypeOK
  <2> QED
    BY <2>1, <2>2, <2>3, <1>1 DEF TypeOK
<1>9. requests[r] # NoRequest
  BY <1>1, <1>2 DEF FiledFirst
<1>10. FiledFirst'
  <2>1. \A q \in Request : pc'[q] = "idle" <=> pc[q] = "idle"
    BY <1>2, <1>6
  <2> QED
    BY <2>1, <1>1, <1>4, <1>5, <1>9 DEF FiledFirst
<1>11. OneContract'
  BY <1>1, <1>2, <1>4, <1>5, <1>6, <1>7 DEF OneContract
<1>12. \A q \in Request : requests[q].sub \in Sub /\ contract[requests[q].sub].request = q
                            => requests[q].sub # s
  BY <1>2, <1>1, MadeContract
<1>13. \A t \in Sub : \A i \in DOMAIN sent[t] : t # s
  BY <1>1, <1>2, SentMessage DEF ToSet
<1>14. Truthful'
  <2>1. \A q \in Request : pc'[q] = "attaching" => answer'[q] \in Sub /\ contract'[answer'[q]].request = q
    <3> SUFFICES ASSUME NEW q \in Request, pc'[q] = "attaching"
                 PROVE  answer'[q] \in Sub /\ contract'[answer'[q]].request = q
      OBVIOUS
    <3>1. CASE q = r
      BY <3>1, <1>4, <1>5, <1>6
    <3>2. CASE q # r
      <4>1. answer[q] \in Sub /\ contract[answer[q]].request = q /\ answer'[q] = answer[q]
        BY <3>2, <1>1, <1>6 DEF Truthful
      <4>2. answer[q] # s
        BY <4>1, <1>1, <1>2, MadeContract
      <4> QED
        BY <4>1, <4>2, <1>5
    <3> QED
      BY <3>1, <3>2
  <2>2. \A q \in Request : requests'[q].sub # None => contract'[requests'[q].sub].request = q
    BY <1>1, <1>5, <1>12, BoundRequest DEF Truthful
  <2>3. \A t \in Sub : \A i \in DOMAIN sent'[t] :
          sent'[t][i].sub = t /\ sent'[t][i].request = contract'[t].request
    BY <1>1, <1>5, <1>13 DEF Truthful
  <2> QED
    BY <2>1, <2>2, <2>3 DEF Truthful
<1>15. Delivered'
  BY <1>1 DEF Delivered
<1>16. EndIsLast'
  BY <1>1, <1>4, <1>5, <1>13 DEF EndIsLast
<1>17. EntitledByLast'
  BY <1>1 DEF EntitledByLast, Entitled
<1> QED
  BY <1>8, <1>10, <1>11, <1>14, <1>15, <1>16, <1>17 DEF IInv

LEMMA CallEndsKeeps ==
  ASSUME BillingAssumption, IInv, Restart \/ \E r \in Request : RegisterRefused(r)
  PROVE  IInv'
<1>1. /\ TypeOK /\ FiledFirst /\ OneContract /\ Truthful /\ Delivered /\ EndIsLast /\ EntitledByLast
      /\ UNCHANGED <<users, requests, processed, history, answer, contract, sent>>
  BY DEF IInv, Restart, RegisterRefused, store
<1>2. /\ pc' \in [Request -> {"idle", "registering", "attaching", "done", "failed"}]
      /\ \A r \in Request : pc'[r] = pc[r] \/ (pc'[r] = "failed" /\ pc[r] # "idle")
  BY <1>1 DEF Restart, RegisterRefused, Goto, TypeOK
<1>3. TypeOK'
  BY <1>1, <1>2 DEF TypeOK
<1>4. FiledFirst' /\ OneContract' /\ Truthful'
  BY <1>1, <1>2 DEF FiledFirst, OneContract, Truthful
<1>5. Delivered' /\ EndIsLast' /\ EntitledByLast'
  BY <1>1 DEF Delivered, EndIsLast, EntitledByLast, Entitled
<1> QED
  BY <1>3, <1>4, <1>5 DEF IInv

LEMMA AttachKeeps ==
  ASSUME BillingAssumption, IInv, NEW r \in Request, Attach(r)
  PROVE  IInv'
<1>1. /\ TypeOK /\ FiledFirst /\ OneContract /\ Truthful /\ Delivered /\ EndIsLast /\ EntitledByLast
      /\ UNCHANGED <<users, answer, processed, contract, sent, history>>
  BY DEF IInv, Attach
<1>2. /\ pc[r] = "attaching" /\ pc' = [pc EXCEPT ![r] = "done"]
      /\ requests' = [requests EXCEPT ![r].sub = answer[r]]
  BY DEF Attach, Goto
<1>3. answer[r] \in Sub /\ contract[answer[r]].request = r /\ requests[r] # NoRequest /\ requests[r] \in Filed
  BY <1>1, <1>2, FiledRequest DEF Truthful, FiledFirst
<1>4. /\ requests'[r] = [requests[r] EXCEPT !.sub = answer[r]]
      /\ \A q \in Request \ {r} : requests'[q] = requests[q]
      /\ pc'[r] = "done" /\ \A q \in Request \ {r} : pc'[q] = pc[q]
  BY <1>1, <1>2 DEF TypeOK
<1>5. /\ requests'[r] \in Filed /\ requests'[r].sub = answer[r] /\ requests'[r] # NoRequest
      /\ requests'[r].user = requests[r].user /\ requests'[r].plan = requests[r].plan
  <2>1. PICK old \in Filed, s \in Sub : old = requests[r] /\ s = answer[r]
    BY <1>3
  <2>2. [old EXCEPT !.sub = s] \in Filed
    BY DEF Filed
  <2> QED
    BY <2>1, <2>2, <1>4 DEF Filed, NoRequest
<1>6. TypeOK'
  BY <1>1, <1>2, <1>5 DEF TypeOK
<1>7. FiledFirst'
  BY <1>1, <1>2, <1>3, <1>4, <1>5, MadeContract DEF FiledFirst
<1>8. OneContract'
  BY <1>1, <1>2, <1>4 DEF OneContract
<1>9. Truthful'
  <2>1. \A q \in Request : pc'[q] = "attaching" => answer'[q] \in Sub /\ contract'[answer'[q]].request = q
    BY <1>1, <1>4 DEF Truthful
  <2>2. \A q \in Request : requests'[q].sub # None => contract'[requests'[q].sub].request = q
    <3>1. requests'[r].sub = answer[r] /\ contract'[answer[r]].request = r
      BY <1>1, <1>3, <1>5
    <3>2. \A q \in Request \ {r} : requests'[q].sub # None => contract'[requests'[q].sub].request = q
      <4>1. \A q \in Request \ {r} : requests'[q].sub = requests[q].sub
        BY <1>4
      <4> QED
        BY <4>1, <1>1 DEF Truthful
    <3> QED
      BY <3>1, <3>2
  <2>3. \A s \in Sub : \A i \in DOMAIN sent'[s] :
          sent'[s][i].sub = s /\ sent'[s][i].request = contract'[s].request
    BY <1>1 DEF Truthful
  <2> QED
    BY <2>1, <2>2, <2>3 DEF Truthful
<1>10. Delivered' /\ EndIsLast'
  BY <1>1 DEF Delivered, EndIsLast
<1>11. \A j \in DOMAIN history :
         /\ requests'[history[j].request].user = requests[history[j].request].user
         /\ requests'[history[j].request].plan = requests[history[j].request].plan
  BY <1>1, <1>4, <1>5, AppliedMessage
<1>12. EntitledByLast'
  BY <1>1, <1>11 DEF EntitledByLast, Entitled
<1> QED
  BY <1>6, <1>7, <1>8, <1>9, <1>10, <1>12 DEF IInv

\* What the store remembers of feedback ids are messages.
LEMMA RememberedType ==
  ASSUME BillingAssumption, NEW ids \in Seq(Message)
  PROVE  Remembered(ids) \in Seq(Message)
<1>1. CASE Len(ids) <= Memory
  BY <1>1 DEF Remembered
<1>2. CASE ~(Len(ids) <= Memory)
  <2>1. Len(ids) \in Nat /\ Memory \in Nat /\ Len(ids) - Memory + 1 \in 1..(Len(ids) + 1)
    BY <1>2 DEF BillingAssumption
  <2>2. SubSeq(ids, Len(ids) - Memory + 1, Len(ids)) \in Seq(Message)
    BY <2>1
  <2> QED
    BY <1>2, <2>2 DEF Remembered
<1> QED
  BY <1>1, <1>2

\* A message that was sent of a contract has the contract's number.
LEMMA FeedbackIsSent ==
  ASSUME BillingAssumption, IInv, NEW m \in Messages
  PROVE  /\ m \in Message /\ m \in ToSet(sent[m.sub]) /\ m.sub \in Sub /\ m.status \in Outcome
         /\ m.request \in Request /\ m.request = contract[m.sub].request
         /\ requests[m.request] \in Filed /\ requests[m.request] # NoRequest
         /\ requests[m.request].user \in User /\ requests[m.request].plan \in Plan
<1>1. PICK s \in Sub : m \in ToSet(sent[s])
  BY DEF Messages
<1>2. /\ m \in Message /\ m.sub = s /\ m.sub \in Sub /\ m.request = contract[s].request
      /\ m.request \in Request /\ m.status \in Outcome /\ requests[m.request] # NoRequest
  BY <1>1, SentMessage DEF IInv
<1> QED
  BY <1>1, <1>2, FiledRequest DEF IInv

LEMMA FeedbackKeeps ==
  ASSUME BillingAssumption, IInv, NEW m \in Messages, TakeFeedback(m)
  PROVE  IInv'
<1> DEFINE r == m.request
           paid == [sub |-> m.sub, status |-> m.status, plan |-> requests[r].plan]
<1>1. /\ TypeOK /\ FiledFirst /\ OneContract /\ Truthful /\ Delivered /\ EndIsLast /\ EntitledByLast
      /\ UNCHANGED <<pc, answer, contract, sent>>
  BY DEF IInv, TakeFeedback
<1>2. /\ requests' = [requests EXCEPT ![r].sub = m.sub, ![r].status = m.status]
      /\ users' = [users EXCEPT ![requests[r].user] = paid]
      /\ processed' = Remembered(Append(processed, m)) /\ history' = Append(history, m)
  BY DEF TakeFeedback, Applied
<1>3. /\ m \in Message /\ m \in ToSet(sent[m.sub]) /\ m.sub \in Sub /\ m.status \in Outcome
      /\ r \in Request /\ r = contract[m.sub].request
      /\ requests[r] \in Filed /\ requests[r] # NoRequest
      /\ requests[r].user \in User /\ requests[r].plan \in Plan
  BY FeedbackIsSent
<1>4. requests[r].sub \in {None, m.sub}
  BY DEF TakeFeedback, Genuine, MayBind
<1>5. paid \in Account /\ paid.sub = m.sub /\ paid.status = m.status /\ paid.plan = requests[r].plan
  BY <1>3 DEF Account
<1> HIDE DEF r, paid
<1>6. /\ requests'[r] = [requests[r] EXCEPT !.sub = m.sub, !.status = m.status]
      /\ requests' = [requests EXCEPT ![r] = requests'[r]]
      /\ \A q \in Request \ {r} : requests'[q] = requests[q]
  BY <1>1, <1>2, <1>3, Zenon DEF TypeOK
<1>7. /\ requests'[r] \in Filed /\ requests'[r].sub = m.sub /\ requests'[r] # NoRequest
      /\ requests'[r].user = requests[r].user /\ requests'[r].plan = requests[r].plan
  <2>1. PICK old \in Filed, s \in Sub, status \in Outcome : old = requests[r] /\ s = m.sub /\ status = m.status
    BY <1>3
  <2>2. PICK new : new = requests'[r]
    OBVIOUS
  <2>3. new = [old EXCEPT !.sub = s, !.status = status]
    BY <2>1, <2>2, <1>6
  <2>4. new \in Filed /\ new.sub = s /\ new.user = old.user /\ new.plan = old.plan
    BY <2>1, <2>3 DEF Filed
  <2>5. new.status # "none" /\ NoRequest.status = "none"
    BY <2>3, <2>4 DEF Filed, Outcome, NoRequest
  <2> QED
    BY <2>1, <2>2, <2>4, <2>5
<1>8. TypeOK'
  <2>1. users' \in [User -> Account]
    BY <1>1, <1>2, <1>3, <1>5 DEF TypeOK
  <2>2. requests' \in [Request -> {NoRequest} \cup Filed]
    BY <1>1, <1>3, <1>6, <1>7 DEF TypeOK
  <2>3. processed' \in Seq(Message) /\ history' \in Seq(Message)
    <3>1. Append(processed, m) \in Seq(Message) /\ Append(history, m) \in Seq(Message)
      BY <1>1, <1>3 DEF TypeOK
    <3> QED
      BY <3>1, <1>2, RememberedType
  <2> QED
    BY <2>1, <2>2, <2>3, <1>1 DEF TypeOK
<1>9. FiledFirst'
  BY <1>1, <1>3, <1>6, <1>7, MadeContract DEF FiledFirst
<1>10. OneContract' /\ EndIsLast'
  BY <1>1 DEF OneContract, EndIsLast
<1>11. Truthful'
  <2>1. requests'[r].sub = m.sub /\ contract'[m.sub].request = r
    BY <1>1, <1>3, <1>7
  <2>2. \A q \in Request \ {r} : requests'[q].sub # None => contract'[requests'[q].sub].request = q
    <3>1. \A q \in Request \ {r} : requests'[q].sub = requests[q].sub
      BY <1>6
    <3> QED
      BY <3>1, <1>1 DEF Truthful
  <2>3. \A q \in Request : requests'[q].sub # None => contract'[requests'[q].sub].request = q
    BY <2>1, <2>2
  <2> QED
    BY <2>3, <1>1 DEF Truthful
<1>12. /\ DOMAIN history' = 1..(Len(history) + 1) /\ history'[Len(history) + 1] = m
       /\ \A j \in DOMAIN history : history'[j] = history[j]
       /\ DOMAIN history = 1..Len(history) /\ Len(history) \in Nat
  BY <1>1, <1>2, <1>3 DEF TypeOK
<1>13. Delivered'
  <2>1. ASSUME NEW j \in DOMAIN history' PROVE history'[j] \in ToSet(sent'[history'[j].sub])
    <3>1. CASE j = Len(history) + 1
      BY <3>1, <1>1, <1>3, <1>12
    <3>2. CASE j \in DOMAIN history
      BY <3>2, <1>1, <1>12 DEF Delivered
    <3> QED
      BY <3>1, <3>2, <1>12
  <2> QED
    BY <2>1 DEF Delivered
<1>14. \A q \in Request : requests[q] # NoRequest =>
         requests'[q].user = requests[q].user /\ requests'[q].plan = requests[q].plan
  BY <1>6, <1>7
<1>15. \A j \in DOMAIN history :
         /\ requests'[history'[j].request].user = requests[history[j].request].user
         /\ requests'[history'[j].request].plan = requests[history[j].request].plan
  BY <1>1, <1>12, <1>14, AppliedMessage
<1>16. EntitledByLast'
  <2> SUFFICES ASSUME NEW u \in User, Entitled(u)'
               PROVE  \E i \in DOMAIN history' :
                        /\ history'[i].status = "active" /\ history'[i].sub = users'[u].sub
                        /\ requests'[history'[i].request].user = u
                        /\ requests'[history'[i].request].plan = users'[u].plan
                        /\ \A j \in DOMAIN history' : j > i => requests'[history'[j].request].user # u
    BY DEF EntitledByLast
  <2>1. CASE u = requests[r].user
    <3>1. users'[u] = paid /\ m.status = "active"
      BY <2>1, <1>1, <1>2, <1>5 DEF TypeOK, Entitled
    <3>2. r = m.request
      BY DEF r
    <3>3. requests'[m.request].user = u /\ requests'[m.request].plan = users'[u].plan
      BY <3>1, <3>2, <2>1, <1>5, <1>7
    <3>4. Len(history) + 1 \in DOMAIN history' /\ \A j \in DOMAIN history' : ~(j > Len(history) + 1)
      BY <1>12
    <3> QED
      BY <3>1, <3>3, <3>4, <1>5, <1>12
  <2>2. CASE u # requests[r].user
    <3>1. users'[u] = users[u] /\ Entitled(u)
      BY <2>2, <1>1, <1>2 DEF TypeOK, Entitled
    <3>2. PICK i \in DOMAIN history :
            /\ history[i].status = "active" /\ history[i].sub = users[u].sub
            /\ requests[history[i].request].user = u /\ requests[history[i].request].plan = users[u].plan
            /\ \A j \in DOMAIN history : j > i => requests[history[j].request].user # u
      BY <3>1, <1>1 DEF EntitledByLast
    <3>3. \A j \in DOMAIN history' : j > i => requests'[history'[j].request].user # u
      <4> SUFFICES ASSUME NEW j \in DOMAIN history', j > i
                   PROVE  requests'[history'[j].request].user # u
        OBVIOUS
      <4>1. CASE j = Len(history) + 1
        BY <4>1, <2>2, <1>7, <1>12 DEF r
      <4>2. CASE j \in DOMAIN history
        BY <4>2, <3>2, <1>15
      <4> QED
        BY <4>1, <4>2, <1>12
    <3> QED
      BY <3>1, <3>2, <3>3, <1>12, <1>15
  <2> QED
    BY <2>1, <2>2
<1> QED
  BY <1>8, <1>9, <1>10, <1>11, <1>13, <1>16 DEF IInv

\* The service says one thing more of a contract that has not ended.
LEMMA ReportKeeps ==
  ASSUME BillingAssumption, IInv, NEW s \in Sub, Pays(s) \/ PaymentFails(s) \/ Cancels(s)
  PROVE  IInv'
<1>1. /\ TypeOK /\ FiledFirst /\ OneContract /\ Truthful /\ Delivered /\ EndIsLast /\ EntitledByLast
      /\ contract[s].standing \in {"waiting", "active", "past_due"}
  BY DEF IInv, Pays, PaymentFails, Cancels
<1>2. contract[s] # NoContract /\ contract[s] \in Contract /\ contract[s].mul \in Nat /\ contract[s].request \in Request
  BY <1>1, MadeContract DEF NoContract, Contract
<1>3. PICK mul \in Nat, status \in Outcome : Report(s, mul, status, status)
  <2>1. contract[s].mul + 1 \in Nat /\ contract[s].mul \in Nat
    BY <1>2
  <2>2. {"active", "past_due", "canceled"} \subseteq Outcome
    BY DEF Outcome
  <2> QED
    BY <2>1, <2>2 DEF Pays, PaymentFails, Cancels
<1> DEFINE m == [sub |-> s, request |-> contract[s].request, mul |-> mul, status |-> status]
<1>4. /\ contract' = [contract EXCEPT ![s].mul = mul, ![s].standing = status]
      /\ sent' = [sent EXCEPT ![s] = Append(sent[s], m)]
      /\ UNCHANGED <<users, requests, processed, history, pc, answer>>
  BY <1>3 DEF Report, store
<1>5. m \in Message /\ m.sub = s /\ m.request = contract[s].request /\ m.status = status
  BY <1>2 DEF Message
<1> HIDE DEF m
<1>6. /\ contract'[s] = [contract[s] EXCEPT !.mul = mul, !.standing = status]
      /\ contract' = [contract EXCEPT ![s] = contract'[s]]
      /\ \A t \in Sub \ {s} : contract'[t] = contract[t]
  BY <1>1, <1>4, Zenon DEF TypeOK
<1>7. /\ contract'[s] \in Contract /\ contract'[s].request = contract[s].request
      /\ contract'[s].standing = status
  <2>1. PICK old \in Contract : old = contract[s]
    BY <1>2
  <2>2. PICK new : new = contract'[s]
    OBVIOUS
  <2>3. new = [old EXCEPT !.mul = mul, !.standing = status]
    BY <2>1, <2>2, <1>6
  <2>4. new \in Contract /\ new.request = old.request /\ new.standing = status
    BY <2>1, <2>3 DEF Contract
  <2> QED
    BY <2>1, <2>2, <2>4
<1>8. \A t \in Sub : contract'[t].request = contract[t].request
                     /\ (contract'[t] # NoContract <=> contract[t] # NoContract)
  <2>1. contract'[s] # NoContract
    BY <1>7 DEF Contract, NoContract, BillingAssumption
  <2> QED
    BY <2>1, <1>2, <1>6, <1>7
<1>9. /\ sent'[s] = Append(sent[s], m) /\ sent[s] \in Seq(Message) /\ sent'[s] \in Seq(Message)
      /\ Len(sent'[s]) = Len(sent[s]) + 1 /\ Len(sent[s]) \in Nat
      /\ sent'[s][Len(sent[s]) + 1] = m
      /\ \A i \in 1..Len(sent[s]) : sent'[s][i] = sent[s][i]
      /\ DOMAIN sent[s] = 1..Len(sent[s]) /\ DOMAIN sent'[s] = 1..(Len(sent[s]) + 1)
      /\ \A t \in Sub \ {s} : sent'[t] = sent[t]
  <2>1. sent'[s] = Append(sent[s], m) /\ \A t \in Sub \ {s} : sent'[t] = sent[t]
    BY <1>1, <1>4 DEF TypeOK
  <2>2. PICK old \in Seq(Message) : old = sent[s]
    BY <1>1 DEF TypeOK
  <2>3. PICK new : new = sent'[s]
    OBVIOUS
  <2>4. /\ new \in Seq(Message) /\ Len(new) = Len(old) + 1 /\ Len(old) \in Nat /\ new[Len(old) + 1] = m
        /\ \A i \in 1..Len(old) : new[i] = old[i]
        /\ DOMAIN old = 1..Len(old) /\ DOMAIN new = 1..(Len(old) + 1)
    BY <2>1, <2>2, <2>3, <1>5
  <2> QED
    BY <2>1, <2>2, <2>3, <2>4
<1>10. TypeOK'
  <2>1. contract' \in [Sub -> {NoContract} \cup Contract]
    BY <1>1, <1>6, <1>7 DEF TypeOK
  <2>2. sent' \in [Sub -> Seq(Message)]
    BY <1>1, <1>4, <1>9 DEF TypeOK
  <2> QED
    BY <2>1, <2>2, <1>1, <1>4 DEF TypeOK
<1>11. FiledFirst' /\ OneContract'
  <2>1. FiledFirst'
    BY <1>1, <1>4, <1>8 DEF FiledFirst
  <2>2. \A r \in Request : pc'[r] = "registering" => \A t \in Sub : contract'[t].request # r
    BY <1>1, <1>4, <1>8 DEF OneContract
  <2>3. \A t, v \in Sub : contract'[t] # NoContract /\ contract'[t].request = contract'[v].request => t = v
    BY <1>1, <1>8 DEF OneContract
  <2> QED
    BY <2>1, <2>2, <2>3 DEF OneContract
<1>12. Truthful'
  <2>1. \A r \in Request : pc'[r] = "attaching" => answer'[r] \in Sub /\ contract'[answer'[r]].request = r
    BY <1>1, <1>4, <1>8 DEF Truthful
  <2>2. \A r \in Request : requests'[r].sub # None => contract'[requests'[r].sub].request = r
    BY <1>1, <1>4, <1>8, BoundRequest DEF Truthful
  <2>3. ASSUME NEW t \in Sub, NEW i \in DOMAIN sent'[t]
        PROVE  sent'[t][i].sub = t /\ sent'[t][i].request = contract'[t].request
    <3>1. CASE t = s /\ i = Len(sent[s]) + 1
      BY <3>1, <1>5, <1>8, <1>9
    <3>2. CASE i \in DOMAIN sent[t] /\ sent'[t][i] = sent[t][i]
      BY <3>2, <1>1, <1>8 DEF Truthful
    <3> QED
      BY <3>1, <3>2, <1>9
  <2> QED
    BY <2>1, <2>2, <2>3 DEF Truthful
<1>13. Delivered'
  <2> SUFFICES ASSUME NEW j \in DOMAIN history PROVE history[j] \in ToSet(sent'[history[j].sub])
    BY <1>4 DEF Delivered
  <2>1. history[j] \in ToSet(sent[history[j].sub]) /\ history[j].sub \in Sub
    BY <1>1, AppliedMessage
  <2>2. PICK i \in DOMAIN sent[history[j].sub] : history[j] = sent[history[j].sub][i]
    BY <2>1 DEF ToSet
  <2>3. i \in DOMAIN sent'[history[j].sub] /\ history[j] = sent'[history[j].sub][i]
    BY <2>1, <2>2, <1>9
  <2> QED
    BY <2>3 DEF ToSet
<1>14. EndIsLast'
  <2> SUFFICES ASSUME NEW t \in Sub
               PROVE  /\ \A i \in DOMAIN sent'[t] : sent'[t][i].status = "canceled" =>
                           i = Len(sent'[t]) /\ contract'[t].standing = "canceled"
                      /\ contract'[t].standing = "canceled" =>
                           Len(sent'[t]) > 0 /\ sent'[t][Len(sent'[t])].status = "canceled"
    BY DEF EndIsLast
  <2>1. CASE t # s
    BY <2>1, <1>1, <1>6, <1>9 DEF EndIsLast
  <2>2. CASE t = s
    <3>1. \A i \in DOMAIN sent[s] : sent[s][i].status # "canceled"
      BY <1>1 DEF EndIsLast
    <3> QED
      BY <3>1, <2>2, <1>5, <1>7, <1>9
  <2> QED
    BY <2>1, <2>2
<1>15. EntitledByLast'
  BY <1>1, <1>4 DEF EntitledByLast, Entitled
<1> QED
  BY <1>10, <1>11, <1>12, <1>13, <1>14, <1>15 DEF IInv

LEMMA StutterKeeps == BillingAssumption /\ IInv /\ UNCHANGED vars => IInv'
<1> SUFFICES ASSUME BillingAssumption, IInv, UNCHANGED vars PROVE IInv'
  OBVIOUS
<1>1. UNCHANGED <<users, requests, pc, answer, processed, contract, sent, history>>
  BY DEF vars
<1>2. TypeOK' /\ FiledFirst' /\ OneContract'
  BY <1>1 DEF IInv, TypeOK, FiledFirst, OneContract
<1>3. Truthful' /\ Delivered' /\ EndIsLast'
  BY <1>1 DEF IInv, Truthful, Delivered, EndIsLast
<1>4. EntitledByLast'
  BY <1>1 DEF IInv, EntitledByLast, Entitled
<1> QED
  BY <1>2, <1>3, <1>4 DEF IInv

LEMMA NextIInv == BillingAssumption /\ IInv /\ [Next]_vars => IInv'
<1> SUFFICES ASSUME BillingAssumption, IInv, [Next]_vars PROVE IInv'
  OBVIOUS
<1>1. CASE \E r \in Request, u \in User, p \in Plan : Checkout(r, u, p)
  BY <1>1, CheckoutKeeps
<1>2. CASE \E r \in Request, s \in Sub : Register(r, s) \/ RegisterUnanswered(r, s)
  BY <1>2, RegistrationKeeps
<1>3. CASE Restart \/ \E r \in Request : RegisterRefused(r)
  BY <1>3, CallEndsKeeps
<1>4. CASE \E r \in Request : Attach(r)
  BY <1>4, AttachKeeps
<1>5. CASE \E m \in Messages : TakeFeedback(m)
  BY <1>5, FeedbackKeeps
<1>6. CASE \E s \in Sub : Pays(s) \/ PaymentFails(s) \/ Cancels(s)
  BY <1>6, ReportKeeps
<1>7. CASE UNCHANGED vars
  BY <1>7, StutterKeeps
<1> QED
  BY <1>1, <1>2, <1>3, <1>4, <1>5, <1>6, <1>7 DEF Next

LEMMA Invariance == Spec => []IInv
<1>1. Init => IInv
  BY InitIInv, BillingAssumption
<1>2. IInv /\ [Next]_vars => IInv'
  BY NextIInv, BillingAssumption
<1> QED
  BY <1>1, <1>2, PTL DEF Spec

-----------------------------------------------------------------------------
(* The theorems. *)

\* Accounts, requests, contracts and what is said of them keep their types: in particular every
\* feedback that is applied names a request and a contract the store can look up.
THEOREM TypeCorrect == Spec => []TypeOK
<1>1. IInv => TypeOK
  BY DEF IInv
<1> QED
  BY <1>1, Invariance, PTL

\* Access is given for money only: whatever feedback arrives, early, late or twice, an account that
\* is entitled was reported as paid for, for the plan it has and by a contract of its own request.
THEOREM AccessIsPaidFor == Spec => []EntitledWasPaid
<1>1. IInv => EntitledWasPaid
  <2> SUFFICES ASSUME IInv, NEW u \in User, Entitled(u)
               PROVE  \E m \in Messages : /\ m.status = "active" /\ m.sub = users[u].sub
                                          /\ contract[m.sub].request = m.request
                                          /\ requests[m.request].user = u
                                          /\ requests[m.request].plan = users[u].plan
    BY DEF EntitledWasPaid
  <2>1. PICK i \in DOMAIN history :
          /\ history[i].status = "active" /\ history[i].sub = users[u].sub
          /\ requests[history[i].request].user = u /\ requests[history[i].request].plan = users[u].plan
    BY DEF IInv, EntitledByLast
  <2>2. /\ history[i].sub \in Sub /\ history[i] \in ToSet(sent[history[i].sub])
        /\ history[i].request = contract[history[i].sub].request
    BY AppliedMessage, BillingAssumption DEF IInv
  <2>3. history[i] \in Messages
    BY <2>2 DEF Messages
  <2> QED
    BY <2>1, <2>2, <2>3
<1> QED
  BY <1>1, Invariance, PTL

\* An account whose contracts have all ended loses its access once all feedback was taken, if that
\* of each contract was taken in the order it was sent, whatever the order between contracts.
THEOREM AccessEndsWithContracts == Spec => []LapsedNotEntitled
<1>1. IInv => LapsedNotEntitled
  <2> DEFINE own(u) == {s \in Sub : contract[s].request # None /\ requests[contract[s].request].user = u}
  <2> SUFFICES ASSUME IInv, TakenInOrder, NEW u \in User, Entitled(u),
                      \A s \in own(u) : contract[s].standing = "canceled" /\ ToSet(sent[s]) \subseteq ToSet(history)
               PROVE  FALSE
    BY DEF LapsedNotEntitled
  <2>1. PICK i \in DOMAIN history :
          /\ history[i].status = "active" /\ requests[history[i].request].user = u
          /\ \A j \in DOMAIN history : j > i => requests[history[j].request].user # u
    BY DEF IInv, EntitledByLast
  <2>2. PICK s \in Sub : /\ s = history[i].sub /\ history[i] \in ToSet(sent[s])
                        /\ history[i].request = contract[s].request /\ history[i].request \in Request
    BY AppliedMessage, BillingAssumption DEF IInv
  <2>3. s \in own(u)
    BY <2>1, <2>2, BillingAssumption
  <2> DEFINE last == Len(sent[s])
  <2>4. /\ last \in DOMAIN sent[s] /\ sent[s][last].status = "canceled"
        /\ \A k \in DOMAIN sent[s] : sent[s][k].status = "canceled" => k = last
        /\ DOMAIN sent[s] = 1..last /\ last \in Nat
    BY <2>3 DEF IInv, TypeOK, EndIsLast
  <2>5. PICK j \in DOMAIN history : history[j] = sent[s][last]
    BY <2>3, <2>4 DEF ToSet
  <2>6. history[j].sub = s /\ history[j].request = history[i].request /\ history[j].status = "canceled"
    BY <2>2, <2>4, <2>5 DEF IInv, Truthful
  <2>7. j < i
    <3>1. i \in Nat /\ j \in Nat
      BY DEF IInv, TypeOK
    <3>2. ~(j > i) /\ j # i
      BY <2>1, <2>6
    <3> QED
      BY <3>1, <3>2
  <2>8. Position(history[j]) < Position(history[i])
    BY <2>2, <2>6, <2>7 DEF TakenInOrder
  <2>9. Position(history[j]) = last
    <3>1. \A k \in DOMAIN sent[s] : sent[s][k] = history[j] <=> k = last
      BY <2>4, <2>5, <2>6
    <3> QED
      BY <3>1, <2>4, <2>6 DEF Position
  <2>10. Position(history[i]) \in DOMAIN sent[s]
    <3>1. \E k \in DOMAIN sent[s] : sent[s][k] = history[i]
      BY <2>2 DEF ToSet
    <3> QED
      BY <3>1, <2>2 DEF Position
  <2> QED
    BY <2>4, <2>8, <2>9, <2>10
<1> QED
  BY <1>1, Invariance, PTL

\* A request is bound to one contract for good and no two requests to the same, whichever of the
\* answer of the payment service and its feedback comes first.
THEOREM BindingsAreFinal == Spec => BindingIsFinal
<1>1. IInv => \A r \in Request : pc[r] = "attaching" => MayBind(r, answer[r])
  <2> SUFFICES ASSUME IInv, NEW r \in Request, pc[r] = "attaching", requests[r].sub # None
               PROVE  requests[r].sub = answer[r]
    BY DEF MayBind
  <2>1. answer[r] \in Sub /\ contract[answer[r]].request = r
    BY DEF IInv, Truthful
  <2>2. requests[r].sub \in Sub /\ contract[requests[r].sub].request = r
    BY BoundRequest, BillingAssumption DEF IInv, Truthful
  <2> QED
    BY <2>1, <2>2, MadeContract, BillingAssumption DEF IInv, OneContract
<1>2. IInv /\ IInv' /\ [Next]_vars =>
        [\A r \in Request : requests[r].sub # None =>
           /\ requests'[r].sub = requests[r].sub
           /\ \A q \in Request \ {r} : requests'[q].sub # requests[r].sub]_vars
  <2> SUFFICES ASSUME IInv, IInv', [Next]_vars, NEW r \in Request, requests[r].sub # None
               PROVE  /\ requests'[r].sub = requests[r].sub
                      /\ \A q \in Request \ {r} : requests'[q].sub # requests[r].sub
    OBVIOUS
  <2>1. requests'[r].sub = requests[r].sub
    <3>1. requests[r] # NoRequest /\ requests \in [Request -> {NoRequest} \cup Filed]
      BY BoundRequest, BillingAssumption DEF IInv, TypeOK
    <3>2. CASE UNCHANGED requests
      BY <3>2
    <3>3. ASSUME NEW q \in Request, NEW u \in User, NEW p \in Plan, Checkout(q, u, p) PROVE requests'[r] = requests[r]
      <4>1. q # r
        BY <3>1, <3>3 DEF IInv, FiledFirst, Checkout, Goto
      <4> QED
        BY <4>1, <3>1, <3>3 DEF Checkout
    <3>4. ASSUME NEW q \in Request, Attach(q) PROVE requests'[r].sub = requests[r].sub
      <4>1. requests' = [requests EXCEPT ![q].sub = answer[q]] /\ MayBind(q, answer[q])
        BY <3>4 DEF Attach
      <4>2. CASE q # r
        BY <4>1, <4>2, <3>1
      <4>3. CASE q = r
        <5>1. answer[r] = requests[r].sub
          BY <4>1, <4>3 DEF MayBind
        <5>2. requests'[r] = [requests[r] EXCEPT !.sub = answer[r]]
          BY <4>1, <4>3, <3>1, Zenon
        <5>3. requests[r] \in Filed
          BY <3>1
        <5>4. [requests[r] EXCEPT !.sub = answer[r]].sub = answer[r]
          BY <5>3 DEF Filed
        <5> QED
          BY <5>1, <5>2, <5>4
      <4> QED
        BY <4>2, <4>3
    <3>5. ASSUME NEW m \in Messages, TakeFeedback(m) PROVE requests'[r].sub = requests[r].sub
      <4>1. /\ requests' = [requests EXCEPT ![m.request].sub = m.sub, ![m.request].status = m.status]
            /\ MayBind(m.request, m.sub)
        BY <3>5 DEF TakeFeedback, Applied, Genuine
      <4>2. CASE m.request # r
        BY <4>1, <4>2, <3>1
      <4>3. CASE m.request = r
        <5>1. m.sub = requests[r].sub
          BY <4>1, <4>3 DEF MayBind
        <5>2. requests'[r] = [requests[r] EXCEPT !.sub = m.sub, !.status = m.status]
          BY <4>1, <4>3, <3>1, Zenon
        <5>3. requests[r] \in Filed
          BY <3>1
        <5>4. [requests[r] EXCEPT !.sub = m.sub, !.status = m.status].sub = m.sub
          BY <5>3 DEF Filed
        <5> QED
          BY <5>1, <5>2, <5>4
      <4> QED
        BY <4>2, <4>3
    <3>6. \A s \in Sub : \A q \in Request :
            Register(q, s) \/ RegisterUnanswered(q, s) \/ RegisterRefused(q) \/ Restart
              \/ Pays(s) \/ PaymentFails(s) \/ Cancels(s) => UNCHANGED requests
      BY DEF Register, RegisterUnanswered, RegisterRefused, Restart, Pays, PaymentFails, Cancels, Report, store
    <3>7. Restart \/ (\E q \in Request : RegisterRefused(q)) \/ (\E s \in Sub : Pays(s) \/ PaymentFails(s) \/ Cancels(s))
            => UNCHANGED requests
      BY DEF RegisterRefused, Restart, Pays, PaymentFails, Cancels, Report, store
    <3>8. UNCHANGED vars => UNCHANGED requests
      BY DEF vars
    <3> QED
      BY <3>2, <3>3, <3>4, <3>5, <3>6, <3>7, <3>8 DEF Next
  <2>2. ASSUME NEW q \in Request \ {r}, requests'[q].sub = requests[r].sub PROVE FALSE
    <3>1. requests'[r].sub = requests'[q].sub /\ requests'[q].sub # None
      BY <2>1, <2>2
    <3>2. contract'[requests'[r].sub].request = r /\ contract'[requests'[q].sub].request = q
      BY <3>1 DEF IInv, Truthful
    <3> QED
      BY <3>1, <3>2
  <2> QED
    BY <2>1, <2>2
<1> QED
  BY <1>1, <1>2, Invariance, PTL DEF Spec, BindingIsFinal
====
