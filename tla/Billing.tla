---------------------------------- MODULE Billing ----------------------------------
(***************************************************************************)
(* Subscriptions: the checkout and the feedback of studio/billing.mjs over *)
(* the billing operations of studio/access-store.mjs.  A checkout is an    *)
(* asynchronous call with two awaits: it files a request, has the payment  *)
(* service register a contract for it, and attaches the contract to the    *)
(* request.  The service reports what happens to a contract by feedback,   *)
(* which may arrive before the checkout goes on, several times, late, and  *)
(* in another order than it was sent.                                      *)
(***************************************************************************)
EXTENDS Naturals, FiniteSets, SequencesExt

CONSTANTS User,         \* accounts that have logged in
          Admin,        \* those of them who are administrators
          Plan,         \* plans with a price
          Request,      \* ids of billing requests, one per checkout call
          Sub,          \* contract numbers (rebill_no) of the payment service
          None,
          Memory,       \* how many feedback ids the store remembers; 1000 in the code
          MaxPayments,  \* bound: payments (mul_no) of a contract
          MaxApplied    \* bound: feedback applied in a behaviour

ASSUME BillingAssumption ==
  /\ Admin \subseteq User
  /\ None \notin Sub \cup Plan \cup Request
  /\ Memory \in Nat \ {0} /\ MaxPayments \in Nat /\ MaxApplied \in Nat

VARIABLES users,      \* subscription fields of an account
          requests,   \* billing_requests of the store
          pc,         \* where the checkout call of a request is
          answer,     \* the contract number its service call returned
          processed,  \* processed_webhook_ids
          contract,   \* contracts at the payment service
          sent,       \* feedback the service has sent, per contract, in order
          history     \* history variable: the feedback that was applied, in order

store == <<users, requests, processed, history>>
vars == <<users, requests, pc, answer, processed, contract, sent, history>>

NoRequest == [user |-> None, plan |-> None, sub |-> None, status |-> "none"]
NoContract == [request |-> None, mul |-> 0, standing |-> "none"]

Init == /\ users = [u \in User |-> [sub |-> None, status |-> "none", plan |-> None]]
        /\ requests = [r \in Request |-> NoRequest]
        /\ pc = [r \in Request |-> "idle"]
        /\ answer = [r \in Request |-> None]
        /\ processed = <<>>
        /\ contract = [s \in Sub |-> NoContract]
        /\ sent = [s \in Sub |-> <<>>]
        /\ history = <<>>

Entitled(u) == users[u].status = "active"
Goto(r, from, to) == pc[r] = from /\ pc' = [pc EXCEPT ![r] = to]

-----------------------------------------------------------------------------
(* The checkout. *)

\* The checks, then createBillingRequest; the call goes on to the payment service.
Checkout(r, u, p) ==
  /\ Goto(r, "idle", "registering")
  /\ u \notin Admin /\ ~Entitled(u)
  /\ requests' = [requests EXCEPT ![r] = [user |-> u, plan |-> p, sub |-> None, status |-> "pending"]]
  /\ UNCHANGED <<users, answer, processed, contract, sent, history>>

\* The service enters a contract for the request.
Contracted(r, s) ==
  /\ contract[s] = NoContract
  /\ contract' = [contract EXCEPT ![s] = [request |-> r, mul |-> 0, standing |-> "waiting"]]

\* rebillRegist is answered with a contract number.
Register(r, s) == /\ Goto(r, "registering", "attaching")
                  /\ Contracted(r, s)
                  /\ answer' = [answer EXCEPT ![r] = s]
                  /\ UNCHANGED <<store, sent>>

\* It is carried out, but the answer does not arrive within ten seconds.
RegisterUnanswered(r, s) == /\ Goto(r, "registering", "failed")
                            /\ Contracted(r, s)
                            /\ UNCHANGED <<store, answer, sent>>

\* It is refused, or never reaches the service.
RegisterRefused(r) == /\ Goto(r, "registering", "failed")
                      /\ UNCHANGED <<store, answer, contract, sent>>

MayBind(r, s) == requests[r].sub \in {None, s}

\* Faulty: the way to the payment page already counts as a payment.
AttachEntitled(r) == /\ Goto(r, "attaching", "done")
                     /\ MayBind(r, answer[r])
                     /\ requests' = [requests EXCEPT ![r].sub = answer[r]]
                     /\ users' = [users EXCEPT ![requests[r].user] =
                                    [sub |-> answer[r], status |-> "active", plan |-> requests[r].plan]]
                     /\ UNCHANGED <<answer, processed, contract, sent, history>>

\* attachBillingSubscription; the caller is sent to the payment page.  BindingIsFinal shows that
\* the check never fails, so there is no action for its failure.
Attach(r) == /\ Goto(r, "attaching", "done")
             /\ MayBind(r, answer[r])
             /\ requests' = [requests EXCEPT ![r].sub = answer[r]]
             /\ UNCHANGED <<users, answer, processed, contract, sent, history>>

\* The Studio is restarted: the calls in progress are gone, the file is not.
Restart == /\ \E r \in Request : pc[r] \in {"registering", "attaching"}
           /\ pc' = [r \in Request |-> IF pc[r] \in {"registering", "attaching"} THEN "failed" ELSE pc[r]]
           /\ UNCHANGED <<store, answer, contract, sent>>

-----------------------------------------------------------------------------
(* The feedback. *)

\* The store keeps the newest feedback ids only.
Remembered(ids) == IF Len(ids) <= Memory THEN ids ELSE SubSeq(ids, Len(ids) - Memory + 1, Len(ids))

\* The checks of feedback; a contract the request is not bound to is refused.
Genuine(m) == requests[m.request] # NoRequest /\ MayBind(m.request, m.sub)

\* Faulty: the end of a contract releases its request, or is noted in the request only.
AppliedUnbinding(m) ==
  LET r == requests[m.request] IN
  /\ requests' = [requests EXCEPT ![m.request].status = m.status,
                     ![m.request].sub = IF m.status = "canceled" THEN None ELSE m.sub]
  /\ users' = [users EXCEPT ![r.user] = [sub |-> m.sub, status |-> m.status, plan |-> r.plan]]
  /\ processed' = Remembered(Append(processed, m))
  /\ history' = Append(history, m)
AppliedWithoutLapse(m) ==
  LET r == requests[m.request] IN
  /\ requests' = [requests EXCEPT ![m.request].sub = m.sub, ![m.request].status = m.status]
  /\ users' = IF m.status = "canceled" THEN users
              ELSE [users EXCEPT ![r.user] = [sub |-> m.sub, status |-> m.status, plan |-> r.plan]]
  /\ processed' = Remembered(Append(processed, m))
  /\ history' = Append(history, m)
\* applySubscription: the request and the account of its user take over what was reported.
Applied(m) ==
  LET r == requests[m.request] IN
  /\ requests' = [requests EXCEPT ![m.request].sub = m.sub, ![m.request].status = m.status]
  /\ users' = [users EXCEPT ![r.user] = [sub |-> m.sub, status |-> m.status, plan |-> r.plan]]
  /\ processed' = Remembered(Append(processed, m))
  /\ history' = Append(history, m)

TakeFeedback(m) == /\ Len(history) < MaxApplied
                   /\ Genuine(m)
                   /\ m \notin ToSet(processed)
                   /\ Applied(m)
                   /\ UNCHANGED <<pc, answer, contract, sent>>

-----------------------------------------------------------------------------
(* The payment service. *)

Report(s, mul, status, standing) ==
  /\ contract' = [contract EXCEPT ![s].mul = mul, ![s].standing = standing]
  /\ sent' = [sent EXCEPT ![s] = Append(@, [sub |-> s, request |-> contract[s].request,
                                            mul |-> mul, status |-> status])]
  /\ UNCHANGED <<store, pc, answer>>

Pays(s) == /\ contract[s].standing \in {"waiting", "active", "past_due"}
           /\ contract[s].mul < MaxPayments
           /\ Report(s, contract[s].mul + 1, "active", "active")

PaymentFails(s) == /\ contract[s].standing = "active"
                   /\ contract[s].mul < MaxPayments
                   /\ Report(s, contract[s].mul + 1, "past_due", "past_due")

Cancels(s) == /\ contract[s].standing \in {"waiting", "active", "past_due"}
              /\ Report(s, contract[s].mul, "canceled", "canceled")

-----------------------------------------------------------------------------
Messages == UNION {ToSet(sent[s]) : s \in Sub}

Next == \/ \E r \in Request : \/ \E u \in User, p \in Plan : Checkout(r, u, p)
                              \/ \E s \in Sub : Register(r, s) \/ RegisterUnanswered(r, s)
                              \/ RegisterRefused(r) \/ Attach(r)
        \/ Restart
        \/ \E m \in Messages : TakeFeedback(m)
        \/ \E s \in Sub : Pays(s) \/ PaymentFails(s) \/ Cancels(s)

Spec == Init /\ [][Next]_vars

-----------------------------------------------------------------------------
\* Access is given for money only: an account that is entitled was reported as paid for, by
\* feedback about a request of this very account and plan and about a contract of that request.
EntitledWasPaid ==
  \A u \in User : Entitled(u) =>
    \E m \in Messages : /\ m.status = "active" /\ m.sub = users[u].sub
                        /\ contract[m.sub].request = m.request
                        /\ requests[m.request].user = u
                        /\ requests[m.request].plan = users[u].plan

\* A request is bound to one contract for good, and two requests never to the same.  Feedback
\* that overtakes the answer of the payment service does not stand in the way of the checkout:
\* whatever was bound to the request meanwhile is the contract the answer names.
BindingIsFinal ==
  /\ [](\A r \in Request : pc[r] = "attaching" => MayBind(r, answer[r]))
  /\ [][\A r \in Request : requests[r].sub # None =>
          /\ requests'[r].sub = requests[r].sub
          /\ \A q \in Request \ {r} : requests'[q].sub # requests[r].sub]_vars

\* Where a message stands in what the service sent of its contract.
Position(m) == CHOOSE i \in DOMAIN sent[m.sub] : sent[m.sub][i] = m
TakenInOrder == \A i, j \in DOMAIN history :
                  i < j /\ history[i].sub = history[j].sub => Position(history[i]) < Position(history[j])

\* Once all contracts of an account have ended and all of their feedback was taken, that of each
\* contract in the order it was sent, the account is not entitled, whatever the order between
\* contracts was.  Without that order it may be: applySubscription keeps what is delivered last.
LapsedNotEntitled ==
  TakenInOrder => \A u \in User :
    LET own == {s \in Sub : contract[s].request # None /\ requests[contract[s].request].user = u}
    IN (\A s \in own : contract[s].standing = "canceled" /\ ToSet(sent[s]) \subseteq ToSet(history))
         => ~Entitled(u)
====
