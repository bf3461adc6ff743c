------------------------- MODULE SubscriptionsProofs -------------------------
(***************************************************************************)
(* The safety properties of Subscriptions, proved for any number of rows,  *)
(* customers, campaigns, workers and renewals, crashes included.           *)
(***************************************************************************)
EXTENDS Subscriptions, TLAPS

(* Where the locals of a request stand at each point of its handler. *)
Registering == {"free", "paid", "customer", "session"}
Hooked      == {"hook", "transfer", "ack"}

(* Rows: an unused key is blank; a row knows only its own customer's       *)
(* subscription; a row is saved only with a checkout session that is open. *)
RowInv ==
    \A u \in UserId :
        /\ user[u].status = ABSENT => user[u] = NoRow
        /\ user[u].status = ACTIVE => u \in everActive
        /\ user[u].sub # None => user[u].sub = user[u].customer
        /\ user[u].customer # None => checkout[user[u].customer] \in {"open", "paid"}

(* Registrations under way own their key and, once created, their customer. *)
RegisterInv ==
    \A w \in Worker :
        req[w].pc \in Registering =>
            /\ req[w].user \in UserId
            /\ user[req[w].user] = NoRow
            /\ \A x \in Worker \ {w} : req[x].user # req[w].user
            /\ req[w].pc = "customer" =>
                  req[w].cust \in Customer /\ checkout[req[w].cust] = "created"
            /\ req[w].pc = "session" =>
                  /\ req[w].cust \in Customer
                  /\ checkout[req[w].cust] = "open"
                  /\ RowOf(req[w].cust) = {}
            /\ req[w].pc \in {"customer", "session"} =>
                  \A x \in Worker \ {w} :
                      req[x].pc \in {"customer", "session"} => req[x].cust # req[w].cust

(* Webhooks under way: the row is the customer's, and what will be         *)
(* acknowledged is committed.                                              *)
HookInv ==
    \A w \in Worker :
        req[w].pc \in Hooked =>
            /\ req[w].user \in UserId
            /\ req[w].evt \in Event
            /\ user[req[w].user].customer = req[w].evt.cust
            /\ checkout[req[w].evt.cust] = "paid"
            /\ req[w].seen = ACTIVE => req[w].user \in everActive
            /\ req[w].pc = "transfer" =>
                  /\ req[w].user \in everActive
                  /\ req[w].evt.type # "customer.subscription.created"
            /\ req[w].pc = "ack" =>
                  IF req[w].evt.type = "customer.subscription.created"
                  THEN user[req[w].user].sub = req[w].evt.cust
                  ELSE req[w].user \in everActive

(* Requests that cancel hold only subscriptions they were asked to cancel. *)
CancelInv ==
    \A w \in Worker :
        /\ req[w].pc \in {"cancel", "unsub", "admin_cancel", "admin_unsub"} =>
              req[w].user \in UserId /\ user[req[w].user].status # ABSENT
        /\ req[w].pc \in {"cancel", "admin_cancel"} =>
              \A k \in req[w].subs : user[req[w].user].customer = k
        /\ req[w].pc = "unsub" =>
              /\ user[req[w].user].customer # None
              /\ subscription[user[req[w].user].customer] = "cancelled"
        /\ req[w].pc = "delete" =>
              \A k \in req[w].subs :
                  \E u \in UserId : user[u].customer = k /\ user[u].course = req[w].course

(* Stripe knows only of payments for saved rows. *)
StripeInv ==
    /\ \A k \in Customer : checkout[k] = "paid" => RowOf(k) # {}
    /\ \A k \in Customer : subscription[k] # "none" => checkout[k] = "paid"
    /\ \A ev \in pending : checkout[ev.cust] = "paid"

Safe ==
    /\ PaidBeforeActive
    /\ OneRowPerCustomer
    /\ NoPaymentLost
    /\ NoSubscriptionLost
    /\ ConfirmedNeverCharged
    /\ TransferAfterActivation

IInv ==
    /\ TypeOK
    /\ RowInv
    /\ RegisterInv
    /\ HookInv
    /\ CancelInv
    /\ StripeInv
    /\ Safe

(* What the rows and Stripe know is not disturbed by a step that leaves    *)
(* them alone.                                                             *)
LEMMA DataFrame ==
    ASSUME IInv, UNCHANGED <<user, checkout, subscription, pending, transfers,
                             everActive, confirmed>>
    PROVE  RowInv' /\ StripeInv' /\ Safe'
  BY DEF IInv, RowInv, StripeInv, Safe, PaidBeforeActive, OneRowPerCustomer,
     NoPaymentLost, NoSubscriptionLost, ConfirmedNeverCharged,
     TransferAfterActivation, RowOf

(* Nor are the requests under way. *)
LEMMA RequestFrame ==
    ASSUME IInv, UNCHANGED <<user, checkout, subscription, everActive, req>>
    PROVE  RegisterInv' /\ HookInv' /\ CancelInv'
  BY DEF IInv, RegisterInv, HookInv, CancelInv, RowOf

(* A request may end at any point. *)
LEMMA EndFrame ==
    ASSUME IInv, NEW w \in Worker, Continue(w, Idle),
           UNCHANGED <<user, checkout, subscription, everActive>>
    PROVE  /\ req' \in [Worker -> Request]
           /\ RegisterInv' /\ HookInv' /\ CancelInv'
<1>1. Idle \in Request
  BY DEF Idle, Request, PC, ABSENT
<1>2. /\ req' \in [Worker -> Request]
      /\ req'[w] = Idle
      /\ \A x \in Worker \ {w} : req'[x] = req[x]
  BY <1>1 DEF IInv, TypeOK, Continue
<1>3. RegisterInv'
  BY <1>2, NoneAssumption DEF IInv, RegisterInv, Idle, Registering, RowOf
<1>4. HookInv'
  BY <1>2 DEF IInv, HookInv, Idle, Hooked
<1>5. CancelInv'
  BY <1>2 DEF IInv, CancelInv, Idle
<1> QED
  BY <1>2, <1>3, <1>4, <1>5

(* Cancelling an active subscription breaks no promise. *)
LEMMA CancelFrame ==
    ASSUME IInv,
           \/ UNCHANGED subscription
           \/ \E k \in Customer : StripeCancel(k),
           UNCHANGED <<user, checkout, pending, transfers, everActive, confirmed>>
    PROVE  RowInv' /\ StripeInv' /\ Safe'
<1>0. \A k \in Customer :
         /\ subscription'[k] # "none" => subscription[k] # "none"
         /\ subscription[k] = "cancelled" => subscription'[k] = "cancelled"
  BY DEF IInv, TypeOK, StripeCancel
<1>1. RowInv'
  BY DEF IInv, RowInv
<1>2. StripeInv'
  BY <1>0 DEF IInv, StripeInv, RowOf
<1>3. PaidBeforeActive' /\ OneRowPerCustomer' /\ NoPaymentLost' /\ TransferAfterActivation'
  BY DEF IInv, Safe, PaidBeforeActive, OneRowPerCustomer, NoPaymentLost,
     TransferAfterActivation, RowOf
<1>4. NoSubscriptionLost'
  BY <1>0 DEF IInv, Safe, NoSubscriptionLost, RowOf
<1>5. ConfirmedNeverCharged'
  BY <1>0 DEF IInv, TypeOK, Row, Safe, ConfirmedNeverCharged
<1> QED
  BY <1>1, <1>2, <1>3, <1>4, <1>5 DEF Safe

(* A request that goes on is a request. *)
LEMMA RequestAt ==
    ASSUME NEW r \in Request, NEW p \in PC
    PROVE  [r EXCEPT !.pc = p] \in Request
  BY DEF Request

(* A row with another status is a row. *)
LEMMA RowWith ==
    ASSUME NEW r \in Row, NEW s \in {ABSENT, PENDING, ACTIVE}
    PROVE  [r EXCEPT !.status = s] \in Row
  BY DEF Row

(* Assigning a status keeps the rows well-typed. *)
LEMMA SetStatusType ==
    ASSUME TypeOK, NEW u \in UserId, NEW seen, NEW s \in {ABSENT, PENDING, ACTIVE},
           SetStatus(u, seen, s)
    PROVE  user' \in [UserId -> Row]
<1>1. [user[u] EXCEPT !.status = s] \in Row
  BY RowWith DEF TypeOK
<1> QED
  BY <1>1 DEF TypeOK, SetStatus

(* Changing the offer touches no row. *)
LEMMA CustomizeStep ==
    ASSUME IInv, NEW c \in Course, NEW o \in {"free", "priced"}, Customize(c, o)
    PROVE  IInv'
<1>1. TypeOK'
  BY DEF IInv, Customize, TypeOK, stripeVars, historyVars, Offer, Row, Request
<1>2. RowInv' /\ StripeInv' /\ Safe'
  BY DataFrame DEF Customize, stripeVars, historyVars
<1>3. RegisterInv' /\ HookInv' /\ CancelInv'
  BY RequestFrame DEF Customize, stripeVars, historyVars
<1> QED
  BY <1>1, <1>2, <1>3 DEF IInv

(* register: the key is fresh, so no other request works on it. *)
LEMMA RegisterCheckStep ==
    ASSUME IInv, NEW w \in Worker, NEW u \in UserId, NEW e \in Email, NEW c \in Course, RegisterCheck(w, u, e, c)
    PROVE  IInv'
<1>1. TypeOK'
  BY DEF IInv, RegisterCheck, TypeOK, dbVars, stripeVars, historyVars, Continue,
     FreshId, Idle, Request, PC
<1>2. RowInv' /\ StripeInv' /\ Safe'
  BY DataFrame DEF RegisterCheck, dbVars, stripeVars, historyVars
<1>3. RegisterInv'
  BY DEF IInv, RegisterCheck, RegisterInv, TypeOK, RowInv, dbVars, stripeVars,
     historyVars, Continue, FreshId, Idle, ACTIVE, RowOf
<1>4. HookInv'
  BY DEF IInv, RegisterCheck, HookInv, TypeOK, RegisterInv, RowInv, dbVars,
     stripeVars, historyVars, Continue, FreshId, Idle, ACTIVE, Hooked, NoRow
<1>5. CancelInv'
  BY DEF IInv, RegisterCheck, CancelInv, TypeOK, RegisterInv, dbVars, stripeVars,
     historyVars, Continue, FreshId, Idle, ACTIVE
<1> QED
  BY <1>1, <1>2, <1>3, <1>4, <1>5 DEF IInv

(* register, free campaign: the row is active without a customer. *)
LEMMA RegisterFreeStep ==
    ASSUME IInv, NEW w \in Worker, RegisterFree(w)
    PROVE  IInv'
<1>1. TypeOK'
  <2>1. Idle \in Request
    BY DEF Request, PC, Idle, ABSENT
  <2>2. [NoRow EXCEPT !.email = req[w].email, !.course = req[w].course, !.status = ACTIVE] \in Row
    BY DEF IInv, TypeOK, Request, Row, NoRow, ACTIVE
  <2>3. req[w].user \in UserId
    BY DEF IInv, RegisterInv, Registering, RegisterFree
  <2> QED
    BY <2>1, <2>2, <2>3 DEF IInv, TypeOK, RegisterFree, Continue, stripeVars
<1>2. RowInv'
  BY DEF IInv, RegisterFree, RowInv, TypeOK, RegisterInv, stripeVars, Continue,
     Idle, NoRow, ACTIVE, ABSENT
<1>3. StripeInv'
  BY DEF IInv, RegisterFree, StripeInv, TypeOK, RegisterInv, RowInv, stripeVars,
     Continue, Idle, NoRow, ACTIVE, RowOf, Registering
<1>4. Safe'
  BY DEF IInv, RegisterFree, Safe, TypeOK, RegisterInv, RowInv, PaidBeforeActive,
     OneRowPerCustomer, NoPaymentLost, NoSubscriptionLost, ConfirmedNeverCharged,
     TransferAfterActivation, StripeInv, stripeVars, Continue, Idle, NoRow, ACTIVE,
     RowOf, Registering
<1>5. RegisterInv'
  BY NoneAssumption DEF IInv, RegisterFree, RegisterInv, TypeOK, RowInv, stripeVars,
     Continue, Idle, NoRow, RowOf, Registering
<1>6. HookInv'
  BY DEF IInv, RegisterFree, HookInv, TypeOK, RegisterInv, RowInv, stripeVars,
     Continue, Idle, NoRow, ACTIVE, Hooked, Registering
<1>7. CancelInv'
  <2>1. \A v \in UserId : user[v].status # ABSENT => user'[v] = user[v]
    BY DEF IInv, TypeOK, RegisterFree, RegisterInv, Registering, NoRow, ABSENT
  <2>2. \A k \in Customer, v \in UserId : user[v].customer = k => user[v].status # ABSENT
    BY NoneAssumption DEF IInv, RowInv, NoRow
  <2>3. \A x \in Worker : req'[x] = IF x = w THEN Idle ELSE req[x]
    BY DEF IInv, TypeOK, RegisterFree, Continue
  <2>4. \A x \in Worker : req[x].subs \subseteq Customer
    BY DEF IInv, TypeOK, Request
  <2>5. UNCHANGED subscription
    BY DEF RegisterFree, stripeVars
  <2> QED
    BY <2>1, <2>2, <2>3, <2>4, <2>5 DEF IInv, CancelInv, Idle
<1> QED
  BY <1>1, <1>2, <1>3, <1>4, <1>5, <1>6, <1>7 DEF IInv

(* register: the customer is new, so nobody else holds it. *)
LEMMA RegisterCustomerStep ==
    ASSUME IInv, NEW w \in Worker, RegisterCustomer(w)
    PROVE  IInv'
<1>1. TypeOK'
  <2> PICK k \in Customer :
        /\ checkout' = [checkout EXCEPT ![k] = "created"]
        /\ req' = [req EXCEPT ![w] = [req[w] EXCEPT !.pc = "customer", !.cust = k]]
    BY DEF RegisterCustomer, Continue
  <2>1. req[w] \in Request
    BY DEF IInv, TypeOK
  <2>2. [req[w] EXCEPT !.pc = "customer", !.cust = k] \in Request
    BY <2>1 DEF Request, PC
  <2> QED
    BY <2>2 DEF IInv, TypeOK, RegisterCustomer, dbVars, historyVars
<1>2. RowInv'
  BY DEF IInv, RegisterCustomer, RowInv, TypeOK, RegisterInv, dbVars, historyVars,
     Continue
<1>3. StripeInv'
  BY DEF IInv, RegisterCustomer, StripeInv, TypeOK, RegisterInv, RowInv, dbVars,
     historyVars, Continue, RowOf
<1>4. Safe'
  BY DEF IInv, RegisterCustomer, Safe, TypeOK, RegisterInv, PaidBeforeActive,
     OneRowPerCustomer, NoPaymentLost, NoSubscriptionLost, ConfirmedNeverCharged,
     TransferAfterActivation, StripeInv, RowInv, dbVars, historyVars, Continue,
     NoRow, RowOf, Registering
<1>5. RegisterInv'
  BY DEF IInv, RegisterCustomer, RegisterInv, TypeOK, dbVars, historyVars, Continue,
     RowOf, Registering
<1>6. HookInv'
  BY DEF IInv, RegisterCustomer, HookInv, TypeOK, RegisterInv, RowInv, dbVars,
     historyVars, Continue, ACTIVE, Hooked
<1>7. CancelInv'
  BY DEF IInv, RegisterCustomer, CancelInv, TypeOK, RegisterInv, dbVars,
     historyVars, Continue
<1> QED
  BY <1>1, <1>2, <1>3, <1>4, <1>5, <1>6, <1>7 DEF IInv

(* register: the session belongs to a customer no row has. *)
LEMMA RegisterSessionStep ==
    ASSUME IInv, NEW w \in Worker, RegisterSession(w)
    PROVE  IInv'
<1>1. TypeOK'
  <2>1. [req[w] EXCEPT !.pc = "session"] \in Request
    BY RequestAt DEF IInv, TypeOK, PC
  <2>2. req' \in [Worker -> Request]
    BY <2>1 DEF IInv, TypeOK, RegisterSession, Continue
  <2> QED
    BY <2>2 DEF IInv, RegisterSession, TypeOK, Row, NoRow, SetStatus, StripeCancel,
       dbVars, historyVars
<1>2. RowInv'
  BY DEF IInv, RegisterSession, RowInv, TypeOK, RegisterInv, dbVars, historyVars,
     Continue, NoRow
<1>3. StripeInv'
  BY DEF IInv, RegisterSession, StripeInv, TypeOK, RegisterInv, RowInv, dbVars,
     historyVars, Continue, RowOf, NoRow, Registering
<1>4. Safe'
  BY DEF IInv, RegisterSession, Safe, TypeOK, RegisterInv, PaidBeforeActive,
     OneRowPerCustomer, NoPaymentLost, NoSubscriptionLost, ConfirmedNeverCharged,
     TransferAfterActivation, StripeInv, RowInv, dbVars, historyVars, Continue,
     NoRow, RowOf, Registering, ACTIVE
<1>5. RegisterInv'
  BY NoneAssumption DEF IInv, RegisterSession, RegisterInv, TypeOK, RowInv, dbVars,
     historyVars, Continue, NoRow, RowOf, Registering
<1>6. HookInv'
  BY DEF IInv, RegisterSession, HookInv, TypeOK, RegisterInv, RowInv, dbVars,
     historyVars, Continue, ACTIVE, Hooked, NoRow, Registering
<1>7. CancelInv'
  BY DEF IInv, RegisterSession, CancelInv, TypeOK, RegisterInv, dbVars, historyVars,
     Continue
<1> QED
  BY <1>1, <1>2, <1>3, <1>4, <1>5, <1>6, <1>7 DEF IInv

(* register: the row is pending and the only one of its customer. *)
LEMMA RegisterSaveStep ==
    ASSUME IInv, NEW w \in Worker, RegisterSave(w)
    PROVE  IInv'
<1>1. TypeOK'
  BY DEF IInv, RegisterSave, TypeOK, stripeVars, historyVars, Continue, Idle, NoRow,
     Row, Request, PC
<1>2. RowInv'
  BY DEF IInv, RegisterSave, RowInv, TypeOK, RegisterInv, stripeVars, historyVars,
     Continue, Idle, NoRow, PENDING, ABSENT, ACTIVE, Registering
<1>3. StripeInv'
  BY NoneAssumption DEF IInv, RegisterSave, StripeInv, TypeOK, RegisterInv, RowInv,
     stripeVars, historyVars, Continue, Idle, NoRow, PENDING, RowOf, Registering
<1>4. Safe'
  BY NoneAssumption DEF IInv, RegisterSave, Safe, TypeOK, RegisterInv, RowInv,
     PaidBeforeActive, OneRowPerCustomer, NoPaymentLost, NoSubscriptionLost,
     ConfirmedNeverCharged, TransferAfterActivation, StripeInv, stripeVars,
     historyVars, Continue, Idle, NoRow, PENDING, RowOf, Registering, ABSENT,
     ACTIVE, Event
<1>5. RegisterInv'
  BY NoneAssumption DEF IInv, RegisterSave, RegisterInv, TypeOK, RowInv, stripeVars,
     historyVars, Continue, Idle, NoRow, PENDING, RowOf, Registering
<1>6. HookInv'
  BY DEF IInv, RegisterSave, HookInv, TypeOK, RegisterInv, RowInv, stripeVars,
     historyVars, Continue, Idle, NoRow, PENDING, ACTIVE, Hooked, Registering
<1>7. CancelInv'
  <2>1. \A v \in UserId : user[v].status # ABSENT => user'[v] = user[v]
    BY DEF IInv, TypeOK, RegisterSave, RegisterInv, Registering, NoRow, ABSENT
  <2>2. \A k \in Customer, v \in UserId : user[v].customer = k => user[v].status # ABSENT
    BY NoneAssumption DEF IInv, RowInv, NoRow
  <2>3. \A x \in Worker : req'[x] = IF x = w THEN Idle ELSE req[x]
    BY DEF IInv, TypeOK, RegisterSave, Continue
  <2>4. \A x \in Worker : req[x].subs \subseteq Customer
    BY DEF IInv, TypeOK, Request
  <2>5. UNCHANGED subscription
    BY DEF RegisterSave, stripeVars
  <2> QED
    BY <2>1, <2>2, <2>3, <2>4, <2>5 DEF IInv, CancelInv, Idle
<1> QED
  BY <1>1, <1>2, <1>3, <1>4, <1>5, <1>6, <1>7 DEF IInv

(* Stripe: a payment is announced before anything else happens to it. *)
LEMMA PayStep ==
    ASSUME IInv, NEW u \in UserId, Pay(u)
    PROVE  IInv'
<1>1. TypeOK'
  BY BoundAssumption DEF IInv, Pay, TypeOK, dbVars, historyVars, SessionCompleted,
     SubscriptionCreated, PaymentSucceeded, Row, Event, EventType
<1>2. RowInv'
  BY DEF IInv, Pay, RowInv, TypeOK, StripeInv, dbVars, historyVars,
     SessionCompleted, SubscriptionCreated
<1>3. StripeInv'
  BY DEF IInv, Pay, StripeInv, TypeOK, RowInv, dbVars, historyVars,
     SessionCompleted, SubscriptionCreated, PaymentSucceeded, RowOf, Row
<1>4. Safe'
  BY DEF IInv, Pay, Safe, TypeOK, RowInv, StripeInv, PaidBeforeActive,
     OneRowPerCustomer, NoPaymentLost, NoSubscriptionLost, ConfirmedNeverCharged,
     TransferAfterActivation, dbVars, historyVars, SessionCompleted,
     SubscriptionCreated, PaymentSucceeded, RowOf, Row
<1>5. RegisterInv'
  BY DEF IInv, Pay, RegisterInv, TypeOK, RowInv, StripeInv, dbVars, historyVars,
     SessionCompleted, SubscriptionCreated, PaymentSucceeded, RowOf
<1>6. HookInv'
  BY DEF IInv, Pay, HookInv, TypeOK, RowInv, StripeInv, dbVars, historyVars,
     SessionCompleted, SubscriptionCreated, PaymentSucceeded, ACTIVE
<1>7. CancelInv'
  <2>1. \A k \in Customer : subscription[k] = "cancelled" => subscription'[k] = "cancelled"
    BY DEF IInv, TypeOK, StripeInv, Pay
  <2>2. UNCHANGED <<user, req>>
    BY DEF Pay, dbVars
  <2> QED
    BY <2>1, <2>2 DEF IInv, CancelInv, TypeOK, Row
<1> QED
  BY <1>1, <1>2, <1>3, <1>4, <1>5, <1>6, <1>7 DEF IInv

(* Stripe: a renewal only adds an event of a paid customer. *)
LEMMA RenewStep ==
    ASSUME IInv, NEW k \in Customer, Renew(k)
    PROVE  IInv'
<1>1. TypeOK'
  BY BoundAssumption DEF IInv, Renew, TypeOK, dbVars, historyVars, PaymentSucceeded,
     Event, EventType
<1>2. RowInv'
  BY DEF IInv, Renew, RowInv, TypeOK, dbVars, historyVars, PaymentSucceeded
<1>3. StripeInv'
  BY DEF IInv, Renew, StripeInv, TypeOK, RowInv, dbVars, historyVars,
     PaymentSucceeded, RowOf
<1>4. Safe'
  BY DEF IInv, Renew, Safe, TypeOK, PaidBeforeActive, OneRowPerCustomer,
     NoPaymentLost, NoSubscriptionLost, ConfirmedNeverCharged,
     TransferAfterActivation, StripeInv, RowInv, dbVars, historyVars,
     PaymentSucceeded, ACTIVE, RowOf
<1>5. RegisterInv' /\ HookInv' /\ CancelInv'
  BY RequestFrame DEF Renew, dbVars, historyVars
<1> QED
  BY <1>1, <1>2, <1>3, <1>4, <1>5 DEF IInv

(* handle_webhook: the row found is the one of the event. *)
LEMMA WebhookLoadStep ==
    ASSUME IInv, NEW w \in Worker, NEW ev \in pending, WebhookLoad(w, ev)
    PROVE  IInv'
<1>1. TypeOK'
  <2> PICK u \in UserId :
        req' = [req EXCEPT ![w] = [Idle EXCEPT !.pc = "hook", !.user = u, !.evt = ev,
                                              !.seen = user[u].status]]
    BY DEF WebhookLoad, Continue
  <2>1. [Idle EXCEPT !.pc = "hook", !.user = u, !.evt = ev, !.seen = user[u].status]
           \in Request
    BY DEF IInv, TypeOK, Request, PC, Idle, Row
  <2> QED
    BY <2>1 DEF IInv, TypeOK, WebhookLoad, dbVars, stripeVars, historyVars
<1>2. RowInv' /\ StripeInv' /\ Safe'
  BY DataFrame DEF WebhookLoad, dbVars, stripeVars, historyVars
<1>3. RegisterInv'
  <2> PICK u \in UserId :
        /\ user[u].customer = ev.cust
        /\ req' = [req EXCEPT ![w] = [Idle EXCEPT !.pc = "hook", !.user = u, !.evt = ev,
                                                 !.seen = user[u].status]]
    BY DEF WebhookLoad, Continue
  <2>1. user[u] # NoRow
    BY NoneAssumption DEF IInv, TypeOK, NoRow, Event
  <2>2. /\ req'[w].pc = "hook" /\ req'[w].user = u
        /\ \A x \in Worker \ {w} : req'[x] = req[x]
    BY DEF IInv, TypeOK, Idle, Request
  <2>3. UNCHANGED <<user, checkout>>
    BY DEF WebhookLoad, dbVars, stripeVars
  <2> QED
    BY <2>1, <2>2, <2>3 DEF IInv, RegisterInv, Registering, RowOf
<1>4. HookInv'
  BY DEF IInv, WebhookLoad, HookInv, TypeOK, RowInv, StripeInv, dbVars, stripeVars,
     historyVars, Continue, Idle, ACTIVE, Hooked
<1>5. CancelInv'
  BY DEF IInv, WebhookLoad, CancelInv, TypeOK, HookInv, RowInv, StripeInv, dbVars,
     stripeVars, historyVars, Continue, Idle, ABSENT
<1> QED
  BY <1>1, <1>2, <1>3, <1>4, <1>5 DEF IInv

(* handle_webhook: the row activated has been paid for. *)
LEMMA WebhookPaidStep ==
    ASSUME IInv, NEW w \in Worker, WebhookPaid(w)
    PROVE  IInv'
<1>1. TypeOK'
  <2>1. [req[w] EXCEPT !.pc = "transfer"] \in Request
    BY RequestAt DEF IInv, TypeOK, PC
  <2>2. req' \in [Worker -> Request]
    BY <2>1 DEF IInv, TypeOK, WebhookPaid, Continue
  <2>3. req[w].user \in UserId
    BY DEF IInv, WebhookPaid, HookInv, Hooked
  <2>4. user' \in [UserId -> Row]
    BY <2>3, SetStatusType DEF IInv, WebhookPaid
  <2> QED
    BY <2>2, <2>3, <2>4 DEF IInv, TypeOK, WebhookPaid, stripeVars
<1>2. RowInv'
  BY DEF IInv, WebhookPaid, RowInv, TypeOK, HookInv, stripeVars, Continue,
     SetStatus, ACTIVE, ABSENT
<1>3. StripeInv'
  BY DEF IInv, WebhookPaid, StripeInv, TypeOK, HookInv, RowInv, stripeVars,
     Continue, SetStatus, ACTIVE, RowOf
<1>4. Safe'
  BY DEF IInv, WebhookPaid, Safe, TypeOK, HookInv, RowInv, PaidBeforeActive,
     OneRowPerCustomer, NoPaymentLost, NoSubscriptionLost, ConfirmedNeverCharged,
     TransferAfterActivation, StripeInv, stripeVars, Continue, SetStatus, ACTIVE,
     Hooked, NoRow, ABSENT, RowOf
<1>5. RegisterInv'
  BY DEF IInv, WebhookPaid, RegisterInv, TypeOK, HookInv, RowInv, stripeVars,
     Continue, SetStatus, ACTIVE, NoRow, RowOf, Registering
<1>6. HookInv'
  BY DEF IInv, WebhookPaid, HookInv, TypeOK, RowInv, stripeVars, Continue,
     SetStatus, ACTIVE, Hooked
<1>7. CancelInv'
  <2>1. \A v \in UserId : user[v].status # ABSENT => user'[v].status # ABSENT
    BY DEF IInv, TypeOK, Row, WebhookPaid, SetStatus, ABSENT, ACTIVE
  <2>2. \A v \in UserId : /\ user'[v].customer = user[v].customer
                           /\ user'[v].course = user[v].course
    BY DEF IInv, TypeOK, Row, WebhookPaid, SetStatus
  <2>3. /\ req'[w].pc = "transfer"
        /\ \A x \in Worker \ {w} : req'[x] = req[x]
    BY DEF IInv, TypeOK, Request, WebhookPaid, Continue
  <2>4. UNCHANGED subscription
    BY DEF WebhookPaid, stripeVars
  <2> SUFFICES ASSUME NEW x \in Worker \ {w} PROVE CancelInv!(x)'
    BY <2>3 DEF CancelInv
  <2> QED
    BY <2>1, <2>2, <2>3, <2>4 DEF IInv, CancelInv
<1> QED
  BY <1>1, <1>2, <1>3, <1>4, <1>5, <1>6, <1>7 DEF IInv

(* handle_webhook: the id stored is the one of the row. *)
LEMMA WebhookSubscribedStep ==
    ASSUME IInv, NEW w \in Worker, WebhookSubscribed(w)
    PROVE  IInv'
<1>1. TypeOK'
  <2>1. [req[w] EXCEPT !.pc = "ack"] \in Request
    BY RequestAt DEF IInv, TypeOK, PC
  <2>2. req[w].evt.cust \in Customer
    BY DEF IInv, HookInv, Hooked, WebhookSubscribed, Event
  <2>3. user' \in [UserId -> Row]
    <3>1. \A r \in Row : [r EXCEPT !.sub = req[w].evt.cust] \in Row
      BY <2>2 DEF Row
    <3> QED
      BY <3>1 DEF IInv, TypeOK, WebhookSubscribed
  <2> QED
    BY <2>1, <2>3 DEF IInv, TypeOK, WebhookSubscribed, Continue, stripeVars,
       historyVars
<1>2. RowInv'
  BY DEF IInv, WebhookSubscribed, RowInv, TypeOK, HookInv, stripeVars, historyVars,
     Continue, NoRow, Hooked
<1>3. StripeInv'
  BY DEF IInv, WebhookSubscribed, StripeInv, TypeOK, HookInv, RowInv, stripeVars,
     historyVars, Continue, RowOf, ACTIVE
<1>4. Safe'
  BY DEF IInv, WebhookSubscribed, Safe, TypeOK, HookInv, RowInv, PaidBeforeActive,
     OneRowPerCustomer, NoPaymentLost, NoSubscriptionLost, ConfirmedNeverCharged,
     TransferAfterActivation, StripeInv, stripeVars, historyVars, Continue, ACTIVE,
     Hooked, NoRow, ABSENT, RowOf
<1>5. RegisterInv'
  BY DEF IInv, WebhookSubscribed, RegisterInv, TypeOK, HookInv, RowInv, stripeVars,
     historyVars, Continue, NoRow, RowOf, Registering
<1>6. HookInv'
  BY DEF IInv, WebhookSubscribed, HookInv, TypeOK, RowInv, stripeVars, historyVars,
     Continue, ACTIVE, Hooked
<1>7. CancelInv'
  <2>1. \A v \in UserId : /\ user'[v].status = user[v].status
                           /\ user'[v].customer = user[v].customer
                           /\ user'[v].course = user[v].course
    BY DEF IInv, TypeOK, Row, WebhookSubscribed
  <2>2. /\ req'[w].pc = "ack"
        /\ \A x \in Worker \ {w} : req'[x] = req[x]
    BY DEF IInv, TypeOK, Request, WebhookSubscribed, Continue
  <2>3. UNCHANGED subscription
    BY DEF WebhookSubscribed, stripeVars
  <2> QED
    BY <2>1, <2>2, <2>3 DEF IInv, CancelInv
<1> QED
  BY <1>1, <1>2, <1>3, <1>4, <1>5, <1>6, <1>7 DEF IInv

(* handle_webhook: the transfer follows the commit. *)
LEMMA WebhookTransferStep ==
    ASSUME IInv, NEW w \in Worker, WebhookTransfer(w)
    PROVE  IInv'
<1>1. TypeOK'
  <2>1. [req[w] EXCEPT !.pc = "ack"] \in Request
    BY RequestAt DEF IInv, TypeOK, PC
  <2>2. req' \in [Worker -> Request]
    BY <2>1 DEF IInv, TypeOK, WebhookTransfer, Continue
  <2> QED
    BY <2>2 DEF IInv, WebhookTransfer, TypeOK, Row, NoRow, SetStatus, StripeCancel,
       dbVars, stripeVars, historyVars, HookInv, Hooked
<1>2. RowInv'
  BY DEF IInv, WebhookTransfer, RowInv, TypeOK, HookInv, dbVars, Continue
<1>3. StripeInv'
  BY DEF IInv, WebhookTransfer, StripeInv, TypeOK, HookInv, RowInv, dbVars,
     Continue, RowOf
<1>4. Safe'
  BY NoneAssumption DEF IInv, WebhookTransfer, Safe, TypeOK, HookInv,
     PaidBeforeActive, OneRowPerCustomer, NoPaymentLost, NoSubscriptionLost,
     ConfirmedNeverCharged, TransferAfterActivation, StripeInv, RowInv, dbVars,
     Continue, ACTIVE, Hooked, SessionCompleted, RowOf, Event
<1>5. RegisterInv'
  BY DEF IInv, WebhookTransfer, RegisterInv, TypeOK, HookInv, dbVars, Continue,
     NoRow, RowOf, Registering
<1>6. HookInv'
  <2>1. /\ req'[w] = [req[w] EXCEPT !.pc = "ack"]
        /\ \A x \in Worker \ {w} : req'[x] = req[x]
    BY DEF IInv, TypeOK, WebhookTransfer, Continue
  <2>2. req[w].evt.type # "customer.subscription.created"
    BY DEF IInv, HookInv, Hooked, WebhookTransfer
  <2>3. UNCHANGED <<user, checkout, everActive>>
    BY DEF WebhookTransfer, dbVars, historyVars
  <2> QED
    BY <2>1, <2>2, <2>3 DEF IInv, HookInv, Hooked, WebhookTransfer, TypeOK, Request
<1>7. CancelInv'
  BY DEF IInv, WebhookTransfer, CancelInv, TypeOK, HookInv, dbVars, Continue
<1> QED
  BY <1>1, <1>2, <1>3, <1>4, <1>5, <1>6, <1>7 DEF IInv

(* handle_webhook: what is acknowledged has been committed. *)
LEMMA WebhookAckStep ==
    ASSUME IInv, NEW w \in Worker, WebhookAck(w)
    PROVE  IInv'
<1>1. req' \in [Worker -> Request] /\ RegisterInv' /\ HookInv' /\ CancelInv'
  BY EndFrame DEF WebhookAck, dbVars, historyVars
<1>2. TypeOK'
  BY <1>1 DEF IInv, WebhookAck, TypeOK, dbVars, historyVars
<1>3. RowInv'
  BY DEF IInv, WebhookAck, RowInv, TypeOK, HookInv, dbVars, historyVars, Continue
<1>4. StripeInv'
  BY DEF IInv, WebhookAck, StripeInv, TypeOK, HookInv, RowInv, dbVars, historyVars,
     Continue, Idle, RowOf
<1>5. Safe'
  BY NoneAssumption DEF IInv, WebhookAck, Safe, TypeOK, HookInv, PaidBeforeActive,
     OneRowPerCustomer, NoPaymentLost, NoSubscriptionLost, ConfirmedNeverCharged,
     TransferAfterActivation, StripeInv, RowInv, dbVars, historyVars, Continue,
     Idle, ACTIVE, Hooked, SessionCompleted, RowOf, SubscriptionCreated
<1> QED
  BY <1>1, <1>2, <1>3, <1>4, <1>5 DEF IInv

(* unsubscribe: the subscription loaded is the one of the row. *)
LEMMA UnsubscribeLoadStep ==
    ASSUME IInv, NEW w \in Worker, NEW u \in UserId, UnsubscribeLoad(w, u)
    PROVE  IInv'
<1>1. TypeOK'
  <2> DEFINE p == "cancel"
             r == [Idle EXCEPT !.pc = p, !.user = u, !.seen = user[u].status,
                               !.subs = {user[u].sub} \ {None}]
  <2>1. /\ {user[u].sub} \ {None} \in SUBSET Customer
        /\ user[u].status \in {ABSENT, PENDING, ACTIVE}
        /\ p \in PC
    BY DEF IInv, TypeOK, Row, PC
  <2>2. r \in Request
    BY <2>1 DEF Request, Idle
  <2>3. req' = [req EXCEPT ![w] = r]
    BY DEF UnsubscribeLoad, Continue
  <2> QED
    BY <2>2, <2>3 DEF IInv, TypeOK, UnsubscribeLoad, dbVars, stripeVars, historyVars
<1>2. RowInv' /\ StripeInv' /\ Safe'
  BY DataFrame DEF UnsubscribeLoad, dbVars, stripeVars, historyVars
<1>3. RegisterInv'
  BY DEF IInv, UnsubscribeLoad, RegisterInv, TypeOK, CancelInv, dbVars, stripeVars,
     historyVars, Continue, Idle, NoRow, RowOf, Registering
<1>4. HookInv'
  BY DEF IInv, UnsubscribeLoad, HookInv, TypeOK, CancelInv, RowInv, dbVars,
     stripeVars, historyVars, Continue, Idle, ABSENT, Hooked
<1>5. CancelInv'
  BY DEF IInv, UnsubscribeLoad, CancelInv, TypeOK, RowInv, dbVars, stripeVars,
     historyVars, Continue
<1> QED
  BY <1>1, <1>2, <1>3, <1>4, <1>5 DEF IInv

(* unsubscribe: a cancellation that succeeded is final. *)
LEMMA UnsubscribeCancelStep ==
    ASSUME IInv, NEW w \in Worker, UnsubscribeCancel(w)
    PROVE  IInv'
<1>1. TypeOK'
  <2>1. [req[w] EXCEPT !.pc = "unsub"] \in Request
    BY RequestAt DEF IInv, TypeOK, PC
  <2>2. subscription' \in [Customer -> {"none", "active", "cancelled"}]
    BY DEF IInv, TypeOK, UnsubscribeCancel, StripeCancel
  <2> QED
    BY <2>1, <2>2 DEF IInv, TypeOK, UnsubscribeCancel, Continue, dbVars, historyVars
<1>2. RowInv' /\ StripeInv' /\ Safe'
  <2>1. \/ UNCHANGED subscription
        \/ \E k \in Customer : StripeCancel(k)
    BY DEF IInv, TypeOK, Request, UnsubscribeCancel
  <2> QED
    BY <2>1, CancelFrame DEF UnsubscribeCancel, dbVars, historyVars
<1>3. RegisterInv'
  BY DEF IInv, UnsubscribeCancel, RegisterInv, TypeOK, CancelInv, dbVars,
     historyVars, Continue, RowOf, Registering
<1>4. HookInv'
  BY DEF IInv, UnsubscribeCancel, HookInv, TypeOK, CancelInv, RowInv, dbVars,
     historyVars, Continue, StripeCancel, Hooked
<1>5. CancelInv'
  <2> PICK k \in req[w].subs : StripeCancel(k)
    BY DEF UnsubscribeCancel
  <2>1. k \in Customer /\ user[req[w].user].customer = k
    BY DEF IInv, TypeOK, Request, CancelInv, UnsubscribeCancel
  <2>2. /\ subscription'[k] = "cancelled"
        /\ \A j \in Customer : subscription[j] = "cancelled" => subscription'[j] = "cancelled"
    BY <2>1 DEF IInv, TypeOK, StripeCancel
  <2>3. /\ req'[w].pc = "unsub" /\ req'[w].user = req[w].user
        /\ \A x \in Worker \ {w} : req'[x] = req[x]
    BY DEF IInv, TypeOK, Request, UnsubscribeCancel, Continue
  <2>4. UNCHANGED user
    BY DEF UnsubscribeCancel, dbVars
  <2> QED
    BY <2>1, <2>2, <2>3, <2>4, NoneAssumption DEF IInv, CancelInv,
       UnsubscribeCancel, TypeOK, Row
<1> QED
  BY <1>1, <1>2, <1>3, <1>4, <1>5 DEF IInv

(* unsubscribe: only what Stripe cancelled is confirmed. *)
LEMMA UnsubscribeCommitStep ==
    ASSUME IInv, NEW w \in Worker, UnsubscribeCommit(w)
    PROVE  IInv'
<1>1. TypeOK'
  <2>1. Idle \in Request
    BY DEF IInv, TypeOK, Request, PC, Idle, ABSENT, PENDING
  <2>2. req' \in [Worker -> Request]
    BY <2>1 DEF IInv, TypeOK, UnsubscribeCommit, Continue
  <2>3. req[w].user \in UserId
    BY DEF IInv, UnsubscribeCommit, CancelInv
  <2>4. user' \in [UserId -> Row]
    BY <2>3, SetStatusType DEF IInv, UnsubscribeCommit
  <2> QED
    BY <2>2, <2>3, <2>4 DEF IInv, TypeOK, UnsubscribeCommit, stripeVars
<1>2. RowInv'
  BY DEF IInv, UnsubscribeCommit, RowInv, TypeOK, CancelInv, stripeVars, Continue,
     SetStatus, Idle, PENDING, ABSENT, ACTIVE
<1>3. StripeInv'
  BY DEF IInv, UnsubscribeCommit, StripeInv, TypeOK, CancelInv, RowInv, stripeVars,
     Continue, SetStatus, Idle, PENDING, RowOf
<1>4. Safe'
  BY DEF IInv, UnsubscribeCommit, Safe, TypeOK, CancelInv, RowInv, PaidBeforeActive,
     OneRowPerCustomer, NoPaymentLost, NoSubscriptionLost, ConfirmedNeverCharged,
     TransferAfterActivation, StripeInv, stripeVars, Continue, SetStatus, Idle,
     PENDING, ABSENT, NoRow, ACTIVE, RowOf
<1>5. RegisterInv'
  BY NoneAssumption DEF IInv, UnsubscribeCommit, RegisterInv, TypeOK, CancelInv,
     RowInv, stripeVars, Continue, SetStatus, Idle, PENDING, NoRow, RowOf,
     Registering
<1>6. HookInv'
  BY DEF IInv, UnsubscribeCommit, HookInv, TypeOK, CancelInv, RowInv, stripeVars,
     Continue, SetStatus, Idle, PENDING, ACTIVE, Hooked
<1>7. CancelInv'
  BY NoneAssumption DEF IInv, UnsubscribeCommit, CancelInv, TypeOK, RowInv,
     stripeVars, Continue, SetStatus, Idle, PENDING, ABSENT
<1> QED
  BY <1>1, <1>2, <1>3, <1>4, <1>5, <1>6, <1>7 DEF IInv

(* unsubscribeuser: the subscription loaded is the one of the row. *)
LEMMA AdminLoadStep ==
    ASSUME IInv, NEW w \in Worker, NEW u \in UserId, AdminLoad(w, u)
    PROVE  IInv'
<1>1. TypeOK'
  <2> DEFINE p == IF user[u].sub = None THEN "admin_unsub" ELSE "admin_cancel"
             r == [Idle EXCEPT !.pc = p, !.user = u, !.seen = user[u].status,
                               !.subs = {user[u].sub} \ {None}]
  <2>1. /\ {user[u].sub} \ {None} \in SUBSET Customer
        /\ user[u].status \in {ABSENT, PENDING, ACTIVE}
        /\ p \in PC
    BY DEF IInv, TypeOK, Row, PC
  <2>2. r \in Request
    BY <2>1 DEF Request, Idle
  <2>3. req' = [req EXCEPT ![w] = r]
    BY DEF AdminLoad, Continue
  <2> QED
    BY <2>2, <2>3 DEF IInv, TypeOK, AdminLoad, dbVars, stripeVars, historyVars
<1>2. RowInv' /\ StripeInv' /\ Safe'
  BY DataFrame DEF AdminLoad, dbVars, stripeVars, historyVars
<1>3. RegisterInv'
  BY DEF IInv, AdminLoad, RegisterInv, TypeOK, CancelInv, dbVars, stripeVars,
     historyVars, Continue, Idle, NoRow, RowOf, Registering
<1>4. HookInv'
  BY DEF IInv, AdminLoad, HookInv, TypeOK, CancelInv, RowInv, dbVars, stripeVars,
     historyVars, Continue, Idle, ABSENT, Hooked
<1>5. CancelInv'
  BY DEF IInv, AdminLoad, CancelInv, TypeOK, RowInv, dbVars, stripeVars,
     historyVars, Continue
<1> QED
  BY <1>1, <1>2, <1>3, <1>4, <1>5 DEF IInv

(* unsubscribeuser: the call may fail unnoticed. *)
LEMMA AdminCancelStep ==
    ASSUME IInv, NEW w \in Worker, AdminCancel(w)
    PROVE  IInv'
<1>1. TypeOK'
  <2>1. [req[w] EXCEPT !.pc = "admin_unsub"] \in Request
    BY RequestAt DEF IInv, TypeOK, PC
  <2>2. req' \in [Worker -> Request]
    BY <2>1 DEF IInv, TypeOK, AdminCancel, Continue
  <2> QED
    BY <2>2 DEF IInv, AdminCancel, TypeOK, Row, NoRow, SetStatus, StripeCancel,
       dbVars, historyVars
<1>2. RowInv' /\ StripeInv' /\ Safe'
  <2>1. \/ UNCHANGED subscription
        \/ \E k \in Customer : StripeCancel(k)
    BY DEF IInv, TypeOK, Request, AdminCancel
  <2> QED
    BY <2>1, CancelFrame DEF AdminCancel, dbVars, historyVars
<1>3. RegisterInv'
  BY DEF IInv, AdminCancel, RegisterInv, TypeOK, CancelInv, dbVars, historyVars,
     Continue, RowOf, Registering
<1>4. HookInv'
  BY DEF IInv, AdminCancel, HookInv, TypeOK, CancelInv, RowInv, dbVars, historyVars,
     Continue, StripeCancel, Hooked
<1>5. CancelInv'
  <2>1. \A k \in Customer : subscription[k] = "cancelled" => subscription'[k] = "cancelled"
    BY DEF IInv, TypeOK, AdminCancel, StripeCancel
  <2>2. /\ req'[w].pc = "admin_unsub" /\ req'[w].user = req[w].user
        /\ \A x \in Worker \ {w} : req'[x] = req[x]
    BY DEF IInv, TypeOK, Request, AdminCancel, Continue
  <2>3. UNCHANGED user
    BY DEF AdminCancel, dbVars
  <2> QED
    BY <2>1, <2>2, <2>3 DEF IInv, CancelInv, AdminCancel, TypeOK, Row
<1> QED
  BY <1>1, <1>2, <1>3, <1>4, <1>5 DEF IInv

(* unsubscribeuser: the row is set to 1. *)
LEMMA AdminCommitStep ==
    ASSUME IInv, NEW w \in Worker, AdminCommit(w)
    PROVE  IInv'
<1>1. TypeOK'
  <2>1. Idle \in Request
    BY DEF IInv, TypeOK, Request, PC, Idle, ABSENT, PENDING
  <2>2. req' \in [Worker -> Request]
    BY <2>1 DEF IInv, TypeOK, AdminCommit, Continue
  <2>3. req[w].user \in UserId
    BY DEF IInv, AdminCommit, CancelInv
  <2>4. user' \in [UserId -> Row]
    BY <2>3, SetStatusType DEF IInv, AdminCommit
  <2> QED
    BY <2>2, <2>3, <2>4 DEF IInv, TypeOK, AdminCommit, stripeVars, historyVars
<1>2. RowInv'
  BY DEF IInv, AdminCommit, RowInv, TypeOK, CancelInv, stripeVars, historyVars,
     Continue, SetStatus, Idle, PENDING, ABSENT, ACTIVE
<1>3. StripeInv'
  BY DEF IInv, AdminCommit, StripeInv, TypeOK, CancelInv, RowInv, stripeVars,
     historyVars, Continue, SetStatus, Idle, PENDING, RowOf
<1>4. Safe'
  BY DEF IInv, AdminCommit, Safe, TypeOK, CancelInv, RowInv, PaidBeforeActive,
     OneRowPerCustomer, NoPaymentLost, NoSubscriptionLost, ConfirmedNeverCharged,
     TransferAfterActivation, StripeInv, stripeVars, historyVars, Continue,
     SetStatus, Idle, PENDING, ABSENT, NoRow, ACTIVE, RowOf
<1>5. RegisterInv'
  BY NoneAssumption DEF IInv, AdminCommit, RegisterInv, TypeOK, CancelInv, RowInv,
     stripeVars, historyVars, Continue, SetStatus, Idle, PENDING, NoRow, RowOf,
     Registering
<1>6. HookInv'
  BY DEF IInv, AdminCommit, HookInv, TypeOK, CancelInv, RowInv, stripeVars,
     historyVars, Continue, SetStatus, Idle, PENDING, ACTIVE, Hooked
<1>7. CancelInv'
  BY DEF IInv, AdminCommit, CancelInv, TypeOK, RowInv, stripeVars, historyVars,
     Continue, SetStatus, Idle, PENDING, ABSENT
<1> QED
  BY <1>1, <1>2, <1>3, <1>4, <1>5, <1>6, <1>7 DEF IInv

(* delete_campaign: the subscriptions loaded are of the campaign. *)
LEMMA DeleteLoadStep ==
    ASSUME IInv, NEW w \in Worker, NEW c \in Course, DeleteLoad(w, c)
    PROVE  IInv'
<1>1. TypeOK'
  <2> DEFINE members == {u \in UserId : user[u].course = c /\ user[u].status = ACTIVE}
             r == [Idle EXCEPT !.pc = "delete", !.course = c,
                               !.subs = {user[u].sub : u \in members} \ {None}]
  <2>1. {user[u].sub : u \in members} \ {None} \in SUBSET Customer
    BY DEF IInv, TypeOK, Row
  <2>2. r \in Request
    BY <2>1 DEF Request, PC, Idle, ABSENT
  <2>3. req' = [req EXCEPT ![w] = r]
    BY DEF DeleteLoad, Continue
  <2> QED
    BY <2>2, <2>3 DEF IInv, TypeOK, DeleteLoad, dbVars, stripeVars, historyVars
<1>2. RowInv' /\ StripeInv' /\ Safe'
  BY DataFrame DEF DeleteLoad, dbVars, stripeVars, historyVars
<1>3. RegisterInv'
  BY NoneAssumption DEF IInv, DeleteLoad, RegisterInv, TypeOK, CancelInv, dbVars,
     stripeVars, historyVars, Continue, Idle, ACTIVE, RowOf, Registering
<1>4. HookInv'
  BY DEF IInv, DeleteLoad, HookInv, TypeOK, CancelInv, RowInv, dbVars, stripeVars,
     historyVars, Continue, Idle, ACTIVE, Hooked
<1>5. CancelInv'
  BY DEF IInv, DeleteLoad, CancelInv, TypeOK, RowInv, dbVars, stripeVars,
     historyVars, Continue
<1> QED
  BY <1>1, <1>2, <1>3, <1>4, <1>5 DEF IInv

(* delete_campaign: one turn of the loop. *)
LEMMA DeleteCancelStep ==
    ASSUME IInv, NEW w \in Worker, DeleteCancel(w)
    PROVE  IInv'
<1>1. TypeOK'
  <2> PICK k \in req[w].subs :
        /\ StripeCancel(k) \/ UNCHANGED subscription
        /\ req' = [req EXCEPT ![w] = [req[w] EXCEPT !.subs = @ \ {k}]]
    BY DEF DeleteCancel, Continue
  <2>1. [req[w] EXCEPT !.subs = @ \ {k}] \in Request
    BY DEF IInv, TypeOK, Request
  <2>2. req' \in [Worker -> Request]
    BY <2>1 DEF IInv, TypeOK
  <2>3. subscription' \in [Customer -> {"none", "active", "cancelled"}]
    BY DEF IInv, TypeOK, StripeCancel
  <2> QED
    BY <2>2, <2>3 DEF IInv, TypeOK, DeleteCancel, dbVars, historyVars
<1>2. RowInv' /\ StripeInv' /\ Safe'
  <2>1. \/ UNCHANGED subscription
        \/ \E k \in Customer : StripeCancel(k)
    BY DEF IInv, TypeOK, Request, DeleteCancel
  <2> QED
    BY <2>1, CancelFrame DEF DeleteCancel, dbVars, historyVars
<1>3. RegisterInv'
  BY DEF IInv, DeleteCancel, RegisterInv, TypeOK, CancelInv, dbVars, historyVars,
     Continue, RowOf
<1>4. HookInv'
  BY DEF IInv, DeleteCancel, HookInv, TypeOK, CancelInv, RowInv, dbVars,
     historyVars, Continue, StripeCancel
<1>5. CancelInv'
  <2>1. \A k \in Customer : subscription[k] = "cancelled" => subscription'[k] = "cancelled"
    BY DEF IInv, TypeOK, DeleteCancel, StripeCancel
  <2>2. /\ req'[w].pc = "delete" /\ req'[w].course = req[w].course
        /\ req'[w].subs \subseteq req[w].subs
        /\ \A x \in Worker \ {w} : req'[x] = req[x]
    BY DEF IInv, TypeOK, Request, DeleteCancel, Continue
  <2>3. UNCHANGED user
    BY DEF DeleteCancel, dbVars
  <2> QED
    BY <2>1, <2>2, <2>3 DEF IInv, CancelInv, DeleteCancel, TypeOK, Row
<1> QED
  BY <1>1, <1>2, <1>3, <1>4, <1>5 DEF IInv

(* delete_campaign: the rows are left as they are. *)
LEMMA DeleteCommitStep ==
    ASSUME IInv, NEW w \in Worker, DeleteCommit(w)
    PROVE  IInv'
<1>1. req' \in [Worker -> Request] /\ RegisterInv' /\ HookInv' /\ CancelInv'
  BY EndFrame DEF DeleteCommit, stripeVars, historyVars
<1>2. TypeOK'
  BY <1>1 DEF IInv, DeleteCommit, TypeOK, stripeVars, historyVars
<1>3. RowInv' /\ StripeInv' /\ Safe'
  BY DataFrame DEF DeleteCommit, stripeVars, historyVars
<1> QED
  BY <1>1, <1>2, <1>3 DEF IInv

(* add_user: a row without a customer. *)
LEMMA AddUserStep ==
    ASSUME IInv, NEW u \in UserId, NEW e \in Email, NEW c \in Course, AddUser(u, e, c)
    PROVE  IInv'
<1>1. TypeOK'
  BY DEF IInv, AddUser, TypeOK, stripeVars, FreshId, NoRow, Row
<1>2. RowInv'
  BY DEF IInv, AddUser, RowInv, TypeOK, stripeVars, FreshId, ACTIVE, ABSENT
<1>3. StripeInv'
  BY DEF IInv, AddUser, StripeInv, TypeOK, RowInv, stripeVars, FreshId, RowOf
<1>4. Safe'
  BY DEF IInv, AddUser, Safe, TypeOK, RowInv, PaidBeforeActive, OneRowPerCustomer,
     NoPaymentLost, NoSubscriptionLost, ConfirmedNeverCharged,
     TransferAfterActivation, StripeInv, stripeVars, FreshId, NoRow, ACTIVE, RowOf
<1>5. RegisterInv'
  BY DEF IInv, AddUser, RegisterInv, TypeOK, RowInv, stripeVars, FreshId, RowOf
<1>6. HookInv'
  BY DEF IInv, AddUser, HookInv, TypeOK, RowInv, stripeVars, FreshId
<1>7. CancelInv'
  <2>1. \A v \in UserId : user[v].status # ABSENT => user'[v] = user[v]
    BY DEF IInv, TypeOK, AddUser, FreshId
  <2>2. \A k \in Customer, v \in UserId : user[v].customer = k => user[v].status # ABSENT
    BY NoneAssumption DEF IInv, RowInv, NoRow
  <2>3. \A x \in Worker : req'[x] = req[x]
    BY DEF IInv, TypeOK, AddUser, Continue
  <2>4. \A x \in Worker : req[x].subs \subseteq Customer
    BY DEF IInv, TypeOK, Request
  <2>5. UNCHANGED subscription
    BY DEF AddUser, stripeVars
  <2> QED
    BY <2>1, <2>2, <2>3, <2>4, <2>5 DEF IInv, CancelInv, Idle
<1> QED
  BY <1>1, <1>2, <1>3, <1>4, <1>5, <1>6, <1>7 DEF IInv

(* A failed call to Stripe ends the request. *)
LEMMA StripeErrorStep ==
    ASSUME IInv, NEW w \in Worker, StripeError(w)
    PROVE  IInv'
<1>1. req' \in [Worker -> Request] /\ RegisterInv' /\ HookInv' /\ CancelInv'
  BY EndFrame DEF StripeError, dbVars, stripeVars, historyVars
<1>2. TypeOK'
  BY <1>1 DEF IInv, StripeError, TypeOK, dbVars, stripeVars, historyVars
<1>3. RowInv' /\ StripeInv' /\ Safe'
  BY DataFrame DEF StripeError, dbVars, stripeVars, historyVars
<1> QED
  BY <1>1, <1>2, <1>3 DEF IInv

(* A worker dies. *)
LEMMA CrashStep ==
    ASSUME IInv, NEW w \in Worker, Crash(w)
    PROVE  IInv'
<1>1. req' \in [Worker -> Request] /\ RegisterInv' /\ HookInv' /\ CancelInv'
  BY EndFrame DEF Crash, dbVars, stripeVars, historyVars
<1>2. TypeOK'
  BY <1>1 DEF IInv, Crash, TypeOK, dbVars, stripeVars, historyVars
<1>3. RowInv' /\ StripeInv' /\ Safe'
  BY DataFrame DEF Crash, dbVars, stripeVars, historyVars
<1> QED
  BY <1>1, <1>2, <1>3 DEF IInv

(* Every step keeps the inductive invariant. *)
LEMMA NextStep ==
    ASSUME IInv, [Next]_vars
    PROVE  IInv'
<1>1. CASE UNCHANGED vars
  BY <1>1 DEF IInv, TypeOK, RowInv, RegisterInv, HookInv, CancelInv, StripeInv,
     Safe, PaidBeforeActive, OneRowPerCustomer, NoPaymentLost, NoSubscriptionLost,
     ConfirmedNeverCharged, TransferAfterActivation, RowOf, vars, dbVars,
     stripeVars, historyVars
<1>2. ASSUME NEW w \in Worker, Begin(w) PROVE IInv'
  BY <1>2, RegisterCheckStep, WebhookLoadStep, UnsubscribeLoadStep, AdminLoadStep,
     DeleteLoadStep DEF Begin
<1>3. ASSUME NEW w \in Worker, Serve(w) PROVE IInv'
  BY <1>3, RegisterFreeStep, RegisterCustomerStep, RegisterSessionStep,
     RegisterSaveStep, WebhookPaidStep, WebhookSubscribedStep, WebhookTransferStep,
     WebhookAckStep, UnsubscribeCancelStep, UnsubscribeCommitStep, AdminCancelStep,
     AdminCommitStep, DeleteCancelStep, DeleteCommitStep, StripeErrorStep DEF Serve
<1> QED
  BY <1>1, <1>2, <1>3, CrashStep, PayStep, RenewStep, AddUserStep, CustomizeStep DEF
     Next

(* The invariant holds in an empty database. *)
LEMMA InitIInv == Init => IInv
<1> SUFFICES ASSUME Init PROVE IInv
  OBVIOUS
<1>1. TypeOK
  BY BoundAssumption DEF Init, TypeOK, Offer, Row, NoRow, Request, PC, Idle
<1>2. RowInv /\ RegisterInv /\ HookInv /\ CancelInv
  BY DEF Init, RowInv, RegisterInv, HookInv, CancelInv, NoRow, Idle, Registering,
     Hooked, ABSENT, ACTIVE
<1>3. StripeInv /\ Safe
  BY DEF Init, StripeInv, Safe, PaidBeforeActive, OneRowPerCustomer, NoPaymentLost,
     NoSubscriptionLost, ConfirmedNeverCharged, TransferAfterActivation, NoRow
<1> QED
  BY <1>1, <1>2, <1>3 DEF IInv

(* Every state the program reaches satisfies the inductive invariant. *)
THEOREM Invariance == Spec => []IInv
  BY InitIInv, NextStep, PTL DEF Spec

(* The rows, requests and Stripe objects keep their types. *)
THEOREM TypeCorrect == Spec => []TypeOK
<1>1. IInv => TypeOK
  BY DEF IInv
<1> QED
  BY <1>1, Invariance, PTL

(* No row with a Stripe customer is set to status 2 before the customer    *)
(* has paid.                                                               *)
THEOREM PaidBeforeActiveHolds == Spec => []PaidBeforeActive
<1>1. IInv => PaidBeforeActive
  BY DEF IInv, Safe
<1> QED
  BY <1>1, Invariance, PTL

(* The lookup of a row by customer id in handle_webhook is unambiguous. *)
THEOREM OneRowPerCustomerHolds == Spec => []OneRowPerCustomer
<1>1. IInv => OneRowPerCustomer
  BY DEF IInv, Safe
<1> QED
  BY <1>1, Invariance, PTL

(* A payment handle_webhook has acknowledged has activated its row, also   *)
(* if workers die.                                                         *)
THEOREM NoPaymentLostHolds == Spec => []NoPaymentLost
<1>1. IInv => NoPaymentLost
  BY DEF IInv, Safe
<1> QED
  BY <1>1, Invariance, PTL

(* A subscription handle_webhook has acknowledged is stored in its row. *)
THEOREM NoSubscriptionLostHolds == Spec => []NoSubscriptionLost
<1>1. IInv => NoSubscriptionLost
  BY DEF IInv, Safe
<1> QED
  BY <1>1, Invariance, PTL

(* Whoever unsubscribe has confirmed is not charged again. *)
THEOREM ConfirmedNeverChargedHolds == Spec => []ConfirmedNeverCharged
<1>1. IInv => ConfirmedNeverCharged
  BY DEF IInv, Safe
<1> QED
  BY <1>1, Invariance, PTL

(* A share is transferred only of a payment whose row is activated. *)
THEOREM TransferAfterActivationHolds == Spec => []TransferAfterActivation
<1>1. IInv => TransferAfterActivation
  BY DEF IInv, Safe
<1> QED
  BY <1>1, Invariance, PTL

(* Who changes subscriptions and renewals. *)
LEMMA StripeSteps ==
    ASSUME [Next]_vars
    PROVE  \/ UNCHANGED <<subscription, invoices>>
           \/ \E u \in UserId : Pay(u)
           \/ \E k \in Customer : Renew(k)
           \/ \E w \in Worker : UnsubscribeCancel(w) \/ AdminCancel(w) \/ DeleteCancel(w)
<1>1. ASSUME NEW w \in Worker, Begin(w) \/ Crash(w)
      PROVE  UNCHANGED <<subscription, invoices>>
  BY <1>1 DEF Begin, Crash, RegisterCheck, WebhookLoad, UnsubscribeLoad, AdminLoad,
     DeleteLoad, stripeVars
<1>2. ASSUME NEW w \in Worker, Serve(w)
      PROVE  \/ UNCHANGED <<subscription, invoices>>
             \/ UnsubscribeCancel(w) \/ AdminCancel(w) \/ DeleteCancel(w)
  <2>1. ASSUME \/ RegisterFree(w) \/ RegisterCustomer(w) \/ RegisterSession(w)
               \/ RegisterSave(w)
        PROVE  UNCHANGED <<subscription, invoices>>
    BY <2>1 DEF RegisterFree, RegisterCustomer, RegisterSession, RegisterSave, stripeVars
  <2>2. ASSUME \/ WebhookPaid(w) \/ WebhookSubscribed(w) \/ WebhookTransfer(w)
               \/ WebhookAck(w)
        PROVE  UNCHANGED <<subscription, invoices>>
    BY <2>2 DEF WebhookPaid, WebhookSubscribed, WebhookTransfer, WebhookAck, stripeVars
  <2>3. ASSUME \/ UnsubscribeCommit(w) \/ AdminCommit(w) \/ DeleteCommit(w)
               \/ StripeError(w)
        PROVE  UNCHANGED <<subscription, invoices>>
    BY <2>3 DEF UnsubscribeCommit, AdminCommit, DeleteCommit, StripeError, stripeVars
  <2> QED
    BY <1>2, <2>1, <2>2, <2>3, Zenon DEF Serve
<1>3. ASSUME NEW u \in UserId, NEW e \in Email, NEW c \in Course, AddUser(u, e, c)
      PROVE  UNCHANGED <<subscription, invoices>>
  BY <1>3 DEF AddUser, stripeVars
<1>4. ASSUME NEW c \in Course, NEW o \in {"free", "priced"}, Customize(c, o)
      PROVE  UNCHANGED <<subscription, invoices>>
  BY <1>4 DEF Customize, stripeVars
<1>5. CASE UNCHANGED vars
  BY <1>5 DEF vars, stripeVars
<1> QED
  BY <1>1, <1>2, <1>3, <1>4, <1>5, Zenon DEF Next

(* No request cancels a subscription it was not asked to cancel. *)
THEOREM CancelOnlyRequestedHolds == Spec => CancelOnlyRequested
<1> DEFINE Own ==
      \A k \in Customer :
          subscription[k] = "active" /\ subscription'[k] = "cancelled"
            => \E w \in Worker, u \in RowOf(k) :
                  \/ req[w].pc \in {"cancel", "admin_cancel"} /\ req[w].user = u
                  \/ req[w].pc = "delete" /\ req[w].course = user[u].course
<1>1. ASSUME IInv, [Next]_vars PROVE Own
  <2> SUFFICES ASSUME NEW k \in Customer,
                      subscription[k] = "active", subscription'[k] = "cancelled"
               PROVE  \E w \in Worker, u \in RowOf(k) :
                         \/ req[w].pc \in {"cancel", "admin_cancel"} /\ req[w].user = u
                         \/ req[w].pc = "delete" /\ req[w].course = user[u].course
    OBVIOUS
  <2>1. PICK w \in Worker : UnsubscribeCancel(w) \/ AdminCancel(w) \/ DeleteCancel(w)
    <3>1. subscription'[k] # subscription[k]
      OBVIOUS
    <3>2. ASSUME NEW u \in UserId, Pay(u) PROVE subscription'[k] # "cancelled"
      BY <3>2, <1>1 DEF Pay, IInv, TypeOK
    <3> QED
      BY <1>1, <3>1, <3>2, StripeSteps DEF Renew
  <2>2. k \in req[w].subs
    BY <2>1, <1>1 DEF UnsubscribeCancel, AdminCancel, DeleteCancel, StripeCancel,
       IInv, TypeOK, Request
  <2>3. CASE UnsubscribeCancel(w) \/ AdminCancel(w)
    BY <2>2, <2>3, <1>1 DEF UnsubscribeCancel, AdminCancel, IInv, CancelInv, RowOf
  <2>4. CASE DeleteCancel(w)
    BY <2>2, <2>4, <1>1 DEF DeleteCancel, IInv, CancelInv, RowOf
  <2> QED
    BY <2>1, <2>3, <2>4
<1> QED
  BY <1>1, Invariance, PTL DEF Spec, CancelOnlyRequested
-----------------------------------------------------------------------------
(* The rules of Membership *)

(* A step that Membership allows. *)
RulesStep ==
    [Rules!Next]_<<[u \in UserId |-> ContractOf(u)], [u \in UserId |-> ChargesOf(u)],
                   {u \in UserId : user[u].status = ACTIVE}, confirmed>>

(* The subscription of a row stands as one of five states. *)
LEMMA ContractCases ==
    ASSUME TypeOK, NEW u \in UserId
    PROVE  LET k == user[u].customer IN
           /\ k = None => ContractOf(u) = "none"
           /\ k # None => k \in Customer
           /\ k # None /\ checkout[k] # "paid" => ContractOf(u) = "due"
           /\ k # None /\ checkout[k] = "paid" =>
                 /\ subscription[k] = "none" => ContractOf(u) = "paid"
                 /\ subscription[k] = "active" => ContractOf(u) = "running"
                 /\ subscription[k] = "cancelled" => ContractOf(u) = "ended"
<1>1. user[u].customer \in Customer \cup {None}
  BY DEF TypeOK, Row
<1>2. /\ "none" # "active" /\ "none" # "cancelled" /\ "active" # "cancelled"
      /\ "paid" # "none"
  OBVIOUS
<1> QED
  BY <1>1, <1>2 DEF ContractOf

(* A row keeps its contract when its customer is the same and that         *)
(* customer's session, subscription and renewals are.                      *)
LEMMA SameContract ==
    ASSUME NEW u \in UserId, user'[u].customer = user[u].customer,
           user[u].customer # None =>
              /\ checkout'[user[u].customer] = "paid" <=> checkout[user[u].customer] = "paid"
              /\ subscription'[user[u].customer] = subscription[user[u].customer]
              /\ invoices'[user[u].customer] = invoices[user[u].customer]
    PROVE  ContractOf(u)' = ContractOf(u) /\ ChargesOf(u)' = ChargesOf(u)
  BY DEF ContractOf, ChargesOf

(* A step that changes no row's contract or status, and tells nobody       *)
(* anything, is none of Membership's affair.                               *)
LEMMA NoAffair ==
    ASSUME \A u \in UserId : /\ ContractOf(u)' = ContractOf(u)
                             /\ ChargesOf(u)' = ChargesOf(u)
                             /\ user'[u].status = user[u].status,
           confirmed' = confirmed
    PROVE  RulesStep
  BY DEF RulesStep

(* Steps that leave rows, Stripe and the confirmations alone. *)
LEMMA OtherAffairs ==
    ASSUME UNCHANGED <<user, checkout, subscription, invoices, confirmed>>
    PROVE  RulesStep
  BY SameContract, NoAffair

(* The contract of row a moves, those of the others do not. *)
LEMMA MoveOne ==
    ASSUME NEW a \in UserId, NEW from, NEW to,
           ContractOf(a) \in from, ContractOf(a)' \in to,
           \A v \in UserId \ {a} : ContractOf(v)' = ContractOf(v)
    PROVE  Rules!Move(a, from, to)
<1>1. [u \in UserId |-> ContractOf(u)]' =
         [[u \in UserId |-> ContractOf(u)] EXCEPT ![a] = ContractOf(a)']
  OBVIOUS
<1> QED
  BY <1>1 DEF Rules!Move

(* Only a subscription that has begun has been renewed. *)
Billed == \A k \in Customer : subscription[k] = "none" => invoices[k] = 0

(* No step renews a subscription that has not begun. *)
LEMMA BilledNext ==
    ASSUME IInv, Billed, [Next]_vars
    PROVE  Billed'
<1>1. CASE UNCHANGED <<subscription, invoices>>
  BY <1>1 DEF Billed
<1>2. ASSUME NEW u \in UserId, Pay(u) PROVE Billed'
  BY <1>2 DEF Pay, Billed, IInv, TypeOK
<1>3. ASSUME NEW k \in Customer, Renew(k) PROVE Billed'
  BY <1>3 DEF Renew, Billed, IInv, TypeOK
<1>4. ASSUME NEW w \in Worker, UnsubscribeCancel(w) \/ AdminCancel(w) \/ DeleteCancel(w)
      PROVE  Billed'
  <2>1. \/ UNCHANGED subscription
        \/ \E k : subscription' = [subscription EXCEPT ![k] = "cancelled"]
    BY <1>4 DEF UnsubscribeCancel, AdminCancel, DeleteCancel, StripeCancel
  <2>2. UNCHANGED invoices
    BY <1>4 DEF UnsubscribeCancel, AdminCancel, DeleteCancel
  <2> QED
    BY <2>1, <2>2 DEF Billed, IInv, TypeOK
<1> QED
  BY <1>1, <1>2, <1>3, <1>4, StripeSteps

(* register: customers without a row are nobody's contract. *)
LEMMA RulesCustomer ==
    ASSUME IInv, NEW w \in Worker, RegisterCustomer(w) \/ RegisterSession(w)
    PROVE  RulesStep
<1>1. PICK k \in Customer : /\ checkout[k] \in {"none", "created"}
                            /\ \E s \in {"created", "open"} :
                                  checkout' = [checkout EXCEPT ![k] = s]
  BY DEF RegisterCustomer, RegisterSession, IInv, RegisterInv, Registering
<1>2. \A u \in UserId : user[u].customer # k
  BY <1>1, NoneAssumption DEF IInv, RowInv
<1>3. UNCHANGED <<user, subscription, invoices, confirmed>>
  BY DEF RegisterCustomer, RegisterSession, dbVars, historyVars
<1>4. ASSUME NEW u \in UserId
      PROVE  ContractOf(u)' = ContractOf(u) /\ ChargesOf(u)' = ChargesOf(u)
  <2>1. user[u].customer # None => checkout'[user[u].customer] = checkout[user[u].customer]
    BY <1>1, <1>2 DEF IInv, TypeOK, Row
  <2> QED
    BY <2>1, <1>3, SameContract
<1> QED
  BY <1>3, <1>4, NoAffair

(* register: the row saved owes a payment. *)
LEMMA RulesSave ==
    ASSUME IInv, Billed, NEW w \in Worker, RegisterSave(w)
    PROVE  RulesStep
<1>1. PICK a \in UserId, k \in Customer :
         /\ a = req[w].user /\ k = req[w].cust
         /\ user[a] = NoRow /\ checkout[k] = "open"
  BY DEF IInv, RegisterInv, RegisterSave, Registering
<1>2. /\ \A v \in UserId \ {a} : user'[v] = user[v]
      /\ user'[a].customer = k /\ user'[a].status = PENDING
      /\ UNCHANGED <<checkout, subscription, invoices, confirmed>>
  BY <1>1 DEF RegisterSave, IInv, TypeOK, NoRow, stripeVars, historyVars
<1>3. ContractOf(a) = "none" /\ ContractOf(a)' = "due"
  BY <1>1, <1>2, NoneAssumption DEF ContractOf, NoRow
<1>4. ChargesOf(a) = 0 /\ ChargesOf(a)' = 0
  <2>1. subscription[k] = "none" /\ invoices[k] = 0
    BY <1>1 DEF IInv, StripeInv, Billed
  <2> QED
    BY <1>1, <1>2, <2>1, NoneAssumption DEF ChargesOf, NoRow
<1>5. \A v \in UserId \ {a} : /\ ContractOf(v)' = ContractOf(v)
                              /\ ChargesOf(v)' = ChargesOf(v)
                              /\ user'[v].status = user[v].status
  BY <1>1, <1>2, SameContract DEF IInv, TypeOK
<1>6. Rules!Open(a)
  <2>1. user[a].status # ACTIVE /\ user'[a].status # ACTIVE
    BY <1>1, <1>2 DEF NoRow, ABSENT, PENDING, ACTIVE
  <2>2. Rules!Move(a, {"none"}, {"due"})
    BY <1>1, <1>3, <1>5, MoveOne
  <2>3. /\ \A v \in UserId : ChargesOf(v)' = ChargesOf(v)
        /\ \A v \in UserId : user'[v].status = ACTIVE <=> user[v].status = ACTIVE
    BY <1>4, <1>5, <2>1
  <2> QED
    BY <1>1, <1>2, <2>1, <2>2, <2>3 DEF Rules!Open
<1> QED
  BY <1>1, <1>6 DEF RulesStep, Rules!Next

(* register for a free campaign, and add_user: a row without a customer    *)
(* joins.                                                                  *)
LEMMA RulesFree ==
    ASSUME IInv, NEW a \in UserId, user[a] = NoRow,
           NEW e, NEW c,
           user' = [user EXCEPT ![a] = [NoRow EXCEPT !.email = e, !.course = c,
                                                     !.status = ACTIVE]],
           UNCHANGED <<stripeVars, confirmed>>
    PROVE  RulesStep
<1>1. /\ user'[a].customer = user[a].customer /\ user[a].customer = None
      /\ user'[a].status = ACTIVE
      /\ \A v \in UserId \ {a} : user'[v] = user[v]
  BY DEF IInv, TypeOK, NoRow
<1>2. \A u \in UserId : ContractOf(u)' = ContractOf(u) /\ ChargesOf(u)' = ChargesOf(u)
  BY <1>1, SameContract DEF stripeVars
<1>3. ContractOf(a) # "due"
  BY <1>1 DEF ContractOf
<1>4. Rules!Join(a)
  BY <1>1, <1>2, <1>3 DEF Rules!Join
<1> QED
  BY <1>4 DEF RulesStep, Rules!Next

(* Stripe: the row that pays is the only one of its customer. *)
LEMMA RulesPay ==
    ASSUME IInv, NEW a \in UserId, Pay(a)
    PROVE  RulesStep
<1> DEFINE k == user[a].customer
<1>1. /\ k # None /\ k \in Customer /\ checkout[k] = "open"
      /\ checkout' = [checkout EXCEPT ![k] = "paid"]
      /\ UNCHANGED <<user, invoices, confirmed>>
  BY DEF Pay, IInv, TypeOK, Row, dbVars, historyVars
<1>2. subscription[k] = "none"
  BY <1>1 DEF IInv, StripeInv, TypeOK
<1>3. \/ subscription' = subscription
      \/ subscription' = [subscription EXCEPT ![k] = "active"]
  BY DEF Pay
<1>4. ContractOf(a) = "due" /\ ContractOf(a)' \in {"paid", "running"}
  BY <1>1, <1>2, <1>3 DEF ContractOf, IInv, TypeOK
<1>5. \A v \in UserId \ {a} : ContractOf(v)' = ContractOf(v)
  <2> SUFFICES ASSUME NEW v \in UserId \ {a}
               PROVE  ContractOf(v)' = ContractOf(v)
    OBVIOUS
  <2>1. user[v].customer # k
    BY <1>1 DEF IInv, Safe, OneRowPerCustomer
  <2>2. user[v].customer # None =>
           /\ checkout'[user[v].customer] = checkout[user[v].customer]
           /\ subscription'[user[v].customer] = subscription[user[v].customer]
    BY <1>1, <1>3, <2>1 DEF IInv, TypeOK, Row
  <2> QED
    BY <1>1, <2>2, SameContract
<1>6. \A u \in UserId : ChargesOf(u)' = ChargesOf(u)
  BY <1>1 DEF ChargesOf
<1>7. Rules!Move(a, {"due"}, {"paid", "running"})
  BY <1>4, <1>5, MoveOne
<1>8. Rules!Pay(a)
  BY <1>1, <1>6, <1>7 DEF Rules!Pay
<1> QED
  BY <1>8 DEF RulesStep, Rules!Next

(* Stripe: what is renewed runs, and belongs to one row. *)
LEMMA RulesRenew ==
    ASSUME IInv, NEW k \in Customer, Renew(k)
    PROVE  RulesStep
<1>1. PICK a \in UserId : user[a].customer = k
  BY DEF Renew, IInv, StripeInv, RowOf
<1>2. /\ subscription[k] = "active" /\ checkout[k] = "paid"
      /\ invoices' = [invoices EXCEPT ![k] = invoices[k] + 1]
      /\ UNCHANGED <<user, checkout, subscription, confirmed>>
  BY DEF Renew, IInv, StripeInv, dbVars, historyVars
<1>3. ContractOf(a) = "running"
  BY <1>1, <1>2, ContractCases, NoneAssumption DEF IInv
<1>4. \A u \in UserId : ContractOf(u)' = ContractOf(u)
  BY <1>2 DEF ContractOf
<1>5. ChargesOf(a)' = ChargesOf(a) + 1
  BY <1>1, <1>2, NoneAssumption DEF ChargesOf, IInv, TypeOK
<1>6. ASSUME NEW v \in UserId \ {a}
      PROVE  ChargesOf(v)' = ChargesOf(v)
  <2>1. user[v].customer # k
    BY <1>1, NoneAssumption DEF IInv, Safe, OneRowPerCustomer
  <2> QED
    BY <1>2, <2>1 DEF ChargesOf, IInv, TypeOK, Row
<1>7. Rules!Charge(a)
  <2>1. [u \in UserId |-> ChargesOf(u)]' =
           [[u \in UserId |-> ChargesOf(u)] EXCEPT ![a] = @ + 1]
    BY <1>5, <1>6
  <2> QED
    BY <1>2, <1>3, <1>4, <2>1 DEF Rules!Charge
<1> QED
  BY <1>7 DEF RulesStep, Rules!Next

(* A cancellation ends the subscription of one row. *)
LEMMA RulesCancel ==
    ASSUME IInv, NEW k \in Customer, StripeCancel(k),
           UNCHANGED <<user, checkout, invoices, confirmed>>
    PROVE  RulesStep
<1>1. PICK a \in UserId : user[a].customer = k
  BY DEF StripeCancel, IInv, StripeInv, RowOf
<1>2. /\ subscription[k] = "active" /\ checkout[k] = "paid"
      /\ subscription' = [subscription EXCEPT ![k] = "cancelled"]
  BY DEF StripeCancel, IInv, StripeInv
<1>3. ContractOf(a) = "running" /\ ContractOf(a)' = "ended"
  BY <1>1, <1>2, NoneAssumption DEF ContractOf, IInv, TypeOK
<1>4. \A v \in UserId \ {a} : ContractOf(v)' = ContractOf(v)
  <2> SUFFICES ASSUME NEW v \in UserId \ {a}
               PROVE  ContractOf(v)' = ContractOf(v)
    OBVIOUS
  <2>1. user[v].customer # k
    BY <1>1, NoneAssumption DEF IInv, Safe, OneRowPerCustomer
  <2>2. user[v].customer # None =>
           subscription'[user[v].customer] = subscription[user[v].customer]
    BY <1>2, <2>1 DEF IInv, TypeOK, Row
  <2> QED
    BY <2>2, SameContract
<1>5. \A u \in UserId : ChargesOf(u)' = ChargesOf(u)
  BY DEF ChargesOf
<1>6. Rules!Move(a, {"running"}, {"ended"})
  BY <1>3, <1>4, MoveOne
<1>7. Rules!End(a)
  BY <1>5, <1>6 DEF Rules!End
<1> QED
  BY <1>7 DEF RulesStep, Rules!Next

(* The subscriptions a request cancels are subscriptions of customers. *)
LEMMA RulesRequests ==
    ASSUME IInv, NEW w \in Worker,
           UnsubscribeCancel(w) \/ AdminCancel(w) \/ DeleteCancel(w)
    PROVE  RulesStep
<1>1. UNCHANGED <<user, checkout, invoices, confirmed>>
  BY DEF UnsubscribeCancel, AdminCancel, DeleteCancel, dbVars, historyVars
<1>2. req[w].subs \subseteq Customer
  BY DEF IInv, TypeOK, Request
<1>3. (\E k \in Customer : StripeCancel(k)) \/ UNCHANGED subscription
  BY <1>2 DEF UnsubscribeCancel, AdminCancel, DeleteCancel
<1> QED
  BY <1>1, <1>3, RulesCancel, OtherAffairs

(* Assigning a status changes no contract. *)
LEMMA StatusAffair ==
    ASSUME IInv, NEW a \in UserId, NEW seen, NEW s \in {PENDING, ACTIVE},
           SetStatus(a, seen, s), UNCHANGED stripeVars
    PROVE  /\ \A u \in UserId : ContractOf(u)' = ContractOf(u) /\ ChargesOf(u)' = ChargesOf(u)
           /\ \A v \in UserId \ {a} : user'[v].status = user[v].status
           /\ user'[a].status \in {user[a].status, s}
<1>1. /\ \A u \in UserId : user'[u].customer = user[u].customer
      /\ \A v \in UserId \ {a} : user'[v].status = user[v].status
      /\ user'[a].status \in {user[a].status, s}
  BY DEF SetStatus, IInv, TypeOK, Row
<1> QED
  BY <1>1, SameContract DEF stripeVars

(* handle_webhook: the row that joins has been paid for. *)
LEMMA RulesJoin ==
    ASSUME IInv, NEW w \in Worker, WebhookPaid(w)
    PROVE  RulesStep
<1>1. PICK a \in UserId :
         /\ a = req[w].user /\ req[w].evt.cust \in Customer
         /\ user[a].customer = req[w].evt.cust
         /\ checkout[req[w].evt.cust] = "paid"
  BY DEF WebhookPaid, IInv, HookInv, Hooked, Event
<1>2. SetStatus(a, req[w].seen, ACTIVE) /\ UNCHANGED <<stripeVars, confirmed>>
  BY <1>1 DEF WebhookPaid
<1>3. ContractOf(a) # "due"
  BY <1>1, NoneAssumption DEF ContractOf
<1>4. /\ \A u \in UserId : ContractOf(u)' = ContractOf(u) /\ ChargesOf(u)' = ChargesOf(u)
      /\ \A v \in UserId \ {a} : user'[v].status = user[v].status
      /\ user'[a].status \in {user[a].status, ACTIVE}
  BY <1>1, <1>2, StatusAffair
<1>5. CASE user'[a].status = ACTIVE
  <2>1. Rules!Join(a)
    BY <1>1, <1>2, <1>3, <1>4, <1>5 DEF Rules!Join
  <2> QED
    BY <1>1, <2>1 DEF RulesStep, Rules!Next
<1>6. CASE user'[a].status = user[a].status
  BY <1>2, <1>4, <1>6, NoAffair
<1> QED
  BY <1>4, <1>5, <1>6

(* unsubscribeuser: the row leaves, or had been seen to have left. *)
LEMMA RulesLeave ==
    ASSUME IInv, NEW w \in Worker, AdminCommit(w)
    PROVE  RulesStep
<1>1. PICK a \in UserId : a = req[w].user
  BY DEF AdminCommit, IInv, CancelInv
<1>2. SetStatus(a, req[w].seen, PENDING) /\ UNCHANGED <<stripeVars, confirmed>>
  BY <1>1 DEF AdminCommit, historyVars
<1>3. /\ \A u \in UserId : ContractOf(u)' = ContractOf(u) /\ ChargesOf(u)' = ChargesOf(u)
      /\ \A v \in UserId \ {a} : user'[v].status = user[v].status
      /\ user'[a].status \in {user[a].status, PENDING}
  BY <1>1, <1>2, StatusAffair
<1>4. CASE user'[a].status = PENDING
  <2>1. Rules!Leave(a)
    BY <1>1, <1>2, <1>3, <1>4 DEF Rules!Leave, PENDING, ACTIVE
  <2> QED
    BY <1>1, <2>1 DEF RulesStep, Rules!Next
<1>5. CASE user'[a].status = user[a].status
  BY <1>2, <1>3, <1>5, NoAffair
<1> QED
  BY <1>3, <1>4, <1>5

(* unsubscribe: the owner is told of an end that has come. *)
LEMMA RulesTell ==
    ASSUME IInv, NEW w \in Worker, UnsubscribeCommit(w)
    PROVE  RulesStep
<1>1. PICK a \in UserId :
         /\ a = req[w].user /\ user[a].customer # None
         /\ subscription[user[a].customer] = "cancelled"
  BY DEF UnsubscribeCommit, IInv, CancelInv
<1>2. /\ SetStatus(a, req[w].seen, PENDING) /\ UNCHANGED stripeVars
      /\ confirmed' = confirmed \cup {a}
  BY <1>1 DEF UnsubscribeCommit
<1>3. ContractOf(a) = "ended"
  <2>1. user[a].customer \in Customer
    BY <1>1 DEF IInv, TypeOK, Row
  <2>2. checkout[user[a].customer] = "paid"
    BY <1>1, <2>1 DEF IInv, StripeInv
  <2> QED
    BY <1>1, <2>2, ContractCases DEF IInv
<1>4. /\ \A u \in UserId : ContractOf(u)' = ContractOf(u) /\ ChargesOf(u)' = ChargesOf(u)
      /\ \A v \in UserId \ {a} : user'[v].status = user[v].status
      /\ user'[a].status \in {user[a].status, PENDING}
  BY <1>1, <1>2, StatusAffair
<1>5. {u \in UserId : user'[u].status = ACTIVE} \in
         {{u \in UserId : user[u].status = ACTIVE},
          {u \in UserId : user[u].status = ACTIVE} \ {a}}
  <2>1. CASE user'[a].status = user[a].status
    BY <1>4, <2>1
  <2>2. CASE user'[a].status = PENDING
    BY <1>4, <2>2 DEF PENDING, ACTIVE
  <2> QED
    BY <1>4, <2>1, <2>2
<1>6. Rules!Tell(a)
  BY <1>2, <1>3, <1>4, <1>5 DEF Rules!Tell
<1> QED
  BY <1>1, <1>6 DEF RulesStep, Rules!Next

(* handle_webhook: the id of the subscription changes no contract. *)
LEMMA RulesSubscribed ==
    ASSUME IInv, NEW w \in Worker, WebhookSubscribed(w)
    PROVE  RulesStep
<1>1. /\ \A u \in UserId : user'[u].customer = user[u].customer
                           /\ user'[u].status = user[u].status
      /\ UNCHANGED <<checkout, subscription, invoices, confirmed>>
  BY DEF WebhookSubscribed, IInv, TypeOK, Row, stripeVars, historyVars
<1> QED
  BY <1>1, SameContract, NoAffair

(* Every step of the program keeps the rules. *)
LEMMA RulesNext ==
    ASSUME IInv, Billed, [Next]_vars
    PROVE  RulesStep
<1>1. ASSUME NEW w \in Worker, Begin(w) \/ Crash(w) PROVE RulesStep
  BY <1>1, OtherAffairs DEF Begin, Crash, RegisterCheck, WebhookLoad, UnsubscribeLoad,
     AdminLoad, DeleteLoad, dbVars, stripeVars, historyVars
<1>2. ASSUME NEW w \in Worker, RegisterFree(w) PROVE RulesStep
  <2>1. req[w].user \in UserId /\ user[req[w].user] = NoRow
    BY <1>2 DEF RegisterFree, IInv, RegisterInv, Registering
  <2> QED
    BY <1>2, <2>1, RulesFree DEF RegisterFree
<1>3. ASSUME NEW u \in UserId, NEW e \in Email, NEW c \in Course, AddUser(u, e, c)
      PROVE  RulesStep
  <2>1. user[u] = NoRow
    BY <1>3 DEF AddUser, FreshId, IInv, RowInv
  <2> QED
    BY <1>3, <2>1, RulesFree DEF AddUser
<1>4. ASSUME NEW w \in Worker, WebhookTransfer(w) \/ WebhookAck(w) \/ DeleteCommit(w)
                                \/ StripeError(w)
      PROVE  RulesStep
  BY <1>4, OtherAffairs DEF WebhookTransfer, WebhookAck, DeleteCommit, StripeError,
     dbVars, stripeVars, historyVars
<1>5. ASSUME NEW w \in Worker, Serve(w) PROVE RulesStep
  BY <1>2, <1>4, <1>5, RulesCustomer, RulesSave, RulesJoin, RulesSubscribed,
     RulesRequests, RulesTell, RulesLeave DEF Serve
<1>6. ASSUME NEW c \in Course, NEW o \in {"free", "priced"}, Customize(c, o)
      PROVE  RulesStep
  BY <1>6, OtherAffairs DEF Customize, stripeVars, historyVars
<1>7. CASE UNCHANGED vars
  BY <1>7, OtherAffairs DEF vars, dbVars, stripeVars, historyVars
<1> QED
  BY <1>1, <1>3, <1>5, <1>6, <1>7, RulesPay, RulesRenew DEF Next

(* The program implements Membership: each step is the affair of one row,  *)
(* only a paid row joins, only a running subscription is charged, and an   *)
(* end that was confirmed to its owner is final.                           *)
THEOREM ImplementsMembership == Spec => RulesKept
<1>1. Init => Rules!Init
  BY DEF Init, Rules!Init, ContractOf, ChargesOf, NoRow, ABSENT, ACTIVE
<1>2. Init => Billed
  BY DEF Init, Billed
<1>3. IInv /\ Billed /\ [Next]_vars => Billed'
  BY BilledNext
<1>4. IInv /\ Billed /\ [Next]_vars => RulesStep
  BY RulesNext
<1> QED
  BY <1>1, <1>2, <1>3, <1>4, Invariance, PTL DEF Spec, RulesKept, Rules!Spec, RulesStep
=============================================================================
