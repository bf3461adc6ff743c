---------------------------- MODULE Subscriptions ----------------------------
(***************************************************************************)
(* The subscription life cycle: a visitor registers for a campaign, pays   *)
(* at Stripe, is activated by Stripe's webhook, and leaves through the     *)
(* link in a mail, through the administrator, or with the whole campaign.  *)
(*                                                                         *)
(* Every HTTP request is served by a worker (a server thread or process).  *)
(* A request is cut where another request may run in between: at each      *)
(* commit and at each call to Stripe.  What a worker holds in between is   *)
(* what its SQLAlchemy session loaded, and may be stale.                   *)
(***************************************************************************)
EXTENDS Integers, FiniteSets

CONSTANTS
    UserId,       \* primary keys of the table "user"
    Customer,     \* Stripe customer ids; a customer's subscription has the same name
    Email,
    Course,
    Daily,        \* the courses of type 1, sold by monthly subscription
    Worker,       \* requests the server runs at the same time
    None,         \* SQL NULL, Python None
    MaxInvoices,  \* bound: renewals a subscription goes through
    MayCrash      \* whether a worker may die, or a commit fail, in mid-request

ASSUME NoneAssumption ==
    None \notin UserId \cup Customer \cup Email \cup Course
ASSUME DailyAssumption == Daily \subseteq Course
ASSUME BoundAssumption == MaxInvoices \in Nat
ASSUME CrashAssumption == MayCrash \in BOOLEAN

(* User.status: no row; 1 payment pending or unsubscribed; 2 subscribed. *)
ABSENT  == 0
PENDING == 1
ACTIVE  == 2

VARIABLES
    (* the database *)
    user,          \* UserId -> row of the table "user"
    offer,         \* Course -> how its price columns stand
    courseStatus,  \* Course -> 1 active, 0 deleted
    (* the server *)
    req,           \* Worker -> the request it is serving
    (* Stripe *)
    checkout,      \* Customer -> its checkout session
    subscription,  \* Customer -> its subscription
    invoices,      \* Customer -> renewals invoiced so far
    pending,       \* webhook events Stripe has not seen acknowledged
    transfers,     \* events the super admin's share was transferred for
    (* history *)
    everActive,    \* rows that have had status 2
    overpaid,      \* events the share was transferred for more than once
    confirmed      \* rows whose owner was shown "Te has dado de baja exitosamente"

dbVars      == <<user, offer, courseStatus>>
stripeVars  == <<checkout, subscription, invoices, pending, transfers>>
historyVars == <<everActive, overpaid, confirmed>>
vars == <<dbVars, req, stripeVars, historyVars>>

(* Course.price and Course.free: not set yet, no price to pay, a price. *)
Offer == {"unpriced", "free", "priced"}

EventType == {"checkout.session.completed", "customer.subscription.created",
              "invoice.payment_succeeded"}

Event == [type : EventType, cust : Customer, n : 0..MaxInvoices]

SessionCompleted(k)    == [type |-> "checkout.session.completed", cust |-> k, n |-> 0]
SubscriptionCreated(k) == [type |-> "customer.subscription.created", cust |-> k, n |-> 0]
PaymentSucceeded(k, i) == [type |-> "invoice.payment_succeeded", cust |-> k, n |-> i]

Row == [email    : Email \cup {None},
        course   : Course \cup {None},
        customer : Customer \cup {None},
        sub      : Customer \cup {None},    \* payment_intent_id
        status   : {ABSENT, PENDING, ACTIVE}]

NoRow == [email |-> None, course |-> None, customer |-> None,
          sub |-> None, status |-> ABSENT]

PC == {"idle", "free", "paid", "customer", "session",     \* register
       "hook", "transfer", "ack",                         \* handle_webhook
       "cancel", "unsub",                                 \* unsubscribe
       "admin_cancel", "admin_unsub",                     \* unsubscribeuser
       "delete"}                                          \* delete_campaign

(* The locals of a request that survive a step. *)
Request == [pc     : PC,
            user   : UserId \cup {None},
            email  : Email \cup {None},
            course : Course \cup {None},
            cust   : Customer \cup {None},
            evt    : Event \cup {None},
            seen   : {ABSENT, PENDING, ACTIVE},   \* status as loaded
            subs   : SUBSET Customer]             \* subscriptions to cancel

Idle == [pc |-> "idle", user |-> None, email |-> None, course |-> None,
         cust |-> None, evt |-> None, seen |-> ABSENT, subs |-> {}]

TypeOK ==
    /\ user \in [UserId -> Row]
    /\ offer \in [Course -> Offer]
    /\ courseStatus \in [Course -> {0, 1}]
    /\ req \in [Worker -> Request]
    /\ checkout \in [Customer -> {"none", "created", "open", "paid"}]
    /\ subscription \in [Customer -> {"none", "active", "cancelled"}]
    /\ invoices \in [Customer -> 0..MaxInvoices]
    /\ pending \in SUBSET Event
    /\ transfers \in SUBSET Event
    /\ everActive \in SUBSET UserId
    /\ overpaid \in SUBSET Event
    /\ confirmed \in SUBSET UserId

Init ==
    /\ user = [u \in UserId |-> NoRow]
    /\ offer = [c \in Course |-> "unpriced"]
    /\ courseStatus = [c \in Course |-> 1]
    /\ req = [w \in Worker |-> Idle]
    /\ checkout = [k \in Customer |-> "none"]
    /\ subscription = [k \in Customer |-> "none"]
    /\ invoices = [k \in Customer |-> 0]
    /\ pending = {}
    /\ transfers = {}
    /\ everActive = {}
    /\ overpaid = {}
    /\ confirmed = {}

-----------------------------------------------------------------------------
(* Helpers *)

(* AUTO_INCREMENT: a key neither in the table nor taken by a request that  *)
(* is about to insert.                                                     *)
FreshId(u) ==
    /\ user[u].status = ABSENT
    /\ \A w \in Worker : req[w].user # u

(* SQLAlchemy writes a column only if the new value differs from the one   *)
(* its session loaded: seen is the loaded status, s the assigned one.      *)
SetStatus(u, seen, s) ==
    user' = IF seen = s THEN user ELSE [user EXCEPT ![u].status = s]

(* Worker w goes on with request r. *)
Continue(w, r) == req' = [req EXCEPT ![w] = r]

(* stripe.Subscription.delete: fails on an id that is unknown or already   *)
(* cancelled.                                                              *)
StripeCancel(k) ==
    /\ subscription[k] = "active"
    /\ subscription' = [subscription EXCEPT ![k] = "cancelled"]

(* The columns of the campaign that decide whether registering costs       *)
(* money; register fails on a campaign without a price.                    *)
Customize(c, o) ==
    /\ offer' = [offer EXCEPT ![c] = o]
    /\ UNCHANGED <<user, courseStatus, req, stripeVars, historyVars>>

-----------------------------------------------------------------------------
(* register(code), POST *)

(* The campaign is loaded and an active row with the same address looked   *)
(* up; from here on the request works with what it loaded.                 *)
RegisterCheck(w, u, e, c) ==
    /\ req[w].pc = "idle"
    /\ FreshId(u)
    /\ offer[c] # "unpriced"
    /\ ~ \E v \in UserId : /\ user[v].email = e
                           /\ user[v].course = c
                           /\ user[v].status = ACTIVE
    /\ Continue(w, [Idle EXCEPT !.pc = IF offer[c] = "free" THEN "free" ELSE "paid",
                                !.user = u, !.email = e, !.course = c])
    /\ UNCHANGED <<dbVars, stripeVars, historyVars>>

RegisterFree(w) ==
    LET r == req[w] IN
    /\ r.pc = "free"
    /\ user' = [user EXCEPT ![r.user] =
                   [NoRow EXCEPT !.email = r.email, !.course = r.course,
                                 !.status = ACTIVE]]
    /\ everActive' = everActive \cup {r.user}
    /\ Continue(w, Idle)
    /\ UNCHANGED <<offer, courseStatus, stripeVars, overpaid, confirmed>>

(* Mutant: the customer of an earlier registration of the address is reused. *)
ReuseCustomer(w) ==
    /\ req[w].pc = "paid"
    /\ \E k \in Customer :
        /\ \/ checkout[k] = "none"
           \/ \E v \in UserId : user[v].email = req[w].email /\ user[v].customer = k
        /\ checkout' = [checkout EXCEPT ![k] = IF @ = "none" THEN "created" ELSE @]
        /\ Continue(w, [req[w] EXCEPT !.pc = "customer", !.cust = k])
    /\ UNCHANGED <<dbVars, subscription, invoices, pending, transfers, historyVars>>

(* create_customer: a new Stripe customer for each registration. *)
RegisterCustomer(w) ==
    /\ req[w].pc = "paid"
    /\ \E k \in Customer :
        /\ checkout[k] = "none"
        /\ checkout' = [checkout EXCEPT ![k] = "created"]
        /\ Continue(w, [req[w] EXCEPT !.pc = "customer", !.cust = k])
    /\ UNCHANGED <<dbVars, subscription, invoices, pending, transfers, historyVars>>

(* The prices and the checkout session; a failure in any of these calls    *)
(* ends in error 3 (StripeError below).                                    *)
RegisterSession(w) ==
    /\ req[w].pc = "customer"
    /\ checkout' = [checkout EXCEPT ![req[w].cust] = "open"]
    /\ Continue(w, [req[w] EXCEPT !.pc = "session"])
    /\ UNCHANGED <<dbVars, subscription, invoices, pending, transfers, historyVars>>

(* Mutant: the row is saved as subscribed before the visitor has paid. *)
SaveAsActive(w) ==
    LET r == req[w] IN
    /\ r.pc = "session"
    /\ user' = [user EXCEPT ![r.user] =
                   [NoRow EXCEPT !.email = r.email, !.course = r.course,
                                 !.customer = r.cust, !.status = ACTIVE]]
    /\ Continue(w, Idle)
    /\ UNCHANGED <<offer, courseStatus, stripeVars, historyVars>>

(* The row is saved as "payment pending" and the visitor sent to Stripe. *)
RegisterSave(w) ==
    LET r == req[w] IN
    /\ r.pc = "session"
    /\ user' = [user EXCEPT ![r.user] =
                   [NoRow EXCEPT !.email = r.email, !.course = r.course,
                                 !.customer = r.cust, !.status = PENDING]]
    /\ Continue(w, Idle)
    /\ UNCHANGED <<offer, courseStatus, stripeVars, historyVars>>

-----------------------------------------------------------------------------
(* Stripe *)

(* The visitor, redirected once the row is saved, pays.  A subscription    *)
(* starts for a daily course; its first invoice is paid with the session.  *)
Pay(u) ==
    LET k == user[u].customer IN
    /\ k # None
    /\ checkout[k] = "open"
    /\ checkout' = [checkout EXCEPT ![k] = "paid"]
    /\ IF user[u].course \in Daily
       THEN /\ subscription' = [subscription EXCEPT ![k] = "active"]
            /\ pending' = pending \cup {SessionCompleted(k), SubscriptionCreated(k),
                                        PaymentSucceeded(k, 0)}
       ELSE /\ pending' = pending \cup {SessionCompleted(k)}
            /\ UNCHANGED subscription
    /\ UNCHANGED <<dbVars, req, invoices, transfers, historyVars>>

(* Stripe charges an active subscription for another month. *)
Renew(k) ==
    /\ subscription[k] = "active"
    /\ invoices[k] < MaxInvoices
    /\ invoices' = [invoices EXCEPT ![k] = @ + 1]
    /\ pending' = pending \cup {PaymentSucceeded(k, invoices[k] + 1)}
    /\ UNCHANGED <<dbVars, req, checkout, subscription, transfers, historyVars>>

-----------------------------------------------------------------------------
(* handle_webhook.  Stripe delivers an event again until it is answered    *)
(* with 2xx, in no particular order, and may deliver it twice at a time.   *)

(* Mutant: the event is acknowledged when it is received. *)
AckOnReceipt(w, ev) ==
    /\ req[w].pc = "idle"
    /\ ev \in pending
    /\ \E u \in UserId :
        /\ user[u].customer = ev.cust
        /\ Continue(w, [Idle EXCEPT !.pc = "hook", !.user = u, !.evt = ev,
                                    !.seen = user[u].status])
    /\ pending' = pending \ {ev}
    /\ UNCHANGED <<dbVars, checkout, subscription, invoices, transfers, historyVars>>

(* Mutant: the lookup finds only rows that are subscribed already. *)
LoadActiveOnly(w, ev) ==
    /\ req[w].pc = "idle"
    /\ ev \in pending
    /\ \E u \in UserId :
        /\ user[u].customer = ev.cust
        /\ user[u].status = ACTIVE
        /\ Continue(w, [Idle EXCEPT !.pc = "hook", !.user = u, !.evt = ev,
                                    !.seen = user[u].status])
    /\ UNCHANGED <<dbVars, stripeVars, historyVars>>

(* The row is looked up by customer id.  The answers 400 and 404 before    *)
(* the first commit change nothing and leave the event pending.            *)
WebhookLoad(w, ev) ==
    /\ req[w].pc = "idle"
    /\ ev \in pending
    /\ \E u \in UserId :
        /\ user[u].customer = ev.cust
        /\ Continue(w, [Idle EXCEPT !.pc = "hook", !.user = u, !.evt = ev,
                                    !.seen = user[u].status])
    /\ UNCHANGED <<dbVars, stripeVars, historyVars>>

WebhookPaid(w) ==
    LET r == req[w] IN
    /\ r.pc = "hook"
    /\ r.evt.type # "customer.subscription.created"
    /\ SetStatus(r.user, r.seen, ACTIVE)
    /\ everActive' = IF r.seen = ACTIVE THEN everActive ELSE everActive \cup {r.user}
    /\ Continue(w, [r EXCEPT !.pc = "transfer"])
    /\ UNCHANGED <<offer, courseStatus, stripeVars, overpaid, confirmed>>

(* Mutant: the event is stored in the column, not the id it carries. *)
StoreEvent(w) ==
    LET r == req[w] IN
    /\ r.pc = "hook"
    /\ r.evt.type = "customer.subscription.created"
    /\ user' = [user EXCEPT ![r.user].sub = r.evt]
    /\ Continue(w, [r EXCEPT !.pc = "ack"])
    /\ UNCHANGED <<offer, courseStatus, stripeVars, historyVars>>

(* Mutant: the id is stored only in a row that is subscribed already. *)
StoreIfActive(w) ==
    LET r == req[w] IN
    /\ r.pc = "hook"
    /\ r.evt.type = "customer.subscription.created"
    /\ user' = IF r.seen = ACTIVE THEN [user EXCEPT ![r.user].sub = r.evt.cust]
               ELSE user
    /\ Continue(w, [r EXCEPT !.pc = "ack"])
    /\ UNCHANGED <<offer, courseStatus, stripeVars, historyVars>>

WebhookSubscribed(w) ==
    LET r == req[w] IN
    /\ r.pc = "hook"
    /\ r.evt.type = "customer.subscription.created"
    /\ user' = [user EXCEPT ![r.user].sub = r.evt.cust]
    /\ Continue(w, [r EXCEPT !.pc = "ack"])
    /\ UNCHANGED <<offer, courseStatus, stripeVars, historyVars>>

(* Mutant: the share is transferred before the commit. *)
TransferFirst(w) ==
    /\ \/ req[w].pc = "hook" /\ req[w].evt.type # "customer.subscription.created"
       \/ req[w].pc = "transfer"
    /\ transfers' = transfers \cup {req[w].evt}
    /\ overpaid' = overpaid \cup (transfers \cap {req[w].evt})
    /\ Continue(w, [req[w] EXCEPT !.pc = IF @ = "hook" THEN "hook" ELSE "ack"])
    /\ UNCHANGED <<dbVars, checkout, subscription, invoices, pending, everActive, confirmed>>

(* Ten percent go to the super admin; nothing tells whether they already   *)
(* have.  A failed transfer, or an event without amount_total, is answered *)
(* with 500 (StripeError below).                                           *)
WebhookTransfer(w) ==
    /\ req[w].pc = "transfer"
    /\ transfers' = transfers \cup {req[w].evt}
    /\ overpaid' = overpaid \cup (transfers \cap {req[w].evt})
    /\ Continue(w, [req[w] EXCEPT !.pc = "ack"])
    /\ UNCHANGED <<dbVars, checkout, subscription, invoices, pending, everActive, confirmed>>

WebhookAck(w) ==
    /\ req[w].pc = "ack"
    /\ pending' = pending \ {req[w].evt}
    /\ Continue(w, Idle)
    /\ UNCHANGED <<dbVars, checkout, subscription, invoices, transfers, historyVars>>

-----------------------------------------------------------------------------
(* unsubscribe(user, campaign), POST: the link in every mail *)

UnsubscribeLoad(w, u) ==
    /\ req[w].pc = "idle"
    /\ user[u].status # ABSENT
    /\ Continue(w, [Idle EXCEPT !.pc = "cancel", !.user = u, !.seen = user[u].status,
                                !.subs = {user[u].sub} \ {None}])
    /\ UNCHANGED <<dbVars, stripeVars, historyVars>>

(* Mutant: the result of unsubscribe_user is not looked at. *)
IgnoreResult(w) ==
    /\ req[w].pc = "cancel"
    /\ \/ \E k \in req[w].subs : StripeCancel(k)
       \/ UNCHANGED subscription
    /\ Continue(w, [req[w] EXCEPT !.pc = "unsub"])
    /\ UNCHANGED <<dbVars, checkout, invoices, pending, transfers, historyVars>>

(* unsubscribe_user returned True; False ends the request (StripeError). *)
UnsubscribeCancel(w) ==
    /\ req[w].pc = "cancel"
    /\ \E k \in req[w].subs : StripeCancel(k)
    /\ Continue(w, [req[w] EXCEPT !.pc = "unsub"])
    /\ UNCHANGED <<dbVars, checkout, invoices, pending, transfers, historyVars>>

UnsubscribeCommit(w) ==
    LET r == req[w] IN
    /\ r.pc = "unsub"
    /\ SetStatus(r.user, r.seen, PENDING)
    /\ confirmed' = confirmed \cup {r.user}
    /\ Continue(w, Idle)
    /\ UNCHANGED <<offer, courseStatus, stripeVars, everActive, overpaid>>

-----------------------------------------------------------------------------
(* unsubscribeuser(user_id, campaign): the administrator removes a user *)

(* Mutant: the subscriptions are looked up by the address of the row. *)
AdminLoadByEmail(w, u) ==
    LET subs == {user[v].sub : v \in {v \in UserId : user[v].email = user[u].email}}
    IN  /\ req[w].pc = "idle"
        /\ user[u].status # ABSENT
        /\ Continue(w, [Idle EXCEPT !.pc = IF user[u].sub = None THEN "admin_unsub"
                                           ELSE "admin_cancel",
                                    !.user = u, !.seen = user[u].status,
                                    !.subs = subs \ {None}])
        /\ UNCHANGED <<dbVars, stripeVars, historyVars>>

AdminLoad(w, u) ==
    /\ req[w].pc = "idle"
    /\ user[u].status # ABSENT
    /\ Continue(w, [Idle EXCEPT !.pc = IF user[u].sub = None THEN "admin_unsub"
                                       ELSE "admin_cancel",
                                !.user = u, !.seen = user[u].status,
                                !.subs = {user[u].sub} \ {None}])
    /\ UNCHANGED <<dbVars, stripeVars, historyVars>>

(* The result of unsubscribe_user is not looked at. *)
AdminCancel(w) ==
    /\ req[w].pc = "admin_cancel"
    /\ \/ \E k \in req[w].subs : StripeCancel(k)
       \/ UNCHANGED subscription
    /\ Continue(w, [req[w] EXCEPT !.pc = "admin_unsub"])
    /\ UNCHANGED <<dbVars, checkout, invoices, pending, transfers, historyVars>>

AdminCommit(w) ==
    /\ req[w].pc = "admin_unsub"
    /\ SetStatus(req[w].user, req[w].seen, PENDING)
    /\ Continue(w, Idle)
    /\ UNCHANGED <<offer, courseStatus, stripeVars, historyVars>>

-----------------------------------------------------------------------------
(* delete_campaign(campaign) and add_user *)

DeleteLoad(w, c) ==
    LET members == {u \in UserId : user[u].course = c /\ user[u].status = ACTIVE}
    IN  /\ req[w].pc = "idle"
        /\ Continue(w, [Idle EXCEPT !.pc = "delete", !.course = c,
                                    !.subs = {user[u].sub : u \in members} \ {None}])
        /\ UNCHANGED <<dbVars, stripeVars, historyVars>>

(* One turn of the loop; failures are only counted. *)
DeleteCancel(w) ==
    /\ req[w].pc = "delete"
    /\ \E k \in req[w].subs :
        /\ \/ StripeCancel(k)
           \/ UNCHANGED subscription
        /\ Continue(w, [req[w] EXCEPT !.subs = @ \ {k}])
    /\ UNCHANGED <<dbVars, checkout, invoices, pending, transfers, historyVars>>

DeleteCommit(w) ==
    /\ req[w].pc = "delete"
    /\ req[w].subs = {}
    /\ courseStatus' = [courseStatus EXCEPT ![req[w].course] = 0]
    /\ Continue(w, Idle)
    /\ UNCHANGED <<user, offer, stripeVars, historyVars>>

(* The administrator enters an address by hand; nothing is checked. *)
AddUser(u, e, c) ==
    /\ FreshId(u)
    /\ user' = [user EXCEPT ![u] = [NoRow EXCEPT !.email = e, !.course = c,
                                                 !.status = ACTIVE]]
    /\ everActive' = everActive \cup {u}
    /\ UNCHANGED <<offer, courseStatus, req, stripeVars, overpaid, confirmed>>

-----------------------------------------------------------------------------
(* A call to Stripe raises; the handler answers with an error page or 500. *)
StripeError(w) ==
    /\ req[w].pc \in {"paid", "customer", "transfer", "cancel"}
    /\ Continue(w, Idle)
    /\ UNCHANGED <<dbVars, stripeVars, historyVars>>

(* The process is killed, a commit fails, or the answer is lost. *)
Crash(w) ==
    /\ MayCrash
    /\ req[w].pc # "idle"
    /\ Continue(w, Idle)
    /\ UNCHANGED <<dbVars, stripeVars, historyVars>>

(* What worker w does with a request it has begun. *)
Serve(w) ==
    \/ RegisterFree(w) \/ RegisterCustomer(w) \/ RegisterSession(w) \/ RegisterSave(w)
    \/ WebhookPaid(w) \/ WebhookSubscribed(w) \/ WebhookTransfer(w) \/ WebhookAck(w)
    \/ UnsubscribeCancel(w) \/ UnsubscribeCommit(w)
    \/ AdminCancel(w) \/ AdminCommit(w)
    \/ DeleteCancel(w) \/ DeleteCommit(w)
    \/ StripeError(w)

Begin(w) ==
    \/ \E u \in UserId, e \in Email, c \in Course : RegisterCheck(w, u, e, c)
    \/ \E ev \in pending : WebhookLoad(w, ev)
    \/ \E u \in UserId : UnsubscribeLoad(w, u) \/ AdminLoad(w, u)
    \/ \E c \in Course : DeleteLoad(w, c)

Next ==
    \/ \E w \in Worker : Begin(w) \/ Serve(w) \/ Crash(w)
    \/ \E u \in UserId : Pay(u)
    \/ \E k \in Customer : Renew(k)
    \/ \E u \in UserId, e \in Email, c \in Course : AddUser(u, e, c)
    \/ \E c \in Course, o \in {"free", "priced"} : Customize(c, o)

Spec == Init /\ [][Next]_vars

-----------------------------------------------------------------------------
(* Safety *)

RowOf(k) == {u \in UserId : user[u].customer = k}

(* A row that has a Stripe customer gets status 2 only after that customer *)
(* paid, however webhooks, retries and registrations interleave.           *)
PaidBeforeActive ==
    \A u \in UserId :
        user[u].status = ACTIVE /\ user[u].customer # None
            => checkout[user[u].customer] = "paid"

(* Two rows never share a Stripe customer: the webhook's lookup by         *)
(* customer id, which takes the first row it finds, is unambiguous.        *)
OneRowPerCustomer ==
    \A u, v \in UserId :
        user[u].customer = user[v].customer /\ user[u].customer # None => u = v

(* handle_webhook answers 200 only after it has committed: a payment whose *)
(* event Stripe will not send again has activated its row, even if workers *)
(* die in between.                                                         *)
NoPaymentLost ==
    \A k \in Customer :
        checkout[k] = "paid" /\ SessionCompleted(k) \notin pending
            => RowOf(k) # {} /\ RowOf(k) \subseteq everActive

(* Likewise for the subscription id, without which nobody can cancel: once *)
(* customer.subscription.created is acknowledged the row holds the id.     *)
NoSubscriptionLost ==
    \A k \in Customer :
        subscription[k] # "none" /\ SubscriptionCreated(k) \notin pending
            => \E u \in RowOf(k) : user[u].sub = k

(* Whoever is shown "Te has dado de baja exitosamente" is never charged    *)
(* again: unsubscribe confirms only what Stripe has cancelled.             *)
ConfirmedNeverCharged ==
    \A u \in confirmed :
        /\ user[u].customer # None
        /\ subscription[user[u].customer] = "cancelled"

(* The super admin is paid a share only of a payment that took place and   *)
(* whose row is activated: the commit precedes the transfer.               *)
TransferAfterActivation ==
    \A ev \in transfers :
        /\ checkout[ev.cust] = "paid"
        /\ RowOf(ev.cust) # {}
        /\ RowOf(ev.cust) \subseteq everActive

(* A subscription is cancelled only by a request for its own row, or by    *)
(* the deletion of its own campaign.                                       *)
CancelOnlyRequested ==
    [][\A k \in Customer :
          subscription[k] = "active" /\ subscription'[k] = "cancelled"
            => \E w \in Worker, u \in RowOf(k) :
                  \/ req[w].pc \in {"cancel", "admin_cancel"} /\ req[w].user = u
                  \/ req[w].pc = "delete" /\ req[w].course = user[u].course]_vars

(* How the subscription of row u stands at Stripe. *)
ContractOf(u) ==
    LET k == user[u].customer IN
    CASE k = None                                           -> "none"
      [] k # None /\ checkout[k] # "paid"                   -> "due"
      [] k # None /\ checkout[k] = "paid"
         /\ subscription[k] = "none"                        -> "paid"
      [] k # None /\ checkout[k] = "paid"
         /\ subscription[k] = "active"                      -> "running"
      [] OTHER                                              -> "ended"

ChargesOf(u) == IF user[u].customer = None THEN 0 ELSE invoices[user[u].customer]

(* The routes and Stripe together keep the rules of Membership: in every   *)
(* interleaving a step changes the contract of one row only, Stripe        *)
(* charges only what runs, a row joins only once paid, and the page that   *)
(* confirms the end follows the end, which is final.                       *)
Rules == INSTANCE Membership WITH
    Account  <- UserId,
    contract <- [u \in UserId |-> ContractOf(u)],
    charges  <- [u \in UserId |-> ChargesOf(u)],
    member   <- {u \in UserId : user[u].status = ACTIVE},
    told     <- confirmed

RulesKept == Rules!Spec

-----------------------------------------------------------------------------
(* Liveness.  The server finishes the requests it begins, and Stripe sends *)
(* an event again and again until it is acknowledged, so that it is        *)
(* eventually received whenever a worker is free infinitely often.         *)

Delivery ==
    /\ \A w \in Worker : WF_vars(Serve(w))
    /\ \A ev \in Event : SF_vars(\E w \in Worker : WebhookLoad(w, ev))

(* The owner of row u never stops pressing the button of the unsubscribe   *)
(* page, and Stripe does not fail every one of the calls that follow.      *)
AskCancel(u) == \E w \in Worker : req[w].user = u /\ UnsubscribeCancel(w)
KeepsAsking(u) ==
    /\ SF_vars(\E w \in Worker : UnsubscribeLoad(w, u))
    /\ SF_vars(AskCancel(u))

LiveSpec == Spec /\ Delivery

(* Every payment is eventually answered by activating the row. *)
PaidLeadsToActive ==
    \A u \in UserId :
        user[u].customer # None /\ checkout[user[u].customer] = "paid"
            ~> u \in everActive

(* A subscriber who keeps using the link is eventually no longer charged,  *)
(* in whatever order Stripe's events and the requests arrive.              *)
LinkStopsCharges ==
    (\A u \in UserId : KeepsAsking(u))
        => \A k \in Customer :
             subscription[k] = "active" ~> subscription[k] = "cancelled"

-----------------------------------------------------------------------------
(* What the pages and comments of the program say, and the code does not   *)
(* ensure.                                                                 *)

(* templates/unsubscribe.html, "Te has dado de baja exitosamente": who was *)
(* told so is not subscribed.  A late or repeated webhook puts status back *)
(* to 2.                                                                   *)
StaysUnsubscribed ==
    \A u \in confirmed : user[u].status # ACTIVE

(* auth/route.py, "Calculate 10% of the total payment amount": the share   *)
(* of a payment is transferred once.  A delivery that is repeated, because *)
(* the first is still under way or its answer was lost, transfers again.   *)
ShareTransferredOnce == overpaid = {}

(* templates/success.html: "si deseas cancelar tu suscripcion en cualquier *)
(* momento, simplemente haz clic en el enlace": a member who keeps asking  *)
(* is one day no member.  The link fails for a row that has no Stripe      *)
(* subscription: in a free or one-time campaign, or added by hand.         *)
CanLeaveAnyTime ==
    \A u \in UserId : user[u].status = ACTIVE ~> user[u].status # ACTIVE
=============================================================================
