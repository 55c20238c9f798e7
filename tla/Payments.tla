------------------------------ MODULE Payments ------------------------------
(***************************************************************************)
(* The life of an order once it exists: payments created at a provider,    *)
(* provider callbacks, cancellation and the expiry sweeps of               *)
(* pkg/pay/payment_service_impl.go, over the rows of models/order.go,      *)
(* models/payment_record.go and models/subscription.go.                    *)
(*                                                                         *)
(* QueryPaymentStatus and RefundPayment have no action.  Both begin with   *)
(* GetPaymentRecordsByOrderID, which sorts by created_at, a column that    *)
(* the rows do not have (models/database.go calls it create_at): the query *)
(* fails and the handler answers ErrPaymentNotFound, whatever was paid.    *)
(*                                                                         *)
(* No handler runs in a database transaction, so a handler is a sequence   *)
(* of steps, one per database or provider call, and the handlers that are  *)
(* in flight interleave.  A variable task[t] holds the locals of the       *)
(* request that goroutine t is serving.  Fault ends a request at any step: *)
(* a failed call returns an error, a crash returns nothing, and neither    *)
(* undoes the steps already taken.                                         *)
(***************************************************************************)
EXTENDS Integers, FiniteSets

CONSTANTS
    Orders,        \* the orders, all inserted at time 0 (see module Checkout)
    Subscribing,   \* those whose product has type subscription
    Intents,       \* the payments a provider can open; also the record ids
    Tasks,         \* the request goroutines that may be in flight at once
    Methods,       \* the payment methods with a registered provider
    Lenient,       \* those whose parser takes a missing result for a failed
                   \* payment, where the others return an error: WeChat
    Enveloped,     \* callbacks come as docs/payment_system.md writes them
    OrderTTL,      \* OrderExpireTime
    PaymentTTL,    \* PaymentExpireTime
    None,          \* no order, no intent, no method
    MaxTime,       \* bound on the clock
    MaxFaults,     \* bound on failed calls and crashes
    MaxRepeats     \* bound on callbacks repeated after they were acknowledged

ASSUME PaymentsAssumption ==
    /\ Subscribing \subseteq Orders
    /\ Lenient \subseteq Methods
    /\ Enveloped \in BOOLEAN
    /\ OrderTTL \in Nat /\ PaymentTTL \in Nat
    /\ MaxTime \in Nat /\ MaxFaults \in Nat /\ MaxRepeats \in Nat
    /\ None \notin Orders \cup Intents \cup Methods

VARIABLES
    order,         \* [Orders -> OrderStatus], the status column of orders
    paymentTime,   \* the orders whose payment_time column is set
    listed,        \* the orders whose product is not soft-deleted
    rec,           \* the payment_records rows
    subs,          \* subscriptions rows inserted for each order
    intent,        \* the provider's side: an intent per payment it opened
    acked,         \* the intents whose callback was answered with success
    task,          \* the locals of each request goroutine
    now,           \* the clock
    faults,        \* failed calls and crashes so far
    repeats        \* callbacks repeated after an acknowledgement so far

vars == <<order, paymentTime, listed, rec, subs, intent, acked, task,
          now, faults, repeats>>

-----------------------------------------------------------------------------
OrderStatus == {"Pending", "Paid", "Canceled", "Refunded",
                "PartialRefunded", "Failed", "Expired", "Processing"}

PaymentStatus == {"Pending", "Success", "Failed", "Canceled", "Refunded",
                  "PartialRefunded", "Processing", "Expired", "Disputed"}

\* status "absent" marks a row that was not inserted yet
PaymentRecord == [order  : Orders \cup {None},
                  status : PaymentStatus \cup {"absent"},
                  expire : Nat]

Intent == [order  : Orders \cup {None},
           method : Methods \cup {None},
           state  : {"unused", "open", "captured", "closed"}]

ProgramCounter ==
    {"idle",
     "CreatePayment.provider", "CreatePayment.record",
     "Callback.find", "Callback.record", "Callback.order",
     "Callback.product", "Callback.subscription", "Callback.answer",
     "ProcessExpiredOrders", "ProcessExpiredPayments"}

Task == [pc      : ProgramCounter,
         order   : Orders \cup {None},
         intent  : Intents \cup {None},
         method  : Methods \cup {None},
         expire  : Nat,
         orders  : SUBSET Orders,
         records : SUBSET Intents]

Idle == [pc |-> "idle", order |-> None, intent |-> None, method |-> None,
         expire |-> 0, orders |-> {}, records |-> {}]

Absent == [order |-> None, status |-> "absent", expire |-> 0]

Init ==
    /\ order = [o \in Orders |-> "Pending"]
    /\ paymentTime = {}
    /\ listed = Orders
    /\ rec = [i \in Intents |-> Absent]
    /\ subs = [o \in Orders |-> 0]
    /\ intent = [i \in Intents |->
                    [order |-> None, method |-> None, state |-> "unused"]]
    /\ acked = {}
    /\ task = [t \in Tasks |-> Idle]
    /\ now = 0
    /\ faults = 0
    /\ repeats = 0

-----------------------------------------------------------------------------
(* What the queries and updates of models/ do.                             *)

Recorded == {i \in Intents : rec[i].status # "absent"}

UpdatePaymentStatus(i, status) ==
    rec' = [rec EXCEPT ![i].status = status]

UpdateOrderStatus(o, status) ==
    /\ order' = [order EXCEPT ![o] = status]
    /\ paymentTime' = IF status = "Paid" THEN paymentTime \cup {o}
                                         ELSE paymentTime

ExpiredOrders == {o \in Orders : order[o] = "Pending" /\ OrderTTL <= now}

\* Mutant of ExpiredPayments: the expiry time is not looked at.
PendingPayments == {i \in Recorded : rec[i].status = "Pending"}

ExpiredPayments == {i \in Recorded : /\ rec[i].status = "Pending"
                                     /\ rec[i].expire <= now}

\* A request starts on an idle goroutine, moves on, and ends.
Starts(t, locals) ==
    /\ task[t].pc = "idle"
    /\ task' = [task EXCEPT ![t] = locals]

Continues(t, pc) == task' = [task EXCEPT ![t].pc = pc]

Ends(t) == task' = [task EXCEPT ![t] = Idle]

-----------------------------------------------------------------------------
(* CreatePayment: the order is read and checked, the provider opens a      *)
(* payment, and only then is the record inserted.  An order may be given   *)
(* several payments.                                                       *)

CreatePayment(t, o, m) ==
    /\ order[o] = "Pending"
    /\ ~ (now > OrderTTL)
    /\ Starts(t, [Idle EXCEPT !.pc = "CreatePayment.provider", !.order = o,
                              !.method = m, !.expire = now + PaymentTTL])
    /\ UNCHANGED <<order, paymentTime, listed, rec, subs, intent, acked,
                   now, faults, repeats>>

OpenIntent(t, i) ==
    /\ task[t].pc = "CreatePayment.provider"
    /\ intent[i].state = "unused"
    /\ intent' = [intent EXCEPT ![i].state = "open",
                                ![i].order = task[t].order,
                                ![i].method = task[t].method]
    /\ task' = [task EXCEPT ![t].pc = "CreatePayment.record",
                            ![t].intent = i]
    /\ UNCHANGED <<order, paymentTime, listed, rec, subs, acked,
                   now, faults, repeats>>

\* The provider answers with an error: nothing was opened or recorded.
IntentRefused(t) ==
    /\ task[t].pc = "CreatePayment.provider"
    /\ Ends(t)
    /\ UNCHANGED <<order, paymentTime, listed, rec, subs, intent, acked,
                   now, faults, repeats>>

CreatePaymentRecord(t) ==
    /\ task[t].pc = "CreatePayment.record"
    /\ rec' = [rec EXCEPT ![task[t].intent] =
                  [order  |-> task[t].order,
                   status |-> "Pending",
                   expire |-> task[t].expire]]
    /\ Ends(t)
    /\ UNCHANGED <<order, paymentTime, listed, subs, intent, acked,
                   now, faults, repeats>>

-----------------------------------------------------------------------------
(* HandlePaymentCallback, ProcessPaymentCallback, handlePaymentSuccess and *)
(* CreateSubscription.  The provider posts until it gets a success answer, *)
(* and may post again after it.                                            *)

\* Mutant of CallbackReads: the status in the post is not looked at.
CallbackIgnoresStatus(i) == "Success"

\* What HandleCallback reads in the post.  HandlePaymentCallback hands the
\* whole body to it: in the documented envelope the provider's fields are one
\* level down, so Stripe's and Alipay's parsers fail and WeChat's reads a
\* payment that did not succeed.
CallbackReads(i) ==
    IF Enveloped
    THEN IF intent[i].method \in Lenient THEN "Failed" ELSE "error"
    ELSE IF intent[i].state = "captured" THEN "Success" ELSE "Canceled"

\* Only a success is acted upon; any other status is answered with success
\* at once.
ProcessPaymentCallback(t, i) ==
    /\ intent[i].state \in {"captured", "closed"}
    /\ CallbackReads(i) # "error"
    /\ \/ i \notin acked /\ UNCHANGED repeats
       \/ i \in acked /\ repeats < MaxRepeats /\ repeats' = repeats + 1
    /\ Starts(t, [Idle EXCEPT
                    !.pc = IF CallbackReads(i) = "Success"
                           THEN "Callback.find" ELSE "Callback.answer",
                    !.intent = i])
    /\ UNCHANGED <<order, paymentTime, listed, rec, subs, intent, acked,
                   now, faults>>

\* Mutant: a post whose record is not found is answered with success.
MissingRecordIsFine(t) ==
    /\ task[t].pc = "Callback.find"
    /\ task' = [task EXCEPT ![t] =
                   IF task[t].intent \in Recorded
                   THEN [task[t] EXCEPT !.pc = "Callback.record",
                                        !.order = rec[task[t].intent].order]
                   ELSE [task[t] EXCEPT !.pc = "Callback.answer"]]
    /\ UNCHANGED <<order, paymentTime, listed, rec, subs, intent, acked,
                   now, faults, repeats>>

GetPaymentRecordByProviderOrderID(t) ==
    /\ task[t].pc = "Callback.find"
    /\ task' = [task EXCEPT ![t] =
                   IF task[t].intent \in Recorded
                   THEN [task[t] EXCEPT !.pc = "Callback.record",
                                        !.order = rec[task[t].intent].order]
                   ELSE Idle]
    /\ UNCHANGED <<order, paymentTime, listed, rec, subs, intent, acked,
                   now, faults, repeats>>

\* Mutant: the record may not be written, and nobody looks.
RecordErrorIsFine(t) ==
    /\ task[t].pc = "Callback.record"
    /\ UpdatePaymentStatus(task[t].intent, "Success") \/ UNCHANGED rec
    /\ Continues(t, "Callback.order")
    /\ UNCHANGED <<order, paymentTime, listed, subs, intent, acked,
                   now, faults, repeats>>

MarkRecordSuccess(t) ==
    /\ task[t].pc = "Callback.record"
    /\ UpdatePaymentStatus(task[t].intent, "Success")
    /\ Continues(t, "Callback.order")
    /\ UNCHANGED <<order, paymentTime, listed, subs, intent, acked,
                   now, faults, repeats>>

MarkOrderPaid(t) ==
    /\ task[t].pc = "Callback.order"
    /\ UpdateOrderStatus(task[t].order, "Paid")
    /\ Continues(t, "Callback.product")
    /\ UNCHANGED <<listed, rec, subs, intent, acked, now, faults, repeats>>

\* Mutants: a deleted product ends the handler with success; the type of the
\* product is not looked at.
SkipsDeletedProduct(t) ==
    /\ task[t].pc = "Callback.product"
    /\ Continues(t, IF task[t].order \in Subscribing \cap listed
                    THEN "Callback.subscription" ELSE "Callback.answer")
    /\ UNCHANGED <<order, paymentTime, listed, rec, subs, intent, acked,
                   now, faults, repeats>>

SubscribesAnyProduct(t) ==
    /\ task[t].pc = "Callback.product"
    /\ task' = [task EXCEPT ![t] =
                   IF task[t].order \notin listed THEN Idle
                   ELSE [task[t] EXCEPT !.pc = "Callback.subscription"]]
    /\ UNCHANGED <<order, paymentTime, listed, rec, subs, intent, acked,
                   now, faults, repeats>>

\* GetOrder and GetProduct; a deleted product is an error.
ReadProduct(t) ==
    /\ task[t].pc = "Callback.product"
    /\ task' = [task EXCEPT ![t] =
                   IF task[t].order \notin listed THEN Idle
                   ELSE [task[t] EXCEPT !.pc =
                            IF task[t].order \in Subscribing
                            THEN "Callback.subscription"
                            ELSE "Callback.answer"]]
    /\ UNCHANGED <<order, paymentTime, listed, rec, subs, intent, acked,
                   now, faults, repeats>>

\* Mutant: a second subscription of an order is refused with an error.
RejectsSecondSubscription(t) ==
    /\ task[t].pc = "Callback.subscription"
    /\ IF task[t].order \in listed /\ subs[task[t].order] = 0
       THEN /\ subs' = [subs EXCEPT ![task[t].order] = @ + 1]
            /\ Continues(t, "Callback.answer")
       ELSE Ends(t) /\ UNCHANGED subs
    /\ UNCHANGED <<order, paymentTime, listed, rec, intent, acked,
                   now, faults, repeats>>

\* CreateSubscription reads the product again before it inserts the row.
CreateSubscription(t) ==
    /\ task[t].pc = "Callback.subscription"
    /\ IF task[t].order \in listed
       THEN /\ subs' = [subs EXCEPT ![task[t].order] = @ + 1]
            /\ Continues(t, "Callback.answer")
       ELSE Ends(t) /\ UNCHANGED subs
    /\ UNCHANGED <<order, paymentTime, listed, rec, intent, acked,
                   now, faults, repeats>>

\* Mutant: the order's id is taken for the payment's.
AcknowledgesOrder(t) ==
    /\ task[t].pc = "Callback.answer"
    /\ acked' = acked \cup {task[t].order}
    /\ Ends(t)
    /\ UNCHANGED <<order, paymentTime, listed, rec, subs, intent,
                   now, faults, repeats>>

AnswerCallback(t) ==
    /\ task[t].pc = "Callback.answer"
    /\ acked' = acked \cup {task[t].intent}
    /\ Ends(t)
    /\ UNCHANGED <<order, paymentTime, listed, rec, subs, intent,
                   now, faults, repeats>>

-----------------------------------------------------------------------------
(* CancelOrder is one conditional UPDATE; DeleteProduct a soft delete.     *)

CancelOrder(o) ==
    /\ order[o] = "Pending"
    /\ order' = [order EXCEPT ![o] = "Canceled"]
    /\ UNCHANGED <<paymentTime, listed, rec, subs, intent, acked, task,
                   now, faults, repeats>>

DeleteProduct(o) ==
    /\ o \in listed
    /\ listed' = listed \ {o}
    /\ UNCHANGED <<order, paymentTime, rec, subs, intent, acked, task,
                   now, faults, repeats>>

-----------------------------------------------------------------------------
(* The expiry sweeps read a list of rows and then update them one by one,  *)
(* without looking at the row again; an error skips the row.               *)

ProcessExpiredOrders(t) ==
    /\ ExpiredOrders # {}
    /\ Starts(t, [Idle EXCEPT !.pc = "ProcessExpiredOrders",
                              !.orders = ExpiredOrders])
    /\ UNCHANGED <<order, paymentTime, listed, rec, subs, intent, acked,
                   now, faults, repeats>>

SweepsOrder(t, o) ==
    task' = [task EXCEPT ![t] = IF task[t].orders = {o} THEN Idle
                                ELSE [task[t] EXCEPT !.orders = @ \ {o}]]

ExpireOrder(t, o) ==
    /\ task[t].pc = "ProcessExpiredOrders"
    /\ o \in task[t].orders
    /\ SweepsOrder(t, o)
    /\ \/ UpdateOrderStatus(o, "Expired") /\ UNCHANGED faults
       \/ /\ faults < MaxFaults /\ faults' = faults + 1
          /\ UNCHANGED <<order, paymentTime>>
    /\ UNCHANGED <<listed, rec, subs, intent, acked, now, repeats>>

ProcessExpiredPayments(t) ==
    /\ ExpiredPayments # {}
    /\ Starts(t, [Idle EXCEPT !.pc = "ProcessExpiredPayments",
                              !.records = ExpiredPayments])
    /\ UNCHANGED <<order, paymentTime, listed, rec, subs, intent, acked,
                   now, faults, repeats>>

SweepsRecord(t, i) ==
    task' = [task EXCEPT ![t] = IF task[t].records = {i} THEN Idle
                                ELSE [task[t] EXCEPT !.records = @ \ {i}]]

ExpirePayment(t, i) ==
    /\ task[t].pc = "ProcessExpiredPayments"
    /\ i \in task[t].records
    /\ SweepsRecord(t, i)
    /\ \/ UpdatePaymentStatus(i, "Expired") /\ UNCHANGED faults
       \/ faults < MaxFaults /\ faults' = faults + 1 /\ UNCHANGED rec
    /\ UNCHANGED <<order, paymentTime, listed, subs, intent, acked,
                   now, repeats>>

-----------------------------------------------------------------------------
(* The payer at the provider, the clock, and failures.                     *)

Capture(i) ==
    /\ intent[i].state = "open"
    /\ intent' = [intent EXCEPT ![i].state = "captured"]
    /\ UNCHANGED <<order, paymentTime, listed, rec, subs, acked, task,
                   now, faults, repeats>>

Close(i) ==
    /\ intent[i].state = "open"
    /\ intent' = [intent EXCEPT ![i].state = "closed"]
    /\ UNCHANGED <<order, paymentTime, listed, rec, subs, acked, task,
                   now, faults, repeats>>

Tick ==
    /\ now < MaxTime
    /\ now' = now + 1
    /\ UNCHANGED <<order, paymentTime, listed, rec, subs, intent, acked,
                   task, faults, repeats>>

Fault(t) ==
    /\ task[t].pc # "idle"
    /\ faults < MaxFaults
    /\ faults' = faults + 1
    /\ Ends(t)
    /\ UNCHANGED <<order, paymentTime, listed, rec, subs, intent, acked,
                   now, repeats>>

-----------------------------------------------------------------------------
\* The next step of the request that t is serving.
Step(t) ==
    \/ \E i \in Intents : OpenIntent(t, i)
    \/ IntentRefused(t)
    \/ CreatePaymentRecord(t)
    \/ GetPaymentRecordByProviderOrderID(t)
    \/ MarkRecordSuccess(t)
    \/ MarkOrderPaid(t)
    \/ ReadProduct(t)
    \/ CreateSubscription(t)
    \/ AnswerCallback(t)
    \/ \E o \in Orders : ExpireOrder(t, o)
    \/ \E i \in Intents : ExpirePayment(t, i)

\* A client, an operator or a timer starts a request on t.
Request(t) ==
    \/ \E o \in Orders, m \in Methods : CreatePayment(t, o, m)
    \/ ProcessExpiredOrders(t)
    \/ ProcessExpiredPayments(t)

Next ==
    \/ \E t \in Tasks : \/ Request(t)
                        \/ Step(t)
                        \/ Fault(t)
                        \/ \E i \in Intents : ProcessPaymentCallback(t, i)
    \/ \E o \in Orders : CancelOrder(o) \/ DeleteProduct(o)
    \/ \E i \in Intents : Capture(i) \/ Close(i)
    \/ Tick

Spec == Init /\ [][Next]_vars

\* Every goroutine keeps running, and the provider keeps posting a callback
\* until it is acknowledged; Go starts a goroutine for every post, so a post
\* that keeps being made is served (strong fairness: here the goroutines are
\* few and may be busy when it is made).
Fairness ==
    /\ \A t \in Tasks : WF_vars(Step(t))
    /\ \A i \in Intents :
           SF_vars(/\ i \notin acked
                   /\ \E t \in Tasks : ProcessPaymentCallback(t, i))

FairSpec == Spec /\ Fairness

-----------------------------------------------------------------------------
(* Properties.                                                             *)

\* Rows, provider intents and request locals have their types.
TypeOK ==
    /\ order \in [Orders -> OrderStatus]
    /\ paymentTime \subseteq Orders
    /\ listed \subseteq Orders
    /\ rec \in [Intents -> PaymentRecord]
    /\ subs \in [Orders -> Nat]
    /\ intent \in [Intents -> Intent]
    /\ acked \subseteq Intents
    /\ task \in [Tasks -> Task]
    /\ now \in 0..MaxTime
    /\ faults \in 0..MaxFaults
    /\ repeats \in 0..MaxRepeats

CapturedFor(o) == {i \in Intents : /\ intent[i].order = o
                                   /\ intent[i].state = "captured"}

\* No order is stamped as paid, and no order shows the status Paid, unless a
\* provider really captured a payment made for that very order.  Only
\* handlePaymentSuccess writes Paid, on a record that is looked up by the
\* provider's id: the UpdateOrderStatus and UpdateOrderRefund that the service
\* offers besides are called by nothing in the repository.
PaidOrderWasCaptured ==
    \A o \in Orders :
        o \in paymentTime \/ order[o] = "Paid" => CapturedFor(o) # {}

\* The record of payment i was marked Success and nothing worse came of it than
\* the Expired of a sweep that had listed it while it was pending.
Marked(i) ==
    \/ rec[i].status = "Success"
    \/ rec[i].status = "Expired" /\ rec[i].expire <= now

\* A subscription row exists only for an order of a subscription product that
\* a provider captured a payment for, once the record of that payment was
\* marked and the order was stamped as paid.
SubscriptionWasPaidFor ==
    \A o \in Orders : subs[o] > 0 =>
        /\ o \in Subscribing \cap paymentTime
        /\ \E i \in CapturedFor(o) : Marked(i)

\* When a provider is told that its success callback was processed, the order
\* has been paid and, for a subscription product, a subscription exists: the
\* answer is what stops the provider from posting again.
AcknowledgedIsSettled ==
    \A i \in acked :
        intent[i].state = "captured" =>
            /\ intent[i].order \in paymentTime
            /\ intent[i].order \in Subscribing => subs[intent[i].order] > 0

\* Once a provider is told that a captured payment was processed, the record of
\* the payment says so for good: no later callback, sweep or insertion takes
\* the Success back, except that the sweep may write Expired over it, and that
\* only after the record has lapsed.
AcknowledgedIsRecorded ==
    \A i \in acked : intent[i].state = "captured" => Marked(i)

\* The order of a captured payment that has a record is stamped as paid, however
\* many calls fail on the way (its status may be overwritten later, see below).
CapturedIsPaid ==
    \A i \in Intents :
        intent[i].state = "captured" /\ i \in Recorded
            ~> intent[i].order \in paymentTime

\* and its callback is acknowledged in the end, unless the product is deleted.
CapturedIsAcknowledged ==
    \A i \in Intents :
        intent[i].state = "captured" /\ i \in Recorded
            ~> i \in acked \/ intent[i].order \notin listed

\* The service keeps the ledger's promises, step by step.
Ledger == INSTANCE PaymentLedger WITH
              owner    <- [i \in Intents |-> intent[i].order],
              captured <- {i \in Intents : intent[i].state = "captured"},
              paid     <- paymentTime,
              granted  <- subs,
              answered <- acked

KeepsLedger == Ledger!Spec

-----------------------------------------------------------------------------
(* What the comments and the documentation say, and the code does not do.  *)

\* handlePaymentSuccess creates "the" subscription of a subscription order.
OneSubscriptionPerOrder == \A o \in Orders : subs[o] <= 1

\* The expiry sweep is for orders that nobody paid.
PaidOrderIsNotExpired ==
    \A o \in paymentTime : order[o] # "Expired"
=============================================================================
