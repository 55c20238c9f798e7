--------------------------- MODULE PaymentsProofs ---------------------------
(***************************************************************************)
(* Proofs about Payments for any orders, payments, goroutines and bounds.  *)
(* The properties are not inductive by themselves: a step that             *)
(* writes a row relies on what its request found several steps earlier.    *)
(* Sound(t) says what is still true, at each program counter, of what the  *)
(* request on t found; it stays true because the facts it is about only    *)
(* grow (Grows): a captured payment stays captured, a record stays with    *)
(* its payment, a paid order keeps its payment time.                       *)
(***************************************************************************)
EXTENDS Payments, TLAPS

\* A payment has an order once it is opened; money moves once captured.
IntentsInv ==
    \A i \in Intents :
        /\ intent[i].state # "unused" => /\ intent[i].order \in Orders
                                         /\ intent[i].method \in Methods
        /\ intent[i].state = "unused" => intent[i].order = None

\* A record belongs to the payment of the same id.
RecordsInv ==
    \A i \in Recorded : /\ intent[i].state # "unused"
                        /\ rec[i].order = intent[i].order

\* A payment that is about to be recorded has no record yet, and one request
\* alone is about to record it.
Inserting(t) == task[t].pc = "CreatePayment.record"

FreshInv ==
    /\ \A t \in Tasks : Inserting(t) => task[t].intent \notin Recorded
    /\ \A t, u \in Tasks :
          Inserting(t) /\ Inserting(u) /\ task[t].intent = task[u].intent => t = u

\* What the request on t found and still relies on.
Captured(i) == intent[i].state = "captured"

Settled(o) == /\ o \in paymentTime
              /\ o \in Subscribing => subs[o] > 0

Sound(t) ==
    LET i  == task[t].intent
        o  == task[t].order
        pc == task[t].pc
    IN  /\ pc = "CreatePayment.provider" =>
              o \in Orders /\ task[t].method \in Methods
        /\ pc = "CreatePayment.record" =>
              /\ i \in Intents /\ o \in Orders /\ task[t].method \in Methods
              /\ intent[i].state # "unused"
              /\ intent[i].order = o
              /\ intent[i].method = task[t].method
        /\ pc \in {"Callback.find", "Callback.record", "Callback.order",
                   "Callback.product", "Callback.subscription"} =>
              i \in Intents /\ Captured(i)
        /\ pc \in {"Callback.record", "Callback.order",
                   "Callback.product", "Callback.subscription"} =>
              i \in Recorded /\ o = intent[i].order
        /\ pc \in {"Callback.order", "Callback.product",
                   "Callback.subscription"} => Marked(i)
        /\ pc \in {"Callback.product", "Callback.subscription"} =>
              o \in paymentTime
        /\ pc = "Callback.subscription" => o \in Subscribing
        /\ pc = "Callback.answer" =>
              /\ i \in Intents
              /\ intent[i].state \in {"captured", "closed"}
              /\ ~ Enveloped /\ Captured(i) =>
                    Settled(intent[i].order) /\ Marked(i)
        /\ \A j \in task[t].records : j \in Recorded /\ rec[j].expire <= now

Soundness == \A t \in Tasks : Sound(t)

PaidInv ==
    /\ \A o \in Orders : order[o] = "Paid" => o \in paymentTime
    /\ \A o \in paymentTime : CapturedFor(o) # {}

AcknowledgedInv ==
    \A i \in acked :
        /\ intent[i].state \in {"captured", "closed"}
        /\ ~ Enveloped /\ Captured(i) =>
              Settled(intent[i].order) /\ Marked(i)

IInv == /\ TypeOK
        /\ IntentsInv
        /\ RecordsInv
        /\ FreshInv
        /\ Soundness
        /\ PaidInv
        /\ SubscriptionWasPaidFor
        /\ AcknowledgedInv
-----------------------------------------------------------------------------
\* Facts about payments, records, payment times and subscriptions only grow.
Grows ==
    /\ \A i \in Intents :
          intent[i].state # "unused" =>
             /\ intent'[i].state # "unused"
             /\ intent'[i].order = intent[i].order
             /\ intent'[i].method = intent[i].method
             /\ Captured(i) => intent'[i].state = "captured"
             /\ intent[i].state = "closed" => intent'[i].state = "closed"
    /\ \A i \in Recorded : /\ i \in Recorded'
                          /\ rec'[i].order = rec[i].order
                          /\ rec'[i].expire = rec[i].expire
    /\ \A i \in Intents : Marked(i) => Marked(i)'
    /\ now <= now'
    /\ paymentTime \subseteq paymentTime'
    /\ \A o \in Orders : subs[o] > 0 => subs'[o] > 0

LEMMA InitHolds == Init => IInv
<1> SUFFICES ASSUME Init PROVE IInv
    OBVIOUS
<1> USE PaymentsAssumption
<1>1. TypeOK
  BY DEF Init, TypeOK, OrderStatus, PaymentRecord, Intent, Task, Idle, Absent,
         ProgramCounter, PaymentStatus
<1>2. Recorded = {}
  BY DEF Init, Recorded, Absent
<1>3. IntentsInv /\ RecordsInv /\ FreshInv
  BY <1>2 DEF Init, IntentsInv, RecordsInv, FreshInv, Inserting, Idle
<1>4. Soundness
  BY DEF Init, Soundness, Sound, Idle
<1>5. PaidInv /\ SubscriptionWasPaidFor /\ AcknowledgedInv
  BY DEF Init, PaidInv, SubscriptionWasPaidFor, AcknowledgedInv
<1> QED
  BY <1>1, <1>3, <1>4, <1>5 DEF IInv

\* A request that does not move stays sound while the rest of the state grows.
LEMMA SoundStable ==
    ASSUME TypeOK, TypeOK', IntentsInv, RecordsInv, Grows,
           NEW t \in Tasks, task'[t] = task[t], Sound(t)
    PROVE  Sound(t)'
<1> USE DEF Grows, Captured, Settled
<1>1. task[t] \in Task
  BY DEF TypeOK
<1>2. \A i \in Intents : intent[i] \in Intent /\ intent'[i] \in Intent
  BY DEF TypeOK
<1>3. Recorded \subseteq Intents
  BY DEF Recorded
<1>4. task[t].pc = "Callback.answer" =>
        LET i == task[t].intent
        IN  /\ intent'[i].state \in {"captured", "closed"}
            /\ ~ Enveloped /\ intent'[i].state = "captured" =>
                  /\ Marked(i)'
                  /\ intent'[i].order \in paymentTime'
                  /\ intent'[i].order \in Subscribing =>
                        subs'[intent'[i].order] > 0
  BY <1>2 DEF Sound, IntentsInv
<1>5. \A j \in task[t].records : j \in Recorded' /\ rec'[j].expire <= now'
  <2>1. /\ \A j \in Recorded : rec[j].expire \in Nat
        /\ now \in Nat /\ now' \in Nat
    BY PaymentsAssumption DEF TypeOK, PaymentRecord, Recorded
  <2> QED
    BY <2>1 DEF Sound
<1> QED
  BY <1>1, <1>2, <1>3, <1>4, <1>5 DEF Sound, Task, Intent, RecordsInv

-----------------------------------------------------------------------------
(* Type correctness.  The records' types stay folded: these lemmas say what *)
(* an assignment to some of their fields preserves.                         *)

LEMMA IdleTyped == Idle \in Task
  BY DEF Task, Idle, ProgramCounter, PaymentStatus

LEMMA TaskPc ==
    ASSUME NEW r \in Task, NEW pc \in ProgramCounter
    PROVE  [r EXCEPT !.pc = pc] \in Task
  BY DEF Task

LEMMA TaskIntent ==
    ASSUME NEW r \in Task, NEW pc \in ProgramCounter, NEW i \in Intents
    PROVE  [r EXCEPT !.pc = pc, !.intent = i] \in Task
  BY DEF Task

LEMMA TaskOrder ==
    ASSUME NEW r \in Task, NEW pc \in ProgramCounter,
           NEW o \in Orders \cup {None}
    PROVE  [r EXCEPT !.pc = pc, !.order = o] \in Task
  BY DEF Task

LEMMA TaskOrders ==
    ASSUME NEW r \in Task, NEW S \in SUBSET Orders
    PROVE  [r EXCEPT !.orders = S] \in Task
  BY DEF Task

LEMMA TaskRecords ==
    ASSUME NEW r \in Task, NEW S \in SUBSET Intents
    PROVE  [r EXCEPT !.records = S] \in Task
  BY DEF Task

LEMMA StartsPayment ==
    ASSUME NEW o \in Orders, NEW m \in Methods, NEW n \in Nat
    PROVE  [Idle EXCEPT !.pc = "CreatePayment.provider", !.order = o,
                        !.method = m, !.expire = n] \in Task
  BY DEF Task, Idle, ProgramCounter, PaymentStatus

LEMMA StartsOrderSweep ==
    ASSUME NEW S \in SUBSET Orders
    PROVE  [Idle EXCEPT !.pc = "ProcessExpiredOrders", !.orders = S] \in Task
  BY IdleTyped DEF Task, ProgramCounter

LEMMA StartsPaymentSweep ==
    ASSUME NEW S \in SUBSET Intents
    PROVE  [Idle EXCEPT !.pc = "ProcessExpiredPayments", !.records = S] \in Task
  BY IdleTyped DEF Task, ProgramCounter

LEMMA RecordStatus ==
    ASSUME NEW r \in PaymentRecord, NEW s \in PaymentStatus
    PROVE  [r EXCEPT !.status = s] \in PaymentRecord
  BY DEF PaymentRecord

LEMMA IntentState ==
    ASSUME NEW r \in Intent, NEW s \in {"unused", "open", "captured", "closed"}
    PROVE  [r EXCEPT !.state = s] \in Intent
  BY DEF Intent

LEMMA IntentOpened ==
    ASSUME NEW r \in Intent, NEW o \in Orders, NEW m \in Methods
    PROVE  [r EXCEPT !.state = "open", !.order = o, !.method = m] \in Intent
  BY DEF Intent

\* A step that gives the request on t typed locals keeps task typed.
LEMMA TaskUpdate ==
    ASSUME task \in [Tasks -> Task], NEW t \in Tasks, NEW r \in Task,
           task' = [task EXCEPT ![t] = r]
    PROVE  task' \in [Tasks -> Task]
  OBVIOUS

LEMMA TaskEnds ==
    ASSUME task \in [Tasks -> Task], NEW t \in Tasks, Ends(t)
    PROVE  task' \in [Tasks -> Task]
  BY IdleTyped, TaskUpdate DEF Ends

LEMMA TaskContinues ==
    ASSUME task \in [Tasks -> Task], NEW t \in Tasks,
           NEW pc \in ProgramCounter, Continues(t, pc)
    PROVE  task' \in [Tasks -> Task]
<1>1. [task[t] EXCEPT !.pc = pc] \in Task
  BY TaskPc
<1>2. task' = [task EXCEPT ![t] = [task[t] EXCEPT !.pc = pc]]
  BY DEF Continues
<1> QED
  BY <1>1, <1>2, TaskUpdate

LEMMA RecordWritten ==
    ASSUME rec \in [Intents -> PaymentRecord], NEW i \in Intents,
           NEW s \in PaymentStatus, UpdatePaymentStatus(i, s)
    PROVE  rec' \in [Intents -> PaymentRecord]
<1>1. [rec[i] EXCEPT !.status = s] \in PaymentRecord
  BY RecordStatus
<1> QED
  BY <1>1 DEF UpdatePaymentStatus

LEMMA Names ==
    /\ {"Pending", "Success", "Expired"} \subseteq PaymentStatus
    /\ {"Paid", "Canceled", "Expired"} \subseteq OrderStatus
    /\ {"CreatePayment.provider", "CreatePayment.record",
        "Callback.find", "Callback.record", "Callback.order",
        "Callback.product", "Callback.subscription", "Callback.answer",
        "ProcessExpiredOrders", "ProcessExpiredPayments"}
          \subseteq ProgramCounter
  BY DEF PaymentStatus, OrderStatus, ProgramCounter

LEMMA TypeRequest ==
    ASSUME TypeOK, NEW t \in Tasks, Request(t)
    PROVE  TypeOK'
<1> USE PaymentsAssumption
<1> SUFFICES task' \in [Tasks -> Task]
  BY DEF Request, CreatePayment,
         ProcessExpiredOrders, ProcessExpiredPayments, TypeOK
<1>0. task \in [Tasks -> Task]
  BY DEF TypeOK
<1>1. ASSUME NEW o \in Orders, NEW m \in Methods, CreatePayment(t, o, m)
      PROVE  task' \in [Tasks -> Task]
  <2>1. now + PaymentTTL \in Nat
    BY DEF TypeOK
  <2> QED
    BY <1>0, <1>1, <2>1, StartsPayment, TaskUpdate DEF CreatePayment, Starts
<1>4. ASSUME ProcessExpiredOrders(t)
      PROVE  task' \in [Tasks -> Task]
  <2>1. ExpiredOrders \in SUBSET Orders
    BY DEF ExpiredOrders
  <2> QED
    BY <1>0, <1>4, <2>1, StartsOrderSweep, TaskUpdate
       DEF ProcessExpiredOrders, Starts
<1>5. ASSUME ProcessExpiredPayments(t)
      PROVE  task' \in [Tasks -> Task]
  <2>1. ExpiredPayments \in SUBSET Intents
    BY DEF ExpiredPayments, Recorded
  <2> QED
    BY <1>0, <1>5, <2>1, StartsPaymentSweep, TaskUpdate
       DEF ProcessExpiredPayments, Starts
<1> QED
  BY <1>1, <1>4, <1>5 DEF Request

LEMMA TypeStep ==
    ASSUME TypeOK, IntentsInv, RecordsInv, Soundness, NEW t \in Tasks, Step(t)
    PROVE  TypeOK'
<1> USE PaymentsAssumption
<1> DEFINE Typed == task' \in [Tasks -> Task]
           i == task[t].intent
           o == task[t].order
<1>0. /\ task \in [Tasks -> Task] /\ task[t] \in Task /\ Sound(t)
      /\ rec \in [Intents -> PaymentRecord] /\ intent \in [Intents -> Intent]
      /\ Recorded \subseteq Intents
  BY DEF TypeOK, Soundness, Recorded
<1>1. ASSUME NEW j \in Intents, OpenIntent(t, j)
      PROVE  TypeOK'
  <2>1. o \in Orders /\ task[t].method \in Methods
    BY <1>0, <1>1 DEF OpenIntent, Sound
  <2>2. [task[t] EXCEPT !.pc = "CreatePayment.record", !.intent = j] \in Task
    BY <1>0, TaskIntent, Names
  <2>3. task' = [task EXCEPT ![t] =
          [task[t] EXCEPT !.pc = "CreatePayment.record", !.intent = j]]
    BY <1>1 DEF OpenIntent
  <2>4. Typed
    BY <1>0, <2>2, <2>3, TaskUpdate
  <2>5. [intent[j] EXCEPT !.state = "open", !.order = o,
                          !.method = task[t].method] \in Intent
    BY <1>0, <2>1, IntentOpened
  <2>6. intent' = [intent EXCEPT ![j] =
          [intent[j] EXCEPT !.state = "open", !.order = o,
                            !.method = task[t].method]]
    BY <1>1 DEF OpenIntent
  <2>7. intent' \in [Intents -> Intent]
    BY <1>0, <2>5, <2>6
  <2> QED
    BY <1>1, <2>4, <2>7 DEF OpenIntent, TypeOK
<1>2. CASE IntentRefused(t)
  <2>1. Typed
    BY <1>0, <1>2, TaskEnds DEF IntentRefused
  <2> QED
    BY <1>2, <2>1 DEF IntentRefused, TypeOK
<1>3. CASE CreatePaymentRecord(t)
  <2> DEFINE r == [order |-> o, status |-> "Pending",
                   expire |-> task[t].expire]
  <2>1. r \in PaymentRecord
    BY <1>0, Names DEF Task, PaymentRecord, TypeOK
  <2>2. Typed
    BY <1>0, <1>3, TaskEnds DEF CreatePaymentRecord
  <2>3. rec' = [rec EXCEPT ![i] = r]
    BY <1>3 DEF CreatePaymentRecord
  <2> HIDE DEF r
  <2>4. rec' \in [Intents -> PaymentRecord]
    BY <1>0, <2>1, <2>3
  <2> QED
    BY <1>3, <2>2, <2>4 DEF CreatePaymentRecord, TypeOK
<1>6. CASE GetPaymentRecordByProviderOrderID(t)
  <2> DEFINE r == [task[t] EXCEPT !.pc = "Callback.record",
                                  !.order = rec[i].order]
  <2>1. i \in Intents
    BY <1>0, <1>6 DEF GetPaymentRecordByProviderOrderID, Sound
  <2>2. rec[i].order \in Orders \cup {None}
    BY <1>0, <2>1 DEF PaymentRecord
  <2>3. r \in Task
    BY <1>0, <2>2, Names, TaskOrder
  <2>4. \/ task' = [task EXCEPT ![t] = Idle]
        \/ task' = [task EXCEPT ![t] = r]
    BY <1>6 DEF GetPaymentRecordByProviderOrderID
  <2> HIDE DEF r
  <2>5. Typed
    BY <1>0, <2>3, <2>4, IdleTyped, TaskUpdate
  <2> QED
    BY <1>6, <2>5 DEF GetPaymentRecordByProviderOrderID, TypeOK
<1>7. CASE MarkRecordSuccess(t)
  <2>1. i \in Intents
    BY <1>0, <1>7 DEF MarkRecordSuccess, Sound
  <2>2. rec' \in [Intents -> PaymentRecord]
    BY <1>0, <1>7, <2>1, RecordWritten, Names DEF MarkRecordSuccess
  <2>3. Typed
    BY <1>0, <1>7, TaskContinues, Names DEF MarkRecordSuccess
  <2> QED
    BY <1>7, <2>2, <2>3 DEF MarkRecordSuccess, TypeOK
<1>8. CASE MarkOrderPaid(t)
  <2>1. o \in Orders
    BY <1>0, <1>8 DEF MarkOrderPaid, Sound, IntentsInv, Captured
  <2>2. Typed
    BY <1>0, <1>8, TaskContinues, Names DEF MarkOrderPaid
  <2> QED
    BY <1>8, <2>1, <2>2, Names DEF MarkOrderPaid, UpdateOrderStatus, TypeOK
<1>9. CASE ReadProduct(t)
  <2> DEFINE r(pc) == [task[t] EXCEPT !.pc = pc]
  <2>1. r("Callback.subscription") \in Task /\ r("Callback.answer") \in Task
    BY <1>0, Names, TaskPc
  <2>2. \/ task' = [task EXCEPT ![t] = Idle]
        \/ task' = [task EXCEPT ![t] = r("Callback.subscription")]
        \/ task' = [task EXCEPT ![t] = r("Callback.answer")]
    BY <1>9 DEF ReadProduct
  <2> HIDE DEF r
  <2>3. Typed
    BY <1>0, <2>1, <2>2, IdleTyped, TaskUpdate
  <2> QED
    BY <1>9, <2>3 DEF ReadProduct, TypeOK
<1>10. CASE CreateSubscription(t)
  <2>1. Typed
    BY <1>0, <1>10, TaskEnds, TaskContinues, Names DEF CreateSubscription
  <2>2. subs' \in [Orders -> Nat]
    BY <1>10 DEF CreateSubscription, TypeOK
  <2> QED
    BY <1>10, <2>1, <2>2 DEF CreateSubscription, TypeOK
<1>11. CASE AnswerCallback(t)
  <2>1. i \in Intents
    BY <1>0, <1>11 DEF AnswerCallback, Sound
  <2>2. Typed
    BY <1>0, <1>11, TaskEnds DEF AnswerCallback
  <2> QED
    BY <1>11, <2>1, <2>2 DEF AnswerCallback, TypeOK
<1>14. ASSUME NEW p \in Orders, ExpireOrder(t, p)
       PROVE  TypeOK'
  <2>1. task[t].orders \ {p} \in SUBSET Orders
    BY <1>0 DEF Task
  <2>2. [task[t] EXCEPT !.orders = task[t].orders \ {p}] \in Task
    BY <1>0, <2>1, TaskOrders
  <2>3. \/ task' = [task EXCEPT ![t] = Idle]
        \/ task' = [task EXCEPT ![t] =
              [task[t] EXCEPT !.orders = task[t].orders \ {p}]]
    BY <1>14 DEF ExpireOrder, SweepsOrder
  <2>4. Typed
    BY <1>0, <2>2, <2>3, IdleTyped, TaskUpdate
  <2> QED
    BY <1>14, <2>4, Names DEF ExpireOrder, UpdateOrderStatus, TypeOK
<1>15. ASSUME NEW j \in Intents, ExpirePayment(t, j)
       PROVE  TypeOK'
  <2>1. task[t].records \ {j} \in SUBSET Intents
    BY <1>0 DEF Task
  <2>2. [task[t] EXCEPT !.records = task[t].records \ {j}] \in Task
    BY <1>0, <2>1, TaskRecords
  <2>3. \/ task' = [task EXCEPT ![t] = Idle]
        \/ task' = [task EXCEPT ![t] =
              [task[t] EXCEPT !.records = task[t].records \ {j}]]
    BY <1>15 DEF ExpirePayment, SweepsRecord
  <2>4. Typed
    BY <1>0, <2>2, <2>3, IdleTyped, TaskUpdate
  <2>5. rec' \in [Intents -> PaymentRecord]
    BY <1>0, <1>15, RecordWritten, Names DEF ExpirePayment
  <2> QED
    BY <1>15, <2>4, <2>5 DEF ExpirePayment, TypeOK
<1> QED
  BY <1>1, <1>2, <1>3, <1>6, <1>7, <1>8, <1>9, <1>10,
     <1>11, <1>14, <1>15 DEF Step

LEMMA TypeNext ==
    ASSUME TypeOK, IntentsInv, RecordsInv, Soundness, [Next]_vars
    PROVE  TypeOK'
<1>0. task \in [Tasks -> Task] /\ intent \in [Intents -> Intent]
  BY DEF TypeOK
<1>1. CASE UNCHANGED vars
  BY <1>1 DEF vars, TypeOK
<1>2. ASSUME NEW t \in Tasks, Fault(t)
      PROVE  TypeOK'
  <2>1. task' \in [Tasks -> Task]
    BY <1>0, <1>2, TaskEnds DEF Fault
  <2> QED
    BY <1>2, <2>1, PaymentsAssumption DEF Fault, TypeOK
<1>3. ASSUME NEW t \in Tasks, NEW i \in Intents, ProcessPaymentCallback(t, i)
      PROVE  TypeOK'
  <2> DEFINE r(pc) == [Idle EXCEPT !.pc = pc, !.intent = i]
  <2>1. r("Callback.find") \in Task /\ r("Callback.answer") \in Task
    BY IdleTyped, TaskIntent, Names
  <2>2. \/ task' = [task EXCEPT ![t] = r("Callback.find")]
        \/ task' = [task EXCEPT ![t] = r("Callback.answer")]
    BY <1>3 DEF ProcessPaymentCallback, Starts
  <2> HIDE DEF r
  <2>3. task' \in [Tasks -> Task]
    BY <1>0, <2>1, <2>2, TaskUpdate
  <2> QED
    BY <1>3, <2>3, PaymentsAssumption DEF ProcessPaymentCallback, TypeOK
<1>4. ASSUME NEW o \in Orders, CancelOrder(o) \/ DeleteProduct(o)
      PROVE  TypeOK'
  BY <1>4, Names DEF CancelOrder, DeleteProduct, TypeOK
<1>5. ASSUME NEW i \in Intents, Capture(i) \/ Close(i)
      PROVE  TypeOK'
  <2>1. \A s \in {"captured", "closed"} : [intent[i] EXCEPT !.state = s] \in Intent
    BY <1>0, IntentState
  <2>2. \/ intent' = [intent EXCEPT ![i] = [intent[i] EXCEPT !.state = "captured"]]
        \/ intent' = [intent EXCEPT ![i] = [intent[i] EXCEPT !.state = "closed"]]
    BY <1>5 DEF Capture, Close
  <2>3. intent' \in [Intents -> Intent]
    BY <1>0, <2>1, <2>2
  <2> QED
    BY <1>5, <2>3 DEF Capture, Close, TypeOK
<1>6. CASE Tick
  BY <1>6, PaymentsAssumption DEF Tick, TypeOK
<1> QED
  BY <1>1, <1>2, <1>3, <1>4, <1>5, <1>6, TypeRequest, TypeStep DEF Next

-----------------------------------------------------------------------------
(* Which actions write which rows.                                          *)

LEMMA IntentWriters ==
    ASSUME Next
    PROVE  \/ UNCHANGED intent
           \/ \E t \in Tasks, i \in Intents : OpenIntent(t, i)
           \/ \E i \in Intents : Capture(i) \/ Close(i)
<1>1. ASSUME NEW t \in Tasks, Request(t) \/ Fault(t)
      PROVE  UNCHANGED intent
  BY <1>1 DEF Request, CreatePayment,
              ProcessExpiredOrders, ProcessExpiredPayments, Fault
<1>2. ASSUME NEW t \in Tasks, Step(t)
      PROVE  \/ UNCHANGED intent
             \/ \E i \in Intents : OpenIntent(t, i)
  BY <1>2 DEF Step, IntentRefused, CreatePaymentRecord,
              GetPaymentRecordByProviderOrderID,
              MarkRecordSuccess, MarkOrderPaid, ReadProduct,
              CreateSubscription, AnswerCallback, ExpireOrder,
              ExpirePayment
<1>3. ASSUME NEW t \in Tasks, NEW i \in Intents, ProcessPaymentCallback(t, i)
      PROVE  UNCHANGED intent
  BY <1>3 DEF ProcessPaymentCallback
<1> QED
  BY <1>1, <1>2, <1>3 DEF Next, CancelOrder, DeleteProduct, Tick

LEMMA RecordWriters ==
    ASSUME Next
    PROVE  \/ UNCHANGED rec
           \/ \E t \in Tasks : \/ CreatePaymentRecord(t)
                               \/ MarkRecordSuccess(t)
                               \/ \E i \in Intents : ExpirePayment(t, i)
<1>1. ASSUME NEW t \in Tasks, Request(t) \/ Fault(t)
      PROVE  UNCHANGED rec
  BY <1>1 DEF Request, CreatePayment,
              ProcessExpiredOrders, ProcessExpiredPayments, Fault
<1>2. ASSUME NEW t \in Tasks, Step(t)
      PROVE  \/ UNCHANGED rec
             \/ CreatePaymentRecord(t) \/ MarkRecordSuccess(t)
             \/ \E i \in Intents : ExpirePayment(t, i)
  BY <1>2 DEF Step, OpenIntent, IntentRefused,
              GetPaymentRecordByProviderOrderID, MarkOrderPaid, ReadProduct,
              CreateSubscription, AnswerCallback, ExpireOrder
<1>3. ASSUME NEW t \in Tasks, NEW i \in Intents, ProcessPaymentCallback(t, i)
      PROVE  UNCHANGED rec
  BY <1>3 DEF ProcessPaymentCallback
<1> QED
  BY <1>1, <1>2, <1>3
     DEF Next, CancelOrder, DeleteProduct, Capture, Close, Tick

LEMMA OrderWriters ==
    ASSUME Next
    PROVE  \/ UNCHANGED <<order, paymentTime>>
           \/ \E t \in Tasks : \/ MarkOrderPaid(t)
                               \/ \E o \in Orders : ExpireOrder(t, o)
           \/ \E o \in Orders : CancelOrder(o)
<1>1. ASSUME NEW t \in Tasks, Request(t) \/ Fault(t)
      PROVE  UNCHANGED <<order, paymentTime>>
  BY <1>1 DEF Request, CreatePayment,
              ProcessExpiredOrders, ProcessExpiredPayments, Fault
<1>2. ASSUME NEW t \in Tasks, Step(t)
      PROVE  \/ UNCHANGED <<order, paymentTime>>
             \/ MarkOrderPaid(t) \/ \E o \in Orders : ExpireOrder(t, o)
  BY <1>2 DEF Step, OpenIntent, IntentRefused, CreatePaymentRecord,
              GetPaymentRecordByProviderOrderID, MarkRecordSuccess,
              ReadProduct, CreateSubscription, AnswerCallback,
              ExpirePayment
<1>3. ASSUME NEW t \in Tasks, NEW i \in Intents, ProcessPaymentCallback(t, i)
      PROVE  UNCHANGED <<order, paymentTime>>
  BY <1>3 DEF ProcessPaymentCallback
<1> QED
  BY <1>1, <1>2, <1>3 DEF Next, DeleteProduct, Capture, Close, Tick

LEMMA SubscriptionWriters ==
    ASSUME Next
    PROVE  \/ UNCHANGED subs
           \/ \E t \in Tasks : CreateSubscription(t)
<1>1. ASSUME NEW t \in Tasks, Request(t) \/ Fault(t)
      PROVE  UNCHANGED subs
  BY <1>1 DEF Request, CreatePayment,
              ProcessExpiredOrders, ProcessExpiredPayments, Fault
<1>2. ASSUME NEW t \in Tasks, Step(t)
      PROVE  UNCHANGED subs \/ CreateSubscription(t)
  BY <1>2 DEF Step, OpenIntent, IntentRefused, CreatePaymentRecord,
              GetPaymentRecordByProviderOrderID, MarkRecordSuccess,
              MarkOrderPaid, ReadProduct, AnswerCallback,
              ExpireOrder, ExpirePayment
<1>3. ASSUME NEW t \in Tasks, NEW i \in Intents, ProcessPaymentCallback(t, i)
      PROVE  UNCHANGED subs
  BY <1>3 DEF ProcessPaymentCallback
<1> QED
  BY <1>1, <1>2, <1>3
     DEF Next, CancelOrder, DeleteProduct, Capture, Close, Tick

LEMMA AcknowledgementWriters ==
    ASSUME Next
    PROVE  \/ UNCHANGED acked
           \/ \E t \in Tasks : AnswerCallback(t)
<1>1. ASSUME NEW t \in Tasks, Request(t) \/ Fault(t)
      PROVE  UNCHANGED acked
  BY <1>1 DEF Request, CreatePayment,
              ProcessExpiredOrders, ProcessExpiredPayments, Fault
<1>2. ASSUME NEW t \in Tasks, Step(t)
      PROVE  UNCHANGED acked \/ AnswerCallback(t)
  BY <1>2 DEF Step, OpenIntent, IntentRefused, CreatePaymentRecord,
              GetPaymentRecordByProviderOrderID, MarkRecordSuccess,
              MarkOrderPaid, ReadProduct, CreateSubscription,
              ExpireOrder, ExpirePayment
<1>3. ASSUME NEW t \in Tasks, NEW i \in Intents, ProcessPaymentCallback(t, i)
      PROVE  UNCHANGED acked
  BY <1>3 DEF ProcessPaymentCallback
<1> QED
  BY <1>1, <1>2, <1>3
     DEF Next, CancelOrder, DeleteProduct, Capture, Close, Tick

-----------------------------------------------------------------------------
(* What each step preserves.                                                *)

\* The clock does not go back.
LEMMA ClockStep ==
    ASSUME TypeOK, Next
    PROVE  now \in Nat /\ now' \in Nat /\ now <= now'
<1>0. now \in 0..MaxTime /\ MaxTime \in Nat
  BY PaymentsAssumption DEF TypeOK
<1>1. ASSUME NEW t \in Tasks, Request(t) \/ Fault(t)
      PROVE  UNCHANGED now
  BY <1>1 DEF Request, CreatePayment, ProcessExpiredOrders,
              ProcessExpiredPayments, Fault
<1>2. ASSUME NEW t \in Tasks, Step(t)
      PROVE  UNCHANGED now
  BY <1>2 DEF Step, OpenIntent, IntentRefused, CreatePaymentRecord,
              GetPaymentRecordByProviderOrderID, MarkRecordSuccess,
              MarkOrderPaid, ReadProduct, CreateSubscription, AnswerCallback,
              ExpireOrder, ExpirePayment
<1>3. ASSUME NEW t \in Tasks, NEW i \in Intents, ProcessPaymentCallback(t, i)
      PROVE  UNCHANGED now
  BY <1>3 DEF ProcessPaymentCallback
<1>4. UNCHANGED now \/ now' = now + 1
  BY <1>1, <1>2, <1>3
     DEF Next, CancelOrder, DeleteProduct, Capture, Close, Tick
<1> QED
  BY <1>0, <1>4

\* What a step does to one record: it is left alone, inserted, marked, or
\* expired by a sweep that listed it.
LEMMA RecordStep ==
    ASSUME IInv, Next, NEW i \in Intents
    PROVE  \/ rec'[i] = rec[i]
           \/ /\ i \notin Recorded
              /\ \E t \in Tasks : CreatePaymentRecord(t) /\ task[t].intent = i
           \/ i \in Recorded /\ rec'[i] = [rec[i] EXCEPT !.status = "Success"]
           \/ /\ i \in Recorded /\ rec[i].expire <= now
              /\ rec'[i] = [rec[i] EXCEPT !.status = "Expired"]
<1>0. /\ rec \in [Intents -> PaymentRecord]
      /\ \A t \in Tasks : Sound(t)
  BY DEF IInv, TypeOK, Soundness
<1>1. ASSUME NEW t \in Tasks, CreatePaymentRecord(t)
      PROVE  \/ rec'[i] = rec[i]
             \/ i \notin Recorded /\ task[t].intent = i
  BY <1>0, <1>1 DEF CreatePaymentRecord, IInv, FreshInv, Inserting
<1>2. ASSUME NEW t \in Tasks, MarkRecordSuccess(t)
      PROVE  \/ rec'[i] = rec[i]
             \/ i \in Recorded /\ rec'[i] = [rec[i] EXCEPT !.status = "Success"]
  BY <1>0, <1>2 DEF MarkRecordSuccess, UpdatePaymentStatus, Sound
<1>3. ASSUME NEW t \in Tasks, NEW j \in Intents, ExpirePayment(t, j)
      PROVE  \/ rec'[i] = rec[i]
             \/ /\ i \in Recorded /\ rec[i].expire <= now
                /\ rec'[i] = [rec[i] EXCEPT !.status = "Expired"]
  BY <1>0, <1>3 DEF ExpirePayment, UpdatePaymentStatus, Sound
<1>4. CASE UNCHANGED rec
  BY <1>4
<1> QED
  BY <1>1, <1>2, <1>3, <1>4, RecordWriters

LEMMA GrowsStep ==
    ASSUME IInv, TypeOK', Next
    PROVE  Grows
<1> USE PaymentsAssumption
<1>0. /\ rec \in [Intents -> PaymentRecord] /\ intent \in [Intents -> Intent]
      /\ Recorded \subseteq Intents
      /\ \A t \in Tasks : task[t] \in Task /\ Sound(t)
      /\ subs \in [Orders -> Nat]
  BY DEF IInv, TypeOK, Soundness, Recorded
<1>1. ASSUME NEW i \in Intents, intent[i].state # "unused"
      PROVE  /\ intent'[i].state # "unused"
             /\ intent'[i].order = intent[i].order
             /\ intent'[i].method = intent[i].method
             /\ Captured(i) => intent'[i].state = "captured"
             /\ intent[i].state = "closed" => intent'[i].state = "closed"
  <2>1. CASE UNCHANGED intent
    BY <1>1, <2>1 DEF Captured
  <2>2. ASSUME NEW t \in Tasks, NEW j \in Intents, OpenIntent(t, j)
        PROVE  intent'[i] = intent[i]
    BY <1>0, <1>1, <2>2 DEF OpenIntent
  <2>3. ASSUME NEW j \in Intents, Capture(j) \/ Close(j)
        PROVE  /\ intent'[i].state # "unused"
               /\ intent'[i].order = intent[i].order
               /\ intent'[i].method = intent[i].method
               /\ intent[i].state # "open" => intent'[i].state = intent[i].state
    BY <1>0, <1>1, <2>3 DEF Capture, Close, Intent
  <2> QED
    BY <1>1, <2>1, <2>2, <2>3, IntentWriters DEF Captured
<1>2. ASSUME NEW i \in Recorded
      PROVE  /\ i \in Recorded'
             /\ rec'[i].order = rec[i].order
             /\ rec'[i].expire = rec[i].expire
  <2>1. i \in Intents /\ rec[i] \in PaymentRecord /\ rec[i].status # "absent"
    BY <1>0 DEF Recorded
  <2>2. \/ rec'[i] = rec[i]
        \/ \E status \in {"Success", "Expired"} :
              rec'[i] = [rec[i] EXCEPT !.status = status]
    BY <1>2, <2>1, RecordStep
  <2> QED
    BY <2>1, <2>2 DEF PaymentRecord, Recorded
<1>3. ASSUME NEW i \in Intents, Marked(i)
      PROVE  Marked(i)'
  <2>1. rec[i] \in PaymentRecord /\ rec[i].expire \in Nat /\ i \in Recorded
    BY <1>0, <1>3 DEF PaymentRecord, Recorded, Marked
  <2>2. \/ rec'[i] = rec[i]
        \/ rec'[i].status = "Success"
        \/ /\ rec'[i].status = "Expired" /\ rec'[i].expire = rec[i].expire
           /\ rec[i].expire <= now
    BY <2>1, RecordStep DEF PaymentRecord
  <2> QED
    BY <1>3, <2>1, <2>2, ClockStep DEF Marked, IInv
<1>4. paymentTime \subseteq paymentTime'
  BY OrderWriters DEF MarkOrderPaid, ExpireOrder, CancelOrder, UpdateOrderStatus
<1>5. \A o \in Orders : subs[o] > 0 => subs'[o] > 0
  BY <1>0, SubscriptionWriters DEF CreateSubscription
<1>6. now <= now'
  BY ClockStep DEF IInv
<1> QED
  BY <1>1, <1>2, <1>3, <1>4, <1>5, <1>6 DEF Grows

LEMMA IntentsInvStep ==
    ASSUME IInv, TypeOK', Next
    PROVE  IntentsInv'
<1>0. /\ intent \in [Intents -> Intent] /\ IntentsInv
      /\ \A t \in Tasks : Sound(t)
  BY DEF IInv, TypeOK, Soundness
<1>1. CASE UNCHANGED intent
  BY <1>0, <1>1 DEF IntentsInv
<1>2. ASSUME NEW t \in Tasks, NEW j \in Intents, OpenIntent(t, j)
      PROVE  IntentsInv'
  <2>1. task[t].order \in Orders /\ task[t].method \in Methods
    BY <1>0, <1>2 DEF OpenIntent, Sound
  <2> QED
    BY <1>0, <1>2, <2>1 DEF OpenIntent, IntentsInv, Intent
<1>3. ASSUME NEW j \in Intents, Capture(j) \/ Close(j)
      PROVE  IntentsInv'
  BY <1>0, <1>3 DEF Capture, Close, IntentsInv, Intent
<1> QED
  BY <1>1, <1>2, <1>3, IntentWriters

\* Only CreatePayment inserts a record.
LEMMA NewRecord ==
    ASSUME IInv, Next, NEW i \in Recorded', i \notin Recorded
    PROVE  \E t \in Tasks : CreatePaymentRecord(t) /\ task[t].intent = i
<1>1. i \in Intents /\ rec'[i].status # rec[i].status
  BY DEF Recorded
<1> QED
  BY <1>1, RecordStep

LEMMA RecordsInvStep ==
    ASSUME IInv, TypeOK', Next
    PROVE  RecordsInv'
<1>0. /\ Grows /\ RecordsInv /\ Recorded \subseteq Intents
      /\ rec \in [Intents -> PaymentRecord] /\ Recorded' \subseteq Intents
  BY GrowsStep DEF IInv, Recorded, TypeOK
<1> SUFFICES ASSUME NEW i \in Recorded'
             PROVE  /\ intent'[i].state # "unused"
                    /\ rec'[i].order = intent'[i].order
  BY DEF RecordsInv
<1>1. CASE i \in Recorded
  BY <1>0, <1>1 DEF Grows, RecordsInv
<1>2. CASE i \notin Recorded
  <2>1. PICK t \in Tasks : CreatePaymentRecord(t) /\ task[t].intent = i
    BY <1>2, NewRecord
  <2>2. i \in Intents /\ Sound(t)
    BY <1>0 DEF IInv, Soundness
  <2> QED
    BY <1>0, <2>1, <2>2 DEF CreatePaymentRecord, Sound
<1> QED
  BY <1>1, <1>2

LEMMA PaidInvStep ==
    ASSUME IInv, TypeOK', Next
    PROVE  PaidInv'
<1>0. /\ Grows /\ PaidInv /\ IntentsInv
      /\ order \in [Orders -> OrderStatus] /\ paymentTime \subseteq Orders
      /\ \A t \in Tasks : Sound(t)
      /\ None \notin Orders
  BY GrowsStep, PaymentsAssumption DEF IInv, TypeOK, Soundness
<1>1. \A o \in Orders : CapturedFor(o) \subseteq CapturedFor(o)'
  BY <1>0 DEF CapturedFor, Grows, Captured
<1>2. ASSUME NEW t \in Tasks, MarkOrderPaid(t)
      PROVE  PaidInv'
  <2> DEFINE o == task[t].order
  <2>1. task[t].intent \in Intents /\ Captured(task[t].intent)
        /\ o = intent[task[t].intent].order
    BY <1>0, <1>2 DEF MarkOrderPaid, Sound
  <2>2. o \in Orders /\ CapturedFor(o) # {}
    BY <1>0, <2>1 DEF CapturedFor, IntentsInv, Captured
  <2> QED
    BY <1>0, <1>1, <1>2, <2>2 DEF MarkOrderPaid, UpdateOrderStatus, PaidInv
<1>3. ASSUME NEW t \in Tasks, NEW o \in Orders, ExpireOrder(t, o)
      PROVE  PaidInv'
  BY <1>0, <1>1, <1>3 DEF ExpireOrder, UpdateOrderStatus, PaidInv
<1>4. ASSUME NEW o \in Orders, CancelOrder(o)
      PROVE  PaidInv'
  BY <1>0, <1>1, <1>4 DEF CancelOrder, PaidInv
<1>5. CASE UNCHANGED <<order, paymentTime>>
  BY <1>0, <1>1, <1>5 DEF PaidInv
<1> QED
  BY <1>2, <1>3, <1>4, <1>5, OrderWriters

LEMMA SubscriptionWasPaidForStep ==
    ASSUME IInv, TypeOK', Next
    PROVE  SubscriptionWasPaidFor'
<1>0. /\ Grows /\ SubscriptionWasPaidFor /\ subs \in [Orders -> Nat]
      /\ \A t \in Tasks : Sound(t)
      /\ None \notin Orders /\ IntentsInv
  BY GrowsStep, PaymentsAssumption DEF IInv, TypeOK, Soundness
<1>1. ASSUME NEW o \in Orders, NEW i \in CapturedFor(o), Marked(i)
      PROVE  i \in CapturedFor(o)' /\ Marked(i)'
  BY <1>0, <1>1 DEF CapturedFor, Grows, Captured
<1>2. CASE UNCHANGED subs
  BY <1>0, <1>1, <1>2 DEF SubscriptionWasPaidFor, Grows
<1>3. ASSUME NEW t \in Tasks, CreateSubscription(t)
      PROVE  SubscriptionWasPaidFor'
  <2> DEFINE i == task[t].intent
             o == task[t].order
  <2>1. /\ o \in Subscribing \cap paymentTime
        /\ i \in Intents /\ Captured(i) /\ o = intent[i].order /\ Marked(i)
    BY <1>0, <1>3 DEF CreateSubscription, Sound
  <2>2. i \in CapturedFor(o)
    BY <2>1 DEF CapturedFor, Captured
  <2>3. \A p \in Orders : p # o => subs'[p] = subs[p]
    BY <1>0, <1>3 DEF CreateSubscription
  <2>4. ASSUME NEW p \in Orders, subs'[p] > 0
        PROVE  /\ p \in Subscribing \cap paymentTime'
               /\ \E j \in CapturedFor(p)' : Marked(j)'
    <3>1. CASE p = o
      BY <1>0, <1>1, <2>1, <2>2, <3>1 DEF Grows
    <3>2. CASE p # o
      <4>1. PICK j \in CapturedFor(p) : Marked(j)
        BY <1>0, <2>3, <2>4, <3>2 DEF SubscriptionWasPaidFor
      <4> QED
        BY <1>0, <1>1, <2>3, <2>4, <3>2, <4>1 DEF SubscriptionWasPaidFor, Grows
    <3> QED
      BY <3>1, <3>2
  <2> QED
    BY <2>4 DEF SubscriptionWasPaidFor
<1> QED
  BY <1>2, <1>3, SubscriptionWriters

LEMMA AcknowledgedInvStep ==
    ASSUME IInv, TypeOK', Next
    PROVE  AcknowledgedInv'
<1>0. /\ Grows /\ AcknowledgedInv /\ acked \subseteq Intents /\ IntentsInv
      /\ intent \in [Intents -> Intent] /\ intent' \in [Intents -> Intent]
      /\ \A t \in Tasks : Sound(t)
  BY GrowsStep DEF IInv, TypeOK, Soundness
<1>1. ASSUME NEW i \in Intents, intent[i].state \in {"captured", "closed"},
             ~ Enveloped /\ Captured(i) =>
                Settled(intent[i].order) /\ Marked(i)
      PROVE  /\ intent'[i].state \in {"captured", "closed"}
             /\ (~ Enveloped /\ Captured(i) =>
                    Settled(intent[i].order) /\ Marked(i))'
  BY <1>0, <1>1 DEF Grows, Captured, Settled, IntentsInv
<1>2. \A i \in acked : intent'[i].state \in {"captured", "closed"}
              /\ (~ Enveloped /\ Captured(i) =>
                    Settled(intent[i].order) /\ Marked(i))'
  BY <1>0, <1>1 DEF AcknowledgedInv
<1>3. CASE UNCHANGED acked
  BY <1>2, <1>3 DEF AcknowledgedInv
<1>4. ASSUME NEW t \in Tasks, AnswerCallback(t)
      PROVE  AcknowledgedInv'
  <2>1. acked' = acked \cup {task[t].intent}
    BY <1>4 DEF AnswerCallback
  <2>2. /\ task[t].intent \in Intents
        /\ intent[task[t].intent].state \in {"captured", "closed"}
        /\ ~ Enveloped /\ Captured(task[t].intent)
             => /\ Settled(intent[task[t].intent].order)
                /\ Marked(task[t].intent)
    BY <1>0, <1>4 DEF AnswerCallback, Sound
  <2> QED
    BY <1>1, <1>2, <2>1, <2>2 DEF AcknowledgedInv
<1> QED
  BY <1>3, <1>4, AcknowledgementWriters

-----------------------------------------------------------------------------
(* The requests.                                                            *)

\* A step moves one request.
LEMMA OneMoves ==
    ASSUME TypeOK, Next
    PROVE  \/ UNCHANGED task
           \/ \E t \in Tasks :
                 /\ \/ Request(t) \/ Step(t) \/ Fault(t)
                    \/ \E i \in Intents : ProcessPaymentCallback(t, i)
                 /\ \A u \in Tasks \ {t} : task'[u] = task[u]
<1>0. task \in [Tasks -> Task]
  BY DEF TypeOK
<1>1. ASSUME NEW t \in Tasks, Request(t)
      PROVE  \A u \in Tasks \ {t} : task'[u] = task[u]
  BY <1>0, <1>1 DEF Request, CreatePayment,
                    ProcessExpiredOrders, ProcessExpiredPayments, Starts
<1>2. ASSUME NEW t \in Tasks, Step(t)
      PROVE  \A u \in Tasks \ {t} : task'[u] = task[u]
  BY <1>0, <1>2
     DEF Step, OpenIntent, IntentRefused, CreatePaymentRecord,
         GetPaymentRecordByProviderOrderID,
         MarkRecordSuccess, MarkOrderPaid, ReadProduct, CreateSubscription,
         AnswerCallback, ExpireOrder, SweepsOrder,
         ExpirePayment, SweepsRecord, Continues, Ends
<1>3. ASSUME NEW t \in Tasks, NEW i \in Intents, ProcessPaymentCallback(t, i)
      PROVE  \A u \in Tasks \ {t} : task'[u] = task[u]
  BY <1>0, <1>3 DEF ProcessPaymentCallback, Starts
<1>4. ASSUME NEW t \in Tasks, Fault(t)
      PROVE  \A u \in Tasks \ {t} : task'[u] = task[u]
  BY <1>0, <1>4 DEF Fault, Ends
<1>5. CASE \/ \E o \in Orders : CancelOrder(o) \/ DeleteProduct(o)
           \/ \E i \in Intents : Capture(i) \/ Close(i)
           \/ Tick
  BY <1>5 DEF CancelOrder, DeleteProduct, Capture, Close, Tick
<1>6. CASE \E t \in Tasks : \/ Request(t) \/ Step(t) \/ Fault(t)
                           \/ \E i \in Intents : ProcessPaymentCallback(t, i)
  BY <1>1, <1>2, <1>3, <1>4, <1>6
<1> QED
  BY <1>5, <1>6 DEF Next

LEMMA SoundIdle ==
    ASSUME NEW t \in Tasks, task'[t] = Idle
    PROVE  Sound(t)'
  BY DEF Sound, Idle

LEMMA ContinuedLocals ==
    ASSUME TypeOK, NEW t \in Tasks, NEW pc, Continues(t, pc)
    PROVE  /\ task'[t].pc = pc
           /\ task'[t].order = task[t].order
           /\ task'[t].intent = task[t].intent
           /\ task'[t].method = task[t].method
           /\ task'[t].records = task[t].records
  BY DEF TypeOK, Continues, Task

LEMMA SoundRequest ==
    ASSUME IInv, TypeOK', Next, NEW t \in Tasks, Request(t)
    PROVE  Sound(t)'
<1>0. /\ task \in [Tasks -> Task] /\ Recorded \subseteq Intents
      /\ rec \in [Intents -> PaymentRecord]
  BY DEF IInv, TypeOK, Recorded
<1>1. ASSUME NEW o \in Orders, NEW m \in Methods, CreatePayment(t, o, m)
      PROVE  Sound(t)'
  BY <1>0, <1>1 DEF CreatePayment, Starts, Idle, Sound
<1>4. ASSUME ProcessExpiredOrders(t)
      PROVE  Sound(t)'
  BY <1>0, <1>4 DEF ProcessExpiredOrders, Starts, Idle, Sound
<1>5. ASSUME ProcessExpiredPayments(t)
      PROVE  Sound(t)'
  <2>1. /\ task'[t] = [Idle EXCEPT !.pc = "ProcessExpiredPayments",
                                   !.records = ExpiredPayments]
        /\ UNCHANGED rec
    BY <1>0, <1>5 DEF ProcessExpiredPayments, Starts
  <2>2. /\ \A j \in ExpiredPayments : j \in Recorded /\ rec[j].expire <= now
        /\ Recorded' = Recorded /\ UNCHANGED now
    BY <1>5, <2>1 DEF ExpiredPayments, Recorded, ProcessExpiredPayments
  <2> QED
    BY <2>1, <2>2 DEF Idle, Sound
<1> QED
  BY <1>1, <1>4, <1>5 DEF Request

LEMMA SoundCallback ==
    ASSUME IInv, NEW t \in Tasks, NEW i \in Intents,
           ProcessPaymentCallback(t, i)
    PROVE  Sound(t)'
<1>1. /\ task'[t] = [Idle EXCEPT
                       !.pc = IF CallbackReads(i) = "Success"
                              THEN "Callback.find" ELSE "Callback.answer",
                       !.intent = i]
      /\ UNCHANGED <<intent, rec, paymentTime, subs>>
  BY DEF IInv, TypeOK, ProcessPaymentCallback, Starts
<1>2. /\ intent[i].state \in {"captured", "closed"}
      /\ CallbackReads(i) = "Success" => Captured(i)
      /\ ~ Enveloped /\ Captured(i) => CallbackReads(i) = "Success"
  BY DEF ProcessPaymentCallback, CallbackReads, Captured
<1>3. CASE CallbackReads(i) = "Success"
  BY <1>1, <1>2, <1>3 DEF Sound, Idle, Captured
<1>4. CASE CallbackReads(i) # "Success"
  BY <1>1, <1>2, <1>4 DEF Sound, Idle, Captured
<1> QED
  BY <1>3, <1>4

LEMMA SoundStep ==
    ASSUME IInv, TypeOK', Next, NEW t \in Tasks, Step(t)
    PROVE  Sound(t)'
<1> DEFINE i == task[t].intent
           o == task[t].order
<1>0. /\ task \in [Tasks -> Task] /\ task[t] \in Task /\ Sound(t) /\ TypeOK
      /\ rec \in [Intents -> PaymentRecord] /\ intent \in [Intents -> Intent]
      /\ Recorded \subseteq Intents /\ Grows /\ IntentsInv /\ RecordsInv
      /\ subs \in [Orders -> Nat] /\ paymentTime \subseteq Orders
  BY GrowsStep DEF IInv, TypeOK, Soundness, Recorded
<1> DEFINE Listed == \A j \in task[t].records :
                        j \in Recorded /\ rec[j].expire <= now
<1>00. ASSUME task'[t].records \subseteq task[t].records
       PROVE  Listed'
  <2>1. \A j \in Recorded : rec[j].expire \in Nat
    BY <1>0 DEF PaymentRecord
  <2> QED
    BY <1>0, <1>00, <2>1, ClockStep DEF Sound, Grows
<1>1. ASSUME NEW j \in Intents, OpenIntent(t, j)
      PROVE  Sound(t)'
  <2>1. /\ task'[t].pc = "CreatePayment.record"
        /\ task'[t].intent = j /\ task'[t].order = o
        /\ task'[t].method = task[t].method
        /\ task'[t].records = task[t].records
        /\ UNCHANGED rec
    BY <1>0, <1>1 DEF OpenIntent, Task
  <2>2. /\ intent'[j].state = "open" /\ intent'[j].order = o
        /\ intent'[j].method = task[t].method
    BY <1>0, <1>1 DEF OpenIntent, Intent
  <2>3. o \in Orders /\ task[t].method \in Methods
    BY <1>0, <1>1 DEF OpenIntent, Sound
  <2>4. Listed'
    BY <1>00, <2>1
  <2> QED
    BY <2>1, <2>2, <2>3, <2>4 DEF Sound
<1>2. CASE IntentRefused(t)
  BY <1>0, <1>2, SoundIdle DEF IntentRefused, Ends
<1>3. CASE CreatePaymentRecord(t)
  BY <1>0, <1>3, SoundIdle DEF CreatePaymentRecord, Ends
<1>6. CASE GetPaymentRecordByProviderOrderID(t)
  <2>1. i \in Intents /\ Captured(i)
    BY <1>0, <1>6 DEF GetPaymentRecordByProviderOrderID, Sound
  <2>2. CASE task'[t] = Idle
    BY <2>2, SoundIdle
  <2>3. CASE /\ i \in Recorded
             /\ task'[t] = [task[t] EXCEPT !.pc = "Callback.record",
                                           !.order = rec[i].order]
    <3>1. /\ task'[t].pc = "Callback.record"
          /\ task'[t].order = rec[i].order /\ task'[t].intent = i
          /\ task'[t].records = task[t].records
      BY <1>0, <2>3 DEF Task
    <3>2. rec[i].order = intent[i].order
      BY <1>0, <2>3 DEF RecordsInv
    <3>3. UNCHANGED <<rec, intent>>
      BY <1>6 DEF GetPaymentRecordByProviderOrderID
    <3>4. Listed'
      BY <1>00, <3>1
    <3> QED
      BY <2>1, <2>3, <3>1, <3>2, <3>3, <3>4 DEF Sound, Recorded, Captured
  <2> QED
    BY <1>0, <1>6, <2>2, <2>3 DEF GetPaymentRecordByProviderOrderID
<1>7. CASE MarkRecordSuccess(t)
  <2>1. /\ i \in Recorded /\ Captured(i) /\ o = intent[i].order
    BY <1>0, <1>7 DEF MarkRecordSuccess, Sound
  <2>2. /\ task'[t].pc = "Callback.order" /\ task'[t].intent = i
        /\ task'[t].order = o /\ task'[t].records = task[t].records
    BY <1>0, <1>7, ContinuedLocals DEF MarkRecordSuccess
  <2>3. UNCHANGED intent /\ i \in Recorded' /\ Listed'
    BY <1>0, <1>00, <1>7, <2>1, <2>2 DEF MarkRecordSuccess, Grows
  <2>4. Marked(i)'
    BY <1>0, <1>7, <2>1, <2>2
       DEF MarkRecordSuccess, UpdatePaymentStatus, Marked, PaymentRecord
  <2> QED
    BY <1>0, <2>1, <2>2, <2>3, <2>4 DEF Sound, Captured
<1>8. CASE MarkOrderPaid(t)
  <2>1. /\ i \in Recorded /\ Captured(i) /\ o = intent[i].order
        /\ Marked(i)
    BY <1>0, <1>8 DEF MarkOrderPaid, Sound
  <2>2. /\ task'[t].pc = "Callback.product" /\ task'[t].intent = i
        /\ task'[t].order = o /\ task'[t].records = task[t].records
    BY <1>0, <1>8, ContinuedLocals DEF MarkOrderPaid
  <2>3. UNCHANGED <<rec, intent>> /\ o \in paymentTime'
    BY <1>8 DEF MarkOrderPaid, UpdateOrderStatus
  <2>4. Marked(i)' /\ Listed'
    BY <1>0, <1>00, <2>1, <2>2 DEF Grows
  <2> QED
    BY <1>0, <2>1, <2>2, <2>3, <2>4 DEF Sound, Captured, Recorded
<1>9. CASE ReadProduct(t)
  <2>1. /\ i \in Recorded /\ Captured(i) /\ o = intent[i].order
        /\ o \in paymentTime /\ Marked(i)
    BY <1>0, <1>9 DEF ReadProduct, Sound
  <2>2. UNCHANGED <<rec, intent, paymentTime, subs>>
    BY <1>9 DEF ReadProduct
  <2>3. CASE task'[t] = Idle
    BY <2>3, SoundIdle
  <2>4. CASE /\ o \in Subscribing
             /\ task'[t] = [task[t] EXCEPT !.pc = "Callback.subscription"]
    <3>1. /\ task'[t].pc = "Callback.subscription" /\ task'[t].intent = i
          /\ task'[t].order = o /\ task'[t].records = task[t].records
      BY <1>0, <2>4 DEF Task
    <3>2. Listed' /\ Marked(i)'
      BY <1>0, <1>00, <2>1, <3>1 DEF Grows
    <3> QED
      BY <1>0, <2>1, <2>2, <2>4, <3>1, <3>2 DEF Sound, Captured, Recorded
  <2>5. CASE /\ o \notin Subscribing
             /\ task'[t] = [task[t] EXCEPT !.pc = "Callback.answer"]
    <3>1. /\ task'[t].pc = "Callback.answer" /\ task'[t].intent = i
          /\ task'[t].order = o /\ task'[t].records = task[t].records
      BY <1>0, <2>5 DEF Task
    <3>2. Listed' /\ Marked(i)'
      BY <1>0, <1>00, <2>1, <3>1 DEF Grows
    <3> QED
      BY <1>0, <2>1, <2>2, <2>5, <3>1, <3>2 DEF Sound, Captured, Recorded, Settled
  <2> QED
    BY <1>0, <1>9, <2>3, <2>4, <2>5 DEF ReadProduct
<1>10. CASE CreateSubscription(t)
  <2>1. /\ i \in Recorded /\ Captured(i) /\ o = intent[i].order
        /\ o \in paymentTime /\ Marked(i)
    BY <1>0, <1>10 DEF CreateSubscription, Sound
  <2>2. UNCHANGED <<rec, intent, paymentTime>>
    BY <1>10 DEF CreateSubscription
  <2>3. CASE Ends(t)
    BY <1>0, <2>3, SoundIdle DEF Ends
  <2>4. CASE /\ subs' = [subs EXCEPT ![o] = @ + 1]
             /\ Continues(t, "Callback.answer")
    <3>1. /\ task'[t].pc = "Callback.answer" /\ task'[t].intent = i
          /\ task'[t].order = o /\ task'[t].records = task[t].records
      BY <1>0, <2>4, ContinuedLocals
    <3>2. o \in Orders /\ subs'[o] > 0
      BY <1>0, <2>1, <2>4
    <3>3. Listed' /\ Marked(i)'
      BY <1>0, <1>00, <2>1, <3>1 DEF Grows
    <3> QED
      BY <1>0, <2>1, <2>2, <3>1, <3>2, <3>3 DEF Sound, Captured, Recorded, Settled
  <2> QED
    BY <1>10, <2>3, <2>4 DEF CreateSubscription
<1>11. CASE AnswerCallback(t)
  BY <1>0, <1>11, SoundIdle DEF AnswerCallback, Ends
<1>14. ASSUME NEW p \in Orders, ExpireOrder(t, p)
       PROVE  Sound(t)'
  <2>1. task[t].pc = "ProcessExpiredOrders"
    BY <1>14 DEF ExpireOrder
  <2>2. CASE task'[t] = Idle
    BY <2>2, SoundIdle
  <2>3. CASE task'[t] = [task[t] EXCEPT !.orders = @ \ {p}]
    <3>1. /\ task'[t].pc = "ProcessExpiredOrders"
          /\ task'[t].records = task[t].records
      BY <1>0, <2>1, <2>3 DEF Task
    <3>2. Listed'
      BY <1>00, <3>1
    <3> QED
      BY <3>1, <3>2 DEF Sound
  <2> QED
    BY <1>0, <1>14, <2>2, <2>3 DEF ExpireOrder, SweepsOrder
<1>15. ASSUME NEW j \in Intents, ExpirePayment(t, j)
       PROVE  Sound(t)'
  <2>1. task[t].pc = "ProcessExpiredPayments"
    BY <1>15 DEF ExpirePayment
  <2>2. CASE task'[t] = Idle
    BY <2>2, SoundIdle
  <2>3. CASE task'[t] = [task[t] EXCEPT !.records = @ \ {j}]
    <3>1. /\ task'[t].pc = "ProcessExpiredPayments"
          /\ task'[t].records \subseteq task[t].records
      BY <1>0, <2>1, <2>3 DEF Task
    <3>2. Listed'
      BY <1>00, <3>1
    <3> QED
      BY <3>1, <3>2 DEF Sound
  <2> QED
    BY <1>0, <1>15, <2>2, <2>3 DEF ExpirePayment, SweepsRecord
<1> QED
  BY <1>1, <1>2, <1>3, <1>6, <1>7, <1>8, <1>9, <1>10,
     <1>11, <1>14, <1>15 DEF Step

\* Only the opening of a payment leads to the insertion of its record.
LEMMA Inserts ==
    ASSUME TypeOK, TypeOK', Next, NEW t \in Tasks, Inserting(t)'
    PROVE  task'[t] = task[t] \/ \E i \in Intents : OpenIntent(t, i)
<1>0. task \in [Tasks -> Task] /\ task[t] \in Task
  BY DEF TypeOK
<1>1. ASSUME Request(t) \/ Fault(t)
      PROVE  ~ Inserting(t)'
  <2>1. ASSUME NEW o \in Orders, NEW m \in Methods, CreatePayment(t, o, m)
        PROVE  ~ Inserting(t)'
    BY <1>0, <2>1 DEF CreatePayment, Starts, Idle, Inserting
  <2>2. ASSUME ProcessExpiredOrders(t) \/ ProcessExpiredPayments(t)
        PROVE  ~ Inserting(t)'
    BY <1>0, <2>2 DEF ProcessExpiredOrders, ProcessExpiredPayments, Starts,
                      Idle, Inserting
  <2>3. ASSUME Fault(t)
        PROVE  ~ Inserting(t)'
    BY <1>0, <2>3 DEF Fault, Ends, Idle, Inserting
  <2> QED
    BY <1>1, <2>1, <2>2, <2>3 DEF Request
<1>2. ASSUME Step(t), \A i \in Intents : ~ OpenIntent(t, i)
      PROVE  ~ Inserting(t)'
  <2>1. ASSUME \/ IntentRefused(t) \/ CreatePaymentRecord(t) \/ AnswerCallback(t)
        PROVE  ~ Inserting(t)'
    BY <1>0, <2>1 DEF IntentRefused, CreatePaymentRecord, AnswerCallback, Ends,
                      Idle, Inserting
  <2>2. ASSUME \/ GetPaymentRecordByProviderOrderID(t) \/ MarkRecordSuccess(t)
               \/ MarkOrderPaid(t) \/ ReadProduct(t) \/ CreateSubscription(t)
        PROVE  ~ Inserting(t)'
    <3>1. CASE GetPaymentRecordByProviderOrderID(t)
      BY <1>0, <3>1 DEF GetPaymentRecordByProviderOrderID, Idle, Inserting, Task
    <3>2. CASE MarkRecordSuccess(t) \/ MarkOrderPaid(t)
      BY <3>2, ContinuedLocals DEF MarkRecordSuccess, MarkOrderPaid, Inserting
    <3>3. CASE ReadProduct(t)
      BY <1>0, <3>3 DEF ReadProduct, Idle, Inserting, Task
    <3>4. CASE CreateSubscription(t)
      BY <1>0, <3>4, ContinuedLocals
         DEF CreateSubscription, Ends, Idle, Inserting
    <3> QED
      BY <2>2, <3>1, <3>2, <3>3, <3>4
  <2>3. ASSUME \/ \E o \in Orders : ExpireOrder(t, o)
               \/ \E i \in Intents : ExpirePayment(t, i)
        PROVE  ~ Inserting(t)'
    BY <1>0, <2>3 DEF ExpireOrder, SweepsOrder, ExpirePayment, SweepsRecord,
                      Idle, Inserting, Task
  <2> QED
    BY <1>2, <2>1, <2>2, <2>3 DEF Step
<1>3. ASSUME NEW i \in Intents, ProcessPaymentCallback(t, i)
      PROVE  ~ Inserting(t)'
  BY <1>0, <1>3 DEF ProcessPaymentCallback, Starts, Idle, Inserting
<1> QED
  BY <1>1, <1>2, <1>3, OneMoves

LEMMA FreshInvStep ==
    ASSUME IInv, TypeOK', Next
    PROVE  FreshInv'
<1>0. /\ TypeOK /\ FreshInv /\ RecordsInv
      /\ task \in [Tasks -> Task] /\ \A t \in Tasks : Sound(t)
  BY DEF IInv, TypeOK, Soundness
<1>1. ASSUME NEW t \in Tasks, NEW i \in Intents, OpenIntent(t, i)
      PROVE  /\ task'[t].intent = i /\ i \notin Recorded /\ UNCHANGED rec
             /\ \A u \in Tasks \ {t} : task'[u] = task[u]
             /\ \A u \in Tasks : Inserting(u) => task[u].intent # i
  BY <1>0, <1>1 DEF OpenIntent, RecordsInv, Sound, Inserting, Task
<1>2. ASSUME NEW t \in Tasks, CreatePaymentRecord(t)
      PROVE  ~ Inserting(t)' /\ Inserting(t)
  BY <1>0, <1>2 DEF CreatePaymentRecord, Ends, Idle, Inserting
<1>3. ASSUME NEW t \in Tasks, Inserting(t)'
      PROVE  task'[t].intent \notin Recorded'
  <2>1. ASSUME task[t].intent \in Recorded', task'[t] = task[t]
        PROVE  FALSE
    <3>1. task[t].intent \notin Recorded
      BY <1>0, <1>3, <2>1 DEF FreshInv, Inserting
    <3>2. PICK u \in Tasks : CreatePaymentRecord(u) /\ task[u].intent = task[t].intent
      BY <2>1, <3>1, NewRecord
    <3>3. u = t
      BY <1>0, <1>2, <1>3, <2>1, <3>2 DEF FreshInv, Inserting
    <3> QED
      BY <1>2, <1>3, <3>2, <3>3
  <2>2. ASSUME NEW i \in Intents, OpenIntent(t, i)
        PROVE  task'[t].intent \notin Recorded'
    BY <1>1, <2>2 DEF Recorded
  <2> QED
    BY <1>0, <1>3, <2>1, <2>2, Inserts
<1>4. ASSUME NEW t \in Tasks, NEW u \in Tasks, Inserting(t)', Inserting(u)',
             task'[t].intent = task'[u].intent, t # u
      PROVE  FALSE
  <2>1. \/ task'[t] = task[t] \/ \E i \in Intents : OpenIntent(t, i)
    BY <1>0, <1>4, Inserts
  <2>2. \/ task'[u] = task[u] \/ \E i \in Intents : OpenIntent(u, i)
    BY <1>0, <1>4, Inserts
  <2>3. CASE task'[t] = task[t] /\ task'[u] = task[u]
    BY <1>0, <1>4, <2>3 DEF FreshInv, Inserting
  <2>4. ASSUME NEW i \in Intents, OpenIntent(t, i)
        PROVE  FALSE
    BY <1>1, <1>4, <2>4 DEF Inserting
  <2>5. ASSUME NEW i \in Intents, OpenIntent(u, i)
        PROVE  FALSE
    BY <1>1, <1>4, <2>5 DEF Inserting
  <2> QED
    BY <2>1, <2>2, <2>3, <2>4, <2>5
<1> QED
  BY <1>3, <1>4 DEF FreshInv, Inserting

LEMMA SoundnessStep ==
    ASSUME IInv, TypeOK', Next
    PROVE  Soundness'
<1>0. TypeOK /\ IntentsInv /\ RecordsInv /\ Grows /\ Soundness
  BY GrowsStep DEF IInv
<1>1. ASSUME NEW t \in Tasks, task'[t] = task[t]
      PROVE  Sound(t)'
  BY <1>0, <1>1, SoundStable DEF Soundness
<1>2. CASE UNCHANGED task
  BY <1>1, <1>2 DEF Soundness
<1>3. ASSUME NEW t \in Tasks,
             \/ Request(t) \/ Step(t) \/ Fault(t)
             \/ \E i \in Intents : ProcessPaymentCallback(t, i),
             \A u \in Tasks \ {t} : task'[u] = task[u]
      PROVE  Soundness'
  <2>1. Fault(t) => Sound(t)'
    BY <1>0, SoundIdle DEF Fault, Ends, TypeOK
  <2>2. Sound(t)'
    BY <1>3, <2>1, SoundRequest, SoundStep, SoundCallback
  <2> QED
    BY <1>1, <1>3, <2>2 DEF Soundness
<1> QED
  BY <1>0, <1>2, <1>3, OneMoves

-----------------------------------------------------------------------------
(* The theorems.                                                            *)

\* Steps that leave every variable alone preserve everything.
LEMMA Stutters ==
    ASSUME IInv, UNCHANGED vars
    PROVE  IInv'
  BY DEF IInv, TypeOK, IntentsInv, RecordsInv, Soundness, Sound, PaidInv,
         SubscriptionWasPaidFor, AcknowledgedInv, FreshInv, Inserting,
         Recorded, Captured, Marked, Settled, CapturedFor,
         vars

LEMMA IInvStep == IInv /\ [Next]_vars => IInv'
<1> SUFFICES ASSUME IInv, [Next]_vars PROVE IInv'
    OBVIOUS
<1>1. CASE UNCHANGED vars
  BY <1>1, Stutters
<1>2. CASE Next
  <2>1. TypeOK'
    BY TypeNext DEF IInv
  <2> QED
    BY <1>2, <2>1, IntentsInvStep, RecordsInvStep, SoundnessStep, PaidInvStep,
       SubscriptionWasPaidForStep, AcknowledgedInvStep, FreshInvStep DEF IInv
<1> QED
  BY <1>1, <1>2

\* The inductive invariant holds of every reachable state.
THEOREM Invariance == Spec => []IInv
  BY InitHolds, IInvStep, PTL DEF Spec

\* Rows, provider intents and request locals keep their types, whatever the
\* interleaving of the handlers.
THEOREM TypeCorrect == Spec => []TypeOK
<1>1. IInv => TypeOK
  BY DEF IInv
<1> QED
  BY <1>1, Invariance, PTL

\* An order is stamped as paid, or shown as Paid, only if a provider captured
\* a payment made for that order.
THEOREM NoPaymentNoOrder == Spec => []PaidOrderWasCaptured
<1>1. IInv => PaidOrderWasCaptured
  BY DEF IInv, PaidInv, PaidOrderWasCaptured
<1> QED
  BY <1>1, Invariance, PTL

\* A subscription row exists only for an order of a subscription product that
\* was stamped as paid, and for which a provider captured a payment whose
\* record was marked Success (or Expired since, once it had lapsed).
THEOREM NoPaymentNoSubscription == Spec => []SubscriptionWasPaidFor
<1>1. IInv => SubscriptionWasPaidFor
  BY DEF IInv
<1> QED
  BY <1>1, Invariance, PTL

\* When callbacks come in the provider's own form, an acknowledged capture has
\* been settled in full: order paid, subscription granted.
THEOREM Acknowledged == ~ Enveloped => (Spec => []AcknowledgedIsSettled)
<1> SUFFICES ASSUME ~ Enveloped PROVE Spec => []AcknowledgedIsSettled
    OBVIOUS
<1>1. IInv => AcknowledgedIsSettled
  BY DEF IInv, AcknowledgedInv, AcknowledgedIsSettled, Captured, Settled
<1> QED
  BY <1>1, Invariance, PTL

\* and its record says Success for good, or Expired once it has lapsed, whatever
\* sweep, callback or insertion was under way.
THEOREM RecordIsKept == ~ Enveloped => (Spec => []AcknowledgedIsRecorded)
<1> SUFFICES ASSUME ~ Enveloped PROVE Spec => []AcknowledgedIsRecorded
    OBVIOUS
<1>1. IInv => AcknowledgedIsRecorded
  BY DEF IInv, AcknowledgedInv, AcknowledgedIsRecorded, Captured
<1> QED
  BY <1>1, Invariance, PTL

-----------------------------------------------------------------------------
(* The payment service implements the ledger: every step is one of its      *)
(* steps or leaves it alone.                                                *)

LEMMA LedgerInit == Init => Ledger!Init
  BY DEF Init, Ledger!Init

LEMMA LedgerOpens ==
    ASSUME IInv, NEW t \in Tasks, NEW i \in Intents, OpenIntent(t, i)
    PROVE  Ledger!Open(i, task[t].order)
<1>1. /\ intent \in [Intents -> Intent]
      /\ intent[i].order = None
  BY PaymentsAssumption
     DEF IInv, TypeOK, OpenIntent, IntentsInv, Intent
<1>2. \A j \in Intents :
         /\ intent'[j].order = IF j = i THEN task[t].order ELSE intent[j].order
         /\ intent'[j].state = "captured" <=> intent[j].state = "captured"
  BY <1>1 DEF OpenIntent, Intent
<1> QED
  BY <1>1, <1>2 DEF OpenIntent, Ledger!Open

LEMMA LedgerCaptures ==
    ASSUME IInv, NEW i \in Intents, Capture(i)
    PROVE  Ledger!Capture(i)
<1>1. intent \in [Intents -> Intent] /\ intent[i].order # None
  BY PaymentsAssumption DEF IInv, TypeOK, Capture, IntentsInv
<1>2. \A j \in Intents :
         /\ intent'[j].order = intent[j].order
         /\ intent'[j].state = "captured" <=> j = i \/ intent[j].state = "captured"
  BY <1>1 DEF Capture, Intent
<1> QED
  BY <1>1, <1>2 DEF Capture, Ledger!Capture

LEMMA LedgerIgnoresClose ==
    ASSUME IInv, NEW i \in Intents, Close(i)
    PROVE  UNCHANGED Ledger!vars
<1>1. intent \in [Intents -> Intent]
  BY DEF IInv, TypeOK
<1>2. \A j \in Intents :
         /\ intent'[j].order = intent[j].order
         /\ intent'[j].state = "captured" <=> intent[j].state = "captured"
  BY <1>1 DEF Close, Intent
<1> QED
  BY <1>2 DEF Close, Ledger!vars

LEMMA LedgerPays ==
    ASSUME IInv, NEW t \in Tasks, MarkOrderPaid(t)
    PROVE  Ledger!Pay(task[t].order)
<1>1. /\ task[t].intent \in Intents /\ Captured(task[t].intent)
      /\ task[t].order = intent[task[t].intent].order
  BY DEF IInv, MarkOrderPaid, Soundness, Sound
<1> QED
  BY <1>1 DEF MarkOrderPaid, UpdateOrderStatus, Captured, Ledger!Pay

LEMMA LedgerGrants ==
    ASSUME IInv, NEW t \in Tasks, CreateSubscription(t)
    PROVE  UNCHANGED Ledger!vars \/ Ledger!Grant(task[t].order)
<1>1. task[t].order \in paymentTime \cap Subscribing
  BY DEF IInv, CreateSubscription, Soundness, Sound
<1> QED
  BY <1>1 DEF CreateSubscription, Ledger!Grant, Ledger!vars

LEMMA LedgerAnswers ==
    ASSUME ~ Enveloped, IInv, NEW t \in Tasks, AnswerCallback(t)
    PROVE  Ledger!Answer(task[t].intent)
<1>1. /\ task[t].intent \in Intents
      /\ intent[task[t].intent].state # "unused"
      /\ Captured(task[t].intent) => Settled(intent[task[t].intent].order)
  BY DEF IInv, AnswerCallback, Soundness, Sound
<1>2. intent[task[t].intent].order # None
  BY <1>1, PaymentsAssumption DEF IInv, IntentsInv
<1> QED
  BY <1>1, <1>2 DEF AnswerCallback, Captured, Settled, Ledger!Answer,
                    Ledger!Settled

LEMMA LedgerStep ==
    ASSUME ~ Enveloped, IInv, [Next]_vars
    PROVE  [Ledger!Next]_(Ledger!vars)
<1>0. \A t \in Tasks : Sound(t) /\ task[t] \in Task
  BY DEF IInv, Soundness, TypeOK
<1>1. CASE UNCHANGED <<intent, paymentTime, subs, acked>>
  BY <1>1 DEF Ledger!vars
<1>2. ASSUME NEW t \in Tasks, NEW i \in Intents, OpenIntent(t, i)
      PROVE  Ledger!Next
  <2>1. task[t].order \in Orders
    BY <1>0, <1>2 DEF OpenIntent, Sound
  <2>2. Ledger!Open(i, task[t].order)
    BY <1>2, LedgerOpens
  <2>3. \E j \in Intents, o \in Orders : Ledger!Open(j, o)
    BY <2>1, <2>2 DEF Ledger!Open
  <2> QED
    BY <2>3 DEF Ledger!Next
<1>3. ASSUME NEW i \in Intents, Capture(i)
      PROVE  Ledger!Next
  BY <1>3, LedgerCaptures DEF Ledger!Next
<1>5. ASSUME NEW t \in Tasks, MarkOrderPaid(t)
      PROVE  Ledger!Next
  <2>1. task[t].order \in Orders
    <3>1. /\ task[t].intent \in Intents
          /\ intent[task[t].intent].state = "captured"
          /\ task[t].order = intent[task[t].intent].order
      BY <1>0, <1>5 DEF MarkOrderPaid, Sound, Captured
    <3> QED
      BY <3>1 DEF IInv, IntentsInv
  <2> QED
    BY <1>5, <2>1, LedgerPays DEF Ledger!Next
<1>6. ASSUME NEW t \in Tasks, CreateSubscription(t)
      PROVE  [Ledger!Next]_(Ledger!vars)
  <2>1. task[t].order \in Orders
    <3>1. task[t].order \in paymentTime
      BY <1>0, <1>6 DEF CreateSubscription, Sound
    <3> QED
      BY <3>1 DEF IInv, TypeOK
  <2> QED
    BY <1>6, <2>1, LedgerGrants DEF Ledger!Next
<1>7. ASSUME NEW t \in Tasks, AnswerCallback(t)
      PROVE  Ledger!Next
  <2>1. task[t].intent \in Intents
    BY <1>0, <1>7 DEF AnswerCallback, Sound
  <2> QED
    BY <1>7, <2>1, LedgerAnswers DEF Ledger!Next
<1>8. CASE UNCHANGED vars
  BY <1>1, <1>8 DEF vars
<1>9. CASE Next
  <2>1. CASE ~ UNCHANGED intent
    BY <1>2, <1>3, <1>9, <2>1, IntentWriters, LedgerIgnoresClose
  <2>2. CASE ~ UNCHANGED paymentTime
    <3>1. \E t \in Tasks : MarkOrderPaid(t)
      BY <1>9, <2>2, OrderWriters
         DEF ExpireOrder, CancelOrder, UpdateOrderStatus
    <3> QED
      BY <1>5, <3>1
  <2>3. CASE ~ UNCHANGED subs
    BY <1>6, <1>9, <2>3, SubscriptionWriters
  <2>4. CASE ~ UNCHANGED acked
    BY <1>7, <1>9, <2>4, AcknowledgementWriters
  <2> QED
    BY <1>1, <2>1, <2>2, <2>3, <2>4
<1> QED
  BY <1>8, <1>9

\* With callbacks in the provider's own form, every behaviour of the handlers,
\* however they interleave and wherever they fail, is a behaviour of the ledger.
THEOREM Refinement == ~ Enveloped => (Spec => KeepsLedger)
<1> SUFFICES ASSUME ~ Enveloped PROVE Spec => KeepsLedger
    OBVIOUS
<1>1. IInv /\ [Next]_vars => [Ledger!Next]_(Ledger!vars)
  BY LedgerStep
<1> QED
  BY <1>1, LedgerInit, Invariance, PTL DEF Spec, KeepsLedger, Ledger!Spec
=============================================================================
