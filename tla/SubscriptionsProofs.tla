------------------------ MODULE SubscriptionsProofs ------------------------
(***************************************************************************)
(* Proofs about Subscriptions for any subscriptions, requests, plans,       *)
(* durations and bounds.  A request writes what it computed from a row it   *)
(* read earlier, so the properties have to hold of every such image too:    *)
(* GoodRow(s, r, extra) says of a row r of subscription s, in the table or  *)
(* in the locals of a request, that it charges no more than was granted,    *)
(* lasts no longer than was bought (and extra, for a renewal under way),    *)
(* and is not expired before its time.                                      *)
(***************************************************************************)
EXTENDS Subscriptions, TLAPS

Paid(s) == born[s] + Extension(Plan[s])

Bought(s) == born[s] + bought[s]

GoodRow(s, r, extra) ==
    /\ r \in Subscription
    /\ r.status # "absent"
    /\ r.product \in Products
    /\ r.used <= granted[s]
    /\ Paid(s) <= r.end
    /\ r.end <= Bought(s) + extra
    /\ r.status = "Expired" => Paid(s) <= now
    /\ s \notin Upgradable => /\ r.limit = QuotaLimit[Plan[s]]
                              /\ r.used <= QuotaLimit[Plan[s]]

Rows == \A s \in Inserted : GoodRow(s, row[s], 0)

Unused == \A s \in Subs \ Inserted : row[s] = Absent

Sound(t) ==
    LET s == task[t].sub
        r == task[t].row
    IN  /\ task[t].pc = "ConsumeUserQuota" =>
              /\ s \in Inserted
              /\ GoodRow(s, r, 0)
              /\ s \notin Upgradable => r.used + task[t].amount <= QuotaLimit[Plan[s]]
        /\ task[t].pc \in {"RenewSubscription", "UpgradeSubscription"} =>
              s \in Inserted /\ GoodRow(s, r, task[t].extension)
        /\ \A other \in task[t].subs :
              other \in Inserted /\ Paid(other) <= now

Soundness == \A t \in Tasks : Sound(t)

IInv == TypeOK /\ Rows /\ Unused /\ Soundness

\* What a row was found to be stays true while this holds of each step.
Grows ==
    /\ \A s \in Inserted :
          /\ s \in Inserted'
          /\ born'[s] = born[s]
          /\ granted[s] <= granted'[s]
          /\ bought[s] <= bought'[s]
    /\ now <= now'

-----------------------------------------------------------------------------
LEMMA ExtensionIsNat == \A p \in Products : Extension(p) \in Nat
  BY SubscriptionsAssumption DEF Extension

LEMMA BoughtIsNat ==
    ASSUME TypeOK, NEW s \in Subs
    PROVE  /\ Plan[s] \in Products /\ QuotaLimit[Plan[s]] \in Nat
           /\ Paid(s) \in Nat /\ Bought(s) \in Nat
<1>1. Plan[s] \in Products
  BY SubscriptionsAssumption
<1>2. PICK e \in Nat : e = Extension(Plan[s])
  BY <1>1, ExtensionIsNat
<1>3. QuotaLimit[Plan[s]] \in Nat
  BY <1>1, SubscriptionsAssumption
<1> QED
  BY <1>1, <1>2, <1>3 DEF Paid, Bought, TypeOK

LEMMA GoodRowStable ==
    ASSUME TypeOK, TypeOK', Grows, NEW s \in Inserted,
           NEW r, NEW extra \in Nat, GoodRow(s, r, extra)
    PROVE  GoodRow(s, r, extra)'
<1>1. /\ s \in Subs
      /\ born[s] \in Nat /\ bought[s] \in Nat /\ granted[s] \in Nat
      /\ bought'[s] \in Nat /\ granted'[s] \in Nat
      /\ now \in Nat /\ now' \in Nat
  BY SubscriptionsAssumption DEF TypeOK, Inserted
<1>2. r \in Subscription /\ r.used \in Nat /\ r.end \in Nat
  BY DEF GoodRow, Subscription
<1>3. /\ born'[s] = born[s] /\ granted[s] <= granted'[s] /\ now <= now'
      /\ bought[s] <= bought'[s]
  BY DEF Grows
<1>4. Bought(s) \in Nat /\ Bought(s)' \in Nat /\ Bought(s) <= Bought(s)'
  BY <1>1, <1>3 DEF Bought
<1>5. Paid(s)' = Paid(s) /\ Paid(s) \in Nat
  BY <1>1, <1>3, BoughtIsNat DEF Paid, Extension
<1>6. r.used <= granted'[s] /\ r.end <= Bought(s)' + extra
  BY <1>1, <1>2, <1>3, <1>4 DEF GoodRow
<1>7. r.status = "Expired" => Paid(s)' <= now'
  BY <1>1, <1>3, <1>5 DEF GoodRow
<1> QED
  BY <1>2, <1>5, <1>6, <1>7 DEF GoodRow

LEMMA InitHolds == Init => IInv
<1> SUFFICES ASSUME Init PROVE IInv
    OBVIOUS
<1>1. Absent \in Subscription
  BY DEF Absent, Subscription
<1>2. Idle \in Task
  BY <1>1 DEF Idle, Task
<1>3. TypeOK
  BY <1>1, <1>2, SubscriptionsAssumption DEF Init, TypeOK
<1>4. Rows /\ Unused
  BY DEF Init, Rows, Unused, Inserted, Absent
<1>5. Soundness
  BY DEF Init, Soundness, Sound, Idle
<1> QED
  BY <1>3, <1>4, <1>5 DEF IInv

-----------------------------------------------------------------------------
(* Writes to a row: the images they leave.                                  *)

LEMMA StatusWritten ==
    ASSUME NEW r \in Subscription, NEW v \in {"Active", "Expired", "Canceled"}
    PROVE  /\ [r EXCEPT !.status = v] \in Subscription
           /\ [r EXCEPT !.status = v].status = v
           /\ [r EXCEPT !.status = v].used = r.used
           /\ [r EXCEPT !.status = v].end = r.end
           /\ [r EXCEPT !.status = v].limit = r.limit
           /\ [r EXCEPT !.status = v].product = r.product
  BY DEF Subscription

LEMMA UsedWritten ==
    ASSUME NEW r \in Subscription, NEW n \in Nat
    PROVE  /\ [r EXCEPT !.used = n] \in Subscription
           /\ [r EXCEPT !.used = n].status = r.status
           /\ [r EXCEPT !.used = n].used = n
           /\ [r EXCEPT !.used = n].end = r.end
           /\ [r EXCEPT !.used = n].limit = r.limit
           /\ [r EXCEPT !.used = n].product = r.product
  BY DEF Subscription

LEMMA EndWritten ==
    ASSUME NEW r \in Subscription, NEW n \in Nat
    PROVE  /\ [r EXCEPT !.end = n] \in Subscription
           /\ [r EXCEPT !.end = n].status = r.status
           /\ [r EXCEPT !.end = n].used = r.used
           /\ [r EXCEPT !.end = n].end = n
           /\ [r EXCEPT !.end = n].limit = r.limit
           /\ [r EXCEPT !.end = n].product = r.product
  BY DEF Subscription

LEMMA ProductWritten ==
    ASSUME NEW r \in Subscription, NEW p \in Products, NEW n \in Nat
    PROVE  /\ [r EXCEPT !.product = p, !.limit = n] \in Subscription
           /\ [r EXCEPT !.product = p, !.limit = n].status = r.status
           /\ [r EXCEPT !.product = p, !.limit = n].used = r.used
           /\ [r EXCEPT !.product = p, !.limit = n].end = r.end
           /\ [r EXCEPT !.product = p, !.limit = n].product = p
  BY DEF Subscription

LEMMA IdleTyped == Idle \in Task
  BY DEF Idle, Task, Absent, Subscription

LEMMA StartsConsuming ==
    ASSUME NEW s \in Subs, NEW r \in Subscription, NEW n \in Nat
    PROVE  [Idle EXCEPT !.pc = "ConsumeUserQuota", !.sub = s,
                        !.row = r, !.amount = n] \in Task
  BY DEF Idle, Task, Absent, Subscription

LEMMA StartsRenewing ==
    ASSUME NEW s \in Subs, NEW r \in Subscription, NEW e \in Nat
    PROVE  [Idle EXCEPT !.pc = "RenewSubscription", !.sub = s, !.row = r,
                        !.extension = e] \in Task
  BY DEF Idle, Task, Absent, Subscription

LEMMA StartsUpgrading ==
    ASSUME NEW s \in Subs, NEW r \in Subscription
    PROVE  [Idle EXCEPT !.pc = "UpgradeSubscription", !.sub = s, !.row = r] \in Task
  BY DEF Idle, Task, Absent, Subscription

LEMMA StartsSweeping ==
    ASSUME NEW S \in SUBSET Subs
    PROVE  [Idle EXCEPT !.pc = "ProcessExpiredSubscriptions", !.subs = S] \in Task
  BY DEF Idle, Task, Absent, Subscription

LEMMA SweptTyped ==
    ASSUME NEW k \in Task, NEW S \in SUBSET Subs
    PROVE  [k EXCEPT !.subs = S] \in Task
  BY DEF Task

-----------------------------------------------------------------------------
(* Type correctness and growth.                                             *)

LEMMA TypeStep ==
    ASSUME IInv, [Next]_vars
    PROVE  TypeOK'
<1> USE SubscriptionsAssumption
<1>0. /\ row \in [Subs -> Subscription] /\ task \in [Tasks -> Task]
      /\ granted \in [Subs -> Nat] /\ bought \in [Subs -> Nat]
      /\ born \in [Subs -> Nat] /\ now \in 0..MaxTime
      /\ faults \in 0..MaxFaults
      /\ \A t \in Tasks : task[t] \in Task /\ Sound(t)
  BY DEF IInv, TypeOK, Soundness
<1>1. ASSUME NEW t \in Tasks, NEW k \in Task, task' = [task EXCEPT ![t] = k]
      PROVE  task' \in [Tasks -> Task]
  BY <1>0, <1>1
<1>2. ASSUME NEW t \in Tasks, NEW u \in Users, NEW n \in Amounts,
             ConsumeUserQuota(t, u, n)
      PROVE  TypeOK'
  <2>1. PICK s \in Subs : task' = [task EXCEPT ![t] =
          [Idle EXCEPT !.pc = "ConsumeUserQuota", !.sub = s,
                       !.row = row[s], !.amount = n]]
    BY <1>2 DEF ConsumeUserQuota, Starts, ActiveSubscriptions, Active
  <2>2. row[s] \in Subscription /\ n \in Nat
    BY <1>0
  <2>3. task' \in [Tasks -> Task]
    BY <1>1, <2>1, <2>2, StartsConsuming
  <2> QED
    BY <1>0, <1>2, <2>3 DEF ConsumeUserQuota, TypeOK
<1>3. ASSUME NEW t \in Tasks, UpdateSubscriptionQuota(t)
      PROVE  TypeOK'
  <2> DEFINE s == task[t].sub
             n == task[t].row.used + task[t].amount
  <2>1. s \in Subs /\ n \in Nat /\ task[t].amount \in Nat
    BY <1>0, <1>3
       DEF UpdateSubscriptionQuota, Sound, Inserted, Task, Subscription
  <2>2. row' = [row EXCEPT ![s] = [row[s] EXCEPT !.used = n]]
    BY <1>3 DEF UpdateSubscriptionQuota, QuotaToStore
  <2>3. row' \in [Subs -> Subscription]
    BY <1>0, <2>1, <2>2, UsedWritten
  <2>4. task' \in [Tasks -> Task]
    BY <1>1, <1>3, IdleTyped DEF UpdateSubscriptionQuota, Ends
  <2>5. granted' \in [Subs -> Nat]
    BY <1>0, <1>3, <2>1 DEF UpdateSubscriptionQuota
  <2> QED
    BY <1>0, <1>3, <2>3, <2>4, <2>5 DEF UpdateSubscriptionQuota, TypeOK
<1>4. ASSUME NEW t \in Tasks, NEW s \in Subs, RenewSubscription(t, s)
      PROVE  TypeOK'
  <2>1. row[s].product \in Products /\ row[s] \in Subscription
    BY <1>0, <1>4 DEF RenewSubscription, IInv, Rows, GoodRow
  <2>2. PICK e \in Nat : e = Extension(row[s].product)
    BY <2>1, ExtensionIsNat
  <2>3. row[s].end + e \in Nat
    BY <2>1, <2>2 DEF Subscription
  <2>4. [row[s] EXCEPT !.end = row[s].end + e] \in Subscription
    BY <2>1, <2>3, EndWritten
  <2>5. task' = [task EXCEPT ![t] =
          [Idle EXCEPT !.pc = "RenewSubscription", !.sub = s,
                       !.row = [row[s] EXCEPT !.end = row[s].end + e],
                       !.extension = e]]
    BY <1>4, <2>2 DEF RenewSubscription, RenewedEnd, Starts
  <2>6. task' \in [Tasks -> Task]
    BY <1>1, <2>2, <2>4, <2>5, StartsRenewing
  <2> QED
    BY <1>0, <1>4, <2>6 DEF RenewSubscription, TypeOK
<1>5. ASSUME NEW t \in Tasks, NEW s \in Subs, NEW p \in Products,
             UpgradeSubscription(t, s, p)
      PROVE  TypeOK'
  <2>1. [row[s] EXCEPT !.product = p, !.limit = QuotaLimit[p]] \in Subscription
    <3>1. row[s] \in Subscription /\ QuotaLimit[p] \in Nat
      BY <1>0
    <3> QED
      BY <3>1, ProductWritten
  <2>2. task' \in [Tasks -> Task]
    BY <1>1, <1>5, <2>1, StartsUpgrading DEF UpgradeSubscription, Starts
  <2> QED
    BY <1>0, <1>5, <2>2 DEF UpgradeSubscription, TypeOK
<1>6. ASSUME NEW t \in Tasks, UpdateSubscription(t)
      PROVE  TypeOK'
  <2>1. /\ task[t].sub \in Subs /\ task[t].row \in Subscription
        /\ task[t].extension \in Nat
    BY <1>0, <1>6 DEF UpdateSubscription, Sound, Inserted, Task
  <2>2. row' \in [Subs -> Subscription] /\ bought' \in [Subs -> Nat]
    BY <1>0, <1>6, <2>1 DEF UpdateSubscription
  <2>3. task' \in [Tasks -> Task]
    BY <1>1, <1>6, IdleTyped DEF UpdateSubscription, Ends
  <2> QED
    BY <1>0, <1>6, <2>2, <2>3 DEF UpdateSubscription, TypeOK
<1>7. ASSUME NEW t \in Tasks, ProcessExpiredSubscriptions(t)
      PROVE  TypeOK'
  <2>1. ExpiredSubscriptions \in SUBSET Subs
    BY DEF ExpiredSubscriptions
  <2>2. task' \in [Tasks -> Task]
    BY <1>1, <1>7, <2>1, StartsSweeping DEF ProcessExpiredSubscriptions, Starts
  <2> QED
    BY <1>0, <1>7, <2>2 DEF ProcessExpiredSubscriptions, TypeOK
<1>8. ASSUME NEW t \in Tasks, NEW s \in Subs, ExpireSubscription(t, s)
      PROVE  TypeOK'
  <2>1. [row[s] EXCEPT !.status = "Expired"] \in Subscription
    BY <1>0, StatusWritten, ZenonT(30)
  <2>2. row' \in [Subs -> Subscription]
    BY <1>0, <1>8, <2>1 DEF ExpireSubscription
  <2>3. task[t].subs \ {s} \in SUBSET Subs
    BY <1>0 DEF Task
  <2>4. [task[t] EXCEPT !.subs = task[t].subs \ {s}] \in Task
    BY <1>0, <2>3, SweptTyped
  <2>5. \/ task' = [task EXCEPT ![t] = Idle]
        \/ task' = [task EXCEPT ![t] =
                       [task[t] EXCEPT !.subs = task[t].subs \ {s}]]
    BY <1>8 DEF ExpireSubscription
  <2>6. task' \in [Tasks -> Task]
    BY <1>1, <2>4, <2>5, IdleTyped
  <2>7. faults' \in 0..MaxFaults
    BY <1>0, <1>8 DEF ExpireSubscription
  <2> QED
    BY <1>0, <1>8, <2>2, <2>6, <2>7 DEF ExpireSubscription, TypeOK
<1>9. ASSUME NEW t \in Tasks, Fault(t)
      PROVE  TypeOK'
  <2>1. task' \in [Tasks -> Task]
    BY <1>1, <1>9, IdleTyped DEF Fault, Ends
  <2> QED
    BY <1>0, <1>9, <2>1 DEF Fault, TypeOK
<1>10. ASSUME NEW s \in Subs, CreateSubscription(s)
       PROVE  TypeOK'
  <2>1. Plan[s] \in Products /\ QuotaLimit[Plan[s]] \in Nat
    BY <1>0, BoughtIsNat DEF IInv
  <2>2. PICK e \in Nat : e = Extension(Plan[s])
    BY <2>1, ExtensionIsNat
  <2>3. now \in Nat /\ now + e \in Nat
    BY <1>0, <2>2
  <2>4. PICK r : r = [status |-> "Active", product |-> Plan[s], end |-> now + e,
                      limit |-> QuotaLimit[Plan[s]], used |-> 0]
    OBVIOUS
  <2>5. r \in Subscription
    BY <2>1, <2>3, <2>4 DEF Subscription
  <2>6. row' = [row EXCEPT ![s] = r] /\ bought' = [bought EXCEPT ![s] = e]
    BY <1>10, <2>2, <2>4 DEF CreateSubscription
  <2>7. row' \in [Subs -> Subscription] /\ bought' \in [Subs -> Nat]
    BY <1>0, <2>2, <2>5, <2>6
  <2>8. born' \in [Subs -> Nat]
    BY <1>0, <1>10, <2>3 DEF CreateSubscription
  <2> QED
    BY <1>0, <1>10, <2>7, <2>8 DEF CreateSubscription, TypeOK
<1>11. ASSUME NEW s \in Subs, CancelSubscription(s)
       PROVE  TypeOK'
  <2>1. [row[s] EXCEPT !.status = "Canceled"] \in Subscription
    BY <1>0, StatusWritten, ZenonT(30)
  <2>2. row' \in [Subs -> Subscription]
    BY <1>0, <1>11, <2>1 DEF CancelSubscription
  <2> QED
    BY <1>0, <1>11, <2>2 DEF CancelSubscription, TypeOK
<1>12. CASE Tick
  BY <1>0, <1>12 DEF Tick, TypeOK
<1>13. CASE UNCHANGED vars
  BY <1>0, <1>13 DEF vars, TypeOK
<1> QED
  BY <1>2, <1>3, <1>4, <1>5, <1>6, <1>7, <1>8, <1>9, <1>10, <1>11, <1>12,
     <1>13 DEF Next

\* Each step that writes rows changes the image of one row, and leaves it
\* inserted.
LEMMA GrowsStep ==
    ASSUME IInv, [Next]_vars
    PROVE  Grows
<1>0. /\ row \in [Subs -> Subscription] /\ task \in [Tasks -> Task]
      /\ granted \in [Subs -> Nat] /\ bought \in [Subs -> Nat]
      /\ born \in [Subs -> Nat] /\ now \in Nat
      /\ \A t \in Tasks : task[t] \in Task /\ Sound(t)
      /\ Inserted \subseteq Subs
  BY SubscriptionsAssumption DEF IInv, TypeOK, Soundness, Inserted
<1>1. ASSUME NEW s \in Inserted
      PROVE  /\ s \in Subs
             /\ granted[s] <= granted[s] /\ granted[s] \in Nat
             /\ bought[s] <= bought[s] /\ bought[s] \in Nat
             /\ row[s] \in Subscription /\ row[s].status # "absent"
  BY <1>0 DEF Inserted
<1>2. now <= now /\ now <= now + 1
  BY <1>0
<1>3. ASSUME UNCHANGED <<row, born, granted, bought>>, now <= now'
      PROVE  Grows
  BY <1>1, <1>3 DEF Grows, Inserted
<1>4. ASSUME NEW t \in Tasks,
             \/ \E u \in Users, n \in Amounts : ConsumeUserQuota(t, u, n)
             \/ \E s \in Subs : RenewSubscription(t, s)
             \/ \E s \in Subs, p \in Products : UpgradeSubscription(t, s, p)
             \/ ProcessExpiredSubscriptions(t)
             \/ Fault(t)
      PROVE  Grows
  <2>1. UNCHANGED <<row, born, granted, bought, now>>
    BY <1>4 DEF ConsumeUserQuota, RenewSubscription, UpgradeSubscription,
                ProcessExpiredSubscriptions, Fault
  <2> QED
    BY <1>2, <1>3, <2>1
<1>5. ASSUME NEW t \in Tasks, UpdateSubscriptionQuota(t)
      PROVE  Grows
  <2>1. task[t].sub \in Subs /\ task[t].amount \in Nat
    BY <1>0, <1>5 DEF UpdateSubscriptionQuota, Sound, Inserted, Task
  <2>2. \A s \in Inserted : row'[s].status = row[s].status
    BY <1>0, <1>5 DEF UpdateSubscriptionQuota, Subscription
  <2>3. \A s \in Inserted : granted[s] <= granted'[s]
    BY <1>0, <1>1, <1>5, <2>1 DEF UpdateSubscriptionQuota
  <2>4. UNCHANGED <<bought, born, now>>
    BY <1>5 DEF UpdateSubscriptionQuota
  <2> QED
    BY <1>1, <1>2, <2>2, <2>3, <2>4 DEF Grows, Inserted
<1>6. ASSUME NEW t \in Tasks, UpdateSubscription(t)
      PROVE  Grows
  <2>1. /\ task[t].sub \in Inserted /\ task[t].row.status # "absent"
        /\ task[t].extension \in Nat
    BY <1>0, <1>6 DEF UpdateSubscription, Sound, GoodRow, Task
  <2>2. \A s \in Inserted : row'[s].status # "absent"
    BY <1>0, <1>1, <1>6, <2>1 DEF UpdateSubscription
  <2>3. \A s \in Inserted : bought[s] <= bought'[s]
    BY <1>0, <1>1, <1>6, <2>1 DEF UpdateSubscription
  <2>4. UNCHANGED <<granted, born, now>>
    BY <1>6 DEF UpdateSubscription
  <2> QED
    BY <1>1, <1>2, <2>2, <2>3, <2>4 DEF Grows, Inserted
<1>7. ASSUME NEW t \in Tasks, NEW s \in Subs, ExpireSubscription(t, s)
      PROVE  Grows
  <2>1. \A other \in Inserted : row'[other].status # "absent"
    BY <1>0, <1>1, <1>7
       DEF ExpireSubscription, Subscription
  <2>2. UNCHANGED <<granted, bought, born, now>>
    BY <1>7 DEF ExpireSubscription
  <2> QED
    BY <1>1, <1>2, <2>1, <2>2 DEF Grows, Inserted
<1>8. ASSUME NEW s \in Subs, CancelSubscription(s)
      PROVE  Grows
  <2>1. \A other \in Inserted : row'[other].status # "absent"
    BY <1>0, <1>1, <1>8 DEF CancelSubscription, Subscription
  <2>2. UNCHANGED <<granted, bought, born, now>>
    BY <1>8 DEF CancelSubscription
  <2> QED
    BY <1>1, <1>2, <2>1, <2>2 DEF Grows, Inserted
<1>9. ASSUME NEW s \in Subs, CreateSubscription(s)
      PROVE  Grows
  <2>1. s \notin Inserted
    BY <1>9 DEF CreateSubscription, Inserted
  <2>2. \A other \in Inserted : row'[other] = row[other]
                                /\ born'[other] = born[other]
    BY <1>0, <1>9, <2>1 DEF CreateSubscription
  <2>3. \A other \in Inserted : bought'[other] = bought[other]
    BY <1>0, <1>9, <2>1 DEF CreateSubscription
  <2>4. UNCHANGED <<granted, now>>
    BY <1>9 DEF CreateSubscription
  <2> QED
    BY <1>1, <1>2, <2>2, <2>3, <2>4 DEF Grows, Inserted
<1>10. CASE Tick
  BY <1>2, <1>3, <1>10 DEF Tick
<1>11. CASE UNCHANGED vars
  BY <1>2, <1>3, <1>11 DEF vars
<1> QED
  BY <1>4, <1>5, <1>6, <1>7, <1>8, <1>9, <1>10, <1>11 DEF Next

-----------------------------------------------------------------------------
(* What each step preserves.                                                *)

LEMMA RowKept ==
    ASSUME TypeOK, TypeOK', Grows, NEW s \in Inserted, row'[s] = row[s],
           GoodRow(s, row[s], 0)
    PROVE  GoodRow(s, row[s], 0)'
<1>1. PICK r : r = row[s]
  OBVIOUS
<1>2. GoodRow(s, r, 0)
  BY <1>1 DEF GoodRow
<1>3. GoodRow(s, r, 0)'
  BY <1>2, GoodRowStable
<1>4. row'[s] = r
  BY <1>1
<1> QED
  BY <1>3, <1>4 DEF GoodRow

\* A request that does not move stays sound.
LEMMA SoundStable ==
    ASSUME TypeOK, TypeOK', Grows, NEW t \in Tasks, task'[t] = task[t], Sound(t)
    PROVE  Sound(t)'
<1>1. PICK k : k = task[t]
  OBVIOUS
<1>2. task'[t] = k
  BY <1>1
<1>3. ASSUME k.pc = "ConsumeUserQuota"
      PROVE  k.sub \in Inserted' /\ GoodRow(k.sub, k.row, 0)'
  <2>1. k.sub \in Inserted /\ GoodRow(k.sub, k.row, 0)
    BY <1>1, <1>3 DEF Sound, GoodRow
  <2> QED
    BY <2>1, GoodRowStable DEF Grows
<1>4. ASSUME k.pc \in {"RenewSubscription", "UpgradeSubscription"}
      PROVE  k.sub \in Inserted' /\ GoodRow(k.sub, k.row, k.extension)'
  <2>1. k.sub \in Inserted /\ GoodRow(k.sub, k.row, k.extension)
    BY <1>1, <1>4 DEF Sound, GoodRow
  <2>2. k.extension \in Nat
    BY <1>1 DEF TypeOK, Task
  <2> QED
    BY <2>1, <2>2, GoodRowStable DEF Grows
<1>5. ASSUME NEW other \in k.subs
      PROVE  other \in Inserted' /\ Paid(other)' <= now'
  <2>1. other \in Inserted /\ Paid(other) <= now
    BY <1>1, <1>5 DEF Sound
  <2>2. other \in Subs /\ Paid(other)' = Paid(other) /\ Paid(other) \in Nat
    BY <2>1, BoughtIsNat DEF Grows, Paid, Inserted, Extension
  <2> QED
    BY <2>1, <2>2, SubscriptionsAssumption DEF Grows, TypeOK
<1>6. k.pc = "ConsumeUserQuota" /\ k.sub \notin Upgradable
          => k.row.used + k.amount <= QuotaLimit[Plan[k.sub]]
  BY <1>1 DEF Sound
<1> QED
  BY <1>2, <1>3, <1>4, <1>5, <1>6 DEF Sound, GoodRow

LEMMA SoundIdle ==
    ASSUME NEW t \in Tasks, task'[t] = Idle
    PROVE  Sound(t)'
  BY DEF Sound, Idle

\* The preservation of IInv by a step that leaves the rows alone: a request
\* that moves reaches a sound state.
LEMMA ReadingStep ==
    ASSUME IInv, TypeOK', Grows,
           UNCHANGED <<row, born, granted, bought, now>>,
           \A u \in Tasks : task'[u] = task[u] \/ Sound(u)'
    PROVE  IInv'
<1>1. Inserted' = Inserted
  BY DEF Inserted
<1>2. Rows'
  BY <1>1, RowKept DEF IInv, Rows
<1>3. Unused'
  BY <1>1 DEF IInv, Unused
<1>4. Soundness'
  BY SoundStable DEF IInv, Soundness
<1> QED
  BY <1>2, <1>3, <1>4 DEF IInv

\* The preservation of IInv by a step that writes row s: what it writes is a
\* good row, and a request that moves reaches a sound state.
LEMMA WritingStep ==
    ASSUME IInv, TypeOK', Grows, NEW s \in Inserted, GoodRow(s, row[s], 0)',
           \A other \in Subs \ {s} : row'[other] = row[other],
           \A u \in Tasks : task'[u] = task[u] \/ Sound(u)'
    PROVE  IInv'
<1>1. Inserted' = Inserted
  BY DEF Inserted, GoodRow
<1>2. Rows'
  <2> SUFFICES ASSUME NEW other \in Inserted' PROVE GoodRow(other, row[other], 0)'
    BY DEF Rows
  <2>1. CASE other = s
    BY <2>1
  <2>2. CASE other # s
    BY <1>1, <2>2, RowKept DEF IInv, Rows, Inserted
  <2> QED
    BY <2>1, <2>2
<1>3. Unused'
  BY <1>1 DEF IInv, Unused
<1>4. Soundness'
  BY SoundStable DEF IInv, Soundness
<1> QED
  BY <1>2, <1>3, <1>4 DEF IInv

-----------------------------------------------------------------------------
(* The requests that read a row.                                            *)

LEMMA Facts ==
    ASSUME IInv
    PROVE  /\ row \in [Subs -> Subscription] /\ task \in [Tasks -> Task]
           /\ granted \in [Subs -> Nat] /\ bought \in [Subs -> Nat]
           /\ born \in [Subs -> Nat] /\ now \in Nat /\ TypeOK
           /\ \A t \in Tasks : task[t] \in Task /\ Sound(t)
           /\ \A s \in Inserted : GoodRow(s, row[s], 0) /\ s \in Subs
           /\ \A s \in Subs \ Inserted : row[s] = Absent
  BY SubscriptionsAssumption
     DEF IInv, TypeOK, Soundness, Rows, Unused, Inserted

\* A request that starts on row s with a good image of it, and with no list of
\* rows to expire, is sound.
LEMMA StartSound ==
    ASSUME TypeOK, NEW t \in Tasks, NEW k \in Task,
           Starts(t, k), UNCHANGED <<row, born, granted, bought, now>>,
           k.sub \in Inserted, k.subs = {},
           GoodRow(k.sub, k.row, k.extension),
           k.pc = "ConsumeUserQuota" =>
               /\ k.extension = 0
               /\ k.sub \notin Upgradable =>
                     k.row.used + k.amount <= QuotaLimit[Plan[k.sub]]
    PROVE  \A u \in Tasks : task'[u] = task[u] \/ Sound(u)'
<1>1. task' = [task EXCEPT ![t] = k] /\ task \in [Tasks -> Task]
  BY DEF Starts, TypeOK
<1>2. task'[t] = k /\ \A u \in Tasks \ {t} : task'[u] = task[u]
  BY <1>1
<1>3. Sound(t)'
  BY <1>2 DEF Sound, GoodRow, Inserted, Paid, Bought, Extension
<1> QED
  BY <1>2, <1>3

LEMMA Consume ==
    ASSUME IInv, TypeOK', Grows, NEW t \in Tasks, NEW u \in Users,
           NEW n \in Amounts, ConsumeUserQuota(t, u, n)
    PROVE  IInv'
<1>1. PICK s \in ActiveSubscriptions(u) :
        /\ ~ QuotaExceeded(row[s], n)
        /\ Starts(t, [Idle EXCEPT !.pc = "ConsumeUserQuota", !.sub = s,
                                  !.row = row[s], !.amount = n])
  BY DEF ConsumeUserQuota
<1>2. s \in Inserted /\ s \in Subs /\ n \in Nat
  BY SubscriptionsAssumption
     DEF ActiveSubscriptions, Active, Inserted
<1> DEFINE k == [Idle EXCEPT !.pc = "ConsumeUserQuota", !.sub = s,
                             !.row = row[s], !.amount = n]
<1>3. /\ k \in Task /\ k.pc = "ConsumeUserQuota" /\ k.sub = s
      /\ k.row = row[s] /\ k.amount = n /\ k.subs = {} /\ k.extension = 0
  BY <1>2, Facts, StartsConsuming DEF Idle
<1>4. UNCHANGED <<row, born, granted, bought, now>>
  BY DEF ConsumeUserQuota
<1>5. GoodRow(s, row[s], 0)
  BY <1>2, Facts
<1>6. s \notin Upgradable => row[s].used + n <= QuotaLimit[Plan[s]]
  <2>1. row[s].used \in Nat /\ row[s].limit \in Nat
    BY <1>5 DEF GoodRow, Subscription
  <2> QED
    BY <1>1, <1>2, <1>5, <2>1 DEF GoodRow, QuotaExceeded
<1>7. Starts(t, k)
  BY <1>1
<1> HIDE DEF k
<1>8. \A v \in Tasks : task'[v] = task[v] \/ Sound(v)'
  BY <1>2, <1>3, <1>4, <1>5, <1>6, <1>7, Facts, StartSound
<1> QED
  BY <1>4, <1>8, ReadingStep

LEMMA Renew ==
    ASSUME IInv, TypeOK', Grows, NEW t \in Tasks, NEW s \in Subs,
           RenewSubscription(t, s)
    PROVE  IInv'
<1>1. UNCHANGED <<row, born, granted, bought, now>> /\ s \in Inserted
  BY DEF RenewSubscription
<1>2. GoodRow(s, row[s], 0) /\ row[s] \in Subscription
  BY <1>1, Facts
<1>3. PICK e \in Nat : e = Extension(row[s].product)
  BY <1>2, ExtensionIsNat DEF GoodRow
<1>4. row[s].end \in Nat /\ row[s].end + e \in Nat
  BY <1>2, <1>3 DEF Subscription
<1>5. PICK r \in Subscription : r = [row[s] EXCEPT !.end = row[s].end + e]
  BY <1>2, <1>4, EndWritten
<1>6. PICK k \in Task : k = [Idle EXCEPT !.pc = "RenewSubscription",
                                        !.sub = s, !.row = r, !.extension = e]
  BY StartsRenewing
<1>7. Starts(t, k)
  BY <1>3, <1>5, <1>6 DEF RenewSubscription, RenewedEnd
<1>8. /\ k.pc = "RenewSubscription" /\ k.sub = s /\ k.row = r /\ k.subs = {}
      /\ k.extension = e
  BY <1>6 DEF Idle
<1>9. GoodRow(s, r, e)
  <2>1. Paid(s) \in Nat /\ Bought(s) \in Nat
    BY Facts, BoughtIsNat
  <2>2. /\ r.status = row[s].status /\ r.used = row[s].used
        /\ r.end = row[s].end + e /\ r.limit = row[s].limit
        /\ r.product = row[s].product
    BY <1>2, <1>4, <1>5, EndWritten
  <2>3. Paid(s) <= r.end /\ r.end <= Bought(s) + e
    BY <1>2, <1>4, <2>1, <2>2 DEF GoodRow
  <2> QED
    BY <1>2, <2>2, <2>3 DEF GoodRow
<1>10. \A v \in Tasks : task'[v] = task[v] \/ Sound(v)'
  BY <1>1, <1>7, <1>8, <1>9, Facts, StartSound
<1> QED
  BY <1>1, <1>10, ReadingStep

LEMMA Upgrade ==
    ASSUME IInv, TypeOK', Grows, NEW t \in Tasks, NEW s \in Subs,
           NEW p \in Products, UpgradeSubscription(t, s, p)
    PROVE  IInv'
<1>1. row[s] \in Subscription /\ QuotaLimit[p] \in Nat
  BY Facts, SubscriptionsAssumption
<1>2. PICK r \in Subscription :
        r = [row[s] EXCEPT !.product = p, !.limit = QuotaLimit[p]]
  BY <1>1, ProductWritten
<1>3. PICK k \in Task : k = [Idle EXCEPT !.pc = "UpgradeSubscription",
                                        !.sub = s, !.row = r]
  BY StartsUpgrading
<1>4. /\ k.pc = "UpgradeSubscription" /\ k.sub = s /\ k.row = r /\ k.subs = {}
      /\ k.extension = 0
  BY <1>3 DEF Idle
<1>5. /\ UNCHANGED <<row, born, granted, bought, now>>
      /\ s \in Inserted /\ s \in Upgradable /\ Starts(t, k)
  BY <1>2, <1>3 DEF UpgradeSubscription
<1>6. GoodRow(s, r, 0)
  <2>1. GoodRow(s, row[s], 0)
    BY <1>5, Facts
  <2>2. /\ r.status = row[s].status /\ r.used = row[s].used
        /\ r.end = row[s].end /\ r.product = p
    BY <1>1, <1>2 DEF Subscription
  <2> QED
    BY <1>5, <2>1, <2>2 DEF GoodRow
<1>7. \A v \in Tasks : task'[v] = task[v] \/ Sound(v)'
  BY <1>4, <1>5, <1>6, Facts, StartSound
<1> QED
  BY <1>5, <1>7, ReadingStep

\* The rows that the sweep lists have reached their end.
LEMMA Sweep ==
    ASSUME IInv, TypeOK', Grows, NEW t \in Tasks, ProcessExpiredSubscriptions(t)
    PROVE  IInv'
<1>1. PICK k : k = [Idle EXCEPT !.pc = "ProcessExpiredSubscriptions",
                                !.subs = ExpiredSubscriptions]
  OBVIOUS
<1>2. k.pc = "ProcessExpiredSubscriptions" /\ k.subs = ExpiredSubscriptions
  BY <1>1 DEF Idle
<1>3. /\ UNCHANGED <<row, born, granted, bought, now>>
      /\ task' = [task EXCEPT ![t] = k]
  BY <1>1 DEF ProcessExpiredSubscriptions, Starts
<1>4. task'[t] = k /\ \A u \in Tasks \ {t} : task'[u] = task[u]
  BY <1>3, Facts
<1>5. ASSUME NEW s \in ExpiredSubscriptions
      PROVE  s \in Inserted /\ Paid(s) <= now
  <2>1. s \in Inserted /\ row[s].end <= now
    BY DEF ExpiredSubscriptions, Over, Inserted
  <2>2. GoodRow(s, row[s], 0) /\ Paid(s) \in Nat /\ row[s].end \in Nat
    BY <2>1, Facts, BoughtIsNat DEF Subscription
  <2> QED
    BY <2>1, <2>2, Facts DEF GoodRow
<1>6. Sound(t)'
  BY <1>2, <1>3, <1>4, <1>5 DEF Sound, Inserted, Paid, Extension
<1> QED
  BY <1>3, <1>4, <1>6, ReadingStep

LEMMA Fail ==
    ASSUME IInv, TypeOK', Grows, NEW t \in Tasks, Fault(t)
    PROVE  IInv'
<1>1. task'[t] = Idle /\ \A u \in Tasks \ {t} : task'[u] = task[u]
  BY Facts DEF Fault, Ends
<1>2. UNCHANGED <<row, born, granted, bought, now>>
  BY DEF Fault
<1> QED
  BY <1>1, <1>2, SoundIdle, ReadingStep

-----------------------------------------------------------------------------
(* The requests that write a row.                                           *)

LEMMA Charge ==
    ASSUME IInv, TypeOK', Grows, NEW t \in Tasks, UpdateSubscriptionQuota(t)
    PROVE  IInv'
<1>1. PICK s, r, n : s = task[t].sub /\ r = task[t].row /\ n = task[t].amount
  OBVIOUS
<1>2. /\ s \in Inserted /\ GoodRow(s, r, 0) /\ n \in Nat /\ r.used \in Nat
      /\ s \notin Upgradable => r.used + n <= QuotaLimit[Plan[s]]
  BY <1>1, Facts DEF UpdateSubscriptionQuota, Sound, GoodRow, Task, Subscription
<1>3. GoodRow(s, row[s], 0) /\ row[s] \in Subscription /\ s \in Subs
  BY <1>2, Facts
<1>4. row' = [row EXCEPT ![s] = [row[s] EXCEPT !.used = r.used + n]]
  BY <1>1 DEF UpdateSubscriptionQuota, QuotaToStore
<1>5. /\ granted' = [granted EXCEPT ![s] = granted[s] + n]
      /\ UNCHANGED <<bought, born, now>>
      /\ task'[t] = Idle /\ \A u \in Tasks \ {t} : task'[u] = task[u]
  BY <1>1, Facts DEF UpdateSubscriptionQuota, Ends
<1>6. GoodRow(s, row[s], 0)'
  <2>1. /\ row'[s] \in Subscription /\ row'[s].status = row[s].status
        /\ row'[s].used = r.used + n /\ row'[s].end = row[s].end
        /\ row'[s].limit = row[s].limit /\ row'[s].product = row[s].product
    <3>1. PICK x : x = [row[s] EXCEPT !.used = r.used + n]
      OBVIOUS
    <3>2. /\ x \in Subscription /\ x.status = row[s].status
          /\ x.used = r.used + n /\ x.end = row[s].end
          /\ x.limit = row[s].limit /\ x.product = row[s].product
      BY <1>2, <1>3, <3>1, UsedWritten
    <3>3. row'[s] = x
      BY <1>3, <1>4, <3>1, Facts
    <3> QED
      BY <3>2, <3>3
  <2>2. granted'[s] = granted[s] + n /\ granted[s] \in Nat
    BY <1>3, <1>5, Facts
  <2>3. row'[s].used <= granted'[s]
    BY <1>2, <2>1, <2>2 DEF GoodRow
  <2>4. Paid(s)' = Paid(s) /\ Bought(s)' = Bought(s)
    BY <1>5 DEF Paid, Bought, Extension
  <2> QED
    BY <1>2, <1>3, <1>5, <2>1, <2>3, <2>4 DEF GoodRow
<1>7. \A other \in Subs \ {s} : row'[other] = row[other]
  BY <1>4, Facts
<1> QED
  BY <1>2, <1>5, <1>6, <1>7, SoundIdle, WritingStep

\* What a saved image ends later than was bought, its renewal adds to what was
\* bought.
LEMMA Save ==
    ASSUME IInv, TypeOK', Grows, NEW t \in Tasks, UpdateSubscription(t)
    PROVE  IInv'
<1>1. PICK s, r, e : /\ s = task[t].sub /\ r = task[t].row
                     /\ e = task[t].extension
  OBVIOUS
<1>2. s \in Inserted /\ s \in Subs /\ e \in Nat /\ GoodRow(s, r, e)
  BY <1>1, Facts DEF UpdateSubscription, Sound, Task
<1>3. /\ row' = [row EXCEPT ![s] = r] /\ UNCHANGED <<granted, born, now>>
      /\ bought' = [bought EXCEPT ![s] = bought[s] + e]
      /\ task'[t] = Idle /\ \A u \in Tasks \ {t} : task'[u] = task[u]
  BY <1>1, Facts DEF UpdateSubscription, Ends
<1>4. row'[s] = r /\ \A other \in Subs \ {s} : row'[other] = row[other]
  BY <1>2, <1>3, Facts
<1>5. Paid(s)' = Paid(s)
  BY <1>3 DEF Paid, Extension
<1>6. Bought(s)' = Bought(s) + e /\ Bought(s) \in Nat /\ r.end \in Nat
  BY <1>2, <1>3, Facts DEF Bought, GoodRow, Subscription
<1>7. r.end <= Bought(s)' + 0
  BY <1>2, <1>6 DEF GoodRow
<1>8. GoodRow(s, row[s], 0)'
  BY <1>2, <1>3, <1>4, <1>5, <1>7 DEF GoodRow
<1> QED
  BY <1>2, <1>3, <1>4, <1>8, SoundIdle, WritingStep

\* A new status leaves the rest of the row as it was.
LEMMA NewStatus ==
    ASSUME IInv, Grows, NEW s \in Inserted, NEW v \in {"Expired", "Canceled"},
           row' = [row EXCEPT ![s].status = v],
           UNCHANGED <<granted, bought, born, now>>,
           v = "Expired" => Paid(s) <= now
    PROVE  /\ GoodRow(s, row[s], 0)'
           /\ \A other \in Subs \ {s} : row'[other] = row[other]
<1>1. GoodRow(s, row[s], 0) /\ row[s] \in Subscription /\ s \in Subs
  BY Facts
<1>2. row' = [row EXCEPT ![s] = [row[s] EXCEPT !.status = v]]
  OBVIOUS
<1>3. /\ row'[s] \in Subscription /\ row'[s].status = v
      /\ row'[s].used = row[s].used /\ row'[s].end = row[s].end
      /\ row'[s].limit = row[s].limit /\ row'[s].product = row[s].product
  <2>1. PICK x : x = [row[s] EXCEPT !.status = v]
    OBVIOUS
  <2>2. /\ x \in Subscription /\ x.status = v
        /\ x.used = row[s].used /\ x.end = row[s].end
        /\ x.limit = row[s].limit /\ x.product = row[s].product
    <3>1. v \in {"Active", "Expired", "Canceled"}
      OBVIOUS
    <3>2. PICK r \in Subscription : r = row[s]
      BY <1>1
    <3>3. x = [r EXCEPT !.status = v]
      BY <2>1, <3>2
    <3> QED
      BY <3>1, <3>2, <3>3 DEF Subscription
  <2>3. row'[s] = x
    BY <1>1, <1>2, <2>1, Facts
  <2> QED
    BY <2>2, <2>3
<1>4. Paid(s)' = Paid(s) /\ Bought(s)' = Bought(s)
  BY DEF Paid, Bought, Extension
<1>5. GoodRow(s, row[s], 0)'
  BY <1>1, <1>3, <1>4 DEF GoodRow
<1> QED
  BY <1>2, <1>5, Facts

LEMMA Cancel ==
    ASSUME IInv, TypeOK', Grows, NEW s \in Subs, CancelSubscription(s)
    PROVE  IInv'
<1>1. /\ s \in Inserted /\ row' = [row EXCEPT ![s].status = "Canceled"]
      /\ UNCHANGED <<granted, bought, born, task, now>>
  BY DEF CancelSubscription
<1>2. /\ GoodRow(s, row[s], 0)'
      /\ \A other \in Subs \ {s} : row'[other] = row[other]
  BY <1>1, NewStatus
<1> QED
  BY <1>1, <1>2, WritingStep

LEMMA Expire ==
    ASSUME IInv, TypeOK', Grows, NEW t \in Tasks, NEW s \in Subs,
           ExpireSubscription(t, s)
    PROVE  IInv'
<1>1. s \in Inserted /\ Paid(s) <= now
  BY Facts DEF ExpireSubscription, Sound
<1>2. UNCHANGED <<granted, bought, born, now>>
  BY DEF ExpireSubscription
<1>3. PICK k : k = IF task[t].subs = {s} THEN Idle
                   ELSE [task[t] EXCEPT !.subs = task[t].subs \ {s}]
  OBVIOUS
<1>4. task'[t] = k /\ \A u \in Tasks \ {t} : task'[u] = task[u]
  BY <1>3, Facts DEF ExpireSubscription
<1>5. k = Idle \/ (/\ k.pc = "ProcessExpiredSubscriptions"
                  /\ k.subs \subseteq task[t].subs)
  BY <1>3, Facts DEF ExpireSubscription, Task
<1>6. Sound(t)'
  <2>1. CASE k = Idle
    BY <1>4, <2>1, SoundIdle
  <2>2. CASE /\ k.pc = "ProcessExpiredSubscriptions"
             /\ k.subs \subseteq task[t].subs
    <3>1. \A other \in k.subs : other \in Inserted /\ Paid(other) <= now
      BY <2>2, Facts DEF Sound
    <3>2. \A other \in k.subs : other \in Inserted' /\ Paid(other)' <= now'
      BY <1>2, <3>1 DEF Grows, Paid, Extension
    <3> QED
      BY <1>4, <2>2, <3>2 DEF Sound
  <2> QED
    BY <1>5, <2>1, <2>2
<1>7. CASE row' = [row EXCEPT ![s].status = "Expired"]
  <2>1. /\ GoodRow(s, row[s], 0)'
        /\ \A other \in Subs \ {s} : row'[other] = row[other]
    BY <1>1, <1>2, <1>7, NewStatus
  <2> QED
    BY <1>1, <1>4, <1>6, <2>1, WritingStep
<1>8. CASE UNCHANGED row
  BY <1>2, <1>4, <1>6, <1>8, ReadingStep
<1> QED
  BY <1>7, <1>8 DEF ExpireSubscription

LEMMA Create ==
    ASSUME IInv, TypeOK', Grows, NEW s \in Subs, CreateSubscription(s)
    PROVE  IInv'
<1>1. s \notin Inserted /\ granted[s] \in Nat /\ now \in Nat
  BY Facts DEF CreateSubscription, Inserted
<1>2. Plan[s] \in Products /\ QuotaLimit[Plan[s]] \in Nat
  BY Facts, BoughtIsNat
<1>3. PICK e \in Nat : e = Extension(Plan[s])
  BY <1>2, ExtensionIsNat
<1>4. PICK r : r = [status |-> "Active", product |-> Plan[s], end |-> now + e,
                    limit |-> QuotaLimit[Plan[s]], used |-> 0]
  OBVIOUS
<1>5. /\ row' = [row EXCEPT ![s] = r]
      /\ born' = [born EXCEPT ![s] = now]
      /\ bought' = [bought EXCEPT ![s] = e]
      /\ UNCHANGED <<granted, task, now>>
  BY <1>3, <1>4 DEF CreateSubscription
<1>6. row'[s] = r /\ \A other \in Subs \ {s} : row'[other] = row[other]
  BY <1>5, Facts
<1>7. born'[s] = now /\ bought'[s] = e /\ granted'[s] = granted[s]
  BY <1>5, Facts
<1>8. GoodRow(s, row[s], 0)'
  <2>1. Paid(s)' = now + e /\ Bought(s)' = now + e
    BY <1>3, <1>7 DEF Paid, Bought, Extension
  <2>2. /\ r.end = now + e /\ r.used = 0 /\ r.limit = QuotaLimit[Plan[s]]
        /\ r.status = "Active" /\ r.product = Plan[s]
    BY <1>4
  <2>3. Paid(s)' <= r.end /\ r.end <= Bought(s)' + 0
    BY <1>1, <1>3, <2>1, <2>2
  <2>4. r.used <= granted'[s] /\ r.used <= QuotaLimit[Plan[s]]
    BY <1>1, <1>2, <1>7, <2>2
  <2>5. r \in Subscription
    BY <1>6 DEF TypeOK
  <2> QED
    BY <1>2, <1>6, <2>2, <2>3, <2>4, <2>5 DEF GoodRow
<1>9. Inserted' = Inserted \cup {s}
  BY <1>1, <1>4, <1>6 DEF Inserted
<1>10. Rows'
  BY <1>6, <1>8, <1>9, RowKept, Facts DEF Rows
<1>11. Unused'
  BY <1>6, <1>9, Facts DEF Unused
<1>12. Soundness'
  BY <1>5, SoundStable, Facts DEF Soundness
<1> QED
  BY <1>10, <1>11, <1>12 DEF IInv

\* Time passing changes no row.
LEMMA Idling ==
    ASSUME IInv, TypeOK', Grows,
           UNCHANGED <<row, born, granted, bought, task>>
    PROVE  IInv'
<1>1. Inserted' = Inserted
  BY DEF Inserted
<1>2. Rows'
  BY <1>1, RowKept, Facts DEF Rows
<1>3. Unused'
  BY <1>1 DEF IInv, Unused
<1>4. Soundness'
  BY SoundStable, Facts DEF Soundness
<1> QED
  BY <1>2, <1>3, <1>4 DEF IInv

LEMMA IInvStep == IInv /\ [Next]_vars => IInv'
<1> SUFFICES ASSUME IInv, [Next]_vars PROVE IInv'
    OBVIOUS
<1>0. TypeOK' /\ Grows
  BY TypeStep, GrowsStep
<1>1. ASSUME NEW t \in Tasks,
             \/ \E u \in Users, amount \in Amounts : ConsumeUserQuota(t, u, amount)
             \/ UpdateSubscriptionQuota(t)
             \/ \E s \in Subs : \/ RenewSubscription(t, s)
                                \/ \E product \in Products :
                                      UpgradeSubscription(t, s, product)
                                \/ ExpireSubscription(t, s)
             \/ UpdateSubscription(t)
             \/ ProcessExpiredSubscriptions(t)
             \/ Fault(t)
      PROVE  IInv'
  BY <1>0, <1>1, Consume, Charge, Renew, Upgrade, Expire, Save, Sweep, Fail
<1>2. ASSUME NEW s \in Subs, CreateSubscription(s) \/ CancelSubscription(s)
      PROVE  IInv'
  BY <1>0, <1>2, Create, Cancel
<1>3. CASE Tick
  BY <1>0, <1>3, Idling DEF Tick
<1>4. CASE UNCHANGED vars
  BY <1>0, <1>4, Idling DEF vars
<1> QED
  BY <1>1, <1>2, <1>3, <1>4 DEF Next

-----------------------------------------------------------------------------
(* The theorems.                                                            *)

\* The invariant of the rows and of the images that requests hold of them
\* (pkg/pay/payment_service_impl.go, models/subscription.go).
THEOREM Invariance == Spec => []IInv
<1>1. Init => IInv
  BY InitHolds
<1>2. IInv /\ [Next]_vars => IInv'
  BY IInvStep
<1> QED
  BY <1>1, <1>2, PTL DEF Spec

\* Rows and request locals have their types: in particular no counter of a row
\* falls below zero.
THEOREM TypeCorrect == Spec => []TypeOK
<1>1. IInv => TypeOK
  BY DEF IInv
<1> QED
  BY <1>1, Invariance, PTL

\* While a subscription keeps its plan, the used column stays within the
\* limit, however ConsumeUserQuota requests and renewals interleave.
THEOREM WithinLimit == Spec => []UsedWithinLimit
<1>1. IInv => UsedWithinLimit
  <2> SUFFICES ASSUME IInv, NEW s \in Subs \ Upgradable
               PROVE  row[s].used <= row[s].limit
    BY DEF UsedWithinLimit
  <2>1. CASE s \in Inserted
    BY <2>1, Facts DEF GoodRow
  <2>2. CASE s \notin Inserted
    BY <2>2, Facts DEF Absent
  <2> QED
    BY <2>1, <2>2
<1> QED
  BY <1>1, Invariance, PTL

\* No interleaving of ConsumeUserQuota with the requests that save whole rows
\* charges a subscription for quota that was not granted on it.
THEOREM ChargesAreGranted == Spec => []ChargedWasGranted
<1>1. IInv => ChargedWasGranted
  <2> SUFFICES ASSUME IInv, NEW s \in Subs
               PROVE  row[s].used <= granted[s]
    BY DEF ChargedWasGranted
  <2>1. CASE s \in Inserted
    BY <2>1, Facts DEF GoodRow
  <2>2. CASE s \notin Inserted
    BY <2>2, Facts DEF Absent
  <2> QED
    BY <2>1, <2>2
<1> QED
  BY <1>1, Invariance, PTL

\* No interleaving of renewals with the requests that save whole rows extends
\* a subscription beyond what its purchase and its renewals account for.
THEOREM TimeIsBought == Spec => []TimeWasBought
<1>1. IInv => TimeWasBought
  <2> SUFFICES ASSUME IInv, NEW s \in Inserted
               PROVE  row[s].end <= Bought(s)
    BY DEF TimeWasBought, Bought
  <2>1. GoodRow(s, row[s], 0) /\ Bought(s) \in Nat
    BY Facts, BoughtIsNat
  <2> QED
    BY <2>1 DEF GoodRow
<1> QED
  BY <1>1, Invariance, PTL

\* ProcessExpiredSubscriptions, with the delay between its list and its writes,
\* and the saves that bring an expired row back, never leave a row expired
\* within the time that its purchase paid for.
THEOREM ExpiryIsDue == Spec => []ExpiredWasDue
<1>1. IInv => ExpiredWasDue
  BY Facts DEF ExpiredWasDue, GoodRow, Paid
<1> QED
  BY <1>1, Invariance, PTL
=============================================================================
