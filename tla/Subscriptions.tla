--------------------------- MODULE Subscriptions ---------------------------
(***************************************************************************)
(* The life of subscriptions rows (models/subscription.go) under the        *)
(* requests of pkg/pay/payment_service_impl.go: quota is consumed, the      *)
(* subscription is renewed, upgraded, cancelled, and swept when its end     *)
(* time has come.                                                           *)
(*                                                                          *)
(* Each request reads a row and writes it in a later step.  Consuming       *)
(* quota, cancelling and expiring write the columns they are about;         *)
(* renewing and upgrading save every column of the row that was read.       *)
(***************************************************************************)
EXTENDS Integers, FiniteSets

CONSTANTS
    Subs,        \* the subscription ids
    Users,       \* the users
    Owner,       \* the user of each subscription
    Tasks,       \* the request goroutines that may be in flight at once
    Products,    \* the products that subscriptions are sold as
    Plan,        \* the product each subscription is bought as
    Duration,    \* the duration of each product; 0: see Extension
    Year,        \* the default duration
    QuotaLimit,  \* the quota limit of each product, as a row comes to hold it
    Upgradable,  \* the subscriptions that UpgradeSubscription is called for
    Amounts,     \* the amounts of quota that are consumed at a time
    None,        \* no subscription
    MaxTime,     \* bound on the clock
    MaxFaults,   \* bound on failed calls and crashes
    MaxBought,   \* no renewal starts on a subscription that bought this much
    MaxGranted   \* no quota is asked of a subscription that granted this much

ASSUME SubscriptionsAssumption ==
    /\ Owner \in [Subs -> Users]
    /\ Plan \in [Subs -> Products]
    /\ Duration \in [Products -> Nat]
    /\ Year \in Nat \ {0}
    /\ QuotaLimit \in [Products -> Nat]
    /\ Upgradable \subseteq Subs
    /\ Amounts \subseteq Nat \ {0}
    /\ None \notin Subs
    /\ MaxTime \in Nat /\ MaxFaults \in Nat
    /\ MaxBought \in Nat /\ MaxGranted \in Nat

VARIABLES
    row,       \* the subscriptions rows
    granted,   \* the quota that ConsumeUserQuota granted on each of them
    bought,    \* the time bought on each: the purchase and the saved renewals
    born,      \* the time at which each was inserted
    task,      \* the locals of each request goroutine
    now,       \* the clock
    faults     \* failed calls and crashes so far

vars == <<row, granted, bought, born, task, now, faults>>

-----------------------------------------------------------------------------
\* status "absent" marks a row that was not inserted yet
Subscription == [status  : {"absent", "Active", "Expired", "Canceled"},
                 product : Products \cup {None},
                 end     : Nat,
                 limit   : Nat,
                 used    : Nat]

Absent == [status |-> "absent", product |-> None, end |-> 0, limit |-> 0,
           used |-> 0]

Task == [pc        : {"idle", "ConsumeUserQuota", "RenewSubscription",
                      "UpgradeSubscription", "ProcessExpiredSubscriptions"},
         sub       : Subs \cup {None},
         row       : Subscription,
         amount    : Nat,
         extension : Nat,
         subs      : SUBSET Subs]

Idle == [pc |-> "idle", sub |-> None, row |-> Absent, amount |-> 0,
         extension |-> 0, subs |-> {}]

Init ==
    /\ row = [s \in Subs |-> Absent]
    /\ granted = [s \in Subs |-> 0]
    /\ bought = [s \in Subs |-> 0]
    /\ born = [s \in Subs |-> 0]
    /\ task = [t \in Tasks |-> Idle]
    /\ now = 0
    /\ faults = 0

-----------------------------------------------------------------------------
Inserted == {s \in Subs : row[s].status # "absent"}

\* How long a purchase or a renewal of product p lasts.
Extension(p) == IF Duration[p] > 0 THEN Duration[p] ELSE Year

\* GetUserActiveSubscription: the active row of the user that ends last.
Active(u) == {s \in Subs : /\ Owner[s] = u
                           /\ row[s].status = "Active"
                           /\ row[s].end > now}

ActiveSubscriptions(u) ==
    {s \in Active(u) : \A other \in Active(u) : row[other].end <= row[s].end}

\* Mutant of Over: the column compared is the start time.
OverOnceStarted(s) == born[s] <= now

Over(s) == row[s].end <= now

ExpiredSubscriptions == {s \in Subs : row[s].status = "Active" /\ Over(s)}

Starts(t, locals) ==
    /\ task[t].pc = "idle"
    /\ task' = [task EXCEPT ![t] = locals]

Ends(t) == task' = [task EXCEPT ![t] = Idle]

-----------------------------------------------------------------------------
CreateSubscription(s) ==
    /\ row[s].status = "absent"
    /\ row' = [row EXCEPT ![s] = [status  |-> "Active",
                                  product |-> Plan[s],
                                  end     |-> now + Extension(Plan[s]),
                                  limit   |-> QuotaLimit[Plan[s]],
                                  used    |-> 0]]
    /\ bought' = [bought EXCEPT ![s] = Extension(Plan[s])]
    /\ born' = [born EXCEPT ![s] = now]
    /\ UNCHANGED <<granted, task, now, faults>>

\* Mutant of QuotaExceeded: what is to be consumed is not counted.
QuotaUsedUp(r, amount) == r.used > r.limit

QuotaExceeded(r, amount) == r.used + amount > r.limit

ConsumeUserQuota(t, u, amount) ==
    \E s \in ActiveSubscriptions(u) :
        /\ ~ QuotaExceeded(row[s], amount)
        /\ granted[s] < MaxGranted
        /\ Starts(t, [Idle EXCEPT !.pc = "ConsumeUserQuota", !.sub = s,
                                  !.row = row[s], !.amount = amount])
        /\ UNCHANGED <<row, granted, bought, born, now, faults>>

\* Mutants of QuotaToStore: the new total is added to the column; the amount is
\* taken off what was used.
AddsTheTotal(s, read, amount) == row[s].used + read + amount

TakesOff(s, read, amount) == read - amount

\* The total is computed from the row that was read, not from the column.
QuotaToStore(s, read, amount) == read + amount

UpdateSubscriptionQuota(t) ==
    LET s == task[t].sub
    IN  /\ task[t].pc = "ConsumeUserQuota"
        /\ row' = [row EXCEPT ![s].used =
                      QuotaToStore(s, task[t].row.used, task[t].amount)]
        /\ granted' = [granted EXCEPT ![s] = @ + task[t].amount]
        /\ Ends(t)
        /\ UNCHANGED <<bought, born, now, faults>>

-----------------------------------------------------------------------------
(* The row is read, its end checked, and every column saved.               *)

\* Mutant of RenewedEnd: the default is added to the product's duration.
AddsDefaultToo(end, p) == end + Duration[p] + Year

RenewedEnd(end, p) == end + Extension(p)

\* The extension is that of the product which the row names by now.
RenewSubscription(t, s) ==
    LET product == row[s].product
    IN  /\ s \in Inserted
        /\ ~ (now > row[s].end)
        /\ bought[s] < MaxBought
        /\ Starts(t, [Idle EXCEPT
                        !.pc = "RenewSubscription", !.sub = s,
                        !.row = [row[s] EXCEPT !.end = RenewedEnd(@, product)],
                        !.extension = Extension(product)])
        /\ UNCHANGED <<row, granted, bought, born, now, faults>>

UpgradeSubscription(t, s, product) ==
    /\ s \in Inserted \cap Upgradable
    /\ Starts(t, [Idle EXCEPT
                    !.pc = "UpgradeSubscription", !.sub = s,
                    !.row = [row[s] EXCEPT !.product = product,
                                           !.limit = QuotaLimit[product]]])
    /\ UNCHANGED <<row, granted, bought, born, now, faults>>

UpdateSubscription(t) ==
    LET s == task[t].sub
    IN  /\ task[t].pc \in {"RenewSubscription", "UpgradeSubscription"}
        /\ row' = [row EXCEPT ![s] = task[t].row]
        /\ bought' = [bought EXCEPT ![s] = @ + task[t].extension]
        /\ Ends(t)
        /\ UNCHANGED <<granted, born, now, faults>>

-----------------------------------------------------------------------------
CancelSubscription(s) ==
    /\ s \in Inserted
    /\ row' = [row EXCEPT ![s].status = "Canceled"]
    /\ UNCHANGED <<granted, bought, born, task, now, faults>>

ProcessExpiredSubscriptions(t) ==
    /\ ExpiredSubscriptions # {}
    /\ Starts(t, [Idle EXCEPT !.pc = "ProcessExpiredSubscriptions",
                              !.subs = ExpiredSubscriptions])
    /\ UNCHANGED <<row, granted, bought, born, now, faults>>

\* Each listed row is marked without another look at it; an error is logged
\* and the next row is taken.
ExpireSubscription(t, s) ==
    /\ task[t].pc = "ProcessExpiredSubscriptions"
    /\ s \in task[t].subs
    /\ task' = [task EXCEPT ![t] =
                   IF task[t].subs = {s} THEN Idle
                   ELSE [task[t] EXCEPT !.subs = @ \ {s}]]
    /\ \/ /\ row' = [row EXCEPT ![s].status = "Expired"]
          /\ UNCHANGED faults
       \/ faults < MaxFaults /\ faults' = faults + 1 /\ UNCHANGED row
    /\ UNCHANGED <<granted, bought, born, now>>

-----------------------------------------------------------------------------
Tick ==
    /\ now < MaxTime
    /\ now' = now + 1
    /\ UNCHANGED <<row, granted, bought, born, task, faults>>

\* A failed call or a crash ends a request.
Fault(t) ==
    /\ task[t].pc # "idle"
    /\ faults < MaxFaults
    /\ faults' = faults + 1
    /\ Ends(t)
    /\ UNCHANGED <<row, granted, bought, born, now>>

Next ==
    \/ \E t \in Tasks :
          \/ \E u \in Users, amount \in Amounts : ConsumeUserQuota(t, u, amount)
          \/ UpdateSubscriptionQuota(t)
          \/ \E s \in Subs : \/ RenewSubscription(t, s)
                             \/ \E product \in Products :
                                   UpgradeSubscription(t, s, product)
                             \/ ExpireSubscription(t, s)
          \/ UpdateSubscription(t)
          \/ ProcessExpiredSubscriptions(t)
          \/ Fault(t)
    \/ \E s \in Subs : CreateSubscription(s) \/ CancelSubscription(s)
    \/ Tick

Spec == Init /\ [][Next]_vars

-----------------------------------------------------------------------------
(* Properties.                                                             *)

\* Rows and request locals have their types.
TypeOK ==
    /\ row \in [Subs -> Subscription]
    /\ granted \in [Subs -> Nat]
    /\ bought \in [Subs -> Nat]
    /\ born \in [Subs -> Nat]
    /\ task \in [Tasks -> Task]
    /\ now \in 0..MaxTime
    /\ faults \in 0..MaxFaults

\* While a subscription keeps its plan, the quota its row says was used stays
\* within its limit, however grants and renewals of it interleave: every write
\* was checked against a limit that still holds.
UsedWithinLimit == \A s \in Subs \ Upgradable : row[s].used <= row[s].limit

\* No user is charged for quota that was not granted: however reads and writes
\* of the row interleave, and whatever row a renewal or an upgrade saves, the
\* used column never exceeds what was granted on that subscription.
ChargedWasGranted == \A s \in Subs : row[s].used <= granted[s]

\* No time is given away: a row ends no later than its purchase and the
\* renewals that were saved on it account for.
TimeWasBought ==
    \A s \in Inserted : row[s].end <= born[s] + bought[s]

\* A row is marked as expired only after some end time it had was reached, so
\* never within the time that the purchase itself paid for.
ExpiredWasDue ==
    \A s \in Inserted :
        row[s].status = "Expired" => born[s] + Extension(Plan[s]) <= now
=============================================================================
