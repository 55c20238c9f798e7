--------------------------- MODULE MCSubscriptions ---------------------------
(* Subscriptions for TLC: up to two subscriptions of one user, bought as     *)
(* one product and upgraded to another.                                      *)
EXTENDS Subscriptions, TLC

CONSTANTS s1, s2, t1, t2, u1, basic, plus

FirstOnly == {s1}
TwoSubs == {s1, s2}
OneUser == {u1}
Owners == [s \in Subs |-> u1]
TwoTasks == {t1, t2}

TwoProducts == {basic, plus}
AllBasic == [s \in Subs |-> basic]

Lasting == [p \in Products |-> IF p = basic THEN 1 ELSE 2]

LessForPlus == [p \in Products |-> IF p = basic THEN 2 ELSE 1]
OneOrTwo == {1, 2}

\* Two rows race each other in the plain case: no plan was changed, no call has
\* failed and little was granted.  One row sees everything.
Focus ==
    Inserted = Subs => /\ faults = 0
                       /\ \A s \in Subs : /\ row[s].product = basic
                                         /\ granted[s] <= 1
                       /\ \A t \in Tasks : task[t].pc # "UpgradeSubscription"

TaskSymmetry == Permutations(TwoTasks)
=============================================================================
