---------------------------- MODULE MCPayments ----------------------------
(* Small instances of Payments for TLC. *)
EXTENDS Payments, TLC

CONSTANTS o1, o2, i1, i2, t1, t2

MCOrders  == {o1}
TwoOrders == {o1, o2}
MCIntents == {i1, i2}
MCTasks   == {t1, t2}
OneIntent == {i1}

\* The goroutines, and the payments a provider may open, are interchangeable.
TaskSymmetry == Permutations(MCTasks)
Symmetry == TaskSymmetry \cup Permutations(MCIntents)
=============================================================================
