----------------------------- MODULE MCCheckout -----------------------------
(* Checkout for TLC: three calls, one of which asks for two units.          *)
EXTENDS Checkout, TLC

CONSTANTS r1, r2, r3

ThreeRequests == {r1, r2, r3}
TwoRequests == {r1, r2}

Quantities == [r \in Requests |-> IF r = r3 THEN 2 ELSE 1]

EveryStock == {Unlimited, 0, 1, 2, 3}
OneUnit == {1}

RequestSymmetry == Permutations(TwoRequests)
=============================================================================
