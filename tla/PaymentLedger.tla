--------------------------- MODULE PaymentLedger ---------------------------
(***************************************************************************)
(* What the payment service promises about money, with no record rows, no  *)
(* statuses and no goroutines: an order is marked as paid only against a   *)
(* payment captured for it, a subscription is granted only for a paid      *)
(* order, and a provider is told that its callback was processed only when *)
(* both have been done.                                                    *)
(* Module Payments implements this ledger when callbacks are well formed.  *)
(***************************************************************************)
EXTENDS Integers

CONSTANTS Orders, Subscribing, Intents, None

VARIABLES
    owner,      \* the order a payment was opened for
    captured,   \* the payments that were captured
    paid,       \* the orders marked as paid
    granted,    \* the subscriptions granted for each order
    answered    \* the payments whose callback was acknowledged

vars == <<owner, captured, paid, granted, answered>>

Init ==
    /\ owner = [i \in Intents |-> None]
    /\ captured = {}
    /\ paid = {}
    /\ granted = [o \in Orders |-> 0]
    /\ answered = {}

Open(i, o) ==
    /\ owner[i] = None
    /\ owner' = [owner EXCEPT ![i] = o]
    /\ UNCHANGED <<captured, paid, granted, answered>>

Capture(i) ==
    /\ owner[i] # None
    /\ captured' = captured \cup {i}
    /\ UNCHANGED <<owner, paid, granted, answered>>

Pay(o) ==
    /\ \E i \in captured : owner[i] = o
    /\ paid' = paid \cup {o}
    /\ UNCHANGED <<owner, captured, granted, answered>>

Grant(o) ==
    /\ o \in paid \cap Subscribing
    /\ granted' = [granted EXCEPT ![o] = @ + 1]
    /\ UNCHANGED <<owner, captured, paid, answered>>

Settled(o) == o \in paid /\ (o \in Subscribing => granted[o] > 0)

Answer(i) ==
    /\ owner[i] # None
    /\ i \in captured => Settled(owner[i])
    /\ answered' = answered \cup {i}
    /\ UNCHANGED <<owner, captured, paid, granted>>

Next ==
    \/ \E i \in Intents, o \in Orders : Open(i, o)
    \/ \E i \in Intents : Capture(i) \/ Answer(i)
    \/ \E o \in Orders : Pay(o) \/ Grant(o)

Spec == Init /\ [][Next]_vars
=============================================================================
