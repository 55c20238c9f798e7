------------------------------ MODULE Checkout ------------------------------
(***************************************************************************)
(* How an order comes to exist: CreateOrder of                             *)
(* pkg/pay/payment_service_impl.go over one row of models/product.go, while *)
(* operators edit, restock and delete the product.  The product is read     *)
(* and checked, the order is inserted, and only then is the stock taken, by *)
(* an UPDATE whose WHERE clause may match no row without being an error.    *)
(***************************************************************************)
EXTENDS Integers, FiniteSets

CONSTANTS
    Requests,      \* the CreateOrder calls; each inserts at most one order
    Quantity,      \* the quantity each of them asks for
    Stocks,        \* what an operator may enter as the product's stock
    MaxRestocks,   \* bound on IncreaseStock calls
    MaxEdits,      \* bound on UpdateProduct calls
    MaxFaults      \* bound on failed database calls

Unlimited == -1

ASSUME CheckoutAssumption ==
    /\ IsFiniteSet(Requests)
    /\ Quantity \in [Requests -> Nat \ {0}]
    /\ Stocks \subseteq Nat \cup {Unlimited}
    /\ MaxRestocks \in Nat /\ MaxEdits \in Nat /\ MaxFaults \in Nat

VARIABLES
    entered,    \* the stock the product was created with
    stock,      \* the row's stock column
    sold,       \* the row's sold_count column
    listed,     \* the row's status column is not Deleted
    request,    \* where each CreateOrder call is
    placed,     \* the calls whose order was inserted
    edits,      \* the rows that operators read, edited and have yet to save
    restocked,  \* units added by IncreaseStock so far
    faults,     \* failed calls so far
    edited      \* UpdateProduct calls so far

vars == <<entered, stock, sold, listed, request, placed, edits,
          restocked, faults, edited>>

Row == [stock : Nat \cup {Unlimited}, sold : Nat]

Progress == {"idle", "insert", "decrease", "count", "done", "failed"}

\* The stock column has a default, which gorm writes in place of a zero.
Column(n) == IF n = 0 THEN Unlimited ELSE n

Init ==
    /\ entered \in Stocks
    /\ stock = Column(entered)
    /\ sold = 0
    /\ listed = TRUE
    /\ request = [r \in Requests |-> "idle"]
    /\ placed = {}
    /\ edits = {}
    /\ restocked = 0
    /\ faults = 0
    /\ edited = 0

-----------------------------------------------------------------------------
CheckStock(quantity) == stock = Unlimited \/ stock >= quantity

\* Mutant of Matches: the WHERE clause names the product only.
MatchesProduct(quantity) == TRUE

\* The WHERE clause of DecreaseStock.
Matches(quantity) == stock = Unlimited \/ stock >= quantity

Moves(r, from, to) ==
    /\ request[r] = from
    /\ request' = [request EXCEPT ![r] = to]

CreateOrder(r) ==
    /\ Moves(r, "idle", IF listed /\ CheckStock(Quantity[r])
                        THEN "insert" ELSE "failed")
    /\ UNCHANGED <<entered, stock, sold, listed, placed, edits,
                   restocked, faults, edited>>

InsertOrder(r) ==
    /\ Moves(r, "insert", "decrease")
    /\ placed' = placed \cup {r}
    /\ UNCHANGED <<entered, stock, sold, listed, edits,
                   restocked, faults, edited>>

\* No row matched is no error: the call goes on either way.
DecreaseStock(r) ==
    /\ Moves(r, "decrease", "count")
    /\ stock' = IF Matches(Quantity[r]) /\ stock # Unlimited
                THEN stock - Quantity[r] ELSE stock
    /\ UNCHANGED <<entered, sold, listed, placed, edits,
                   restocked, faults, edited>>

IncrementSoldCount(r) ==
    /\ Moves(r, "count", "done")
    /\ sold' = sold + 1
    /\ UNCHANGED <<entered, stock, listed, placed, edits,
                   restocked, faults, edited>>

\* Mutant of AfterFailure: the error of the INSERT is dropped.
IgnoresInsertError(at) ==
    CASE at = "insert" -> "decrease"
      [] at = "count"  -> "done"
      [] OTHER         -> "failed"

\* A failed INSERT or stock UPDATE is returned, and the order already inserted
\* stays; a failed count is only logged.
AfterFailure(at) == IF at = "count" THEN "done" ELSE "failed"

CallFails(r) ==
    /\ request[r] \in {"insert", "decrease", "count"}
    /\ faults < MaxFaults
    /\ faults' = faults + 1
    /\ request' = [request EXCEPT ![r] = AfterFailure(request[r])]
    /\ UNCHANGED <<entered, stock, sold, listed, placed, edits,
                   restocked, edited>>

-----------------------------------------------------------------------------
IncreaseStock ==
    /\ restocked < MaxRestocks
    /\ restocked' = restocked + 1
    /\ stock' = IF stock = Unlimited THEN Unlimited ELSE stock + 1
    /\ UNCHANGED <<entered, sold, listed, request, placed, edits,
                   faults, edited>>

DeleteProduct ==
    /\ listed' = FALSE
    /\ UNCHANGED <<entered, stock, sold, request, placed, edits,
                   restocked, faults, edited>>

\* An operator reads a product to change its text or price, and UpdateProduct
\* saves every column of what was read, status included.
ReadProduct ==
    /\ listed
    /\ edited < MaxEdits
    /\ edited' = edited + 1
    /\ edits' = edits \cup {[stock |-> stock, sold |-> sold]}
    /\ UNCHANGED <<entered, stock, sold, listed, request, placed,
                   restocked, faults>>

UpdateProduct(row) ==
    /\ edits' = edits \ {row}
    /\ stock' = row.stock
    /\ sold' = row.sold
    /\ listed' = TRUE
    /\ UNCHANGED <<entered, request, placed, restocked, faults, edited>>

-----------------------------------------------------------------------------
Next ==
    \/ \E r \in Requests : \/ CreateOrder(r)
                           \/ InsertOrder(r)
                           \/ DecreaseStock(r)
                           \/ IncrementSoldCount(r)
                           \/ CallFails(r)
    \/ IncreaseStock
    \/ DeleteProduct
    \/ ReadProduct
    \/ \E row \in edits : UpdateProduct(row)

Spec == Init /\ [][Next]_vars

-----------------------------------------------------------------------------
(* Properties.                                                             *)

\* The row, the calls and the edits have their types.
TypeOK ==
    /\ entered \in Stocks
    /\ stock \in Nat \cup {Unlimited}
    /\ sold \in Nat
    /\ listed \in BOOLEAN
    /\ request \in [Requests -> Progress]
    /\ placed \subseteq Requests
    /\ edits \subseteq Row
    /\ restocked \in 0..MaxRestocks
    /\ faults \in 0..MaxFaults
    /\ edited \in 0..MaxEdits

\* The stock of a limited product never goes below zero, one step below which
\* it would read as unlimited, whatever the calls and the edits that race for
\* the row (DecreaseStock's WHERE clause).
LimitedStaysLimited == entered > 0 => stock >= 0

\* The units that the calls in S ask for.
UnitsOf(S) == UNION {{r} \X (1 .. Quantity[r]) : r \in S}

Units(S) == Cardinality(UnitsOf(S))

\* No unit leaves the stock without an order for it, whichever call fails.
\* Saving a stale row may also undo a restock, so nothing is said of a product
\* that was both edited and restocked.
StockWasOrdered ==
    entered > 0 /\ (edited = 0 \/ restocked = 0)
        => entered + restocked - stock <= Units(placed)

\* sold_count counts no order that does not exist.
SoldWasOrdered == sold <= Cardinality(placed)

-----------------------------------------------------------------------------
\* What CreateOrder's check of the stock is for: no more units are ordered than
\* the product was entered and restocked with.
NoOversell ==
    entered # Unlimited => Units(placed) <= entered + restocked
=============================================================================
